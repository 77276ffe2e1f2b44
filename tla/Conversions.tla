----------------------------- MODULE Conversions ------------------------------
(***************************************************************************)
(* Functions from values to values: three_vowels, use_push, the two        *)
(* mylib_log of ffi.rs, the byte views of cast_notes and                   *)
(* little-big-endian.rs, the two traversals of instruction_cache_hit and   *)
(* of data_cache_hit, and the tests of binary-heap; each with the          *)
(* definition it is checked against.                                       *)
(***************************************************************************)
EXTENDS Integers, Sequences, FiniteSetsExt, SequencesExt, Bitwise

-----------------------------------------------------------------------------
(* use_borrowed_types_for_arguments.rs: a letter is a lower-case vowel "v", *)
(* an upper-case one "V", which `match' does not list, or another.          *)

\* vowels after i letters; the loop returns as soon as it is 3.
Bug_vowels(word) == LET n[i \in 0..Len(word)] ==
                          IF i = 0 THEN 0 ELSE IF word[i] = "v" THEN n[i - 1] + 1 ELSE n[i - 1]
                    IN  n
vowels(word) == LET n[i \in 0..Len(word)] ==
                      IF i = 0 THEN 0 ELSE IF word[i] = "v" THEN n[i - 1] + 1 ELSE 0
                IN  n
three_vowels(word) == \E i \in 0..Len(word) : vowels(word)[i] >= 3

\* Three consecutive vowels.
HasThree(word) == \E i \in 1..(Len(word) - 2) : \A j \in i..(i + 2) : word[j] = "v"

Ferris == <<"c", "v", "c", "c", "v", "c">>
Curious == <<"c", "v", "c", "v", "v", "v", "c">>

-----------------------------------------------------------------------------
(* concatenating_strings_with_format.rs: pieces by their lengths. *)

GRANT == 29  \* "grant_type=password&username="
AND == 10    \* "&password="
with_capacity(username, password) == GRANT + username + AND + password
Pushed(username, password) == <<GRANT, username, AND, password>>  \* use_push

\* The pushes that find too little room and reallocate.
Reallocates(username, password) ==
    LET p == Pushed(username, password)
        before(i) == FoldLeft(+, 0, SubSeq(p, 1, i))
    IN  {i \in DOMAIN p : before(i) > with_capacity(username, password)}

-----------------------------------------------------------------------------
(* ffi.rs: a byte is NUL, an ASCII letter, or the first or the second of a *)
(* two-byte character.                                                     *)

NUL == "NUL"
BYTES == {NUL, "ascii", "first", "second"}
Utf8(s) == /\ \A i \in DOMAIN s : s[i] = "first" => i < Len(s) /\ s[i + 1] = "second"
           /\ \A i \in DOMAIN s : s[i] = "second" => i > 1 /\ s[i - 1] = "first"

\* The bytes before the first NUL: strlen, CStr::from_ptr.
CStr(msg) == SubSeq(msg, 1, Min({i \in DOMAIN msg : msg[i] = NUL}) - 1)

Converted(s) == IF Utf8(s) THEN <<"printed", s>> ELSE <<"conversion failed">>
mylib_log(msg) == Converted(CStr(msg))

\* The copy is one byte longer than what was copied: the last byte is what
\* the allocation held.  from_vec_with_nul wants the only NUL at the end.
mylib_log_ugly(msg, uninit) ==
    LET data == CStr(msg) \o <<uninit>>
    IN  IF \A i \in DOMAIN data : data[i] = NUL <=> i = Len(data)
        THEN Converted(SubSeq(data, 1, Len(data) - 1)) ELSE <<"panicked">>

-----------------------------------------------------------------------------
(* cast_notes and little-big-endian.rs: memory as bytes. *)

LittleEndian(x, n) == LET rest[i \in 0..n] == IF i = 0 THEN x ELSE rest[i - 1] \div 256
                      IN  [i \in 1..n |-> rest[i - 1] % 256]
Bytes(endian, x, n) == IF endian = "little" THEN LittleEndian(x, n) ELSE Reverse(LittleEndian(x, n))

\* ptr3 and its eight reads of [5u16, 6, 7, 8].
CastBytes(endian) == FlattenSeq([i \in 1..4 |-> Bytes(endian, 4 + i, 2)])

\* The slice: a pointer (here 0) and the length, of eight bytes each; the
\* read at byte 8 sees two bytes of the length.
CastLength(endian) ==
    LET slice == Bytes(endian, 0, 8) \o Bytes(endian, 4, 8) IN SubSeq(slice, 9, 10)

\* Which branch prints, and the four bytes.
Endianness(endian) ==
    LET ptr == Bytes(endian, 305419896, 4)  \* 0x12345678
    IN  IF ptr[1] = 120 THEN <<"Little endian", ptr>>
        ELSE IF ptr[1] = 18 THEN <<"Big endian", ptr>> ELSE <<"nothing", ptr>>

\* Either branch prints on one kind of machine only, and prints 12, 34, 56, 78
\* in the order of that machine's memory.
EndianDecides ==
    /\ Endianness("little") = <<"Little endian", <<120, 86, 52, 18>> >>
    /\ Endianness("big") = <<"Big endian", <<18, 52, 86, 120>> >>
    /\ CastBytes("little") = <<5, 0, 6, 0, 7, 0, 8, 0>>
    /\ CastLength("little") = <<4, 0>> /\ CastLength("big") = <<0, 0>>

-----------------------------------------------------------------------------
(* instruction_cache_hit.rs and data_cache_hit.rs *)

sort(nums) == SortSeq(nums, LAMBDA x, y : x < y)
Zeroed(nums) == [i \in DOMAIN nums |-> IF nums[i] < 50 THEN 0 ELSE nums[i]]
Bug_traverse_after_sort(nums) == Zeroed(nums)
traverse_before_sort(nums) == sort(Zeroed(nums))
traverse_after_sort(nums) == Zeroed(sort(nums))

\* The cells in the order in which they are written, n = nums.len().
traverse1(n) == [k \in 1..(n * n) |-> <<(k - 1) \div n, (k - 1) % n>>]
traverse2(n) == [k \in 1..(n * n) |-> <<(k - 1) % n, (k - 1) \div n>>]

\* How often the next cell is in another row, that is another cache line.
RowChanges(order) == Cardinality({k \in 2..Len(order) : order[k][1] # order[k - 1][1]})

\* Both clear every cell once; by rows changes the line as seldom as it can be.
Traversals(n) ==
    /\ IsInjective(traverse1(n)) /\ ToSet(traverse1(n)) = (0..(n - 1)) \X (0..(n - 1))
    /\ IsInjective(traverse2(n)) /\ ToSet(traverse2(n)) = ToSet(traverse1(n))
    /\ RowChanges(traverse1(n)) = n - 1
    /\ n > 1 => RowChanges(traverse2(n)) = n * n - 1

-----------------------------------------------------------------------------
(* binary-heap's tests *)

\* One turn of the loop per halving.
location(num) == LET n[x \in 0..num] == IF x = 0 THEN 0 ELSE 1 + n[x \div 2] IN n[num]

XorAll(nums) == FoldLeft(LAMBDA a, b : a ^^ b, 0, nums)

\* The numbers that occur an odd number of times, at most one of them here.
Odd(nums) == {x \in ToSet(nums) : Cardinality({i \in DOMAIN nums : nums[i] = x}) % 2 = 1}

\* test_1, and the asserts of test_2.
HeapTests == /\ XorAll(<<1, 1, 2, 2, 3, 4, 3>>) = 4
             /\ location(2) = 2 /\ location(4) = 3 /\ location(8) = 4
             /\ location(XorAll(<<1, 1, 2, 2, 3, 4, 3, 5>>)) = 1

\* location is the number of binary digits.
IsLength(x, n) == x < 2 ^ n /\ (n > 0 => x >= 2 ^ (n - 1))
=============================================================================
