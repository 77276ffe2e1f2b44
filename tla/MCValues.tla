------------------------------- MODULE MCValues -------------------------------
(***************************************************************************)
(* Functions from values to values and the notes on destructors, one       *)
(* program at a time: `prog' with its `input', and its `result' once it    *)
(* `ran'.  The input of the shell's parser is typed token by token.  The   *)
(* machine of Drops runs when prog is "drops" and has no program else.     *)
(***************************************************************************)
EXTENDS Drops

CONSTANTS MAXARGS, MEMSIZE,     \* of the shell's parser
          MaxTokens             \* the length of its longest line

VARIABLES prog, input, ran, result

G == INSTANCE ShellGrammar
L == INSTANCE Layout
V == INSTANCE Conversions

UpTo(S, n) == UNION {[1..k -> S] : k \in 0..n}
none == "none"

\* x86-64 (and the bindings' macOS), 32-bit ARM, 32-bit x86.
Targets == {L!Bindings, [ptr |-> 4, a64 |-> 8], [ptr |-> 4, a64 |-> 4]}

NoCode == code = none /\ todo = <<>> /\ scopes = <<>> /\ owns = <<>> /\ live = {} /\ heap = {}
          /\ fault = none

Inputs ==
    \/ prog = "parsecmd" /\ input = <<>>
    \/ prog = "documented" /\ input \in Targets
    \/ prog = "three_vowels" /\ input \in UpTo({"v", "V", "c"}, 5) \union {V!Ferris, V!Curious}
    \/ prog = "use_push" /\ input \in (0..3) \X (0..3)
    \/ prog = "mylib_log" /\ \E s \in UpTo(V!BYTES, 3) : input = s \o <<V!NUL>>
    \/ prog = "sort" /\ input \in UpTo({-1, 49, 50, 99}, 4)
    \/ prog = "location" /\ input \in 0..40
    \/ prog = "xor" /\ input \in UpTo({1, 2, 3, 6}, 4)
    \/ prog = "tests" /\ input = none

SuiteInit == \/ prog = "drops" /\ Init /\ input = none /\ ran = FALSE /\ result = none
             \/ NoCode /\ Inputs /\ ran = FALSE /\ result = none

\* Every line of up to MaxTokens tokens.
Type == /\ prog = "parsecmd" /\ Len(input) < MaxTokens
        /\ \E tok \in G!Symbols \union {"word"} : input' = Append(input, tok)
        /\ UNCHANGED <<prog, ran, result, vars>>

Runs(p, r) == /\ prog = p /\ ~ran /\ ran' = TRUE /\ result' = r
              /\ UNCHANGED <<prog, input, vars>>

PrintSizes == Runs("documented", none)
ThreeVowels == Runs("three_vowels", V!three_vowels(input))
UsePush == Runs("use_push", V!Reallocates(input[1], input[2]))
\* The uninitialised byte is any byte.
MylibLog == \E uninit \in V!BYTES :
    Runs("mylib_log", [uninit |-> uninit, log |-> V!mylib_log(input), ugly |-> V!mylib_log_ugly(input, uninit)])
Traverse == Runs("sort", <<V!traverse_before_sort(input), V!traverse_after_sort(input)>>)
Location == Runs("location", V!location(input))
Xor == Runs("xor", V!XorAll(input))
Tests == Runs("tests", none)

Finished == /\ ran \/ (prog = "drops" /\ Done) \/ (prog = "parsecmd" /\ Len(input) = MaxTokens)
            /\ UNCHANGED <<prog, input, ran, result, vars>>

SuiteNext ==
    \/ prog = "drops" /\ Step /\ UNCHANGED <<prog, input, ran, result>>
    \/ Type \/ PrintSizes \/ ThreeVowels \/ UsePush \/ MylibLog \/ Traverse \/ Location
    \/ Xor \/ Tests \/ Finished

SuiteSpec == SuiteInit /\ [][SuiteNext]_<<prog, input, ran, result, vars>>

-----------------------------------------------------------------------------
\* parsecmd of sh-xv6.c accepts a line exactly if the grammar derives it
\* within the limits of argv[] and of its memory, and builds its only tree.
ParsesGrammar == prog = "parsecmd" => G!ParsedAsDerived(input)

\* nulterminate: every word of an accepted line is cut off from what follows
\* it: no program gets the rest of the line as part of an argument or of a
\* file name.
WordsTerminated == prog = "parsecmd" => G!AllTerminated(input)

\* destructors.rs (the Nomicon), drop_check, lifetime, ffi.rs: every
\* allocation is given back once and read only before, but in SuperBox.
EverythingReleased == prog = "drops" => Released

\* three_vowels finds three consecutive lower-case vowels; use_push never
\* reallocates; mylib_log_ugly does what mylib_log does if the uninitialised
\* byte happens to be NUL, and panics if not; the order of sorting and
\* clearing does not matter; location counts digits, and the exclusive or is
\* the number that is left over; and the asserts, the doc comments on structs
\* without pointers and the printed sizes of data_layout hold.
ResultsAsDefined == ran =>
    CASE prog = "documented" -> L!Documented(input)
      [] prog = "three_vowels" -> result = V!HasThree(input)
      [] prog = "use_push" -> result = {}
      [] prog = "mylib_log" -> result.ugly = IF result.uninit = V!NUL THEN result.log ELSE <<"panicked">>
      [] prog = "sort" -> result[1] = result[2]
      [] prog = "location" -> V!IsLength(input, result)
      [] prog = "xor" -> \A x \in V!Odd(input) : V!Odd(input) = {x} => result = x
      [] prog = "tests" -> V!EndianDecides /\ V!HeapTests /\ V!Traversals(8)
                           /\ V!three_vowels(V!Curious) /\ ~V!three_vowels(V!Ferris)
=============================================================================
