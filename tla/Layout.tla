-------------------------------- MODULE Layout --------------------------------
(***************************************************************************)
(* The types of data_layout and the memory they take: repr_rust.rs,        *)
(* binding.rs (the C structs of nodes.h), main.rs and                      *)
(* dynamically_zero_sized_type.rs.                                         *)
(*                                                                         *)
(* A type is its size, its alignment and the number of bit patterns that   *)
(* none of its values has (its niche), where a compiler may hide None.     *)
(* What the compiler does with a declaration (the operators of the first   *)
(* part) is external.  A target g has the width of a pointer, g.ptr, and   *)
(* the alignment of a 64-bit number in a struct, g.a64.                    *)
(***************************************************************************)
EXTENDS Integers, Sequences, FiniteSetsExt

Type(size, align, niche) == [size |-> size, align |-> align, niche |-> niche]
u8 == Type(1, 1, 0)
u16 == Type(2, 2, 0)
u32 == Type(4, 4, 0)  \* i32, f32 and c_int too
u64(g) == Type(8, g.a64, 0)  \* f64 too
bool == Type(1, 1, 254)
long(g) == Type(g.ptr, g.ptr, 0)  \* usize and c_long
ref(g) == Type(g.ptr, g.ptr, 1)   \* &T, &mut T, Box<T> and fn, which are not null
fat(g) == Type(2 * g.ptr, g.ptr, 1)  \* the same to a slice, a str or a dyn Trait
vec(g) == Type(3 * g.ptr, g.ptr, 1)  \* buffer pointer, capacity and length
Array(t, n) == Type(n * t.size, t.align, n * t.niche)

RoundUp(n, a) == ((n + a - 1) \div a) * a
Aligns(fs) == {1} \union {fs[i].align : i \in DOMAIN fs}

-----------------------------------------------------------------------------
(* repr(C): the fields in their order, each at the next multiple of its alignment. *)

\* Where the first i fields end.
Ends(fs) == LET end[i \in 0..Len(fs)] ==
                  IF i = 0 THEN 0 ELSE RoundUp(end[i - 1], fs[i].align) + fs[i].size
            IN  end

Offsets(fs) == [i \in DOMAIN fs |-> Ends(fs)[i] - fs[i].size]

CStruct(fs) == Type(RoundUp(Ends(fs)[Len(fs)], Max(Aligns(fs))), Max(Aligns(fs)),
                    Max({0} \union {fs[i].niche : i \in DOMAIN fs}))

CUnion(fs) == Type(RoundUp(Max({fs[i].size : i \in DOMAIN fs}), Max(Aligns(fs))), Max(Aligns(fs)), 0)

-----------------------------------------------------------------------------
(* The default representation: the compiler takes one of the orders of the *)
(* fields that wastes least.                                               *)

Orders(fs) == {p \in [DOMAIN fs -> DOMAIN fs] : \A i, j \in DOMAIN fs : p[i] = p[j] => i = j}
Ordered(fs, p) == [i \in DOMAIN fs |-> fs[p[i]]]
LeastSize(fs) == Min({CStruct(Ordered(fs, p)).size : p \in Orders(fs)})

\* The offsets that the fields may get, in the order of the declaration.
RustOffsets(fs) ==
    {[i \in DOMAIN fs |-> LET k == CHOOSE k \in DOMAIN fs : p[k] = i IN Offsets(Ordered(fs, p))[k]] :
        p \in {q \in Orders(fs) : CStruct(Ordered(fs, q)).size = LeastSize(fs)}}

RustStruct(fs) == Type(LeastSize(fs), Max(Aligns(fs)), CStruct(fs).niche)

\* An enum with fields has a tag beside those of each variant.
RustEnum(variants) ==
    LET v(i) == RustStruct(<<u8>> \o variants[i])
        align == Max({v(i).align : i \in DOMAIN variants})
    IN  Type(RoundUp(Max({v(i).size : i \in DOMAIN variants}), align), align, 256 - Len(variants))

\* Option<T> and every enum like it: None is a bit pattern that T leaves over.
Option(t) == IF t.niche > 0 THEN [t EXCEPT !.niche = @ - 1] ELSE RustEnum(<< <<>>, <<t>> >>)

-----------------------------------------------------------------------------
(* repr_rust.rs *)

A == <<u8, u32, u16>>
Foo(T, U) == <<u16, T, U>>
Bar(g) == RustEnum(<< <<u32>>, <<u64(g)>>, <<u8>> >>)
Union == CUnion(<<u16, Array(u8, 4)>>)
SizeRoundedUp == CUnion(<<u32, Array(u16, 3)>>)

MyAFields == CStruct(<<u32>>)
MyBFields(g) == CStruct(<<u32, u64(g)>>)
MyCFields == CStruct(<<u32, u8>>)
MyDFields == CStruct(<<>>)
MyEnumFields(g) == CUnion(<<MyAFields, MyBFields(g), MyCFields, MyDFields>>)
MyEnumRepr(g) == CStruct(<<u32, MyEnumFields(g)>>)  \* the discriminant is a c_int

\* repr(C) on the enum itself: every variant is a struct that begins with the
\* tag and the padding up to the fields of the most aligned variant.
MyEnum(g) ==
    LET variants == << <<u32>>, <<u32, u64(g)>>, <<u32, u8>>, <<>> >>
        align == Max(UNION {Aligns(variants[i]) : i \in 1..4})
        start == RoundUp(u32.size, align)
        whole == Max({start + CStruct(variants[i]).size : i \in 1..4})
    IN  Type(RoundUp(whole, Max({align, u32.align})), Max({align, u32.align}), 0)

\* test_c_representation
TestCRepresentation ==
    /\ Union.size = 4 /\ Union.align = 2
    /\ SizeRoundedUp.size = 8 /\ SizeRoundedUp.align = 4

\* test_default_representation: the addresses that its comments report, as
\* offsets, the sizes without reordering, and what it prints of Option.
TestDefaultRepresentation(g) ==
    /\ <<6, 0, 4>> \in RustOffsets(A) /\ RustStruct(A).size = 8 /\ CStruct(A).size = 12
    /\ <<4, 6, 0>> \in RustOffsets(Foo(u16, u32)) /\ LeastSize(Foo(u16, u32)) = 8
    /\ CStruct(Foo(u32, u16)).size = 12 /\ Offsets(Foo(u32, u16)) = <<0, 4, 8>>
    /\ Bar(g).size = u64(g).size + g.a64  \* BarRepr
    /\ Option(u64(g)).size # u64(g).size
    /\ Option(ref(g)).size = ref(g).size

-----------------------------------------------------------------------------
(* binding.rs *)

node1 == CStruct(<<>>)
node2 == CStruct(<<u32, u8, u16>>)
node3 == CStruct(<<u8, u32, u16>>)
node4 == CStruct(<<u32, u16>>)
node5 == CStruct(<<bool, node1, u16>>)
node6 == CStruct(<<bool, node2, u32>>)
node7(g) == CStruct(<<bool, node2, u64(g), u32>>)

\* The target of the bindings: __WORDSIZE is 64.
Bindings == [ptr |-> 8, a64 |-> 8]

\* The sizes in the doc comments of the structs without a pointer.
DocumentedNodes ==
    /\ node1.size = 0 /\ node2.size = 8 /\ node3.size = 12 /\ node4.size = 8
    /\ node5.size = 4 /\ node6.size = 16 /\ node7(Bindings).size = 32

-----------------------------------------------------------------------------
(* main.rs and dynamically_zero_sized_type.rs *)

\* The assertions on pointers, and the sizes that main prints.
MainAsserts(g) ==
    /\ g.ptr = ref(g).size  \* &i32, &mut i32, Box<i32>, fn
    /\ 2 * g.ptr = fat(g).size  \* &str, &[i32], &dyn ToString, Box<dyn ToString>
    /\ Array(u32, 4).size = 16 /\ Array(fat(g), 4).size = 8 * g.ptr

\* show_size!: <<size_of T, size_of Option<T>>>.
show_size(t) == <<t.size, Option(t).size>>

\* The five types that hide None in a pointer, and Result<(), Box<i32>>, which
\* has used up the one bit pattern Box leaves over.
MainOptions(g) ==
    /\ show_size(u32) = <<4, 8>>
    /\ \A t \in {ref(g), fat(g), vec(g)} : show_size(t)[1] = show_size(t)[2]
    /\ show_size(Option(ref(g))) = <<g.ptr, 2 * g.ptr>>

Nothing == CStruct(<<>>)
LotsOfNothing == RustStruct(<<Nothing, CStruct(<<>>), Array(u8, 0)>>)
MySuperSliceable(T) == <<u32, T>>

\* test_zst, and what LotsOfNothing's comments say; in test_dst the unsized
\* view of the value finds data where the sized value has it.
DynamicAndZero(g) ==
    /\ LotsOfNothing = Type(0, 1, 0) /\ Array(u8, 0).size = 0 /\ ref(g).size = g.ptr
    /\ \E o \in RustOffsets(MySuperSliceable(Array(u8, 8))) :
           o \in RustOffsets(MySuperSliceable(Array(u8, 0)))

\* The layouts the repository's asserts, comments and printed sizes promise.
Documented(g) ==
    /\ TestCRepresentation /\ TestDefaultRepresentation(g)
    /\ MyEnum(g) = MyEnumRepr(g)
    /\ DocumentedNodes /\ MainAsserts(g) /\ MainOptions(g) /\ DynamicAndZero(g)
=============================================================================
