----------------------------- MODULE RawPointers ------------------------------
(***************************************************************************)
(* Code that is only right for some pointers: the two references of        *)
(* reference_aliasing, which must not be the same, and the stacks that the *)
(* green-thread programs lay out by hand (assembly.rs, bonus.rs and        *)
(* Runtime::spawn in main.rs), which must be aligned and inside their      *)
(* allocation.                                                             *)
(***************************************************************************)
EXTENDS Integers

CONSTANT U32  \* 2^32; smaller for TLC, but larger than the code's constants

ASSUME U32Assumption == U32 \in Nat /\ U32 > 20

-----------------------------------------------------------------------------
(* reference_aliasing: m is the memory, input and output are addresses. *)

\* x * 2 in a debug build, which panics when it does not fit, and in a
\* release build, which wraps.
PANIC == -1
Twice(build, x) == IF 2 * x < U32 THEN 2 * x
                   ELSE IF build = "release" THEN 2 * x - U32 ELSE PANIC

compute_v1(build, m, input, output) ==
    LET m1 == IF m[input] > 10 THEN [m EXCEPT ![output] = 1] ELSE m
    IN  IF m1[input] > 5 THEN [m1 EXCEPT ![output] = Twice(build, m1[output])] ELSE m1

\* temp is written back at the end.
Bug_compute_v2(build, m, input, output) ==
    LET temp1 == IF m[input] > 10 THEN 1 ELSE m[output]
        temp2 == IF m[input] > 5 THEN Twice(build, m[output]) ELSE temp1
    IN  [m EXCEPT ![output] = temp2]
compute_v2(build, m, input, output) ==
    LET temp1 == IF m[input] > 10 THEN 1 ELSE m[output]
        temp2 == IF m[input] > 5 THEN Twice(build, temp1) ELSE temp1
    IN  [m EXCEPT ![output] = temp2]

\* The function that "we would like to be able to optimize it to".
compute(build, m, input, output) ==
    LET cached_input == m[input]
    IN  IF cached_input > 10 THEN [m EXCEPT ![output] = 2]
        ELSE IF cached_input > 5 THEN [m EXCEPT ![output] = Twice(build, m[output])] ELSE m

\* main's two calls, both of compute_v1, in_v1 and out_v1 at 0 and 1.
Outputs(build) == <<compute_v1(build, [a \in {0, 1} |-> 11 - 10 * a], 0, 1)[1],
                    compute_v1(build, [a \in {0, 1} |-> 12 - 10 * a], 0, 1)[1]>>

\* compute_v2 is the optimized function, and compute_v1 is it unless the
\* references are the same and the write of 1 changes the input: then the
\* comment's "*input == *output == 1" comes out instead of 2.  v1 is the memory
\* that compute_v1 leaves.
AliasDecides(build, m, input, output, v1) ==
    /\ compute_v2(build, m, input, output) = compute(build, m, input, output)
    /\ v1 = compute(build, m, input, output) <=> input # output \/ m[input] <= 10
    /\ input = output /\ m[input] > 10 => v1[output] = 1

-----------------------------------------------------------------------------
(* The stacks: `base' is the address of the vector, whose elements are u8. *)

Aligned(a) == a - (a % 16)  \* a as usize & !15

assembly_main(base) ==
    LET sb_aligned == Aligned(base + 48) IN [size |-> 48, words |-> {sb_aligned - 16}, rsp |-> sb_aligned - 16]

\* bonus.rs counts from the vector's own address.
bonus_main(base) ==
    [size |-> 1024, words |-> {base + 1024 - 16}, rsp |-> base + 1024 - 16]

\* guard above f, of a stack of any size.
Bug_spawn(base, size) ==
    LET s_ptr == base + size IN [size |-> size, words |-> {s_ptr - 16, s_ptr - 32}, rsp |-> s_ptr - 32]
spawn(base, size) ==
    LET s_ptr == Aligned(base + size) IN [size |-> size, words |-> {s_ptr - 16, s_ptr - 32}, rsp |-> s_ptr - 32]

\* The first `ret' pops a word that was written, everything written is inside
\* the vector, and the words do not overlap.
Usable(base, frame) ==
    /\ frame.rsp \in frame.words
    /\ \A w \in frame.words : base <= w /\ w + 7 < base + frame.size
    /\ \A v, w \in frame.words : v # w => v + 7 < w \/ w + 7 < v

\* Stack alignment on x86-64 is 16 bytes: rsp is a multiple of 16 whatever
\* address the allocator returned, but in bonus.rs, which needs a vector that
\* is itself aligned.  frame is what spawn laid out.
StacksUsable(base, size, frame) ==
    /\ Usable(base, assembly_main(base)) /\ assembly_main(base).rsp % 16 = 0
    /\ Usable(base, bonus_main(base)) /\ (bonus_main(base).rsp % 16 = 0 <=> base % 16 = 0)
    /\ frame.size = size /\ Usable(base, frame) /\ frame.rsp % 16 = 0
=============================================================================
