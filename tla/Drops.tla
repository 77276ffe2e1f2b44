-------------------------------- MODULE Drops ---------------------------------
(***************************************************************************)
(* Destructors: the programs of the Nomicon's destructors.rs, of           *)
(* drop_check and lifetime, and of the FFI and dispatch idioms, on a       *)
(* machine that runs drop scopes.                                          *)
(*                                                                         *)
(* The machine is what the compiler makes of scopes (external).  `code' is *)
(* the program and `todo' what is left of it, a sequence of instructions;  *)
(* `scopes' the stack of drop scopes, each with its variables and          *)
(* temporaries in the order of their creation; `owns' the fields that each *)
(* value still owns; `live' the values that exist and `heap' those whose   *)
(* allocation was not given back; `fault' the first use of something that  *)
(* is gone, where the program ends.                                        *)
(***************************************************************************)
EXTENDS Integers, Sequences, SequencesExt

VARIABLES code, todo, scopes, owns, live, heap, fault
vars == <<code, todo, scopes, owns, live, heap, fault>>

\* The instructions: <<operation, value>>.
enter == <<"enter", "">>    \* a drop scope begins
leave == <<"leave", "">>    \* and ends: what is in it is dropped
let(v) == <<"let", v>>      \* v is made, in a variable or temporary of the scope
move(v) == <<"move", v>>    \* v moves out of its owner into a variable
forget(v) == <<"forget", v>>  \* mem::forget
drop(v) == <<"drop", v>>    \* v's destructor, then those of its fields
use(v) == <<"use", v>>      \* a read of the memory that v allocated
free(v) == <<"free", v>>    \* deallocate
grow(v) == <<"grow", v>>    \* a push that moves the elements of v
panic == <<"panic", "">>    \* leaves every scope

-----------------------------------------------------------------------------
(* The types *)

\* Fields in the order of their declaration.
Fields(v) == CASE v = "World" -> <<"days">>  \* with inspector: None
               [] v = "World with Some" -> <<"inspector", "days">>
               [] v \in {"SuperBox<u8>", "OverideSuperBox<u8>"} -> <<"MyBox<u8>">>
               [] v \in {"SuperBox<String>", "OverideSuperBox<String>"} -> <<"MyBox<String>">>
               [] v = "data" -> <<"buffer">>
               [] v = "Box<File>" -> <<"File">>
               [] OTHER -> <<>>

\* What a MyBox points to is not a field.
Content(v) == CASE v = "MyBox<u8>" -> {"u8"} [] v = "MyBox<String>" -> {"String"} [] OTHER -> {}

\* Everything that is made with v, and what of it is memory on the heap.
Made(v) == LET parts == {v} \union ToSet(Fields(v)) IN parts \union UNION {Content(p) : p \in parts}
Allocating == {"days", "MyBox<u8>", "MyBox<String>", "String", "buffer", "CString", "Box<File>"}

\* drop_in_place, which runs the content's destructor, and deallocate.
MyBox(v) == SetToSeq({drop(c) : c \in Content(v)}) \o <<free(v)>>

\* Deallocates its box's content; the box is dropped after that.
SuperBox(box) == <<free(box)>>

\* Takes the box out of its field, deallocates and forgets it.
Bug_OverideSuperBox(box) == <<enter, move(box), free(box), leave>>
OverideSuperBox(box) == <<enter, move(box), free(box), forget(box), leave>>

\* The destructor of X is empty and counts as a use of what X refers to; a
\* String in a MyBox is read where the box has it.  The Inspector of
\* drop_check4 reads only self.1, which is static.
Destructor(v) == CASE v \in {"MyBox<u8>", "MyBox<String>"} -> MyBox(v)
                   [] v \in {"SuperBox<u8>", "SuperBox<String>"} -> SuperBox(Fields(v)[1])
                   [] v \in {"OverideSuperBox<u8>", "OverideSuperBox<String>"} -> OverideSuperBox(Fields(v)[1])
                   [] v = "X" -> <<use("buffer")>>
                   [] v = "String" -> <<use("MyBox<String>"), free("String")>>
                   [] v \in Allocating \union {"grown buffer"} -> <<free(v)>>
                   [] OTHER -> <<>>

-----------------------------------------------------------------------------
(* The programs *)

drop_check1 == <<enter, let("World"), leave>>  \* and drop_check2; 3 only declares types
drop_check4 == <<enter, let("World with Some"), leave>>

\* A vector of three is full: push(4) moves it.
lifetime == <<enter, let("data"), enter, let("X"), use("buffer"), leave, grow("data"), leave>>

\* The C string is a variable of the function.
report_error_to_ffi == <<enter, let("CString"), use("CString"), leave>>

\* Of main's two variables only stdin_read is initialised, and dropped.
dispatch_main == <<enter, let("Stdin"), leave>>
boxed_stdin == <<enter, let("Stdin"), leave>>
boxed_file == <<enter, let("Box<File>"), leave>>

Programs ==
    [drop_check1 |-> drop_check1, drop_check4 |-> drop_check4,
     lifetime |-> lifetime,
     report_error_to_ffi |-> report_error_to_ffi,
     nul_error |-> <<enter, leave>>,  \* CString::new fails, and ? returns
     dispatch_main |-> dispatch_main, boxed_stdin |-> boxed_stdin, boxed_file |-> boxed_file,
     unwrap |-> <<enter, panic>>,  \* boxed_version of a file that is not there
     MyBox_u8 |-> <<enter, let("MyBox<u8>"), leave>>,
     MyBox_String |-> <<enter, let("MyBox<String>"), leave>>,
     SuperBox_u8 |-> <<enter, let("SuperBox<u8>"), leave>>,
     SuperBox_String |-> <<enter, let("SuperBox<String>"), leave>>,
     OverideSuperBox_u8 |-> <<enter, let("OverideSuperBox<u8>"), leave>>,
     OverideSuperBox_String |-> <<enter, let("OverideSuperBox<String>"), leave>>]

-----------------------------------------------------------------------------
(* The machine *)

Init == /\ code \in DOMAIN Programs /\ todo = Programs[code]
        /\ scopes = <<>> /\ owns = <<>> /\ live = {} /\ heap = {}
        /\ fault = "none"

Op(name) == todo # <<>> /\ Head(todo)[1] = name
Value == Head(todo)[2]
Goes == todo' = Tail(todo)

Into(v) == scopes' = [scopes EXCEPT ![Len(scopes)] = Append(@, v)]

Enter == Op("enter") /\ Goes /\ scopes' = Append(scopes, <<>>) /\ UNCHANGED <<owns, live, heap, fault>>

Let == /\ Op("let") /\ Goes /\ Into(Value)
       /\ owns' = [v \in live \union Made(Value) |->
                      IF v \in Made(Value) THEN Fields(v) ELSE owns[v]]
       /\ live' = live \union Made(Value)
       /\ heap' = heap \union (Made(Value) \intersect Allocating)
       /\ UNCHANGED fault

Without(s, v) == SelectSeq(s, LAMBDA w : w # v)

Move == /\ Op("move") /\ Goes /\ Into(Value)
        /\ owns' = [v \in DOMAIN owns |-> Without(owns[v], Value)]
        /\ UNCHANGED <<live, heap, fault>>

Forget == /\ Op("forget") /\ Goes /\ live' = live \ {Value}
          /\ scopes' = [scopes EXCEPT ![Len(scopes)] = Without(@, Value)]
          /\ UNCHANGED <<owns, heap, fault>>

Drops(s) == [i \in DOMAIN s |-> drop(s[i])]

\* The variables and temporaries of the scope in the reverse of their order.
Leave == /\ Op("leave") /\ scopes' = Front(scopes)
         /\ todo' = Drops(Reverse(Last(scopes))) \o Tail(todo)
         /\ UNCHANGED <<owns, live, heap, fault>>

Panic == /\ Op("panic") /\ todo' = [i \in DOMAIN scopes |-> leave]
         /\ UNCHANGED <<scopes, owns, live, heap, fault>>

Fails(what) == todo' = <<>> /\ fault' = what /\ UNCHANGED <<scopes, owns, live, heap>>

\* The destructor runs first; the fields follow as they are after it.
Drop == /\ Op("drop") /\ Value \in live
        /\ todo' = Destructor(Value) \o << <<"fields", Value>> >> \o Tail(todo)
        /\ live' = live \ {Value} /\ UNCHANGED <<scopes, owns, heap, fault>>
DropFields == /\ Op("fields") /\ todo' = Drops(owns[Value]) \o Tail(todo)
              /\ UNCHANGED <<scopes, owns, live, heap, fault>>

Use == /\ Op("use")
       /\ \/ Value \in heap /\ Goes /\ UNCHANGED <<scopes, owns, live, heap, fault>>
          \/ Value \notin heap /\ Fails("use after free")

Free == /\ Op("free")
        /\ \/ /\ Value \in heap /\ Goes /\ heap' = heap \ {Value}
              /\ UNCHANGED <<scopes, owns, live, fault>>
           \/ Value \notin heap /\ Fails("double free")

Grow == /\ Op("grow") /\ Goes
        /\ live' = (live \ {"buffer"}) \union {"grown buffer"}
        /\ heap' = (heap \ {"buffer"}) \union {"grown buffer"}
        /\ owns' = [v \in live' |-> IF v = Value THEN <<"grown buffer">>
                                    ELSE IF v = "grown buffer" THEN <<>> ELSE owns[v]]
        /\ UNCHANGED <<scopes, fault>>

Step == /\ UNCHANGED code
        /\ \/ Enter \/ Let \/ Move \/ Forget \/ Leave \/ Panic
           \/ Drop \/ DropFields \/ Use \/ Free \/ Grow

Done == todo = <<>>
-----------------------------------------------------------------------------
\* The SuperBox that the comment says will blow up.
BlowsUp == [SuperBox_u8 |-> "double free", SuperBox_String |-> "use after free"]

\* At every end: no fault but in SuperBox, as its comment says, and nothing
\* left but the String that OverideSuperBox deliberately does not drop.
Released == Done =>
    /\ fault = IF code \in DOMAIN BlowsUp THEN BlowsUp[code] ELSE "none"
    /\ fault = "none" => heap = IF code = "OverideSuperBox_String" THEN {"String"} ELSE {}
=============================================================================
