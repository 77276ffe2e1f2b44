------------------------------- MODULE PcCvBad -------------------------------
(***************************************************************************)
(* thread-synchronization/pc-cv-bad.c: the first attempt at pc-cv.c.  It   *)
(* differs in two places: the condition is tested once with `if' (lines    *)
(* 11-15, 25-27), so a woken thread goes straight to printf, and the       *)
(* change of count is announced with cond_signal (lines 17, 29). All other *)
(* statements, and the conditions under which a thread sleeps, are those   *)
(* of pc-cv.c and are taken from PcCv.                                     *)
(***************************************************************************)
EXTENDS PcCv

Signal(t) == /\ pc[t] = "wake"
             /\ cond_signal
             /\ Goto(t, "unlock")
             /\ UNCHANGED <<lk, spurious, count, depth>>

\* cond_wait returns with the mutex held; the condition is not tested again.
ReturnToPrint(t) == /\ pc[t] = "wait"
                    /\ cond_wait_return(t)
                    /\ Goto(t, "print")
                    /\ UNCHANGED <<waiting, spurious, count, depth>>

BadStep(t) == \/ Lock(t) \/ Test(t) \/ ReturnToPrint(t) \/ Printf(t)
              \/ Count(t) \/ Signal(t) \/ Unlock(t)

BadTproduce(p) == p \in Producers /\ BadStep(p)

BadTconsume(c) == c \in Consumers /\ BadStep(c)

BadNext == \/ \E p \in Producers : BadTproduce(p)
           \/ \E c \in Consumers : BadTconsume(c)
           \/ \E t \in Threads : Wakeup(t)

BadSpec == Init /\ [][BadNext]_vars /\ \A t \in Threads : WF_vars(BadStep(t))

-----------------------------------------------------------------------------
\* The assertion of pc-check.py line 9 on the output of pc-cv-bad.c.  It is
\* not a property of this program: see the run pc_cv_bad.
WellNested == 0 <= depth /\ depth <= n
=============================================================================
