------------------------------ MODULE Delivery ------------------------------
(***************************************************************************)
(* What one direction of a stream promises to the two applications,        *)
(* without windows, frames, backlogs, read loops or locks: messages are    *)
(* numbered as they are written and handed over by number; none is lost    *)
(* before the receiver's own context has ended; and the receiver hears of  *)
(* its peer's end only when the peer has ended and, unless that context    *)
(* had ended, nothing is left to hand over.                                *)
(***************************************************************************)
EXTENDS Naturals

VARIABLES
    wrote,      \* messages written: 0 .. wrote - 1
    queue,      \* the ones on their way
    got,        \* messages handed over: 0 .. got - 1
    closed,     \* the sending side will write no more
    cut,        \* the receiver's context has ended
    told        \* what the receiver was told: "none", "eof", "fail"

dvars == <<wrote, queue, got, closed, cut, told>>

Init ==
    /\ wrote = 0 /\ queue = {} /\ got = 0
    /\ closed = FALSE /\ cut = FALSE /\ told = "none"

Write ==
    /\ ~closed
    /\ queue' = queue \cup {wrote} /\ wrote' = wrote + 1
    /\ UNCHANGED <<got, closed, cut, told>>

Close ==
    /\ ~closed /\ closed' = TRUE
    /\ UNCHANGED <<wrote, queue, got, cut, told>>

\* Message number got, and no other, is the next one.
Hand ==
    /\ told = "none" /\ got \in queue
    /\ queue' = queue \ {got} /\ got' = got + 1
    /\ UNCHANGED <<wrote, closed, cut, told>>

\* The receiver's context has ended or ends; messages may be dropped from now on.
Cut ==
    /\ cut' = TRUE /\ queue' \subseteq queue
    /\ UNCHANGED <<wrote, got, closed, told>>

TellEnd ==
    /\ told = "none" /\ closed /\ (cut \/ queue = {})
    /\ told' = "eof" /\ cut' \in {cut, TRUE}
    /\ UNCHANGED <<wrote, queue, got, closed>>

TellFail ==
    /\ told = "none" /\ cut
    /\ told' = "fail"
    /\ UNCHANGED <<wrote, queue, got, closed, cut>>

Next == Write \/ Close \/ Hand \/ Cut \/ TellEnd \/ TellFail

Spec == Init /\ [][Next]_dvars

=============================================================================
