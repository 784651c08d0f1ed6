----------------------------- MODULE StreamMap ------------------------------
(***************************************************************************)
(* Stream implements Delivery: the refinement mapping.                     *)
(***************************************************************************)
EXTENDS Stream

\* The numbers of the MSGs in the backlog and in the pipe.
InBacklog == {recvItems[i].seq : i \in 1..Len(recvItems)}
InPipe == {fwd[i].seq : i \in {j \in 1..Len(fwd) : fwd[j].kind = "MSG"}}

SndClosed == IF server = "snd" THEN hPc # "run" ELSE sendDone

Told ==
    IF outcome = NotEnded THEN "none"
    ELSE IF outcome.by \in {"END", "HALF_CLOSE"} THEN "eof" ELSE "fail"

D == INSTANCE Delivery WITH
        wrote <- sent, queue <- InBacklog \cup InPipe, got <- got,
        closed <- SndClosed, cut <- ctxErr["rcv"], told <- Told

\* Every behaviour of the two Stream objects, their muxes and the pipes between
\* them is one of Delivery: SendRaw writes, Recv hands over by number, a MSG
\* is lost only behind the receiver's ended context (tryDeliver, OverflowReset,
\* failAll), recvEnded and the halfClosed case report the peer's end last.
ImplementsDelivery == D!Spec

=============================================================================
