------------------------------- MODULE Stream -------------------------------
(***************************************************************************)
(* One direction of one Go stream (wsrpc/stream.go) between its two        *)
(* endpoints: the endpoint "snd" whose application calls Send, and the     *)
(* endpoint "rcv" whose application calls Recv.  Each endpoint is a Stream *)
(* object registered in a Mux with a read loop of its own; two FIFO pipes  *)
(* connect them: fwd carries what snd writes (MSG, HALF_CLOSE, END) and    *)
(* back what rcv writes (WINDOW_UPDATE, END, RST).  Either endpoint may be *)
(* the server of the RPC.                                                  *)
(*                                                                         *)
(* Steps are cut where the code releases a lock or can block: SendRaw's    *)
(* check under mu, its park on sendCond, its write; popRecv, Recv's        *)
(* select, returnCredit, the WINDOW_UPDATE write; one routed frame; the    *)
(* two halves of signalEnd, which closes "ended" without holding mu.       *)
(*                                                                         *)
(* The fields seq and off of a frame, and the variables of hist, are       *)
(* history: how many MSGs and how many bytes (of payload in fwd, of credit *)
(* in back) were written before it.  No guard reads them, MaxMsgs apart.   *)
(***************************************************************************)
EXTENDS Integers, Sequences, Sums

CONSTANTS
    Sizes,      \* payload lengths an application may send
    SendWin,    \* initialWindow configured at snd
    RecvWin,    \* initialWindow configured at rcv
    CreditMod,  \* 2^32: a WINDOW_UPDATE carries uint32(pendingCredit)
    PipeCap,    \* capacity of the connection's buffer, in each direction
    MaxMsgs,    \* bound on the MSGs of the stream
    Cancels,    \* the endpoints whose caller context (or deadline) may end
    ConnLoss    \* whether the connection may drop

Ends == {"snd", "rcv"}
Codes == {"OK", "App", "ResourceExhausted", "Unavailable", "Canceled"}
Kinds == {"MSG", "HALF_CLOSE", "END", "RST", "WINDOW_UPDATE", "NONE"}
Frame == [kind: Kinds, n: Nat, seq: Nat, off: Nat, code: Codes]
NoFrame == [kind |-> "NONE", n |-> 0, seq |-> 0, off |-> 0, code |-> "OK"]

ASSUME StreamAssumption ==
    /\ Sizes \subseteq Nat
    /\ {SendWin, RecvWin, CreditMod, PipeCap} \subseteq Nat \ {0}
    /\ MaxMsgs \in Nat
    /\ Cancels \subseteq Ends
    /\ ConnLoss \in BOOLEAN

\* Mutant: credit is withheld until the whole window was consumed.
ThresholdWhole == RecvWin

\* The consumed bytes that make returnCredit flush a WINDOW_UPDATE.
Threshold == IF RecvWin \div 2 < 1 THEN 1 ELSE RecvWin \div 2

\* A credit delta fits the uint32 of the wire.
ASSUME DeltaFits == \A n \in Sizes : Threshold + n <= CreditMod

VARIABLES
    server,         \* the endpoint that serves the RPC; the other is the client
    \* Per endpoint: the terminal state of its Stream object and its mux.
    endSt,          \* endSt, or "none"
    endFrame,       \* the terminal frame signalEnd recorded, or NoFrame
    ended,          \* the channel ended is closed
    ctxErr,         \* the stream context is cancelled
    registered,     \* the mux has the stream in its map
    rlPc,           \* read loop: "run", "sigend" (inside signalEnd), "exited"
    \* The sending application and its Stream object.
    sndPc,          \* "idle", "checked" (holds mu), "parked", "woken", "write", "failed"
    sndArg,         \* payload length of the Send in progress
    sendWindow,
    sendDone,
    \* The receiving application and its Stream object.
    rcvPc,          \* "idle", "loop", "select", "credit", "flush"
    rcvArg,         \* bytes to return as credit
    recvItems, recvBytes, recvSignal, halfClosed, pendingCredit,
    outcome,        \* what ended the receiving application's loop
    \* The server's handler.
    hPc,            \* "run", "ending" (END written), "done"
    hCode,          \* the status it returned
    \* The connection.
    fwd, back,      \* FIFO pipes
    ctrlCh,         \* a reset is queued for rcv's ctrlWriter
    conn,           \* the connection is up
    \* History.
    sent,           \* MSGs written
    got,            \* MSGs handed to the receiving application
    written,        \* bytes of MSG payload written
    popped,         \* bytes of payload popped by Recv
    returned        \* bytes of credit written in WINDOW_UPDATEs

endVars == <<endSt, endFrame, ended, ctxErr, registered>>
sndVars == <<sndPc, sndArg, sendWindow, sendDone>>
bufVars == <<recvItems, recvBytes, recvSignal, halfClosed>>
rcvVars == <<rcvPc, rcvArg, pendingCredit, outcome>>
hVars == <<server, hPc, hCode>>
netVars == <<fwd, back, ctrlCh, conn, rlPc>>
hist == <<sent, got, written, popped, returned>>
vars == <<endVars, sndVars, bufVars, rcvVars, hVars, netVars, hist>>

NotEnded == [by |-> "none", code |-> "OK", ctx |-> FALSE]

Init ==
    /\ server \in Ends
    /\ endSt = [e \in Ends |-> "none"]
    /\ endFrame = [e \in Ends |-> NoFrame]
    /\ ended = [e \in Ends |-> FALSE]
    /\ ctxErr = [e \in Ends |-> FALSE]
    /\ registered = [e \in Ends |-> TRUE]
    /\ rlPc = [e \in Ends |-> "run"]
    /\ sndPc = "idle" /\ sndArg = 0 /\ sendWindow = SendWin /\ sendDone = FALSE
    /\ rcvPc = "idle" /\ rcvArg = 0 /\ pendingCredit = 0 /\ outcome = NotEnded
    /\ recvItems = <<>> /\ recvBytes = 0 /\ recvSignal = FALSE /\ halfClosed = FALSE
    /\ hPc = "run" /\ hCode = "OK"
    /\ fwd = <<>> /\ back = <<>> /\ ctrlCh = FALSE /\ conn = TRUE
    /\ sent = 0 /\ got = 0 /\ written = 0 /\ popped = 0 /\ returned = 0

-----------------------------------------------------------------------------
(* Frames and the pipes.  WriteFrame selects among the ready cases: room   *)
(* in the buffer, a closed connection, an ended context.                   *)

FwdFrame(kind, n, code) ==
    [kind |-> kind, n |-> n, seq |-> sent, off |-> written, code |-> code]

BackFrame(kind, n, code) ==
    [kind |-> kind, n |-> n, seq |-> 0, off |-> returned, code |-> code]

WriteFwd(f) == Len(fwd) < PipeCap /\ fwd' = Append(fwd, f)

WriteBack(f) == Len(back) < PipeCap /\ back' = Append(back, f)

WriteFails(done) == ~conn \/ done

-----------------------------------------------------------------------------
(* Terminal paths of a Stream object.  mu of snd is held between SendRaw's *)
(* check and its park; every other critical section is one step.           *)

MuFree(e) == e = "snd" => sndPc # "checked"

\* Mutant: nobody is woken.
wakeNobody(e) == UNCHANGED sndPc

wakeSenders(e) ==
    sndPc' = IF e = "snd" /\ sndPc = "parked" THEN "woken" ELSE sndPc

failWith(e, code) ==
    /\ MuFree(e)
    /\ endSt' = [endSt EXCEPT ![e] = code]
    /\ ended' = [ended EXCEPT ![e] = TRUE]
    /\ ctxErr' = [ctxErr EXCEPT ![e] = TRUE]
    /\ wakeSenders(e)

applyEnd(e) ==
    /\ MuFree(e)
    /\ endSt' = [endSt EXCEPT ![e] = endFrame[e].code]
    /\ ctxErr' = [ctxErr EXCEPT ![e] = TRUE]
    /\ wakeSenders(e)

\* Mutant: the stream stays in the mux's map after its terminal frame.
removeNothing(e) == UNCHANGED registered

remove(e) == registered' = [registered EXCEPT ![e] = FALSE]

-----------------------------------------------------------------------------
(* The sending application.                                                *)

sendBlockErr == endSt["snd"] # "none" \/ ended["snd"] \/ ctxErr["snd"]

\* A server's handler sends until it returns, a client until CloseSend.
MaySend ==
    /\ sent < MaxMsgs
    /\ IF server = "snd" THEN hPc = "run" ELSE ~sendDone

\* SendRaw under mu, entered by a new call or after a wake-up.
SendRaw(n) ==
    /\ \/ sndPc = "idle" /\ MaySend
       \/ sndPc = "woken" /\ n = sndArg
    /\ sndArg' = n
    /\ \/ /\ sendWindow > 0
          /\ sendWindow' = sendWindow - n
          /\ sndPc' = "write"
       \/ /\ sendWindow <= 0 /\ sendBlockErr
          /\ sndPc' = "failed"
          /\ UNCHANGED sendWindow
       \/ /\ sendWindow <= 0 /\ ~sendBlockErr
          /\ sndPc' = "checked"
          /\ UNCHANGED sendWindow
    /\ UNCHANGED <<sendDone, endVars, bufVars, rcvVars, hVars, netVars, hist>>

\* sendCond.Wait: releases mu and parks until a Broadcast.
SendWait ==
    /\ sndPc = "checked"
    /\ sndPc' = "parked"
    /\ UNCHANGED <<sndArg, sendWindow, sendDone, endVars, bufVars, rcvVars, hVars,
                   netVars, hist>>

\* The MSG write that follows, with the stream context.
SendWrite ==
    /\ sndPc = "write"
    /\ \/ /\ WriteFwd(FwdFrame("MSG", sndArg, "OK"))
          /\ sndPc' = "idle"
          /\ sent' = sent + 1 /\ written' = written + sndArg
       \/ /\ WriteFails(ctxErr["snd"])
          /\ sndPc' = "failed"
          /\ UNCHANGED <<fwd, sent, written>>
    /\ UNCHANGED <<sndArg, sendWindow, sendDone, endVars, bufVars, rcvVars, hVars,
                   back, ctrlCh, conn, rlPc, got, popped, returned>>

\* A sending client is done: its own Sends have returned.
CloseSend ==
    /\ server = "rcv" /\ ~sendDone /\ sndPc \in {"idle", "failed"}
    /\ sendDone' = TRUE
    /\ \/ WriteFwd(FwdFrame("HALF_CLOSE", 0, "OK"))
       \/ WriteFails(ctxErr["snd"]) /\ UNCHANGED fwd
    /\ UNCHANGED <<sndPc, sndArg, sendWindow, endVars, bufVars, rcvVars, hVars,
                   back, ctrlCh, conn, rlPc, hist>>

\* Another goroutine of the sending application receives, and takes the
\* terminal frame (recvEnded at snd).
PeerRecvEnded ==
    /\ ended["snd"] /\ endFrame["snd"] # NoFrame /\ endSt["snd"] = "none"
    /\ applyEnd("snd")
    /\ UNCHANGED <<endFrame, ended, registered, sndArg, sendWindow, sendDone, bufVars,
                   rcvVars, hVars, netVars, hist>>

-----------------------------------------------------------------------------
(* The server's handler returns: serveStream ends the stream with a        *)
(* status.  A handler that sends returns between two Sends.                *)

\* end: the END write, with the mux context, whether or not it succeeds.
EndWrite(code) ==
    /\ hPc = "run"
    /\ server = "snd" => sndPc \in {"idle", "failed"}
    /\ hPc' = "ending" /\ hCode' = code
    /\ \/ /\ server = "snd"
          /\ WriteFwd(FwdFrame("END", 0, code))
          /\ UNCHANGED back
       \/ /\ server = "rcv"
          /\ WriteBack(BackFrame("END", 0, code))
          /\ UNCHANGED fwd
       \/ WriteFails(FALSE) /\ UNCHANGED <<fwd, back>>
    /\ UNCHANGED <<server, endVars, sndVars, bufVars, rcvVars, ctrlCh, conn, rlPc, hist>>

\* The deferred failWith and remove.
EndFail ==
    /\ hPc = "ending"
    /\ hPc' = "done"
    /\ failWith(server, hCode)
    /\ remove(server)
    /\ UNCHANGED <<server, hCode, endFrame, sndArg, sendWindow, sendDone, bufVars,
                   rcvVars, netVars, hist>>

-----------------------------------------------------------------------------
(* The read loop of snd routes the frames of back.                         *)

RouteSnd(kinds) ==
    /\ rlPc["snd"] = "run" /\ back # <<>>
    /\ Head(back).kind \in kinds
    /\ back' = Tail(back)
    /\ UNCHANGED <<fwd, ctrlCh, conn, bufVars, rcvVars, hVars, hist,
                   sndArg, sendDone>>

RouteSndUnknown ==
    /\ RouteSnd(Kinds)
    /\ ~registered["snd"]
    /\ UNCHANGED <<endVars, rlPc, sndPc, sendWindow>>

creditSend ==
    /\ RouteSnd({"WINDOW_UPDATE"})
    /\ registered["snd"] /\ MuFree("snd")
    /\ sendWindow' = sendWindow + Head(back).n
    /\ wakeSenders("snd")
    /\ UNCHANGED <<endVars, rlPc>>

\* signalEnd, first half: inside endOne, endFrame is set under mu.
signalEndFrame ==
    /\ RouteSnd({"END", "RST"})
    /\ registered["snd"] /\ MuFree("snd")
    /\ endFrame' = [endFrame EXCEPT !["snd"] = IF ended["snd"] THEN @ ELSE Head(back)]
    /\ rlPc' = [rlPc EXCEPT !["snd"] = "sigend"]
    /\ UNCHANGED <<endSt, ended, ctxErr, registered, sndPc, sendWindow>>

\* signalEnd, second half: ended is closed and the Broadcast made without mu;
\* then the mux removes the stream.
signalEndClose ==
    /\ rlPc["snd"] = "sigend"
    /\ ended' = [ended EXCEPT !["snd"] = TRUE]
    /\ sndPc' = IF sndPc = "parked" /\ ~ended["snd"] THEN "woken" ELSE sndPc
    /\ remove("snd")
    /\ rlPc' = [rlPc EXCEPT !["snd"] = "run"]
    /\ UNCHANGED <<endSt, endFrame, ctxErr, sndArg, sendWindow, sendDone, bufVars,
                   rcvVars, hVars, fwd, back, ctrlCh, conn, hist>>

-----------------------------------------------------------------------------
(* The read loop of rcv routes the frames of fwd.                          *)

RouteRcv(kinds) ==
    /\ rlPc["rcv"] = "run" /\ fwd # <<>>
    /\ Head(fwd).kind \in kinds
    /\ fwd' = Tail(fwd)
    /\ UNCHANGED <<back, conn, rlPc, sndVars, rcvVars, hVars, hist>>

\* A frame for a stream the mux has removed, or (tryDeliver) a MSG for one
\* whose context is cancelled, is dropped.
RouteRcvDrop ==
    /\ RouteRcv(Kinds)
    /\ ~registered["rcv"] \/ (Head(fwd).kind = "MSG" /\ ctxErr["rcv"])
    /\ UNCHANGED <<endVars, bufVars, ctrlCh>>

\* Mutant: "would exceed" in place of "already over".
OverflowsEarly == recvItems # <<>> /\ recvBytes + Head(fwd).n > RecvWin

\* Mutant: the bound counts messages, not bytes.
OverflowsCount == Len(recvItems) > RecvWin

Overflows == recvItems # <<>> /\ recvBytes > RecvWin

tryDeliver ==
    /\ RouteRcv({"MSG"})
    /\ registered["rcv"] /\ ~ctxErr["rcv"] /\ ~Overflows
    /\ recvItems' = Append(recvItems, Head(fwd))
    /\ recvBytes' = recvBytes + Head(fwd).n
    /\ recvSignal' = TRUE
    /\ UNCHANGED <<endVars, halfClosed, ctrlCh>>

\* ctrlCh is shared by every stream of the connection: the select takes its
\* default branch, and the reset is dropped, when 256 frames are queued already.
writeCtrl == ctrlCh' = TRUE \/ UNCHANGED ctrlCh

\* tryDeliver refused: the mux fails the stream, queues a reset for the peer
\* and removes the stream.
OverflowReset ==
    /\ rlPc["rcv"] = "run" /\ fwd # <<>> /\ Head(fwd).kind = "MSG"
    /\ registered["rcv"] /\ ~ctxErr["rcv"] /\ Overflows
    /\ fwd' = Tail(fwd)
    /\ failWith("rcv", "ResourceExhausted")
    /\ writeCtrl
    /\ remove("rcv")
    /\ UNCHANGED <<endFrame, bufVars, back, conn, rlPc, sndArg, sendWindow, sendDone,
                   rcvVars, hVars, hist>>

halfClose ==
    /\ RouteRcv({"HALF_CLOSE"})
    /\ registered["rcv"]
    /\ halfClosed' = TRUE
    /\ UNCHANGED <<endVars, recvItems, recvBytes, recvSignal, ctrlCh>>

signalEndRcv ==
    /\ RouteRcv({"END"})
    /\ registered["rcv"]
    /\ endFrame' = [endFrame EXCEPT !["rcv"] = IF ended["rcv"] THEN @ ELSE Head(fwd)]
    /\ ended' = [ended EXCEPT !["rcv"] = TRUE]
    /\ remove("rcv")
    /\ UNCHANGED <<endSt, ctxErr, bufVars, ctrlCh>>

\* Mutant: the reset is written only while its stream is registered.
ctrlWriterRegistered ==
    /\ ctrlCh
    /\ ctrlCh' = FALSE
    /\ \/ registered["rcv"] /\ WriteBack(BackFrame("RST", 0, "ResourceExhausted"))
       \/ ~registered["rcv"] /\ UNCHANGED back
    /\ UNCHANGED <<fwd, conn, rlPc, endVars, sndVars, bufVars, rcvVars, hVars, hist>>

\* ctrlWriter of rcv writes the queued reset, with the mux context.
ctrlWriter ==
    /\ ctrlCh
    /\ ctrlCh' = FALSE
    /\ \/ WriteBack(BackFrame("RST", 0, "ResourceExhausted"))
       \/ WriteFails(FALSE) /\ UNCHANGED back
    /\ UNCHANGED <<fwd, conn, rlPc, endVars, sndVars, bufVars, rcvVars, hVars, hist>>

-----------------------------------------------------------------------------
(* The receiving application calls Recv until it returns an error.         *)

\* Mutant: the head is returned and left in the backlog.
popRecvKeep ==
    /\ recvItems # <<>>
    /\ recvBytes' = recvBytes - Head(recvItems).n
    /\ rcvPc' = "credit" /\ rcvArg' = Head(recvItems).n
    /\ got' = got + 1 /\ popped' = popped + Head(recvItems).n
    /\ UNCHANGED <<recvItems, outcome, endSt, ctxErr>>

\* popRecv found a MSG: Recv goes on to deliverPayload.
popRecv ==
    /\ recvItems # <<>>
    /\ recvItems' = Tail(recvItems)
    /\ recvBytes' = recvBytes - Head(recvItems).n
    /\ rcvPc' = "credit" /\ rcvArg' = Head(recvItems).n
    /\ got' = got + 1 /\ popped' = popped + Head(recvItems).n
    /\ UNCHANGED <<outcome, endSt, ctxErr>>

\* Recv returns an error; outcome notes whether the context had ended before.
ReturnErr(by, code) ==
    /\ outcome' = [by |-> by, code |-> code, ctx |-> ctxErr["rcv"]]
    /\ rcvPc' = "idle"
    /\ UNCHANGED <<recvItems, recvBytes, rcvArg, got, popped>>

\* Recv's loop: a buffered MSG first, else the select.
RecvLoop ==
    /\ rcvPc \in {"idle", "loop"} /\ outcome = NotEnded
    /\ \/ popRecv
       \/ /\ recvItems = <<>>
          /\ rcvPc' = "select"
          /\ UNCHANGED <<recvItems, recvBytes, rcvArg, outcome, got, popped, endSt, ctxErr>>
    /\ UNCHANGED <<endFrame, ended, registered, sndVars, recvSignal, halfClosed,
                   pendingCredit, hVars, netVars, sent, written, returned>>

\* Mutant: the terminal status preempts the backlog.
recvEndedFirst ==
    \/ /\ endFrame["rcv"] = NoFrame
       /\ ReturnErr("local", endSt["rcv"])
       /\ UNCHANGED <<endSt, ctxErr>>
    \/ /\ endFrame["rcv"] # NoFrame
       /\ ReturnErr("END", endFrame["rcv"].code)
       /\ endSt' = [endSt EXCEPT !["rcv"] = endFrame["rcv"].code]
       /\ ctxErr' = [ctxErr EXCEPT !["rcv"] = TRUE]

\* Mutant: a local failure is reported as the peer's clean end.
recvEndedEOF ==
    \/ popRecv
    \/ /\ recvItems = <<>>
       /\ ReturnErr("END", "OK")
       /\ endSt' = [endSt EXCEPT !["rcv"] = IF @ = "none" THEN "OK" ELSE @]
       /\ ctxErr' = [ctxErr EXCEPT !["rcv"] = TRUE]

\* recvEnded: buffered MSGs, else the status of failWith or of the frame.
recvEnded ==
    \/ popRecv
    \/ /\ recvItems = <<>> /\ endFrame["rcv"] = NoFrame
       /\ ReturnErr("local", endSt["rcv"])
       /\ UNCHANGED <<endSt, ctxErr>>
    \/ /\ recvItems = <<>> /\ endFrame["rcv"] # NoFrame
       /\ ReturnErr("END", endFrame["rcv"].code)
       /\ endSt' = [endSt EXCEPT !["rcv"] = endFrame["rcv"].code]
       /\ ctxErr' = [ctxErr EXCEPT !["rcv"] = TRUE]

\* The select takes any ready case; the caller's own context may end a
\* receive at any time and leaves the stream as it was.
RecvSelect ==
    /\ rcvPc = "select"
    /\ \/ /\ recvSignal
          /\ recvSignal' = FALSE
          /\ rcvPc' = "loop"
          /\ UNCHANGED <<recvItems, recvBytes, rcvArg, outcome, got, popped, endSt, ctxErr>>
       \/ /\ halfClosed
          /\ \/ popRecv
             \/ /\ recvItems = <<>>
                /\ ReturnErr("HALF_CLOSE", "OK")
                /\ UNCHANGED <<endSt, ctxErr>>
          /\ UNCHANGED recvSignal
       \/ /\ ended["rcv"]
          /\ recvEnded
          /\ UNCHANGED recvSignal
       \/ /\ ctxErr["rcv"] /\ ~ended["rcv"]
          /\ \/ popRecv
             \/ /\ recvItems = <<>>
                /\ ReturnErr("ctx", "Canceled")
                /\ UNCHANGED <<endSt, ctxErr>>
          /\ UNCHANGED recvSignal
       \/ /\ rcvPc' = "idle"
          /\ UNCHANGED <<recvItems, recvBytes, recvSignal, rcvArg, outcome, got, popped,
                         endSt, ctxErr>>
    /\ UNCHANGED <<endFrame, ended, registered, sndVars, halfClosed, pendingCredit, hVars,
                   netVars, sent, written, returned>>

\* Mutant: a flush returns the threshold and forgets the rest.
DeltaThreshold(pending) == Threshold

\* Mutant: a flush returns the excess over the threshold, operands swapped.
DeltaExcess(pending) == Threshold - pending

\* uint32(pendingCredit)
Delta(pending) == pending % CreditMod

\* returnCredit, under mu.  A zero-length payload returns at once.
returnCredit ==
    /\ rcvPc = "credit"
    /\ LET pending == pendingCredit + rcvArg
       IN  \/ /\ rcvArg = 0 \/ pending < Threshold
              /\ pendingCredit' = pending
              /\ rcvPc' = "idle" /\ rcvArg' = 0
           \/ /\ rcvArg > 0 /\ pending >= Threshold
              /\ pendingCredit' = 0
              /\ rcvArg' = Delta(pending)
              /\ rcvPc' = IF Delta(pending) = 0 THEN "idle" ELSE "flush"
    /\ UNCHANGED <<outcome, endVars, sndVars, bufVars, hVars, netVars, hist>>

\* The WINDOW_UPDATE write, with the stream context; Recv then returns the MSG.
creditWrite ==
    /\ rcvPc = "flush"
    /\ rcvPc' = "idle" /\ rcvArg' = 0
    /\ \/ /\ WriteBack(BackFrame("WINDOW_UPDATE", rcvArg, "OK"))
          /\ returned' = returned + rcvArg
       \/ WriteFails(ctxErr["rcv"]) /\ UNCHANGED <<back, returned>>
    /\ UNCHANGED <<pendingCredit, outcome, endVars, sndVars, bufVars, hVars,
                   fwd, ctrlCh, conn, rlPc, sent, got, written, popped>>

-----------------------------------------------------------------------------
(* The environment: caller contexts and the connection.                    *)

Cancel(e) ==
    /\ e \in Cancels /\ ~ctxErr[e]
    /\ ctxErr' = [ctxErr EXCEPT ![e] = TRUE]
    /\ UNCHANGED <<endSt, endFrame, ended, registered, sndVars, bufVars, rcvVars, hVars,
                   netVars, hist>>

ConnDrop ==
    /\ ConnLoss /\ conn
    /\ conn' = FALSE
    /\ UNCHANGED <<endVars, sndVars, bufVars, rcvVars, hVars, fwd, back, ctrlCh, rlPc, hist>>

\* failAll: a stream still registered fails and leaves the map.
failAll(e) ==
    /\ remove(e)
    /\ \/ /\ registered[e]
          /\ failWith(e, "Unavailable")
       \/ /\ ~registered[e]
          /\ ctxErr' = [ctxErr EXCEPT ![e] = @ \/ e = server]
          /\ UNCHANGED <<endSt, ended, sndPc>>

\* ReadFrame fails: failAll, then the mux context, the parent of a server's
\* stream contexts, is cancelled.
readLoopExit(e) ==
    /\ ~conn /\ rlPc[e] = "run"
    /\ rlPc' = [rlPc EXCEPT ![e] = "exited"]
    /\ failAll(e)
    /\ UNCHANGED <<endFrame, sndArg, sendWindow, sendDone, bufVars, rcvVars, hVars,
                   fwd, back, ctrlCh, conn, hist>>

Next ==
    \/ \E n \in Sizes : SendRaw(n)
    \/ SendWait \/ SendWrite \/ CloseSend \/ PeerRecvEnded
    \/ \E code \in {"OK", "App"} : EndWrite(code)
    \/ EndFail
    \/ RouteSndUnknown \/ creditSend \/ signalEndFrame \/ signalEndClose
    \/ RouteRcvDrop \/ tryDeliver \/ OverflowReset \/ halfClose \/ signalEndRcv
    \/ ctrlWriter
    \/ RecvLoop \/ RecvSelect \/ returnCredit \/ creditWrite
    \/ \E e \in Ends : Cancel(e) \/ readLoopExit(e)
    \/ ConnDrop

Spec == Init /\ [][Next]_vars

\* The runtime schedules every goroutine that can run, each read loop takes
\* the frames of its connection, and the receiving application keeps calling
\* Recv.  Nothing else is assumed of the applications, the callers' contexts
\* or the connection.
Fairness ==
    /\ WF_vars(\E n \in Sizes : sndPc = "woken" /\ SendRaw(n))
    /\ WF_vars(SendWait) /\ WF_vars(SendWrite)
    /\ WF_vars(RouteSndUnknown) /\ WF_vars(creditSend)
    /\ WF_vars(signalEndFrame) /\ WF_vars(signalEndClose)
    /\ WF_vars(RouteRcvDrop) /\ WF_vars(tryDeliver) /\ WF_vars(OverflowReset)
    /\ WF_vars(halfClose) /\ WF_vars(signalEndRcv)
    /\ WF_vars(ctrlWriter) /\ WF_vars(EndFail)
    /\ WF_vars(RecvLoop) /\ SF_vars(RecvSelect /\ rcvPc' # "idle")
    /\ WF_vars(returnCredit) /\ WF_vars(creditWrite)
    /\ \A e \in Ends : WF_vars(readLoopExit(e))

FairSpec == Spec /\ Fairness

-----------------------------------------------------------------------------
(* Properties.                                                             *)

\* The Boolean state.
TypeBool ==
    {sendDone, recvSignal, halfClosed, ctrlCh, conn} \subseteq BOOLEAN

\* Every variable has its type; the counters that code subtracts from
\* (sendWindow, recvBytes) are integers.
TypeOK ==
    /\ TypeBool
    /\ server \in Ends
    /\ endSt \in [Ends -> Codes \cup {"none"}]
    /\ endFrame \in [Ends -> Frame]
    /\ ended \in [Ends -> BOOLEAN]
    /\ ctxErr \in [Ends -> BOOLEAN]
    /\ registered \in [Ends -> BOOLEAN]
    /\ rlPc \in [Ends -> {"run", "sigend", "exited"}]
    /\ sndPc \in {"idle", "checked", "parked", "woken", "write", "failed"}
    /\ sndArg \in Nat
    /\ sendWindow \in Int
    /\ rcvPc \in {"idle", "loop", "select", "credit", "flush"}
    /\ rcvArg \in Nat
    /\ recvItems \in Seq(Frame)
    /\ recvBytes \in Int
    /\ pendingCredit \in Nat
    /\ outcome \in [by: {"none", "local", "END", "HALF_CLOSE", "ctx"},
                    code: Codes \cup {"none"}, ctx: BOOLEAN]
    /\ hPc \in {"run", "ending", "done"}
    /\ hCode \in Codes
    /\ fwd \in Seq(Frame) /\ back \in Seq(Frame)
    /\ sent \in Nat /\ got \in Nat /\ written \in Nat /\ popped \in Nat /\ returned \in Nat

\* A sender that obeys the credit window is never reset: the overflow branch
\* of route is never taken (stream.go: "a window-obeying peer never trips it").
NoFalseReset == endSt["rcv"] # "ResourceExhausted" /\ ~ctrlCh

\* Whatever the sender does, the backlog exceeds the receiver's ceiling by at
\* most its newest message (tryDeliver checks "already over").
BacklogCeiling ==
    recvItems # <<>> => recvBytes - recvItems[Len(recvItems)].n <= RecvWin

\* The stream is alive at both ends and nothing moves: no frame in a pipe, an
\* empty backlog, no credit being returned, no MSG being written.
Quiet ==
    /\ conn /\ \A e \in Ends : registered[e] /\ ~ctxErr[e]
    /\ fwd = <<>> /\ back = <<>> /\ recvItems = <<>>
    /\ rcvPc \notin {"credit", "flush"} /\ sndPc # "write"

\* Credit withheld below the flush threshold (returnCredit) never adds up to
\* the whole window: once the receiver has consumed everything, Send may go on
\* and is not left parked.
NoCreditStall == Quiet => sendWindow > 0 /\ sndPc # "parked"

Total(frames) == Sum([i \in 1..Len(frames) |-> frames[i].n])

\* Bytes are neither lost nor invented: while the stream lives, the sender's
\* window, the payload on its way to Recv and the credit on its way back add up
\* to the initial window (SendRaw, tryDeliver, popRecv, returnCredit, creditSend).
CreditConservation ==
    conn /\ (\A e \in Ends : registered[e] /\ ~ctxErr[e]) =>
        SendWin = sendWindow
            + (IF sndPc = "write" THEN sndArg ELSE 0)
            + Total(fwd) + recvBytes
            + rcvArg + pendingCredit + Total(back)

\* Recv hands over the MSGs in the order they were written, without gap or
\* repetition: the next one in the backlog follows the last one handed over.
InOrder == recvItems # <<>> => Head(recvItems).seq = got

\* Drain-first: an application that is told its peer ended the stream or
\* half-closed it has been handed every MSG the peer wrote, unless its own
\* context had ended before (tryDeliver then drops MSGs).
EOFComplete ==
    outcome.by \in {"END", "HALF_CLOSE"} /\ ~outcome.ctx => got = sent

\* A client's terminal status is final: no later failWith, applyEnd or failAll
\* changes what Recv and Send report.
ClientStatusFinal ==
    [][\A e \in Ends : e # server /\ endSt[e] # "none" => endSt'[e] = endSt[e]]_vars

\* A Send parked for credit resumes while the stream lives and its receiver
\* consumes: creditSend reaches it.
SendResumes ==
    sndPc = "parked" ~>
        \/ sndPc # "parked"
        \/ ~conn \/ outcome # NotEnded
        \/ \E e \in Ends : ended[e] \/ ctxErr[e]

\* An overflow reset that writeCtrl queued reaches the sender through
\* ctrlWriter, which writes for a stream that route has removed already, and
\* ends the sender's stream whatever the sender was doing.  When writeCtrl
\* dropped it, a serving receiver still ends the sender's stream with the END
\* its handler's return writes; a client that is the receiver has nothing more
\* to say, and nothing is claimed of its peer.
ResetReachesSender ==
    ctrlCh \/ (endSt["rcv"] = "ResourceExhausted" /\ server = "rcv" /\ hPc # "run")
        ~> ended["snd"]

-----------------------------------------------------------------------------
(* What comments of stream.go say and the code does not do.                *)

\* "Surface a terminal status [...] rather than blocking forever when the
\* stream has ended" (SendRaw): a Send parked for credit returns once ended is
\* closed.  signalEnd closes it and broadcasts between the check and the park.
EndWakesSend == sndPc = "parked" /\ ended["snd"] ~> sndPc # "parked"

\* "[...] or the caller's ctx is done" (SendRaw): a Send parked for credit
\* returns once its stream context is cancelled.
CancelWakesSend == sndPc = "parked" /\ ctxErr["snd"] ~> sndPc # "parked"

\* "Returns io.EOF on a clean END" (Recv), "drain-first" (RecvRawContext): an
\* application that reads io.EOF from its peer was handed every MSG it wrote.
EOFMeansComplete ==
    outcome.by \in {"END", "HALF_CLOSE"} /\ outcome.code = "OK" => got = sent

-----------------------------------------------------------------------------
(* The inductive invariant behind the safety properties.  Each byte the    *)
(* sender reserved is written, then arrived, then popped, then returned as *)
(* credit, then credited: the history fields of the frames still in a pipe *)
(* say how far each total has come.                                        *)

Pend == IF sndPc = "write" THEN sndArg ELSE 0
Arrived == IF fwd = <<>> THEN written ELSE fwd[1].off
ArrivedSeq == IF fwd = <<>> THEN sent ELSE fwd[1].seq
Credited == IF back = <<>> THEN returned ELSE back[1].off
IsMsg(f) == IF f.kind = "MSG" THEN 1 ELSE 0

\* Each frame of a pipe starts where the one before it ends.
FwdChain ==
    \A i \in 1..Len(fwd) :
        /\ fwd[i].off + fwd[i].n = IF i = Len(fwd) THEN written ELSE fwd[i + 1].off
        /\ fwd[i].seq + IsMsg(fwd[i]) = IF i = Len(fwd) THEN sent ELSE fwd[i + 1].seq

BackChain ==
    \A i \in 1..Len(back) :
        /\ back[i].off + back[i].n = IF i = Len(back) THEN returned ELSE back[i + 1].off
        /\ back[i].off <= returned

\* What each pipe carries.  Nothing follows the frame that closes fwd.
FrameInv ==
    /\ \A i \in 1..Len(fwd) :
        /\ fwd[i].kind \in {"MSG", "HALF_CLOSE", "END"}
        /\ fwd[i].code \in {"OK", "App"}
        /\ fwd[i].kind = "MSG" => fwd[i].n \in Sizes
        /\ fwd[i].kind # "MSG" => fwd[i].n = 0 /\ i = Len(fwd)
        /\ fwd[i].kind = "HALF_CLOSE" => server = "rcv" /\ sendDone
        /\ fwd[i].kind = "END" => server = "snd" /\ hPc # "run"
    /\ \A i \in 1..Len(back) : back[i].kind # "WINDOW_UPDATE" => back[i].n = 0
    /\ hCode \in {"OK", "App"}
    /\ endFrame["rcv"].code \in {"OK", "App"}

\* The sender: its window never exceeds what it may have outstanding, and it
\* waits only when it has none left.
SenderInv ==
    /\ sendWindow + written + Pend <= SendWin + Credited
    /\ conn /\ registered["snd"] /\ ~ctxErr["snd"]
        => sendWindow + written + Pend = SendWin + Credited
    /\ sndPc \in {"checked", "parked"} => sendWindow <= 0
    /\ sndPc \notin {"idle", "failed"} => sndArg \in Sizes
    /\ sndPc = "write" => written - popped < SendWin
    /\ \A i \in 1..Len(fwd) : fwd[i].kind = "MSG" => fwd[i].off - popped < SendWin

\* The backlog holds consecutive MSGs, from the last one handed over to the
\* last one that arrived.
BacklogInv ==
    /\ recvBytes + popped <= Arrived
    /\ ~ctxErr["rcv"] => recvBytes + popped = Arrived
    /\ ~ctxErr["rcv"] => got + Len(recvItems) = ArrivedSeq
    /\ recvItems = <<>> => recvBytes = 0
    /\ \A i \in 1..Len(recvItems) :
        /\ recvItems[i].n \in Sizes
        /\ recvItems[i].seq = got + i - 1
        /\ recvItems[i].off + recvItems[i].n =
            IF i = Len(recvItems) THEN popped + recvBytes ELSE recvItems[i + 1].off
    /\ recvItems # <<>> => recvItems[1].off = popped

\* Consumed bytes are pending, being returned, or returned.
CreditInv ==
    /\ returned + rcvArg + pendingCredit <= popped
    /\ conn /\ ~ctxErr["rcv"] => returned + rcvArg + pendingCredit = popped
    /\ pendingCredit < Threshold
    /\ rcvPc \notin {"credit", "flush"} => rcvArg = 0
    /\ rcvPc = "credit" => rcvArg \in Sizes

\* The peer has closed its sending side and everything it wrote has arrived.
AllArrived ==
    /\ fwd = <<>> /\ sndPc \in {"idle", "failed"}
    /\ IF server = "snd" THEN hPc # "run" ELSE sendDone

\* What the receiver knows of its peer's end.
CloseInv ==
    /\ sendDone => server = "rcv" /\ sndPc \in {"idle", "failed"}
    /\ server = "snd" /\ hPc # "run" => sndPc \in {"idle", "failed"}
    /\ halfClosed => AllArrived
    /\ endFrame["rcv"] # NoFrame => AllArrived
    /\ ~registered["rcv"] /\ ~ctxErr["rcv"] => AllArrived
    /\ outcome.by \in {"END", "HALF_CLOSE"} => AllArrived
    /\ outcome # NotEnded => rcvPc = "idle"

IInv ==
    /\ TypeOK /\ FwdChain /\ BackChain /\ FrameInv /\ SenderInv /\ BacklogInv /\ CreditInv
    /\ CloseInv /\ EOFComplete

\* A client with a status has left its mux, and a status and a terminal frame
\* agree: the invariant behind ClientStatusFinal.
StatusInv ==
    \A e \in Ends : e # server =>
        /\ ended[e] \/ endSt[e] # "none" => ~registered[e]
        /\ registered[e] /\ endFrame[e] # NoFrame => rlPc[e] = "sigend"
        /\ endSt[e] # "none" /\ endFrame[e] # NoFrame => endSt[e] = endFrame[e].code
=============================================================================
