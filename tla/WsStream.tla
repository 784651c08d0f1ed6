------------------------------ MODULE WsStream ------------------------------
(***************************************************************************)
(* One stream of the TypeScript client (stream.ts, queue.ts) with the part *)
(* of its mux that writes and routes its frames (mux.ts), and the server   *)
(* at the other end of the socket.  A payload is the MSG frame that        *)
(* carries it: its length n and, as history, how many messages (seq) and   *)
(* bytes (off) come before it.  The off of a WINDOW_UPDATE is the credit   *)
(* returned before it.                                                     *)
(*                                                                         *)
(* The event loop runs a handler to its end; a promise that is resolved    *)
(* continues as a microtask, before the next socket event but after what   *)
(* the application's own code does meanwhile.  The server is external: it  *)
(* returns credit as module Stream's Go endpoint does, and normally keeps  *)
(* to its own window.                                                      *)
(***************************************************************************)
EXTENDS Integers, Sequences, Sums

CONSTANTS
    Window,     \* initialWindow, also maxRecvBytes
    SendBuffer, \* maxSendBuffer
    Sizes,      \* payload lengths
    MaxSends,   \* bound on the calls of send()
    MaxMsgs     \* bound on the messages of the server

ASSUME WsStreamAssumption ==
    /\ {Window, MaxSends, MaxMsgs} \subseteq Nat \ {0} /\ SendBuffer \in Nat
    /\ Sizes \subseteq Nat

VARIABLES
    \* The mux and its socket.
    conn,       \* "handshake", "open", "dead"
    sendBuffer, \* frames written before the socket opened
    c2s, s2c,   \* frames on the socket
    thrown,     \* writeFrame threw: a write reached a dead mux
    \* StreamImpl.
    sendWindow, outbound, outboundBytes, sendClosed, finished,
    bufferedBytes, pendingCredit,
    \* Its AsyncQueue.
    values,     \* payloads pushed and not pulled
    qEnd,       \* "no", "ended", "failed"
    waiter,     \* a pull waits
    resolved,   \* payloads handed to recv() whose continuation is due
    \* The application.
    calls,      \* send() calls made
    delivered,  \* what recv() returned
    outcome,    \* how recv() ended: "none", "null", "error"
    cancelled,  \* cancel() was called
    overflowed, \* the receive backlog overflowed
    \* The server.
    pWindow, pPending, pSent, pEnded,
    pOverran,   \* it has sent without window
    pHalf,      \* it has received HALF_CLOSE
    pLate       \* and then a MSG

muxVars == <<conn, sendBuffer, c2s, s2c, thrown>>
sendVars == <<sendWindow, outbound, outboundBytes, sendClosed>>
recvVars == <<bufferedBytes, pendingCredit, values, qEnd, waiter, resolved>>
appVars == <<calls, delivered, outcome, cancelled, overflowed>>
peerVars == <<pWindow, pPending, pSent, pEnded, pOverran, pHalf, pLate>>
vars == <<muxVars, sendVars, finished, recvVars, appVars, peerVars>>

Frame(kind, n, seq, off) == [kind |-> kind, n |-> n, seq |-> seq, off |-> off]
Control(kind) == Frame(kind, 0, 0, 0)

Kinds == {"MSG", "WINDOW_UPDATE", "HALF_CLOSE", "RST", "END"}
Frames == [kind: Kinds, n: Nat, seq: Nat, off: Nat]
Payloads == [kind: {"MSG"}, n: Sizes, seq: Nat, off: Nat]

\* Bytes up to the end of q, a run of messages each with its offset.
End(q) == IF q = <<>> THEN 0 ELSE q[Len(q)].off + q[Len(q)].n

Threshold == IF Window \div 2 < 1 THEN 1 ELSE Window \div 2

\* openStream: OPEN itself is not among the frames.
Init ==
    /\ conn = "handshake" /\ sendBuffer = <<>> /\ c2s = <<>> /\ s2c = <<>> /\ thrown = FALSE
    /\ sendWindow = Window /\ outbound = <<>> /\ outboundBytes = 0
    /\ sendClosed = FALSE /\ finished = FALSE
    /\ bufferedBytes = 0 /\ pendingCredit = 0
    /\ values = <<>> /\ qEnd = "no" /\ waiter = FALSE /\ resolved = <<>>
    /\ calls = 0 /\ delivered = <<>> /\ outcome = "none"
    /\ cancelled = FALSE /\ overflowed = FALSE
    /\ pWindow = Window /\ pPending = 0 /\ pSent = <<>> /\ pEnded = FALSE
    /\ pOverran = FALSE /\ pHalf = FALSE /\ pLate = FALSE

-----------------------------------------------------------------------------
(* The mux's write path.                                                   *)

\* writeFrame for each frame of fs: sent, buffered until the socket opens, or
\* thrown at a dead mux.  A buffer that is full is writeFull's.
writeFrames(fs) ==
    /\ c2s' = IF conn = "open" THEN c2s \o fs ELSE c2s
    /\ sendBuffer' = IF conn = "handshake" THEN sendBuffer \o fs ELSE sendBuffer
    /\ thrown' = (thrown \/ (conn = "dead" /\ fs # <<>>))

\* onopen: flush.
onopen ==
    /\ conn = "handshake"
    /\ conn' = "open"
    /\ c2s' = sendBuffer /\ sendBuffer' = <<>>
    /\ UNCHANGED <<s2c, thrown, sendVars, finished, recvVars, appVars, peerVars>>

-----------------------------------------------------------------------------
(* Sending.                                                                *)

\* Bytes of the first k messages of q.
First(q, k) == IF k = 0 THEN 0 ELSE (q[k].off + q[k].n) - q[1].off

\* The pump takes the first k messages of q, b bytes in all, while the window w
\* lasts; the last one may overdraw it.
take(q, b, w, k) ==
    /\ \A j \in 0..(k - 1) : w - First(q, j) > 0
    /\ outbound' = SubSeq(q, k + 1, Len(q))
    /\ outboundBytes' = b - First(q, k)
    /\ sendWindow' = w - First(q, k)

pump(q, b, w) ==
    \E k \in 0..Len(q) :
        /\ take(q, b, w, k)
        /\ k = Len(q) \/ w - First(q, k) <= 0
        /\ writeFrames(SubSeq(q, 1, k))

\* queue.end and queue.fail: a waiting pull is settled at once.
queueEnd(how, out) ==
    /\ qEnd' = (IF qEnd = "no" THEN how ELSE qEnd)
    /\ waiter' = FALSE
    /\ outcome' = IF waiter THEN out ELSE outcome

\* abort and cancel: RST is written and the stream detached.
terminate(how, out) ==
    /\ finished' = TRUE /\ sendClosed' = TRUE
    /\ writeFrames(<<Control("RST")>>)
    /\ queueEnd(how, out)

send(n) ==
    /\ calls < MaxSends /\ ~sendClosed /\ ~finished
    /\ calls' = calls + 1
    /\ \/ /\ outboundBytes > SendBuffer
          /\ terminate("failed", "error")
          /\ UNCHANGED <<sendWindow, outbound, outboundBytes>>
       \/ /\ outboundBytes <= SendBuffer
          /\ pump(Append(outbound, Frame("MSG", n, 0, End(outbound))),
                  outboundBytes + n, sendWindow)
          /\ UNCHANGED <<sendClosed, finished, qEnd, waiter, outcome>>
    /\ UNCHANGED <<conn, s2c, bufferedBytes, pendingCredit, values, resolved,
                   delivered, cancelled, overflowed, peerVars>>

closeSend ==
    /\ ~sendClosed /\ ~finished
    /\ sendClosed' = TRUE
    /\ writeFrames(<<Control("HALF_CLOSE")>>)
    /\ UNCHANGED <<conn, s2c, sendWindow, outbound, outboundBytes, finished, recvVars, appVars, peerVars>>

cancel ==
    /\ ~finished
    /\ terminate("ended", "null")
    /\ cancelled' = TRUE
    /\ UNCHANGED <<conn, s2c, sendWindow, outbound, outboundBytes, bufferedBytes, pendingCredit, values, resolved,
                   calls, delivered, overflowed, peerVars>>

\* An AbortSignal or the deadline.
abort ==
    /\ ~finished
    /\ terminate("failed", "error")
    /\ UNCHANGED <<conn, s2c, sendWindow, outbound, outboundBytes, bufferedBytes, pendingCredit, values, resolved,
                   calls, delivered, cancelled, overflowed, peerVars>>

-----------------------------------------------------------------------------
(* The frames of all streams that wait for the socket to open have a bound *)
(* in bytes; any write before that may be the one that exceeds it.  When   *)
(* it is OPEN, the stream is left as onTransportDrop leaves it.            *)

\* writeFrame, fail: the mux is dead, and a stream that lives ends with the error.
writeFull(how, out) ==
    /\ conn = "handshake" /\ ~finished
    /\ conn' = "dead" /\ sendBuffer' = <<>>
    /\ finished' = TRUE /\ queueEnd(how, out)
    /\ UNCHANGED <<c2s, s2c, thrown, bufferedBytes, pendingCredit, values, resolved,
                   delivered, overflowed, peerVars>>

\* In abort, or at the k-th message of the pump, which the end of the stream stops.
sendFull(n) ==
    /\ calls < MaxSends /\ ~sendClosed
    /\ calls' = calls + 1
    /\ \/ /\ outboundBytes > SendBuffer
          /\ sendClosed' = TRUE
          /\ UNCHANGED <<sendWindow, outbound, outboundBytes>>
       \/ /\ outboundBytes <= SendBuffer
          /\ LET q == Append(outbound, Frame("MSG", n, 0, End(outbound)))
             IN  \E k \in 1..Len(q) : take(q, outboundBytes + n, sendWindow, k)
          /\ UNCHANGED sendClosed
    /\ writeFull("failed", "error")
    /\ UNCHANGED cancelled

closeSendFull ==
    /\ ~sendClosed
    /\ sendClosed' = TRUE
    /\ writeFull("failed", "error")
    /\ UNCHANGED <<sendWindow, outbound, outboundBytes, calls, cancelled>>

\* The stream has finished when cancel or abort writes RST: it keeps their end.
terminateFull ==
    /\ sendClosed' = TRUE
    /\ \/ writeFull("ended", "null") /\ cancelled' = TRUE
       \/ writeFull("failed", "error") /\ UNCHANGED cancelled
    /\ UNCHANGED <<sendWindow, outbound, outboundBytes, calls>>

full == closeSendFull \/ terminateFull \/ \E n \in Sizes : sendFull(n)

-----------------------------------------------------------------------------
(* Receiving.                                                              *)

\* Mutant: the end of the queue goes before what it still holds.
atEndFirst == qEnd # "no"

\* pull finds the queue drained and ended.
atEnd == values = <<>> /\ qEnd # "no"

\* recv calls pull; the application awaits each recv before the next.
recv ==
    /\ ~waiter /\ resolved = <<>> /\ outcome = "none"
    /\ \/ /\ values # <<>>
          /\ values' = Tail(values) /\ resolved' = <<Head(values)>>
          /\ UNCHANGED <<waiter, outcome>>
       \/ /\ atEnd
          /\ outcome' = IF qEnd = "ended" THEN "null" ELSE "error"
          /\ UNCHANGED <<values, resolved, waiter>>
       \/ /\ values = <<>> /\ qEnd = "no"
          /\ waiter' = TRUE
          /\ UNCHANGED <<values, resolved, outcome>>
    /\ UNCHANGED <<muxVars, sendVars, finished, bufferedBytes, pendingCredit, qEnd,
                   calls, delivered, cancelled, overflowed, peerVars>>

\* Mutant: credit is returned on a stream that has finished.
noCreditFor0(n) == n = 0

\* The early return of returnCredit.
noCredit(n) == n = 0 \/ finished

\* Credit returned so far, while the stream lives.
Returned == End(delivered) - pendingCredit

\* Mutant: the pending credit is returned and kept.
returnCreditKeep(n) ==
    \/ /\ noCredit(n) \/ pendingCredit + n < Threshold
       /\ pendingCredit' = IF noCredit(n) THEN pendingCredit ELSE pendingCredit + n
       /\ writeFrames(<<>>)
    \/ /\ ~noCredit(n) /\ pendingCredit + n >= Threshold
       /\ pendingCredit' = pendingCredit + n
       /\ writeFrames(<<Frame("WINDOW_UPDATE", pendingCredit + n, 0, Returned)>>)

returnCredit(n) ==
    \/ /\ noCredit(n) \/ pendingCredit + n < Threshold
       /\ pendingCredit' = IF noCredit(n) THEN pendingCredit ELSE pendingCredit + n
       /\ writeFrames(<<>>)
    \/ /\ ~noCredit(n) /\ pendingCredit + n >= Threshold
       /\ pendingCredit' = 0
       /\ writeFrames(<<Frame("WINDOW_UPDATE", pendingCredit + n, 0, Returned)>>)

\* The continuation of recv, a microtask.
recvContinue ==
    /\ resolved # <<>>
    /\ resolved' = <<>>
    /\ delivered' = Append(delivered, Head(resolved))
    /\ bufferedBytes' = bufferedBytes - Head(resolved).n
    /\ returnCredit(Head(resolved).n)
    /\ UNCHANGED <<conn, s2c, sendVars, finished, values, qEnd, waiter,
                   calls, outcome, cancelled, overflowed, peerVars>>

\* A socket event for this stream; a frame of a detached stream is ignored.
handleMessage(kind) ==
    /\ conn = "open" /\ resolved = <<>>
    /\ s2c # <<>> /\ Head(s2c).kind = kind

Detached == finished

routeDetached ==
    /\ \E kind \in {"MSG", "WINDOW_UPDATE", "END"} : handleMessage(kind)
    /\ Detached
    /\ s2c' = Tail(s2c)
    /\ UNCHANGED <<conn, sendBuffer, c2s, thrown, sendVars, finished, recvVars, appVars, peerVars>>

\* Mutant: the frame itself counts toward the ceiling.
overCeilingNext(n) == bufferedBytes + n > Window

overCeiling(n) == bufferedBytes > Window

\* Mutant: the payload is queued behind the pull that waits for it.
pushBehind(f) ==
    /\ bufferedBytes' = bufferedBytes + f.n
    /\ values' = Append(values, f) /\ UNCHANGED <<waiter, resolved>>

\* pushMsg: a waiting pull is resolved, otherwise the payload is queued.
push(f) ==
    /\ bufferedBytes' = bufferedBytes + f.n
    /\ waiter' = FALSE
    /\ \/ waiter /\ resolved' = <<f>> /\ UNCHANGED values
       \/ ~waiter /\ values' = Append(values, f) /\ UNCHANGED resolved

routeMsg ==
    /\ handleMessage("MSG") /\ ~Detached
    /\ s2c' = Tail(s2c)
    /\ ~overCeiling(Head(s2c).n)
    /\ push(Head(s2c))
    /\ UNCHANGED <<conn, sendBuffer, c2s, thrown, sendVars, finished, pendingCredit, qEnd,
                   appVars, peerVars>>

\* Receive buffer overflow: abort.
routeOverflow ==
    /\ handleMessage("MSG") /\ ~Detached
    /\ overCeiling(Head(s2c).n)
    /\ s2c' = Tail(s2c)
    /\ terminate("failed", "error")
    /\ overflowed' = TRUE
    /\ UNCHANGED <<conn, sendWindow, outbound, outboundBytes, bufferedBytes,
                   pendingCredit, values, resolved, calls, delivered, cancelled, peerVars>>

\* Mutant: credit arrives and the pump is not run again.
creditSendQuiet(delta) ==
    /\ sendWindow' = sendWindow + delta
    /\ writeFrames(<<>>) /\ UNCHANGED <<outbound, outboundBytes>>

creditSend(delta) == pump(outbound, outboundBytes, sendWindow + delta)

routeWindowUpdate ==
    /\ handleMessage("WINDOW_UPDATE") /\ ~Detached
    /\ s2c' = Tail(s2c)
    /\ creditSend(Head(s2c).n)
    /\ UNCHANGED <<conn, sendClosed, finished, recvVars, appVars, peerVars>>

\* END with status OK (n = 0) or an error: endOk, endError.
routeEnd ==
    /\ handleMessage("END") /\ ~Detached
    /\ s2c' = Tail(s2c)
    /\ finished' = TRUE
    /\ IF Head(s2c).n = 0 THEN queueEnd("ended", "null") ELSE queueEnd("failed", "error")
    /\ UNCHANGED <<conn, sendBuffer, c2s, thrown, sendVars, bufferedBytes, pendingCredit,
                   values, resolved, calls, delivered, cancelled, overflowed, peerVars>>

\* The socket is lost: markDefunct, and endError for a stream still there.
onTransportDrop ==
    /\ conn # "dead" /\ resolved = <<>>
    /\ conn' = "dead" /\ sendBuffer' = <<>> /\ c2s' = <<>> /\ s2c' = <<>>
    /\ finished' = TRUE
    /\ \/ ~finished /\ queueEnd("failed", "error")
       \/ finished /\ UNCHANGED <<qEnd, waiter, outcome>>
    /\ UNCHANGED <<thrown, sendVars, bufferedBytes, pendingCredit, values, resolved,
                   calls, delivered, cancelled, overflowed, peerVars>>

-----------------------------------------------------------------------------
(* The server.                                                             *)

\* It consumes a MSG and returns credit past the threshold.
peerRead ==
    /\ c2s # <<>>
    /\ LET f == Head(c2s)
           due == pPending + f.n
       IN  /\ pHalf' = (pHalf \/ f.kind = "HALF_CLOSE")
           /\ pLate' = (pLate \/ (pHalf /\ f.kind = "MSG"))
           /\ pEnded' = (pEnded \/ f.kind = "RST")
           /\ pWindow' = IF f.kind = "WINDOW_UPDATE" THEN pWindow + f.n ELSE pWindow
           /\ \/ f.kind # "MSG" /\ UNCHANGED <<pPending, s2c>>
              \/ f.kind = "MSG" /\ (due < Threshold \/ pEnded) /\ pPending' = due /\ UNCHANGED s2c
              \/ f.kind = "MSG" /\ due >= Threshold /\ ~pEnded /\ pPending' = 0
                 /\ s2c' = Append(s2c, Frame("WINDOW_UPDATE", due, Len(pSent), 0))
    /\ c2s' = Tail(c2s)
    /\ UNCHANGED <<conn, sendBuffer, thrown, sendVars, finished, recvVars, appVars, pSent, pOverran>>

peerSend(n) ==
    /\ conn = "open" /\ ~pEnded /\ Len(pSent) < MaxMsgs
    /\ pOverran' = (pOverran \/ pWindow <= 0)
    /\ pWindow' = pWindow - n
    /\ LET f == Frame("MSG", n, Len(pSent), End(pSent))
       IN  pSent' = Append(pSent, f) /\ s2c' = Append(s2c, f)
    /\ UNCHANGED <<conn, sendBuffer, c2s, thrown, sendVars, finished, recvVars, appVars,
                   pPending, pEnded, pHalf, pLate>>

peerEnd(status) ==
    /\ conn = "open" /\ ~pEnded
    /\ pEnded' = TRUE
    /\ s2c' = Append(s2c, Frame("END", status, Len(pSent), 0))
    /\ UNCHANGED <<conn, sendBuffer, c2s, thrown, sendVars, finished, recvVars, appVars,
                   pWindow, pPending, pSent, pOverran, pHalf, pLate>>

-----------------------------------------------------------------------------
socket == routeDetached \/ routeMsg \/ routeOverflow \/ routeWindowUpdate \/ routeEnd

Next ==
    \/ onopen \/ onTransportDrop \/ socket
    \/ \E n \in Sizes : send(n) \/ peerSend(n)
    \/ closeSend \/ cancel \/ abort \/ full
    \/ recv \/ recvContinue
    \/ peerRead \/ \E status \in {0, 1} : peerEnd(status)

Spec == Init /\ [][Next]_vars

\* The event loop runs what is due, the socket opens unless the mux dies first,
\* and the server reads what it is sent.
FairSpec ==
    /\ Spec
    /\ WF_vars(onopen) /\ WF_vars(socket) /\ WF_vars(recvContinue) /\ WF_vars(peerRead)

-----------------------------------------------------------------------------
(* Properties.                                                             *)

\* Every variable keeps its type, and a pull waits only on an empty queue
\* (AsyncQueue.push, AsyncQueue.fail).
TypeOK ==
    /\ conn \in {"handshake", "open", "dead"}
    /\ {sendBuffer, c2s, s2c} \subseteq Seq(Frames)
    /\ {thrown, finished, sendClosed, waiter, cancelled, overflowed} \subseteq BOOLEAN
    /\ sendWindow \in Int /\ outbound \in Seq(Payloads) /\ outboundBytes \in Nat
    /\ bufferedBytes \in Nat /\ pendingCredit \in Nat
    /\ values \in Seq(Payloads) /\ qEnd \in {"no", "ended", "failed"}
    /\ waiter => values = <<>> /\ resolved = <<>>
    /\ resolved \in Seq(Payloads) /\ Len(resolved) <= 1
    /\ calls \in 0..MaxSends /\ delivered \in Seq(Payloads)
    /\ outcome \in {"none", "null", "error"}
    /\ pWindow \in Int /\ pPending \in Nat /\ pSent \in Seq(Payloads)
    /\ {pEnded, pOverran, pHalf, pLate} \subseteq BOOLEAN

\* No byte of either window is lost or made up while both ends hold the stream:
\* it is in the sender's hands, in a frame, in the receiver's queue or in its
\* pending credit, also between a resolved recv() and its continuation.
CreditConserved ==
    ~finished /\ ~pEnded =>
        /\ sendWindow + Bytes(sendBuffer \o c2s, "MSG") + pPending
             + Bytes(s2c, "WINDOW_UPDATE") = Window
        /\ pWindow + Bytes(s2c, "MSG") + bufferedBytes + pendingCredit
             + Bytes(sendBuffer \o c2s, "WINDOW_UPDATE") = Window

\* "a peer that obeys the window ... is never falsely reset", one that sends a
\* message larger than the window included.
NeverFalselyReset == overflowed => pOverran

\* recv() returns what the server sent, in order, and when it reports a clean
\* end that nobody cancelled, all of it.
DeliveredInOrder ==
    /\ \E k \in 0..Len(pSent) : delivered \o resolved \o values = SubSeq(pSent, 1, k)
    /\ outcome = "null" /\ ~cancelled => delivered = pSent

\* "No teardown path blocks": once the stream has finished, on whichever
\* terminal path, no recv() waits, and nothing writes to a dead mux, where
\* writeFrame throws: not recv() that drains its queue after the loss, not a
\* late send, closeSend or cancel.
TeardownSafe == (finished => ~waiter) /\ ~thrown

\* A message that waits for credit is sent, as long as the server reads and the
\* stream lives.
Drains == outbound # <<>> ~> outbound = <<>> \/ finished \/ pEnded

\* closeSend says "the client is done sending request messages": the server
\* receives no message after HALF_CLOSE.
HalfCloseLast == ~pLate

-----------------------------------------------------------------------------
(* The inductive invariant behind the safety properties.                   *)

\* Messages that have reached the stream, and the first of them consumed.
Arrived == Len(delivered) + Len(resolved) + Len(values)

\* Bytes of the first i messages of the server.
Upto(i) == IF i = 0 THEN 0 ELSE pSent[i].off + pSent[i].n

\* Credit that has reached the server.
Credited == pWindow - Window + Upto(Len(pSent))

\* The frames the stream has written and the server has not read.
Pipe == IF conn = "handshake" THEN sendBuffer ELSE c2s

Step(f) == IF f.kind = "MSG" THEN 1 ELSE 0

\* Each message of q starts where the one before it ends.
Run(q) ==
    /\ \A i \in 1..(Len(q) - 1) : q[i + 1].off = q[i].off + q[i].n
    /\ \A i, j \in 1..Len(q) : i < j => q[i].off + q[i].n <= q[j].off

\* The pump's queue is a run of messages, and outboundBytes its length.
OutInv == Run(outbound) /\ outboundBytes = First(outbound, Len(outbound))

\* The messages of the server are numbered from 0, each at the end of those
\* before it.
SentInv ==
    /\ \A i \in 1..Len(pSent) : pSent[i].seq = i - 1 /\ pSent[i].off = Upto(i - 1)
    /\ \A i, j \in 1..Len(pSent) : i < j => Upto(i) <= pSent[j].off

\* What arrived is what was sent first, in order; what is on the socket of a
\* stream that lives continues it without a gap, up to the last message.
OrderInv ==
    /\ Arrived <= Len(pSent)
    /\ \A i \in 1..Len(delivered) : delivered[i] = pSent[i]
    /\ \A i \in 1..Len(resolved) : resolved[i] = pSent[Len(delivered) + i]
    /\ \A i \in 1..Len(values) : values[i] = pSent[Len(delivered) + Len(resolved) + i]

SocketInv ==
    /\ \A i \in 1..Len(s2c) : s2c[i].kind = "MSG" =>
        s2c[i].seq < Len(pSent) /\ s2c[i] = pSent[s2c[i].seq + 1]
    /\ \A i \in 1..(Len(s2c) - 1) : s2c[i + 1].seq = s2c[i].seq + Step(s2c[i])
    /\ s2c # <<>> => s2c[Len(s2c)].seq + Step(s2c[Len(s2c)]) = Len(pSent)
    /\ ~finished => Arrived = IF s2c = <<>> THEN Len(pSent) ELSE s2c[1].seq
    /\ \A i \in 1..Len(s2c) : s2c[i].kind = "END" => i = Len(s2c) /\ pEnded

\* A stream has finished exactly when its queue has ended; nobody waits on it
\* then, and nothing of it writes to the socket; a clean end that nobody
\* cancelled came after the last message.
EndInv ==
    /\ finished <=> qEnd # "no"
    /\ conn = "dead" => finished
    /\ conn = "handshake" => c2s = <<>> /\ s2c = <<>>
    /\ conn # "handshake" => sendBuffer = <<>>
    /\ outcome # "none" => finished /\ resolved = <<>> /\ values = <<>>
    /\ outcome = "null" => qEnd = "ended"
    /\ qEnd = "ended" /\ ~cancelled => Arrived = Len(pSent) /\ pEnded

\* bufferedBytes counts what has arrived and is not delivered.
BacklogInv == bufferedBytes = Upto(Arrived) - Upto(Len(delivered))

\* Credit is never made up: the server has at most what was returned, and that
\* is at most what was consumed.
CreditInv ==
    /\ pendingCredit <= End(delivered)
    /\ Credited <= Upto(Len(delivered))
    /\ ~finished => Credited <= Returned
    /\ \A i \in 1..Len(Pipe) : Pipe[i].kind = "WINDOW_UPDATE" =>
        /\ Credited <= Pipe[i].off
        /\ Pipe[i].off + Pipe[i].n <= Upto(Len(delivered))
        /\ ~finished => Pipe[i].off + Pipe[i].n <= Returned
    /\ \A i, j \in 1..Len(Pipe) :
        /\ i < j /\ Pipe[i].kind = "WINDOW_UPDATE" /\ Pipe[j].kind = "WINDOW_UPDATE"
        => Pipe[i].off + Pipe[i].n <= Pipe[j].off

\* A server within its window sent each message while less than a window was
\* unconsumed.
WithinInv ==
    ~pOverran => \A i \in 1..Len(s2c) :
        s2c[i].kind = "MSG" => s2c[i].off < Window + Credited

IInv ==
    /\ TypeOK /\ OutInv /\ SentInv /\ OrderInv /\ SocketInv /\ EndInv
    /\ BacklogInv /\ CreditInv /\ WithinInv /\ TeardownSafe /\ NeverFalselyReset

=============================================================================
