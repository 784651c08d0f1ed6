------------------------------- MODULE Server -------------------------------
(***************************************************************************)
(* The server's end of one connection (wsrpc/server.go, wsrpc/mux.go): the *)
(* read loop that routes OPEN and RST, the cap on concurrent streams, the  *)
(* control channel and its writer, one goroutine per stream that runs the  *)
(* handler and ends the stream, keepalive, and the loss of the connection. *)
(* The data of a stream is the subject of module Stream; here a stream is  *)
(* its registration, its terminal signal and its context.                  *)
(*                                                                         *)
(* A Stream object is named by the OPEN that made it, for two OPENs may    *)
(* carry one stream id.                                                    *)
(*                                                                         *)
(* The peer is external: it sends OPENs, each with a fresh stream id or    *)
(* with one it has used before, whatever became of that call; it may send  *)
(* MSGs, cancel a call with RST, and it reads what it is sent.             *)
(***************************************************************************)
EXTENDS Naturals, Sequences, FiniteSets

CONSTANTS
    Opens,      \* number of OPENs the peer sends
    MaxStreams, \* WithMaxConcurrentStreams; 0 is no cap
    CtrlCap,    \* ctrlBufferSize
    PipeCap,    \* capacity of the connection's buffer, in each direction
    Deadlines   \* the OPENs that carry ws-timeout-ms

Streams == 1..Opens     \* Stream objects: the n-th is made by the n-th OPEN
Ids == 1..Opens         \* stream ids, as many as the peer can need

ASSUME ServerAssumption ==
    /\ {Opens, MaxStreams} \subseteq Nat
    /\ {CtrlCap, PipeCap} \subseteq Nat \ {0}
    /\ Deadlines \subseteq Streams

VARIABLES
    \* The peer.
    peer,       \* per id: "new", "open", "ended" (terminal frame read), "cancelled"
    idOf,       \* per OPEN: its stream id, 0 when it is not made yet
    \* The connection: "up"; "silent" (dead, and nobody was told); "closed".
    conn,
    c2s, s2c,   \* FIFO pipes
    \* The server's mux.
    rl,         \* read loop: "run" or "exited"
    streams,    \* the Streams in the streams map, whose key is their id
    muxCtx,     \* the mux context is cancelled
    ctrlCh,     \* control frames for ctrlWriter
    \* Per Stream: the goroutine of serveStream and its Stream object.
    h,          \* "none", "spawned", "run", "end", "fail", "remove", "done"
    ended,      \* the channel ended is closed
    ctx,        \* the stream's own context is cancelled
    replied,    \* the handler has sent its response MSG
    \* History.
    freed,      \* ids whose entry route removed: a terminal frame, an overflow
    dropped     \* ids whose control frame writeCtrl dropped

peerVars == <<peer, idOf>>
netVars == <<conn, c2s, s2c>>
muxVars == <<rl, streams, muxCtx, ctrlCh>>
hVars == <<h, ended, ctx, replied>>
hist == <<freed, dropped>>
vars == <<peerVars, netVars, muxVars, hVars, hist>>

Init ==
    /\ peer = [i \in Ids |-> "new"] /\ idOf = [n \in Streams |-> 0]
    /\ conn = "up" /\ c2s = <<>> /\ s2c = <<>>
    /\ rl = "run" /\ streams = {} /\ muxCtx = FALSE /\ ctrlCh = <<>>
    /\ h = [n \in Streams |-> "none"]
    /\ ended = [n \in Streams |-> FALSE] /\ ctx = [n \in Streams |-> FALSE]
    /\ replied = [n \in Streams |-> FALSE]
    /\ freed = {} /\ dropped = {}

\* A frame; of the peer's frames n tells which OPEN it is, 0 when it is none.
Frame(kind, id) == [kind |-> kind, id |-> id]
PeerFrame(kind, id, n) == [kind |-> kind, id |-> id, n |-> n]

\* A stream context ends with the mux context it derives from.
CtxDone(n) == ctx[n] \/ muxCtx

-----------------------------------------------------------------------------
(* The peer and the connection.                                            *)

PeerWrite(f) == conn = "up" /\ Len(c2s) < PipeCap /\ c2s' = Append(c2s, f)

\* The next OPEN, with any id the peer has used or the first it has not.
PeerOpen(n, id) ==
    /\ idOf[n] = 0 /\ \A k \in 1..(n - 1) : idOf[k] # 0
    /\ \A i \in 1..(id - 1) : peer[i] # "new"
    /\ PeerWrite(PeerFrame("OPEN", id, n))
    /\ idOf' = [idOf EXCEPT ![n] = id]
    /\ peer' = [peer EXCEPT ![id] = "open"]
    /\ UNCHANGED <<conn, s2c, muxVars, hVars, hist>>

PeerSend(id) ==
    /\ peer[id] = "open"
    /\ PeerWrite(PeerFrame("MSG", id, 0))
    /\ UNCHANGED <<peerVars, conn, s2c, muxVars, hVars, hist>>

PeerCancel(id) ==
    /\ peer[id] = "open"
    /\ PeerWrite(PeerFrame("RST", id, 0))
    /\ peer' = [peer EXCEPT ![id] = "cancelled"]
    /\ UNCHANGED <<idOf, conn, s2c, muxVars, hVars, hist>>

PeerRead ==
    /\ conn = "up" /\ s2c # <<>>
    /\ s2c' = Tail(s2c)
    /\ LET f == Head(s2c)
       IN  peer' = IF f.kind \in {"END", "RST"} /\ peer[f.id] = "open"
                   THEN [peer EXCEPT ![f.id] = "ended"] ELSE peer
    /\ UNCHANGED <<idOf, conn, c2s, muxVars, hVars, hist>>

\* The connection dies, with or without a close the server can see.
ConnDrop(how) ==
    /\ conn = "up"
    /\ conn' = how
    /\ s2c' = IF how = "closed" THEN <<>> ELSE s2c
    /\ UNCHANGED <<peerVars, c2s, muxVars, hVars, hist>>

-----------------------------------------------------------------------------
(* Writes.  mux.write blocks while the buffer is full and fails once its   *)
(* context ends or the connection is closed.                               *)

write(f) == conn # "closed" /\ Len(s2c) < PipeCap /\ s2c' = Append(s2c, f)

WriteFails(done) == conn = "closed" \/ done

\* Mutant: the read loop queues without a bound.
writeCtrlUnbounded(f) == ctrlCh' = Append(ctrlCh, f) /\ UNCHANGED dropped

writeCtrl(f) ==
    \/ Len(ctrlCh) < CtrlCap /\ ctrlCh' = Append(ctrlCh, f) /\ UNCHANGED dropped
    \/ Len(ctrlCh) = CtrlCap /\ dropped' = dropped \cup {f.id} /\ UNCHANGED ctrlCh

ctrlWriter ==
    /\ ctrlCh # <<>> /\ ~muxCtx
    /\ ctrlCh' = Tail(ctrlCh)
    /\ \/ write(Head(ctrlCh))
       \/ WriteFails(muxCtx) /\ UNCHANGED s2c
    /\ UNCHANGED <<peerVars, conn, c2s, rl, streams, muxCtx, hVars, hist>>

-----------------------------------------------------------------------------
(* The read loop.                                                          *)

Route(kind) ==
    /\ rl = "run" /\ c2s # <<>> /\ Head(c2s).kind = kind
    /\ c2s' = Tail(c2s)
    /\ UNCHANGED <<peerVars, conn, s2c, rl, muxCtx>>

\* The entries of the streams map under a key.
Entry(id) == {n \in streams : idOf[n] = id}

dupId(id) == Entry(id) # {}

\* Mutant: one stream too many.
overOne == MaxStreams > 0 /\ Cardinality(streams) > MaxStreams

over == MaxStreams > 0 /\ Cardinality(streams) >= MaxStreams

OpenDup ==
    /\ Route("OPEN")
    /\ dupId(Head(c2s).id)
    /\ writeCtrl(Frame("RST", Head(c2s).id))
    /\ UNCHANGED <<streams, hVars, freed>>

OpenOver ==
    /\ Route("OPEN")
    /\ ~dupId(Head(c2s).id) /\ over
    /\ writeCtrl(Frame("RST", Head(c2s).id))
    /\ UNCHANGED <<streams, hVars, freed>>

\* Register a fresh Stream and start serveStream.
Open ==
    /\ Route("OPEN")
    /\ ~dupId(Head(c2s).id) /\ ~over
    /\ LET n == Head(c2s).n
       IN  /\ streams' = streams \cup {n}
           /\ h' = [h EXCEPT ![n] = "spawned"]
    /\ UNCHANGED <<ctrlCh, ended, ctx, replied, hist>>

\* Delete the entry under a key, whichever Stream it is.
removeKey(id) == streams' = streams \ Entry(id)

\* A frame for an id without an entry is ignored; tryDeliver takes a MSG.
RouteIgnore ==
    /\ \/ Route("RST") /\ ~dupId(Head(c2s).id)
       \/ Route("MSG")
    /\ UNCHANGED <<streams, ctrlCh, hVars, hist>>

\* signalEnd and remove, while the handler may still run.
RouteRST ==
    /\ Route("RST")
    /\ LET id == Head(c2s).id
       IN  /\ dupId(id)
           /\ ended' = [n \in Streams |-> ended[n] \/ n \in Entry(id)]
           /\ removeKey(id)
           /\ freed' = freed \cup {id}
    /\ UNCHANGED <<ctrlCh, h, ctx, replied, dropped>>

\* tryDeliver refuses a MSG (module Stream says when): failWith, an RST for the
\* peer, and remove, while the handler may still run.
RouteOverflow ==
    /\ Route("MSG")
    /\ LET id == Head(c2s).id
       IN  /\ dupId(id) /\ \A n \in Entry(id) : ~CtxDone(n)
           /\ ended' = [n \in Streams |-> ended[n] \/ n \in Entry(id)]
           /\ ctx' = [n \in Streams |-> ctx[n] \/ n \in Entry(id)]
           /\ writeCtrl(Frame("RST", id))
           /\ removeKey(id)
           /\ freed' = freed \cup {id}
    /\ UNCHANGED <<h, replied>>

failAll ==
    /\ ended' = [n \in Streams |-> ended[n] \/ n \in streams]
    /\ ctx' = [n \in Streams |-> ctx[n] \/ n \in streams]
    /\ streams' = {}

\* ReadFrame fails: failAll, and the deferred cancel.
readLoopExit ==
    /\ rl = "run" /\ WriteFails(muxCtx)
    /\ rl' = "exited"
    /\ failAll
    /\ muxCtx' = TRUE
    /\ UNCHANGED <<peerVars, netVars, ctrlCh, h, replied, hist>>

readLoop ==
    OpenDup \/ OpenOver \/ Open \/ RouteIgnore \/ RouteRST \/ RouteOverflow \/ readLoopExit

\* Mutant: a ping without a pong goes unnoticed.
keepaliveOff == UNCHANGED muxCtx

keepaliveCancel == muxCtx' = TRUE

\* A ping gets no pong within the timeout.
keepalive ==
    /\ conn = "silent" /\ ~muxCtx
    /\ keepaliveCancel
    /\ UNCHANGED <<peerVars, netVars, rl, streams, ctrlCh, hVars, hist>>

\* ServeHTTP wakes on the mux context and closes the socket.
ServeHTTP ==
    /\ muxCtx /\ conn # "closed"
    /\ conn' = "closed" /\ s2c' = <<>>
    /\ UNCHANGED <<peerVars, c2s, muxVars, hVars, hist>>

-----------------------------------------------------------------------------
(* serveStream, one goroutine per stream.                                  *)

HStep(n, from, to) == h[n] = from /\ h' = [h EXCEPT ![n] = to]

\* Mutant: serveStream frees its slot at once, not when it returns.
LookupNoDefer(n) ==
    /\ HStep(n, "spawned", "run") \/ HStep(n, "spawned", "end")
    /\ removeKey(idOf[n])
    /\ UNCHANGED <<peerVars, netVars, rl, muxCtx, ctrlCh, ended, ctx, replied, hist>>

\* The method has a handler (or the server an unknownHandler), or it has none.
Lookup(n) ==
    /\ HStep(n, "spawned", "run") \/ HStep(n, "spawned", "end")
    /\ UNCHANGED <<peerVars, netVars, muxVars, ended, ctx, replied, hist>>

\* The handler sends its response, with the stream context.
Respond(n) ==
    /\ h[n] = "run" /\ ~replied[n]
    /\ replied' = [replied EXCEPT ![n] = TRUE]
    /\ \/ write(Frame("MSG", idOf[n]))
       \/ WriteFails(CtxDone(n)) /\ UNCHANGED s2c
    /\ UNCHANGED <<peerVars, conn, c2s, muxVars, h, ended, ctx, hist>>

\* The handler returns nil or an error, or panics (recovered as Internal).
Return(n) ==
    /\ HStep(n, "run", "end")
    /\ UNCHANGED <<peerVars, netVars, muxVars, ended, ctx, replied, hist>>

\* What a handler waits for has ended.  Recv returns on the terminal signal as
\* well; a handler may wait on Stream.Context, which an RST leaves alone.
Released(n) == CtxDone(n)

ReturnReleased(n) == Released(n) /\ Return(n)

\* Mutant: END is written with the context of the stream.
endCtxStream(n) == CtxDone(n)

\* The context end() writes with.
endCtx(n) == muxCtx

endWrite(n) ==
    /\ HStep(n, "end", "fail")
    /\ \/ write(Frame("END", idOf[n]))
       \/ WriteFails(endCtx(n)) /\ UNCHANGED s2c
    /\ UNCHANGED <<peerVars, conn, c2s, muxVars, ended, ctx, replied, hist>>

\* The deferred failWith of end().
endFail(n) ==
    /\ HStep(n, "fail", "remove")
    /\ ended' = [ended EXCEPT ![n] = TRUE]
    /\ ctx' = [ctx EXCEPT ![n] = TRUE]
    /\ UNCHANGED <<peerVars, netVars, muxVars, replied, hist>>

\* The deferred remove of serveStream.
remove(n) ==
    /\ HStep(n, "remove", "done")
    /\ removeKey(idOf[n])
    /\ UNCHANGED <<peerVars, netVars, rl, muxCtx, ctrlCh, ended, ctx, replied, hist>>

\* The deadline of ws-timeout-ms.
Deadline(n) ==
    /\ n \in Deadlines /\ h[n] \notin {"none", "done"} /\ ~ctx[n]
    /\ ctx' = [ctx EXCEPT ![n] = TRUE]
    /\ UNCHANGED <<peerVars, netVars, muxVars, h, ended, replied, hist>>

serveStream(n) ==
    Lookup(n) \/ endWrite(n) \/ endFail(n) \/ remove(n)

-----------------------------------------------------------------------------
Next ==
    \/ \E id \in Ids : PeerSend(id) \/ PeerCancel(id) \/ \E n \in Streams : PeerOpen(n, id)
    \/ PeerRead
    \/ \E how \in {"silent", "closed"} : ConnDrop(how)
    \/ ctrlWriter
    \/ readLoop
    \/ keepalive \/ ServeHTTP
    \/ \E n \in Streams : serveStream(n) \/ Respond(n) \/ Return(n) \/ Deadline(n)

Spec == Init /\ [][Next]_vars

\* The goroutines run: read loop, ctrlWriter, keepalive, ServeHTTP, and each
\* serveStream outside its handler; a handler returns once its context has
\* ended; the peer reads while the connection is up.  Nothing obliges a
\* handler to return by itself.
Fairness ==
    /\ WF_vars(PeerRead)
    /\ WF_vars(ctrlWriter)
    /\ WF_vars(readLoop)
    /\ WF_vars(keepalive)
    /\ WF_vars(ServeHTTP)
    /\ \A n \in Streams : WF_vars(serveStream(n)) /\ WF_vars(ReturnReleased(n))

FairSpec == Spec /\ Fairness

-----------------------------------------------------------------------------
(* Properties.                                                             *)

\* Every variable keeps its type, and the control channel its capacity: the
\* read loop never queues past it (writeCtrl).
TypeOK ==
    /\ peer \in [Ids -> {"new", "open", "ended", "cancelled"}] /\ idOf \in [Streams -> Ids \cup {0}]
    /\ conn \in {"up", "silent", "closed"}
    /\ c2s \in Seq([kind: {"OPEN", "MSG", "RST"}, id: Ids, n: Streams \cup {0}])
    /\ s2c \in Seq([kind: {"MSG", "END", "RST"}, id: Ids])
    /\ Len(c2s) <= PipeCap /\ Len(s2c) <= PipeCap
    /\ rl \in {"run", "exited"} /\ streams \subseteq Streams /\ muxCtx \in BOOLEAN
    /\ ctrlCh \in Seq([kind: {"RST"}, id: Ids]) /\ Len(ctrlCh) <= CtrlCap
    /\ h \in [Streams -> {"none", "spawned", "run", "end", "fail", "remove", "done"}]
    /\ ended \in [Streams -> BOOLEAN] /\ ctx \in [Streams -> BOOLEAN]
    /\ replied \in [Streams -> BOOLEAN]
    /\ freed \subseteq Ids /\ dropped \subseteq Ids

\* The goroutine of a Stream is alive.
Active(n) == h[n] \notin {"none", "done"}

\* The streams map never exceeds the cap while goroutines free their slots
\* concurrently (route reads its length and adds the stream in two critical
\* sections, one step here since only the read loop adds); each slot belongs to
\* a goroutine that will free it, and the read loop leaves none behind.
SlotOwned ==
    /\ MaxStreams > 0 => Cardinality(streams) <= MaxStreams
    /\ \A n \in streams : Active(n)
    /\ rl = "exited" => streams = {}

\* No handler runs outside the accounting of the streams map, and a repeated
\* OPEN starts no second one beside it, whatever the first one's goroutine is
\* doing from its start to its deferred remove.  The exception is an id whose
\* entry route has removed under its handler, for an RST or an overflow: that
\* handler runs on uncounted, and the id may be opened again.
OneHandler ==
    \A n \in Streams : Active(n) /\ idOf[n] \notin freed =>
        /\ rl = "run" => n \in streams
        /\ \A k \in Streams : Active(k) /\ idOf[k] = idOf[n] => k = n

\* The peer knows how the call of the n-th OPEN ended, or a bounded buffer or the connection
\* kept it from learning.
Informed(n) ==
    idOf[n] # 0 /\ (peer[idOf[n]] # "open" \/ idOf[n] \in dropped \/ conn # "up")

\* The n-th OPEN is the last one of its id.
LastOpen(n) == idOf[n] # 0 /\ \A k \in Streams : k > n => idOf[k] # idOf[n]

\* Every OPEN reaches a handler or is answered, unless the peer sends another
\* one of its id (which has its own answer), and the status of a handler
\* that returned reaches the peer, when the deadline of its stream has passed
\* too (end writes with the mux context); a control frame that writeCtrl
\* dropped is the only exception.
Answered ==
    \A n \in Streams :
        /\ LastOpen(n) ~> h[n] = "run" \/ Informed(n) \/ ~LastOpen(n)
        /\ h[n] = "end" ~> Informed(n)

\* When the connection is lost, silently or not, every handler that waits for
\* its stream is released and its goroutine ends, also one that route or the
\* remove of another handler of its id has taken out of the map.
HandlersReleased ==
    conn # "up" ~> \A n \in Streams : ~Active(n)

-----------------------------------------------------------------------------
(* The inductive invariant behind the safety properties.                   *)

\* An OPEN under way is made once, carries its id and has no goroutine yet;
\* one not made has neither.
OpenInv ==
    /\ \A i \in DOMAIN c2s :
        /\ c2s[i].kind # "OPEN" => c2s[i].n = 0
        /\ c2s[i].kind = "OPEN" =>
            /\ c2s[i].n \in Streams /\ idOf[c2s[i].n] = c2s[i].id /\ h[c2s[i].n] = "none"
            /\ \A j \in DOMAIN c2s : j # i => c2s[j].n # c2s[i].n
    /\ \A n \in Streams : idOf[n] = 0 => h[n] = "none"

\* The map has one entry for a key.
KeyInv == \A n, k \in streams : idOf[n] = idOf[k] => n = k

IInv == TypeOK /\ SlotOwned /\ OneHandler /\ OpenInv /\ KeyInv
=============================================================================
