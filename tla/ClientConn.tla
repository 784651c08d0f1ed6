----------------------------- MODULE ClientConn -----------------------------
(***************************************************************************)
(* The Go client connection (wsrpc/client.go, wsrpc/reconnect.go): callers *)
(* of NewStream, Close, the reconnect controller that replaces a dead mux, *)
(* and, per mux, its socket, its read loop and the streams registered in   *)
(* it (wsrpc/mux.go, client side).  The connection under a mux is a        *)
(* websocket (Dial, wsrpc/wsconn.go) or one end of a pipe (DialConn,       *)
(* wsrpc/pipe.go); they differ in when they refuse a write.                *)
(*                                                                         *)
(* A mux is the number of the dial that made it; 0 is nil.  waitCh, closed *)
(* and remade on each broadcast, is the number of broadcasts so far.       *)
(***************************************************************************)
EXTENDS Naturals

CONSTANTS
    Callers,    \* goroutines that call NewStream, once each
    MaxDials    \* bound on the connections dialed, the first included

ASSUME ClientAssumption == MaxDials \in Nat \ {0}

Muxes == 1..MaxDials

VARIABLES
    \* ClientConn, under cc.mu.
    mux, closed, waitCh,
    conn,       \* "ws" (Dial) or "pipe" (DialConn, which never redials)
    \* Per mux.
    dials,      \* muxes made so far
    sock,       \* "up" or "down"
    ctx,        \* the mux context is cancelled
    flag,       \* closedFlag
    rl,         \* read loop: "run", "exited" (a read failed), "garbled" (a
                \* frame did not decode)
    \* The reconnect controller.
    rPc,        \* "top", "wait", "drop", "redial", "dial", "sleep", "install", "exit"
    rMux,       \* its local mux
    \* Close.
    xPc,        \* "idle", "flag", "cancel", "sock", "done"
    xMux,
    \* Per caller of NewStream.
    cPc,        \* "idle", "waiting", "register", "write", "open", "failed"
    cMux,       \* the mux it was given
    cCh,        \* the waitCh it captured
    reg,        \* its stream is in the mux's map
    st,         \* status of its stream: "none", "OK", "Canceled", "Unavailable"
    \* History: muxes that died other than by Close, and callers whose stream
    \* entered the map of a mux whose read loop was already gone.
    lost, late

ccVars == <<mux, closed, waitCh>>
muxVars == <<conn, dials, sock, ctx, flag, rl, lost>>
rVars == <<rPc, rMux>>
xVars == <<xPc, xMux>>
cVars == <<cPc, cMux, cCh, reg, st, late>>
vars == <<ccVars, muxVars, rVars, xVars, cVars>>

\* Dial and DialConn: the first mux is live, and the controller runs with
\* WithReconnect, which DialConn ignores.
Init ==
    /\ conn \in {"ws", "pipe"}
    /\ mux = 1 /\ closed = FALSE /\ waitCh = 0
    /\ dials = 1 /\ sock = [g \in Muxes |-> "up"]
    /\ ctx = [g \in Muxes |-> FALSE] /\ flag = [g \in Muxes |-> FALSE]
    /\ rl = [g \in Muxes |-> "run"] /\ lost = {}
    /\ rPc \in (IF conn = "ws" THEN {"top", "exit"} ELSE {"exit"}) /\ rMux = 0
    /\ xPc = "idle" /\ xMux = 0
    /\ cPc = [c \in Callers |-> "idle"] /\ cMux = [c \in Callers |-> 0]
    /\ cCh = [c \in Callers |-> 0] /\ reg = [c \in Callers |-> FALSE]
    /\ st = [c \in Callers |-> "none"] /\ late = {}

\* Mutant: nobody waits on the new channel, and nobody is told.
broadcastNothing == UNCHANGED waitCh

broadcastLocked == waitCh' = waitCh + 1

-----------------------------------------------------------------------------
(* NewStream.                                                              *)

\* Mutant: NewStream does not test for nil.
TakeMuxNil(c) ==
    /\ cPc' = [cPc EXCEPT ![c] = "register"]
    /\ cMux' = [cMux EXCEPT ![c] = mux]
    /\ UNCHANGED cCh

TakeMux(c) ==
    /\ mux # 0
    /\ cPc' = [cPc EXCEPT ![c] = "register"]
    /\ cMux' = [cMux EXCEPT ![c] = mux]
    /\ UNCHANGED cCh

\* One turn of waitForMux's loop, up to its select, under cc.mu.
waitForMux(c) ==
    \/ /\ closed
       /\ cPc' = [cPc EXCEPT ![c] = "failed"]
       /\ UNCHANGED <<cMux, cCh>>
    \/ ~closed /\ TakeMux(c)
    \/ /\ ~closed /\ mux = 0
       /\ cPc' = [cPc EXCEPT ![c] = "waiting"]
       /\ cCh' = [cCh EXCEPT ![c] = waitCh]
       /\ UNCHANGED cMux

NewStream(c) ==
    /\ cPc[c] = "idle"
    /\ TakeMux(c) \/ (mux = 0 /\ waitForMux(c))
    /\ UNCHANGED <<ccVars, muxVars, rVars, xVars, reg, st, late>>

\* The captured channel was closed by a broadcast.
WaitWake(c) ==
    /\ cPc[c] = "waiting" /\ cCh[c] # waitCh
    /\ waitForMux(c)
    /\ UNCHANGED <<ccVars, muxVars, rVars, xVars, reg, st, late>>

\* closeCh is closed, or the caller's context ends.
WaitFail(c) ==
    /\ cPc[c] = "waiting"
    /\ cPc' = [cPc EXCEPT ![c] = "failed"]
    /\ UNCHANGED <<ccVars, muxVars, rVars, xVars, cMux, cCh, reg, st, late>>

\* newClientStream: the stream enters the map of the mux, then OPEN is written
\* with the caller's context.
register(c) ==
    /\ cPc[c] = "register"
    /\ cPc' = [cPc EXCEPT ![c] = "write"]
    /\ reg' = [reg EXCEPT ![c] = TRUE]
    /\ late' = IF rl[cMux[c]] = "run" THEN late ELSE late \cup {c}
    /\ UNCHANGED <<ccVars, muxVars, rVars, xVars, cMux, cCh, st>>

\* WriteFrame.  A websocket refuses a write once it is down; a pipe that is
\* closed may still take the frame, for its select is free to.
writeOpen(c) ==
    /\ cPc[c] = "write"
    /\ sock[cMux[c]] = "up" \/ conn = "pipe"
    /\ cPc' = [cPc EXCEPT ![c] = "open"]
    /\ UNCHANGED <<ccVars, muxVars, rVars, xVars, cMux, cCh, reg, st, late>>

\* The write fails, on a dead connection or for the caller's context: remove.
writeFail(c) ==
    /\ cPc[c] = "write"
    /\ cPc' = [cPc EXCEPT ![c] = "failed"]
    /\ reg' = [reg EXCEPT ![c] = FALSE]
    /\ UNCHANGED <<ccVars, muxVars, rVars, xVars, cMux, cCh, st, late>>

\* The server ends the call: route of END.
routeEnd(c) ==
    /\ cPc[c] = "open" /\ reg[c]
    /\ rl[cMux[c]] = "run" /\ (sock[cMux[c]] = "up" \/ conn = "pipe")
    /\ st' = [st EXCEPT ![c] = "OK"]
    /\ reg' = [reg EXCEPT ![c] = FALSE]
    /\ UNCHANGED <<ccVars, muxVars, rVars, xVars, cPc, cMux, cCh, late>>

-----------------------------------------------------------------------------
(* A mux: its socket and its read loop.                                    *)

\* The connection drops.
sockDrop(g) ==
    /\ g <= dials /\ sock[g] = "up"
    /\ sock' = [sock EXCEPT ![g] = "down"]
    /\ lost' = lost \cup {g}
    /\ UNCHANGED <<ccVars, conn, dials, ctx, flag, rl, rVars, xVars, cVars>>

\* Keepalive gets no pong and cancels the mux, or the context given to Dial,
\* which the first mux derives from, ends.
muxCancel(g) ==
    /\ g <= dials /\ ~ctx[g]
    /\ ctx' = [ctx EXCEPT ![g] = TRUE]
    /\ lost' = lost \cup {g}
    /\ UNCHANGED <<ccVars, conn, dials, sock, flag, rl, rVars, xVars, cVars>>

disconnectErr(g) == IF flag[g] THEN "Canceled" ELSE "Unavailable"

Registered(g) == {c \in Callers : reg[c] /\ cMux[c] = g}

\* Mutant: the map is emptied and the streams are not failed.
failAllSilent(g) ==
    /\ reg' = [c \in Callers |-> reg[c] /\ c \notin Registered(g)]
    /\ UNCHANGED st

failAll(g) ==
    /\ reg' = [c \in Callers |-> reg[c] /\ c \notin Registered(g)]
    /\ st' = [c \in Callers |-> IF c \in Registered(g) THEN disconnectErr(g) ELSE st[c]]

\* What a failed read does to the connection.  The websocket library closes a
\* connection whose read it cuts for the context; readLoop itself closes nothing.
ReadCut(g) == sock' = IF conn = "ws" THEN [sock EXCEPT ![g] = "down"] ELSE sock

\* readLoop, the read fails: failAll and the deferred cancel.
readLoopExit(g) ==
    /\ g <= dials /\ rl[g] = "run" /\ (sock[g] = "down" \/ ctx[g])
    /\ failAll(g)
    /\ rl' = [rl EXCEPT ![g] = "exited"]
    /\ ctx' = [ctx EXCEPT ![g] = TRUE]
    /\ ReadCut(g)
    /\ UNCHANGED <<ccVars, conn, dials, flag, lost, rVars, xVars, cPc, cMux, cCh, late>>

\* readLoop, a frame does not decode (wsConn.ReadFrame): the same, and the
\* socket is left as it is, with nobody reading it.
readLoopGarbled(g) ==
    /\ conn = "ws" /\ g <= dials /\ rl[g] = "run" /\ sock[g] = "up"
    /\ failAll(g)
    /\ rl' = [rl EXCEPT ![g] = "garbled"]
    /\ ctx' = [ctx EXCEPT ![g] = TRUE]
    /\ lost' = lost \cup {g}
    /\ UNCHANGED <<ccVars, conn, dials, sock, flag, rVars, xVars, cPc, cMux, cCh, late>>

-----------------------------------------------------------------------------
(* The reconnect controller.                                               *)

RStep(from, to) == rPc = from /\ rPc' = to

\* The head of run's loop.
runTop ==
    /\ \/ (closed \/ mux = 0) /\ RStep("top", "exit") /\ UNCHANGED rMux
       \/ ~closed /\ mux # 0 /\ RStep("top", "wait") /\ rMux' = mux
    /\ UNCHANGED <<ccVars, muxVars, xVars, cVars>>

runWait ==
    /\ \/ RStep("wait", "drop") /\ ctx[rMux]
       \/ closed /\ RStep("wait", "exit")
    /\ UNCHANGED <<ccVars, muxVars, rMux, xVars, cVars>>

runDrop ==
    /\ \/ closed /\ RStep("drop", "exit") /\ UNCHANGED mux
       \/ ~closed /\ RStep("drop", "redial") /\ mux' = 0
    /\ UNCHANGED <<closed, waitCh, muxVars, rMux, xVars, cVars>>

\* The head of redial's loop.
redial ==
    /\ \/ closed /\ RStep("redial", "exit")
       \/ ~closed /\ RStep("redial", "dial")
    /\ UNCHANGED <<ccVars, muxVars, rMux, xVars, cVars>>

\* A dial that is answered before Close cancels it succeeds, closed or not.
dialOk ==
    /\ dials < MaxDials /\ RStep("dial", "install")
    /\ dials' = dials + 1 /\ rMux' = dials + 1
    /\ UNCHANGED <<ccVars, conn, sock, ctx, flag, rl, lost, xVars, cVars>>

\* Mutant: one failed attempt and the controller gives up.
dialFailStop ==
    /\ RStep("dial", "exit")
    /\ UNCHANGED <<ccVars, muxVars, rMux, xVars, cVars>>

dialFail ==
    /\ RStep("dial", "sleep")
    /\ UNCHANGED <<ccVars, muxVars, rMux, xVars, cVars>>

\* The backoff timer, or closeCh.
backoff ==
    /\ RStep("sleep", "redial") \/ (closed /\ RStep("sleep", "exit"))
    /\ UNCHANGED <<ccVars, muxVars, rMux, xVars, cVars>>

install ==
    /\ ~closed /\ RStep("install", "top")
    /\ mux' = rMux /\ broadcastLocked
    /\ UNCHANGED <<closed, muxVars, rMux, xVars, cVars>>

\* Mutant: a connection that lands after Close is forgotten.
installLeak ==
    /\ closed /\ RStep("install", "exit")
    /\ UNCHANGED <<ccVars, muxVars, rMux, xVars, cVars>>

\* Close came first: the new mux is closed, and nobody has seen it.
installClosed ==
    /\ closed /\ RStep("install", "exit")
    /\ flag' = [flag EXCEPT ![rMux] = TRUE]
    /\ ctx' = [ctx EXCEPT ![rMux] = TRUE]
    /\ sock' = [sock EXCEPT ![rMux] = "down"]
    /\ UNCHANGED <<ccVars, conn, dials, rl, lost, rMux, xVars, cVars>>

run == runTop \/ runWait \/ runDrop \/ redial \/ dialOk \/ dialFail \/ backoff
       \/ install \/ installClosed

-----------------------------------------------------------------------------
(* Close: the critical section, then mux.Close, statement by statement.    *)

Close ==
    /\ ~closed
    /\ closed' = TRUE /\ mux' = 0 /\ broadcastLocked
    /\ xMux' = mux
    /\ xPc' = IF mux # 0 THEN "flag" ELSE "done"
    /\ UNCHANGED <<muxVars, rVars, cVars>>

\* Mutant: mux.Close does not mark the mux as closed.
setClosedFlagNot(g) == UNCHANGED flag

setClosedFlag(g) == flag' = [flag EXCEPT ![g] = TRUE]

closeFlag ==
    /\ xPc = "flag" /\ xPc' = "cancel"
    /\ setClosedFlag(xMux)
    /\ UNCHANGED <<ccVars, conn, dials, sock, ctx, rl, lost, rVars, xMux, cVars>>

closeCancel ==
    /\ xPc = "cancel" /\ xPc' = "sock"
    /\ ctx' = [ctx EXCEPT ![xMux] = TRUE]
    /\ UNCHANGED <<ccVars, conn, dials, sock, flag, rl, lost, rVars, xMux, cVars>>

closeSock ==
    /\ xPc = "sock" /\ xPc' = "done"
    /\ sock' = [sock EXCEPT ![xMux] = "down"]
    /\ UNCHANGED <<ccVars, conn, dials, ctx, flag, rl, lost, rVars, xMux, cVars>>

-----------------------------------------------------------------------------
caller(c) ==
    NewStream(c) \/ WaitWake(c) \/ WaitFail(c) \/ register(c) \/ writeOpen(c)
    \/ writeFail(c) \/ routeEnd(c)

muxStep(g) == sockDrop(g) \/ muxCancel(g) \/ readLoopExit(g) \/ readLoopGarbled(g)

Next ==
    \/ \E c \in Callers : caller(c)
    \/ \E g \in Muxes : muxStep(g)
    \/ run
    \/ Close \/ closeFlag \/ closeCancel \/ closeSock

Spec == Init /\ [][Next]_vars

\* The controller's goroutine runs, and of infinitely many dials one succeeds.
FairSpec == Spec /\ WF_vars(run) /\ SF_vars(dialOk)

-----------------------------------------------------------------------------
(* Properties.                                                             *)

\* Every variable keeps its type: the broadcasts are at most one per install
\* and one for Close, and a caller past waitForMux holds a mux (NewStream).
TypeOK ==
    /\ mux \in 0..dials /\ closed \in BOOLEAN /\ waitCh \in 0..MaxDials
    /\ dials \in Muxes /\ sock \in [Muxes -> {"up", "down"}]
    /\ ctx \in [Muxes -> BOOLEAN] /\ flag \in [Muxes -> BOOLEAN]
    /\ rl \in [Muxes -> {"run", "exited", "garbled"}] /\ lost \subseteq Muxes
    /\ conn \in {"ws", "pipe"} /\ late \subseteq Callers
    /\ rPc \in {"top", "wait", "drop", "redial", "dial", "sleep", "install", "exit"}
    /\ rMux \in 0..dials
    /\ xPc \in {"idle", "flag", "cancel", "sock", "done"} /\ xMux \in 0..dials
    /\ cPc \in [Callers -> {"idle", "waiting", "register", "write", "open", "failed"}]
    /\ \A c \in Callers : cPc[c] \in {"register", "write", "open"} => cMux[c] # 0
    /\ cMux \in [Callers -> 0..dials] /\ cCh \in [Callers -> 0..MaxDials]
    /\ reg \in [Callers -> BOOLEAN]
    /\ st \in [Callers -> {"none", "OK", "Canceled", "Unavailable"}]

\* A caller parked in waitForMux never misses the news: while the channel it
\* captured is still the current one there is neither a mux nor a Close to
\* hear of, although it waits outside cc.mu.
NoMissedWake ==
    \A c \in Callers : cPc[c] = "waiting" /\ cCh[c] = waitCh => mux = 0 /\ ~closed

\* Once Close has returned and the controller has stopped, no connection stays
\* behind: the one Close took and a dial that raced Close are closed, and a
\* socket of an earlier mux that is still up has a read loop about to close it.
\* The one exception: a mux whose read loop met a frame that does not decode
\* was dropped by the controller without a Close (run), and its socket stays.
NoLeak ==
    closed /\ xPc = "done" /\ rPc = "exit" =>
        \A g \in 1..dials :
            sock[g] = "up" => g # xMux /\ ctx[g] /\ rl[g] \in {"run", "garbled"}

\* The status tells a deliberate Close from a lost connection: a stream of a
\* mux that only Close ended reads Canceled, and Canceled is read only after
\* Close (disconnectErr, the order of the statements of mux.Close).
CloseStatus ==
    \A c \in Callers :
        /\ st[c] = "Unavailable" => cMux[c] \in lost
        /\ st[c] = "Canceled" => closed

\* "on connection loss every in-flight stream fails": a stream that NewStream
\* returned has a status once the read loop of its mux is gone.  The connection
\* itself must refuse the OPEN of a stream that enters the map after failAll has
\* emptied it, and only a dead websocket does: over a pipe, and over a websocket
\* left up by a frame that does not decode, such a late stream has no status.
DeadMuxFailsStreams ==
    \A c \in Callers :
        cPc[c] = "open" /\ rl[cMux[c]] # "run" /\ st[c] = "none" =>
            c \in late /\ (conn = "pipe" \/ rl[cMux[c]] = "garbled")

\* While the controller of WithReconnect runs, a dead mux is replaced by a live
\* one, unless the connection is closed or the last mux the bound on dials allows
\* has died as well.
Reconnects ==
    rPc # "exit" /\ mux # 0 /\ ctx[mux] ~>
        closed \/ (mux # 0 /\ ~ctx[mux]) \/ ctx[MaxDials]

-----------------------------------------------------------------------------
(* The inductive invariant behind the safety properties.                   *)

\* One broadcast per install and one for Close; a captured channel is not
\* newer than the current one.
WakeInv ==
    /\ waitCh + (IF rPc = "install" THEN 1 ELSE 0) < dials + (IF closed THEN 1 ELSE 0)
    /\ \A c \in Callers : cCh[c] <= waitCh
    /\ NoMissedWake

\* Who may hold which mux: the controller watches the current one, or none is
\* current while it redials; Close took it away for good.
HolderInv ==
    /\ closed <=> xPc # "idle"
    /\ closed => mux = 0
    /\ rPc \in {"wait", "drop", "install"} => rMux # 0
    /\ rPc \in {"wait", "drop"} /\ ~closed => mux = rMux
    /\ rPc = "drop" => ctx[rMux]
    /\ rPc \in {"redial", "dial", "sleep", "install"} => mux = 0
    /\ xPc \in {"flag", "cancel", "sock"} => xMux # 0
    /\ xPc \in {"cancel", "sock"} => flag[xMux]
    /\ xPc = "sock" => ctx[xMux]
    /\ xPc = "done" /\ xMux # 0 => sock[xMux] = "down"

\* DialConn makes one mux, and only Close takes it away.
PipeInv ==
    conn = "pipe" =>
        rPc = "exit" /\ dials = 1 /\ (IF closed THEN xMux = 1 ELSE mux = 1)

\* A socket that is up and whose mux is not dead has somebody who will close it.
Held(g) ==
    \/ g = mux
    \/ rPc = "install" /\ g = rMux
    \/ xPc \in {"flag", "cancel"} /\ g = xMux

MuxInv ==
    \A g \in Muxes :
        /\ rl[g] # "run" => ctx[g]
        /\ rl[g] = "exited" /\ conn = "ws" => sock[g] = "down"
        /\ flag[g] => closed
        /\ sock[g] = "down" \/ ctx[g] => flag[g] \/ g \in lost
        /\ g <= dials /\ sock[g] = "up" => ctx[g] \/ Held(g)

\* A stream is in the map of its mux from newClientStream on until it has a
\* status or its OPEN could not be written.
StreamInv ==
    \A c \in Callers :
        /\ reg[c] => cPc[c] \in {"write", "open"}
        /\ cPc[c] \in {"write", "open"} /\ ~reg[c] => st[c] # "none"
        /\ st[c] # "none" => cPc[c] \in {"write", "open", "failed"}
        /\ reg[c] /\ rl[cMux[c]] # "run" => c \in late

IInv ==
    /\ TypeOK /\ WakeInv /\ HolderInv /\ PipeInv /\ MuxInv /\ StreamInv
    /\ CloseStatus /\ DeadMuxFailsStreams

=============================================================================
