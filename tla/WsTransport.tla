----------------------------- MODULE WsTransport -----------------------------
(***************************************************************************)
(* The TypeScript client transport (transport.ts) over its muxes (mux.ts): *)
(* the connection phases, pause, resume, retryNow and close, the retry,    *)
(* dial and stable timers, and what becomes of the calls of a mux that     *)
(* opens, drops, fails or is closed.  The event loop runs one handler at a *)
(* time, so each handler is one action, its state listeners aside.         *)
(*                                                                         *)
(* A mux is the number of the dial that made it; 0 is undefined.           *)
(***************************************************************************)
EXTENDS Naturals

CONSTANTS
    Calls,      \* RPCs, opened at any time
    MaxDials    \* bound on the sockets created

ASSUME TransportAssumption == MaxDials \in Nat \ {0}

Muxes == 1..MaxDials

\* Constructor options: reconnect; dialTimeoutMs > 0; stableMs > 0; owned is
\* false for fromSocket, which never dials; live when the sockets handed over,
\* by the caller of fromSocket or by createSocket, are open already.
Options == {o \in [reconnect: BOOLEAN, dialTimeout: BOOLEAN, stable: BOOLEAN, owned: BOOLEAN,
                   live: BOOLEAN] :
                o.owned \/ ~(o.reconnect \/ o.dialTimeout)}

Defunct == {"closed", "dead"}

VARIABLES
    opts,       \* the options, fixed
    \* WsTransport.
    phase,      \* "connecting", "connected", "waiting", "paused", "disconnected", "closed"
    paused, closed,
    mux,        \* the current mux
    attempt,    \* consecutive failed attempts, for the backoff
    retryTimer, \* armed
    dialTimer,  \* the mux it would abort, 0 when not armed
    stableTimer,
    \* Per mux.
    dials,      \* muxes made so far
    m,          \* "pending" (not yet open), "open", "closed", "dead"
    lifecycle,  \* the owner's hooks are still set
    sock,       \* the socket: "handshake", "open", "closing" (close() called), "gone"
    \* Per call.
    cMux, cSt   \* its mux; "idle", "open", "ended", "failed"

timers == <<retryTimer, dialTimer, stableTimer>>
muxVars == <<dials, m, lifecycle, sock>>
callVars == <<cMux, cSt>>
vars == <<opts, phase, paused, closed, mux, attempt, timers, muxVars, callVars>>

-----------------------------------------------------------------------------
(* Dialing.                                                                *)

\* Mutant: a hung handshake has no timeout.
dialTimeoutNone(g) == 0

dialTimeoutOf(g) == IF opts.dialTimeout THEN g ELSE 0

\* The sockets the Mux constructor may be given: in the handshake, or open with
\* the right or another subprotocol.
Handed == IF opts.live THEN {"open", "wrong"} ELSE {"handshake"}

\* What the Mux constructor makes of each.  validateProtocol fails the mux of an
\* open socket with another subprotocol, before it has an owner to tell.
Born(k) == CASE k = "handshake" -> "pending" [] k = "open" -> "open" [] k = "wrong" -> "closed"

BornSocket(k) == IF k = "wrong" THEN "closing" ELSE k

\* onOpen, with n the attempts counted so far.
onOpen(n) ==
    /\ phase' = "connected" /\ dialTimer' = 0
    /\ attempt' = (IF opts.stable THEN n ELSE 0)
    /\ stableTimer' = opts.stable

\* The end of attach, and the dial timeout: an open socket is live at once.
attached(g, k, n) ==
    \/ k = "open" /\ onOpen(n)
    \/ /\ k # "open"
       /\ phase' = "connecting" /\ dialTimer' = dialTimeoutOf(g)
       /\ attempt' = n /\ UNCHANGED stableTimer

\* Mutant: the transport keeps its old mux.
dialStale(n) ==
    /\ dials < MaxDials
    /\ dials' = dials + 1 /\ UNCHANGED <<mux, m, sock, lifecycle>>
    /\ retryTimer' = FALSE
    /\ attached(dials + 1, "handshake", n)

\* dial: a fresh socket, its mux, and attach, which sets the hooks.
dial(n) ==
    /\ dials < MaxDials
    /\ dials' = dials + 1 /\ mux' = dials + 1
    /\ retryTimer' = FALSE
    /\ \E k \in Handed :
          /\ m' = [m EXCEPT ![dials + 1] = Born(k)]
          /\ sock' = [sock EXCEPT ![dials + 1] = BornSocket(k)]
          /\ attached(dials + 1, k, n)
    /\ UNCHANGED lifecycle

\* The constructor: it dials, wraps a socket, or starts paused.
Init ==
    /\ opts \in Options
    /\ closed = FALSE /\ attempt = 0 /\ retryTimer = FALSE
    /\ lifecycle = [g \in Muxes |-> TRUE]
    /\ cMux = [c \in Calls |-> 0] /\ cSt = [c \in Calls |-> "idle"]
    /\ \/ \E k \in Handed :
             /\ paused = FALSE /\ mux = 1 /\ dials = 1
             /\ m = [g \in Muxes |-> IF g = 1 THEN Born(k) ELSE "pending"]
             /\ sock = [g \in Muxes |-> IF g = 1 THEN BornSocket(k) ELSE "handshake"]
             /\ phase = (IF k = "open" THEN "connected" ELSE "connecting")
             /\ dialTimer = (IF k = "open" THEN 0 ELSE dialTimeoutOf(1))
             /\ stableTimer = (k = "open" /\ opts.stable)
       \/ /\ opts.owned
          /\ m = [g \in Muxes |-> "pending"] /\ sock = [g \in Muxes |-> "handshake"]
          /\ phase = "paused" /\ paused = TRUE /\ mux = 0 /\ dials = 0
          /\ dialTimer = 0 /\ stableTimer = FALSE

\* afterDrop's choice of "paused" over a redial.
park == paused

\* Mutant: a connection that opened, however briefly, starts the backoff over.
failedAttemptFresh == IF stableTimer THEN 1 ELSE attempt + 1

failedAttempt == attempt + 1

afterDrop(redial) ==
    /\ dialTimer' = 0 /\ stableTimer' = FALSE
    /\ LET again == redial /\ opts.reconnect
       IN  /\ retryTimer' = (retryTimer \/ (again /\ ~park))
           /\ attempt' = IF again /\ ~park THEN failedAttempt ELSE attempt
           /\ phase' = IF ~again THEN "disconnected"
                       ELSE IF park THEN "paused" ELSE "waiting"

-----------------------------------------------------------------------------
(* The mux.                                                                *)

\* Mutant: the streams of a mux that is gone stay registered.
failAllNone(g) == UNCHANGED cSt

failAll(g) ==
    cSt' = [c \in Calls |-> IF cMux[c] = g /\ cSt[c] = "open" THEN "failed" ELSE cSt[c]]

\* The mux reaches its terminal state and its streams fail.
markDefunct(g, how) ==
    /\ m' = [m EXCEPT ![g] = how]
    /\ lifecycle' = [lifecycle EXCEPT ![g] = FALSE]
    /\ failAll(g)
    /\ UNCHANGED <<dials, cMux>>

\* Mutant: close leaves the socket to itself.
wsCloseNot(g) == UNCHANGED sock

wsClose(g) == sock' = [sock EXCEPT ![g] = IF @ = "gone" THEN @ ELSE "closing"]

\* Mux.close: the owner is not notified.
muxClose(g) ==
    \/ m[g] # "closed" /\ markDefunct(g, "closed") /\ wsClose(g)
    \/ m[g] = "closed" /\ UNCHANGED <<muxVars, callVars>>

\* The drop hook of attach.
notifyDrop(g, redial) ==
    \/ g = mux /\ lifecycle[g] /\ afterDrop(redial)
    \/ ~(g = mux /\ lifecycle[g]) /\ UNCHANGED <<phase, attempt, timers>>

ignoreOpen(g) == m[g] \in Defunct

\* The socket opens with the right subprotocol; an open event may still be due
\* when the mux has been closed.
onopen(g) ==
    /\ g <= dials /\ sock[g] \in {"handshake", "closing"}
    /\ ~ignoreOpen(g)
    /\ sock' = [sock EXCEPT ![g] = "open"]
    /\ m' = [m EXCEPT ![g] = "open"]
    /\ \/ g = mux /\ lifecycle[g] /\ onOpen(attempt)
       \/ ~(g = mux /\ lifecycle[g]) /\ UNCHANGED <<phase, attempt, dialTimer, stableTimer>>
    /\ UNCHANGED <<opts, paused, closed, mux, retryTimer, dials, lifecycle, callVars>>

\* onclose or onerror: the socket is lost.
onTransportDrop(g) ==
    /\ g <= dials /\ sock[g] # "gone"
    /\ sock' = [sock EXCEPT ![g] = "gone"]
    /\ \/ m[g] \notin Defunct /\ markDefunct(g, "dead") /\ notifyDrop(g, TRUE)
       \/ m[g] \in Defunct /\ UNCHANGED <<phase, attempt, timers, dials, m, lifecycle, callVars>>
    /\ UNCHANGED <<opts, paused, closed, mux>>

\* A permanent failure: another subprotocol on open, a pre-open buffer that
\* overflows, or an inbound frame that is too large.
fail(g) ==
    /\ g <= dials /\ m[g] \notin Defunct /\ sock[g] # "gone"
    /\ markDefunct(g, "closed") /\ wsClose(g)
    /\ notifyDrop(g, FALSE)
    /\ UNCHANGED <<opts, paused, closed, mux>>

-----------------------------------------------------------------------------
(* The transport's methods and timers.                                     *)

\* Mutant: pause forgets the scheduled redial.
clearRetryNot == UNCHANGED retryTimer

clearRetry == retryTimer' = FALSE

pause ==
    /\ ~closed /\ opts.owned /\ ~paused
    /\ paused' = TRUE
    /\ clearRetry
    /\ phase' = IF phase \in {"waiting", "connecting"} THEN "paused" ELSE phase
    /\ \/ phase = "connecting" /\ dialTimer' = 0 /\ muxClose(mux)
       \/ phase # "connecting" /\ UNCHANGED <<dialTimer, muxVars, callVars>>
    /\ UNCHANGED <<opts, closed, mux, attempt, stableTimer>>

resume ==
    /\ ~closed /\ paused
    /\ paused' = FALSE
    /\ \/ phase = "paused" /\ dial(0)
       \/ phase # "paused" /\ attempt' = 0 /\ UNCHANGED <<phase, mux, timers, muxVars>>
    /\ UNCHANGED <<opts, closed, callVars>>

retryNow ==
    /\ ~closed /\ ~paused /\ opts.owned /\ phase \in {"waiting", "disconnected"}
    /\ dial(attempt)
    /\ UNCHANGED <<opts, paused, closed, callVars>>

retryFire ==
    /\ retryTimer
    /\ dial(attempt)
    /\ UNCHANGED <<opts, paused, closed, callVars>>

dialFire ==
    /\ dialTimer # 0
    /\ muxClose(dialTimer)
    /\ afterDrop(TRUE)
    /\ UNCHANGED <<opts, paused, closed, mux>>

stableFire ==
    /\ stableTimer
    /\ stableTimer' = FALSE /\ attempt' = 0
    /\ UNCHANGED <<opts, phase, paused, closed, mux, retryTimer, dialTimer, muxVars, callVars>>

close ==
    /\ ~closed
    /\ closed' = TRUE /\ phase' = "closed"
    /\ retryTimer' = FALSE /\ dialTimer' = 0 /\ stableTimer' = FALSE
    /\ \/ mux # 0 /\ muxClose(mux)
       \/ mux = 0 /\ UNCHANGED <<muxVars, callVars>>
    /\ UNCHANGED <<opts, paused, mux, attempt>>

\* With no mux, or a defunct one, the stream fails at birth.
openStream(c) ==
    /\ cSt[c] = "idle"
    /\ \/ /\ mux = 0
          /\ cSt' = [cSt EXCEPT ![c] = "failed"] /\ UNCHANGED cMux
       \/ /\ mux # 0 /\ cMux' = [cMux EXCEPT ![c] = mux]
          /\ cSt' = [cSt EXCEPT ![c] = IF m[mux] \in Defunct THEN "failed" ELSE "open"]
    /\ UNCHANGED <<opts, phase, paused, closed, mux, attempt, timers, muxVars>>

\* END or RST from the server, cancel, abort or a deadline.
endCall(c) ==
    /\ cSt[c] = "open"
    /\ cSt' = [cSt EXCEPT ![c] = "ended"]
    /\ UNCHANGED <<opts, phase, paused, closed, mux, attempt, timers, muxVars, cMux>>

Next ==
    \/ pause \/ resume \/ retryNow \/ close
    \/ retryFire \/ dialFire \/ stableFire
    \/ \E g \in Muxes : onopen(g) \/ onTransportDrop(g) \/ fail(g)
    \/ \E c \in Calls : openStream(c) \/ endCall(c)

Spec == Init /\ [][Next]_vars

\* An armed timer fires.
FairSpec == Spec /\ WF_vars(retryFire) /\ WF_vars(dialFire) /\ WF_vars(stableFire)

-----------------------------------------------------------------------------
(* Properties.                                                             *)

\* Every variable keeps its type, and the current mux is the last one dialed
\* (attach).
TypeOK ==
    /\ opts \in Options
    /\ phase \in {"connecting", "connected", "waiting", "paused", "disconnected", "closed"}
    /\ paused \in BOOLEAN /\ closed \in BOOLEAN
    /\ dials \in 0..MaxDials /\ mux = dials
    /\ attempt \in 0..MaxDials
    /\ retryTimer \in BOOLEAN /\ dialTimer \in 0..dials /\ stableTimer \in BOOLEAN
    /\ m \in [Muxes -> {"pending", "open"} \cup Defunct]
    /\ lifecycle \in [Muxes -> BOOLEAN]
    /\ sock \in [Muxes -> {"handshake", "open", "closing", "gone"}]
    /\ cMux \in [Calls -> 0..dials] /\ cSt \in [Calls -> {"idle", "open", "ended", "failed"}]

\* A mux that failed in its constructor: attach set its hooks afterwards, and
\* they never fire.
Stillborn(g) == m[g] = "closed" /\ lifecycle[g]

\* The phase an application sees is the truth, through every order of open,
\* drop, pause and timer: about the current mux; about the timers, each armed
\* only in the phase it belongs to, a dial timeout for the current mux alone, so
\* that no stale timer survives pause, a drop, a redial or close; and about
\* pause, under which no handshake and no redial is under way.  One phase is not
\* what it says: an open socket with another subprotocol is closed before the
\* transport can be told, and reads connecting.
PhaseTruth ==
    /\ phase = "connected" <=> mux # 0 /\ m[mux] = "open"
    /\ phase = "connecting" => mux # 0 /\ (m[mux] = "pending" \/ Stillborn(mux))
    /\ mux # 0 /\ m[mux] = "pending" => phase = "connecting"
    /\ retryTimer <=> phase = "waiting"
    /\ dialTimer # 0 => phase = "connecting" /\ dialTimer = mux
    /\ stableTimer => phase = "connected"
    /\ paused => phase \notin {"connecting", "waiting"}

\* At most one connection lives: a mux that has been replaced is defunct, and
\* a defunct mux has let go of its socket.
OneSocket ==
    \A g \in 1..dials :
        /\ g # mux => m[g] \in Defunct
        /\ m[g] \in Defunct => sock[g] \in {"closing", "gone"}

\* "A dead transport is observable": no call is left open on a mux that is
\* gone, whether it was opened before, between or after the loss.
NoCallOnDeadMux ==
    \A c \in Calls : cSt[c] = "open" => m[cMux[c]] \notin Defunct

\* The attempt counter falls only by resume, or by the stable timer firing on a
\* connection that is still open after stableMs: a peer that accepts and drops
\* does not reset the backoff, neither when it accepts nor when it drops.
BackoffKept ==
    [][opts.stable /\ attempt' < attempt =>
          \/ paused /\ ~paused'
          \/ stableTimer /\ ~stableTimer' /\ phase = "connected" /\ phase' = "connected"]_vars

\* A gap is not for ever: a handshake that hangs is decided by the dial
\* timeout, and a scheduled redial happens.
GapEnds ==
    /\ opts.dialTimeout /\ phase = "connecting" ~> phase # "connecting"
    /\ phase = "waiting" ~> phase # "waiting" \/ dials = MaxDials

-----------------------------------------------------------------------------
(* The inductive invariant behind the safety properties.                   *)

\* A dial whose outcome the transport has not been told.
Undecided == phase \in {"connecting", "connected"}

\* A mux has its hooks until it is defunct, and is fresh until it is dialed;
\* each failed attempt has used up a dial, and one whose outcome is not known is
\* not among them; closed is a phase for good; an open call has a mux.
MuxInv ==
    /\ \A g \in Muxes : m[g] \notin Defunct => lifecycle[g]
    /\ \A g \in Muxes : g > dials => m[g] = "pending" /\ lifecycle[g]
    /\ attempt + (IF Undecided THEN 1 ELSE 0) <= dials
    /\ closed <=> phase = "closed"
    /\ \A c \in Calls : cSt[c] = "open" => cMux[c] # 0

IInv == TypeOK /\ MuxInv /\ PhaseTruth /\ OneSocket /\ NoCallOnDeadMux

=============================================================================
