--------------------------- MODULE TransportProofs ---------------------------
(***************************************************************************)
(* WsTransport: its safety properties for any number of calls and dials,   *)
(* and every combination of options.                                       *)
(***************************************************************************)
EXTENDS WsTransport, TLAPS

USE TransportAssumption DEF timers, muxVars, callVars, Muxes, Defunct

-----------------------------------------------------------------------------
(* What the shared steps do, by themselves.                                *)

LEMMA OneMore ==
  ASSUME NEW a \in Nat, NEW d \in Nat, a <= d
  PROVE  a + 1 <= d + 1 /\ a + 0 <= d + 1
OBVIOUS

LEMMA OptionTypes ==
  ASSUME opts \in Options
  PROVE  /\ opts.reconnect \in BOOLEAN /\ opts.dialTimeout \in BOOLEAN
         /\ opts.stable \in BOOLEAN /\ opts.owned \in BOOLEAN /\ opts.live \in BOOLEAN
BY DEF Options

\* A mux that reaches its terminal state loses its hooks and its open calls; the
\* other muxes and calls keep theirs.
LEMMA Defuncts ==
  ASSUME TypeOK, NEW g \in Muxes, NEW how \in Defunct, markDefunct(g, how)
  PROVE  /\ m' \in [Muxes -> {"pending", "open"} \cup Defunct] /\ m'[g] = how
         /\ \A x \in Muxes \ {g} : m'[x] = m[x] /\ lifecycle'[x] = lifecycle[x]
         /\ lifecycle' \in [Muxes -> BOOLEAN] /\ lifecycle'[g] = FALSE
         /\ cSt' \in [Calls -> {"idle", "open", "ended", "failed"}]
         /\ \A c \in Calls : cSt'[c] = "open" <=> cSt[c] = "open" /\ cMux[c] # g
         /\ UNCHANGED <<dials, cMux>>
BY DEF TypeOK, markDefunct, failAll

\* close() of a socket leaves it closing, or gone.
LEMMA ClosesSocket ==
  ASSUME TypeOK, NEW g \in Muxes, wsClose(g)
  PROVE  /\ sock' \in [Muxes -> {"handshake", "open", "closing", "gone"}]
         /\ sock'[g] \in {"closing", "gone"}
         /\ \A x \in Muxes \ {g} : sock'[x] = sock[x]
BY DEF TypeOK, wsClose

\* A mux that lives is closed with its socket.
LEMMA ClosesMux ==
  ASSUME TypeOK, NEW g \in Muxes, m[g] \notin Defunct, muxClose(g)
  PROVE  markDefunct(g, "closed") /\ wsClose(g)
BY DEF muxClose

\* afterDrop on a transport without a scheduled redial: what it leaves armed
\* and counted.
LEMMA AfterDrop ==
  ASSUME TypeOK, ~retryTimer, NEW redial \in BOOLEAN, afterDrop(redial)
  PROVE  /\ dialTimer' = 0 /\ stableTimer' = FALSE
         /\ phase' \in {"disconnected", "paused", "waiting"}
         /\ retryTimer' \in BOOLEAN /\ (retryTimer' <=> phase' = "waiting")
         /\ attempt' \in {attempt, attempt + 1}
         /\ phase' = "waiting" => ~paused
BY OptionTypes DEF TypeOK, afterDrop, park, failedAttempt

\* What the Mux constructor and attach make of the socket they are given.
LEMMA Attached ==
  ASSUME TypeOK, NEW g \in Muxes, NEW n \in Nat, NEW k \in Handed, attached(g, k, n)
  PROVE  /\ Born(k) \in {"pending", "open", "closed"}
         /\ BornSocket(k) \in {"handshake", "open", "closing"}
         /\ Born(k) = "closed" => BornSocket(k) = "closing"
         /\ phase' \in {"connecting", "connected"} /\ (phase' = "connected" <=> Born(k) = "open")
         /\ dialTimer' \in {0, g} /\ (phase' = "connected" => dialTimer' = 0)
         /\ attempt' \in {0, n}
         /\ phase' = "connected" => stableTimer' = opts.stable
         /\ phase' = "connecting" => stableTimer' = stableTimer
<1>1. k \in {"handshake", "open", "wrong"}
  BY DEF Handed
<1>2. CASE k = "open"
  BY <1>2, OptionTypes DEF TypeOK, attached, onOpen, Born, BornSocket
<1>3. CASE k \in {"handshake", "wrong"}
  BY <1>3, OptionTypes DEF TypeOK, attached, dialTimeoutOf, Born, BornSocket
<1> QED
  BY <1>1, <1>2, <1>3

-----------------------------------------------------------------------------
(* Each step preserves the invariant.                                      *)

LEMMA InvInit == Init => IInv
<1> SUFFICES ASSUME Init PROVE IInv
  OBVIOUS
<1>1. /\ opts \in Options /\ closed = FALSE /\ attempt = 0 /\ retryTimer = FALSE
      /\ lifecycle = [g \in Muxes |-> TRUE]
      /\ cMux = [c \in Calls |-> 0] /\ cSt = [c \in Calls |-> "idle"]
  BY DEF Init
<1>2. CASE dials = 1
  <2>1. PICK k \in Handed :
          /\ paused = FALSE /\ mux = 1
          /\ m = [g \in Muxes |-> IF g = 1 THEN Born(k) ELSE "pending"]
          /\ sock = [g \in Muxes |-> IF g = 1 THEN BornSocket(k) ELSE "handshake"]
          /\ phase = (IF k = "open" THEN "connected" ELSE "connecting")
          /\ dialTimer = (IF k = "open" THEN 0 ELSE dialTimeoutOf(1))
          /\ stableTimer = (k = "open" /\ opts.stable)
    BY <1>2 DEF Init
  <2>2. /\ k \in {"handshake", "open", "wrong"}
        /\ Born(k) \in {"pending", "open", "closed"} /\ (Born(k) = "open" <=> k = "open")
        /\ BornSocket(k) \in {"handshake", "open", "closing"}
        /\ Born(k) = "closed" => BornSocket(k) = "closing"
    BY DEF Handed, Born, BornSocket
  <2>3. dialTimer \in {0, 1} /\ stableTimer \in BOOLEAN /\ (k = "open" => dialTimer = 0)
    BY <1>1, <2>1, OptionTypes DEF dialTimeoutOf
  <2>4. TypeOK
    <3>1. m \in [Muxes -> {"pending", "open"} \cup Defunct]
      BY <2>1, <2>2
    <3>2. sock \in [Muxes -> {"handshake", "open", "closing", "gone"}]
      BY <2>1, <2>2
    <3>3. /\ cMux \in [Calls -> 0..dials] /\ cSt \in [Calls -> {"idle", "open", "ended", "failed"}]
          /\ lifecycle \in [Muxes -> BOOLEAN]
      BY <1>1, <1>2
    <3>4. dials \in 0..MaxDials /\ attempt \in 0..MaxDials /\ dialTimer \in 0..dials
      BY <1>1, <1>2, <2>3
    <3> QED
      BY <1>1, <1>2, <2>1, <2>3, <3>1, <3>2, <3>3, <3>4 DEF TypeOK
  <2>5. 1 \in Muxes /\ m[1] = Born(k) /\ lifecycle[1]
    BY <1>1, <2>1
  <2>6. MuxInv
    BY <1>1, <1>2, <2>1, <2>2 DEF MuxInv, Undecided
  <2>7. PhaseTruth
    <3>1. CASE k = "open"
      <4>1. phase = "connected" /\ dialTimer = 0 /\ m[mux] = "open" /\ mux # 0 /\ ~paused
        BY <2>1, <2>2, <2>5, <3>1
      <4> QED
        BY <1>1, <4>1 DEF PhaseTruth
    <3>2. CASE k # "open"
      <4>1. phase = "connecting" /\ mux # 0 /\ ~paused /\ (dialTimer # 0 => dialTimer = mux)
        BY <2>1, <2>3, <3>2
      <4>3. ~stableTimer
        BY <2>1, <3>2, Zenon
      <4>2. m[mux] # "open" /\ (m[mux] = "pending" \/ Stillborn(mux))
        BY <2>1, <2>2, <2>5, <3>2 DEF Stillborn
      <4> QED
        BY <1>1, <4>1, <4>2, <4>3 DEF PhaseTruth
    <3> QED
      BY <3>1, <3>2
  <2>8. OneSocket /\ NoCallOnDeadMux
    BY <1>1, <1>2, <2>1, <2>2 DEF OneSocket, NoCallOnDeadMux
  <2> QED
    BY <2>4, <2>6, <2>7, <2>8 DEF IInv
<1>3. CASE dials = 0
  <2>1. /\ m = [g \in Muxes |-> "pending"] /\ sock = [g \in Muxes |-> "handshake"]
        /\ phase = "paused" /\ paused = TRUE /\ mux = 0
        /\ dialTimer = 0 /\ stableTimer = FALSE
    BY <1>3 DEF Init
  <2>2. TypeOK
    <3>1. m \in [Muxes -> {"pending", "open"} \cup Defunct]
      BY <2>1
    <3>2. sock \in [Muxes -> {"handshake", "open", "closing", "gone"}]
      BY <2>1
    <3>3. /\ cMux \in [Calls -> 0..dials] /\ cSt \in [Calls -> {"idle", "open", "ended", "failed"}]
          /\ lifecycle \in [Muxes -> BOOLEAN]
      BY <1>1, <1>3
    <3>4. dials \in 0..MaxDials /\ attempt \in 0..MaxDials /\ dialTimer \in 0..dials
      BY <1>1, <1>3, <2>1
    <3> QED
      BY <1>1, <1>3, <2>1, <3>1, <3>2, <3>3, <3>4 DEF TypeOK
  <2>3. MuxInv /\ PhaseTruth
    BY <1>1, <1>3, <2>1 DEF MuxInv, Undecided, PhaseTruth
  <2>4. OneSocket /\ NoCallOnDeadMux
    BY <1>1, <1>3, <2>1 DEF OneSocket, NoCallOnDeadMux
  <2> QED
    BY <2>2, <2>3, <2>4 DEF IInv
<1> QED
  BY <1>2, <1>3 DEF Init

\* A fresh mux takes the place of one that is gone.
LEMMA Dials ==
  ASSUME IInv, NEW n \in {0, attempt}, dial(n), ~closed, ~Undecided,
         paused' = FALSE, UNCHANGED <<opts, closed, callVars>>
  PROVE  IInv'
<1> USE DEF IInv
<1>1. /\ dials' = dials + 1 /\ dials' \in Muxes /\ mux' = dials'
      /\ retryTimer' = FALSE /\ UNCHANGED lifecycle
  BY DEF dial, TypeOK
<1>2. n \in Nat /\ n <= dials /\ dials \in Nat
  BY DEF TypeOK, MuxInv, Undecided
<1>3. PICK k \in Handed :
        /\ m' = [m EXCEPT ![dials'] = Born(k)] /\ sock' = [sock EXCEPT ![dials'] = BornSocket(k)]
        /\ attached(dials', k, n)
  BY <1>1 DEF dial
<1>4. /\ Born(k) \in {"pending", "open", "closed"}
      /\ BornSocket(k) \in {"handshake", "open", "closing"}
      /\ Born(k) = "closed" => BornSocket(k) = "closing"
      /\ phase' \in {"connecting", "connected"} /\ (phase' = "connected" <=> Born(k) = "open")
      /\ dialTimer' \in {0, dials'} /\ (phase' = "connected" => dialTimer' = 0)
      /\ attempt' \in {0, n}
      /\ phase' = "connected" => stableTimer' = opts.stable
      /\ phase' = "connecting" => stableTimer' = stableTimer
  BY <1>1, <1>2, <1>3, Attached
<1>5. /\ m'[dials'] = Born(k) /\ sock'[dials'] = BornSocket(k)
      /\ \A g \in Muxes \ {dials'} : m'[g] = m[g] /\ sock'[g] = sock[g]
  BY <1>1, <1>3 DEF TypeOK
<1>6. ~stableTimer /\ stableTimer' \in BOOLEAN /\ (stableTimer' => phase' = "connected")
  BY <1>4, OptionTypes DEF TypeOK, PhaseTruth, Undecided
<1>7. attempt' \in Nat /\ attempt' <= dials
  BY <1>2, <1>4
<1>8. TypeOK'
  <2>1. attempt' \in 0..MaxDials /\ dialTimer' \in 0..dials' /\ dials' \in 0..MaxDials
    BY <1>1, <1>2, <1>4, <1>7
  <2>2. cMux' \in [Calls -> 0..dials']
    BY <1>1, <1>2 DEF TypeOK
  <2>3. m' \in [Muxes -> {"pending", "open"} \cup Defunct]
    BY <1>1, <1>3, <1>4 DEF TypeOK
  <2>4. sock' \in [Muxes -> {"handshake", "open", "closing", "gone"}]
    BY <1>1, <1>3, <1>4 DEF TypeOK
  <2> QED
    BY <1>1, <1>4, <1>6, <2>1, <2>2, <2>3, <2>4 DEF TypeOK
<1>9. MuxInv'
  <2>1. attempt' + 1 <= dials'
    BY <1>1, <1>2, <1>7, OneMore
  <2>2. attempt' + (IF Undecided' THEN 1 ELSE 0) <= dials'
    BY <1>4, <2>1 DEF Undecided
  <2>3. closed' <=> phase' = "closed"
    BY <1>4
  <2>4. \A g \in Muxes : m'[g] \notin Defunct => lifecycle'[g]
    BY <1>1, <1>2, <1>5 DEF TypeOK, MuxInv
  <2>5. \A g \in Muxes : g > dials' => m'[g] = "pending" /\ lifecycle'[g]
    BY <1>1, <1>2, <1>5 DEF TypeOK, MuxInv
  <2>6. \A c \in Calls : cSt'[c] = "open" => cMux'[c] # 0
    BY DEF MuxInv
  <2> QED
    BY <2>2, <2>3, <2>4, <2>5, <2>6 DEF MuxInv
<1>10. PhaseTruth'
  <2>1. lifecycle'[mux'] /\ mux' # 0 /\ m'[mux'] = Born(k)
    BY <1>1, <1>2, <1>5 DEF MuxInv
  <2> QED
    BY <1>1, <1>4, <1>6, <2>1 DEF PhaseTruth, Stillborn
<1>11. \A g \in 1..dials : m[g] \in Defunct
  BY DEF TypeOK, OneSocket, PhaseTruth, Undecided
<1>12. OneSocket'
  <2> SUFFICES ASSUME NEW g \in 1..dials'
               PROVE  /\ g # mux' => m'[g] \in Defunct
                      /\ m'[g] \in Defunct => sock'[g] \in {"closing", "gone"}
    BY DEF OneSocket
  <2>1. CASE g = dials'
    BY <1>1, <1>4, <1>5, <2>1
  <2>2. CASE g # dials'
    <3>1. g \in 1..dials /\ g \in Muxes \ {dials'}
      BY <1>1, <1>2, <2>2 DEF TypeOK
    <3> QED
      BY <1>5, <1>11, <3>1 DEF OneSocket
  <2> QED
    BY <2>1, <2>2
<1>13. NoCallOnDeadMux'
  BY <1>11 DEF TypeOK, MuxInv, NoCallOnDeadMux
<1> QED
  BY <1>8, <1>9, <1>10, <1>12, <1>13

\* The current mux is gone for good, whoever closed it, and with it its socket,
\* its hooks and its calls.
LEMMA LosesCurrent ==
  ASSUME IInv, mux # 0, m[mux] \notin Defunct,
         NEW how \in Defunct, markDefunct(mux, how),
         sock' \in [Muxes -> {"handshake", "open", "closing", "gone"}],
         sock'[mux] \in {"closing", "gone"},
         \A x \in Muxes \ {mux} : sock'[x] = sock[x],
         UNCHANGED <<opts, mux>>,
         paused' \in BOOLEAN, closed' \in BOOLEAN, closed' <=> phase' = "closed",
         attempt' \in {attempt, attempt + 1},
         phase' \in {"waiting", "paused", "disconnected", "closed"},
         retryTimer' \in BOOLEAN, retryTimer' <=> phase' = "waiting",
         dialTimer' = 0, stableTimer' = FALSE, paused' => phase' # "waiting"
  PROVE  IInv'
<1> USE DEF IInv
<1>1. mux \in Muxes /\ mux = dials
  BY DEF TypeOK
<1>2. /\ m' \in [Muxes -> {"pending", "open"} \cup Defunct] /\ m'[mux] = how
      /\ \A x \in Muxes \ {mux} : m'[x] = m[x] /\ lifecycle'[x] = lifecycle[x]
      /\ lifecycle' \in [Muxes -> BOOLEAN] /\ lifecycle'[mux] = FALSE
      /\ cSt' \in [Calls -> {"idle", "open", "ended", "failed"}]
      /\ \A c \in Calls : cSt'[c] = "open" <=> cSt[c] = "open" /\ cMux[c] # mux
      /\ UNCHANGED <<dials, cMux>>
  BY <1>1, Defuncts
<1>3. attempt + 1 <= dials /\ attempt' \in Nat /\ attempt' <= dials
  BY DEF TypeOK, MuxInv, PhaseTruth, Undecided
<1>4. TypeOK'
  <2>1. attempt' \in 0..MaxDials /\ dialTimer' \in 0..dials'
    BY <1>1, <1>2, <1>3
  <2> QED
    BY <1>1, <1>2, <2>1 DEF TypeOK
<1>5. MuxInv'
  <2>1. attempt' + (IF Undecided' THEN 1 ELSE 0) <= dials'
    <3>1. ~Undecided'
      BY DEF Undecided
    <3>2. attempt' + 0 <= dials'
      BY <1>2, <1>3
    <3> QED
      BY <3>1, <3>2
  <2>2. \A g \in Muxes : m'[g] \notin Defunct => lifecycle'[g]
    BY <1>1, <1>2 DEF TypeOK, MuxInv
  <2>3. \A g \in Muxes : g > dials' => m'[g] = "pending" /\ lifecycle'[g]
    BY <1>1, <1>2 DEF TypeOK, MuxInv
  <2>4. \A c \in Calls : cSt'[c] = "open" => cMux'[c] # 0
    BY <1>2 DEF MuxInv
  <2> QED
    BY <2>1, <2>2, <2>3, <2>4 DEF MuxInv
<1>6. PhaseTruth'
  BY <1>1, <1>2 DEF TypeOK, PhaseTruth
<1>7. OneSocket'
  BY <1>1, <1>2 DEF TypeOK, OneSocket
<1>8. NoCallOnDeadMux'
  BY <1>1, <1>2 DEF TypeOK, MuxInv, NoCallOnDeadMux
<1> QED
  BY <1>4, <1>5, <1>6, <1>7, <1>8

\* The transport gives up on a mux that failed in its constructor: there is
\* nothing left of it to close.
LEMMA LeavesStillborn ==
  ASSUME IInv, mux # 0, Stillborn(mux), phase = "connecting",
         UNCHANGED <<opts, mux, muxVars, callVars>>,
         paused' \in BOOLEAN, closed' \in BOOLEAN, closed' <=> phase' = "closed",
         attempt' \in {attempt, attempt + 1},
         phase' \in {"waiting", "paused", "disconnected", "closed"},
         retryTimer' \in BOOLEAN, retryTimer' <=> phase' = "waiting",
         dialTimer' = 0, stableTimer' = FALSE, paused' => phase' # "waiting"
  PROVE  IInv'
<1> USE DEF IInv
<1>1. attempt + 1 <= dials /\ attempt' \in Nat /\ attempt' <= dials /\ dials <= MaxDials
  BY DEF TypeOK, MuxInv, Undecided
<1>2. TypeOK'
  <2>1. attempt' \in 0..MaxDials /\ dialTimer' \in 0..dials'
    BY <1>1 DEF TypeOK
  <2> QED
    BY <2>1 DEF TypeOK
<1>3. MuxInv'
  <2>1. ~Undecided' /\ attempt' + 0 <= dials'
    BY <1>1 DEF Undecided
  <2> QED
    BY <2>1 DEF MuxInv
<1>4. PhaseTruth'
  BY DEF PhaseTruth, Stillborn
<1>5. OneSocket' /\ NoCallOnDeadMux'
  BY DEF OneSocket, NoCallOnDeadMux
<1> QED
  BY <1>2, <1>3, <1>4, <1>5

LEMMA Pauses == ASSUME IInv, pause PROVE IInv'
<1> USE DEF IInv
<1>3. CASE phase = "connecting" /\ m[mux] \in Defunct
  <2>1. mux # 0 /\ Stillborn(mux) /\ m[mux] = "closed" /\ ~stableTimer
    BY <1>3 DEF TypeOK, PhaseTruth, Stillborn
  <2>2. /\ UNCHANGED <<opts, mux, attempt, closed, stableTimer>> /\ paused' = TRUE /\ ~closed
        /\ phase' = "paused" /\ retryTimer' = FALSE /\ dialTimer' = 0
    BY <1>3 DEF pause, clearRetry
  <2>3. UNCHANGED <<muxVars, callVars>>
    BY <1>3, <2>1 DEF pause, muxClose
  <2> QED
    BY <1>3, <2>1, <2>2, <2>3, LeavesStillborn DEF TypeOK
<1>1. CASE phase = "connecting" /\ m[mux] \notin Defunct
  <2>1. mux # 0 /\ mux \in Muxes /\ m[mux] \notin Defunct /\ ~stableTimer
    BY <1>1 DEF TypeOK, PhaseTruth
  <2>2. markDefunct(mux, "closed") /\ wsClose(mux)
    BY <1>1, <2>1, ClosesMux DEF pause
  <2>3. /\ sock' \in [Muxes -> {"handshake", "open", "closing", "gone"}]
        /\ sock'[mux] \in {"closing", "gone"}
        /\ \A x \in Muxes \ {mux} : sock'[x] = sock[x]
    BY <2>1, <2>2, ClosesSocket
  <2>4. /\ UNCHANGED <<opts, mux, attempt, closed, stableTimer>> /\ paused' = TRUE /\ ~closed
        /\ phase' = "paused" /\ retryTimer' = FALSE /\ dialTimer' = 0
    BY <1>1 DEF pause, clearRetry
  <2> QED
    BY <2>1, <2>2, <2>3, <2>4, LosesCurrent DEF TypeOK
<1>2. CASE phase # "connecting"
  <2>1. TypeOK'
    BY <1>2 DEF TypeOK, pause, clearRetry
  <2>2. MuxInv' /\ OneSocket' /\ NoCallOnDeadMux'
    BY <1>2 DEF MuxInv, Undecided, OneSocket, NoCallOnDeadMux, pause
  <2>3. PhaseTruth'
    BY <1>2 DEF TypeOK, PhaseTruth, Stillborn, pause, clearRetry
  <2> QED
    BY <2>1, <2>2, <2>3
<1> QED
  BY <1>1, <1>2, <1>3

LEMMA Resumes == ASSUME IInv, resume PROVE IInv'
<1> USE DEF IInv
<1>1. CASE phase = "paused"
  <2>1. ~Undecided
    BY <1>1 DEF Undecided
  <2> QED
    BY <1>1, <2>1, Dials DEF resume
<1>2. CASE phase # "paused"
  <2>1. TypeOK'
    <3>1. attempt' \in 0..MaxDials
      BY <1>2 DEF resume
    <3> QED
      BY <1>2, <3>1 DEF TypeOK, resume
  <2>2. MuxInv' /\ OneSocket' /\ NoCallOnDeadMux'
    BY <1>2 DEF TypeOK, MuxInv, Undecided, OneSocket, NoCallOnDeadMux, resume
  <2>3. PhaseTruth'
    BY <1>2 DEF PhaseTruth, Stillborn, resume
  <2> QED
    BY <2>1, <2>2, <2>3
<1> QED
  BY <1>1, <1>2

LEMMA Redials == ASSUME IInv, retryNow \/ retryFire PROVE IInv'
<1>1. phase \in {"waiting", "disconnected"} /\ ~paused /\ ~closed
  BY DEF IInv, TypeOK, PhaseTruth, MuxInv, retryNow, retryFire
<1>2. ~Undecided
  BY <1>1 DEF Undecided
<1>3. dial(attempt) /\ UNCHANGED <<opts, paused, closed, callVars>>
  BY DEF retryNow, retryFire
<1> QED
  BY <1>1, <1>2, <1>3, Dials DEF IInv, TypeOK

LEMMA DialTimesOut == ASSUME IInv, dialFire PROVE IInv'
<1> USE DEF IInv
<1>1. /\ phase = "connecting" /\ dialTimer = mux /\ mux # 0 /\ mux \in Muxes
      /\ ~retryTimer /\ ~closed
  BY DEF TypeOK, MuxInv, PhaseTruth, dialFire
<1>5. CASE m[mux] \in Defunct
  <2>1. Stillborn(mux) /\ m[mux] = "closed"
    BY <1>1, <1>5 DEF PhaseTruth, Stillborn
  <2>2. afterDrop(TRUE) /\ UNCHANGED <<opts, paused, closed, mux, muxVars, callVars>>
    BY <1>1, <2>1 DEF dialFire, muxClose
  <2> QED
    BY <1>1, <2>1, <2>2, AfterDrop, LeavesStillborn DEF TypeOK
<1> SUFFICES ASSUME m[mux] \notin Defunct PROVE IInv'
  BY <1>5
<1>2. markDefunct(mux, "closed") /\ wsClose(mux)
  BY <1>1, ClosesMux DEF dialFire
<1>3. /\ sock' \in [Muxes -> {"handshake", "open", "closing", "gone"}]
      /\ sock'[mux] \in {"closing", "gone"}
      /\ \A x \in Muxes \ {mux} : sock'[x] = sock[x]
  BY <1>1, <1>2, ClosesSocket
<1>4. afterDrop(TRUE) /\ UNCHANGED <<opts, paused, closed, mux>>
  BY DEF dialFire
<1> QED
  BY <1>1, <1>2, <1>3, <1>4, AfterDrop, LosesCurrent DEF TypeOK

LEMMA StableTimeout == ASSUME IInv, stableFire PROVE IInv'
<1> USE DEF IInv
<1>1. TypeOK'
  <2>1. attempt' \in 0..MaxDials
    BY DEF stableFire
  <2> QED
    BY <2>1 DEF TypeOK, stableFire
<1>2. MuxInv' /\ PhaseTruth' /\ OneSocket' /\ NoCallOnDeadMux'
  BY DEF TypeOK, MuxInv, Undecided, PhaseTruth, Stillborn, OneSocket, NoCallOnDeadMux, stableFire
<1> QED
  BY <1>1, <1>2

LEMMA Closes == ASSUME IInv, close PROVE IInv'
<1> USE DEF IInv
<1>1. /\ closed' = TRUE /\ phase' = "closed" /\ ~retryTimer' /\ retryTimer' = FALSE
      /\ dialTimer' = 0 /\ stableTimer' = FALSE
      /\ UNCHANGED <<opts, paused, mux, attempt>>
  BY DEF close
<1>2. CASE mux # 0 /\ m[mux] \notin Defunct
  <2>1. mux \in Muxes /\ mux # 0 /\ m[mux] \notin Defunct
    BY <1>2 DEF TypeOK
  <2>2. markDefunct(mux, "closed") /\ wsClose(mux)
    BY <2>1, ClosesMux DEF close
  <2>3. /\ sock' \in [Muxes -> {"handshake", "open", "closing", "gone"}]
        /\ sock'[mux] \in {"closing", "gone"}
        /\ \A x \in Muxes \ {mux} : sock'[x] = sock[x]
    BY <2>1, <2>2, ClosesSocket
  <2> QED
    BY <1>1, <2>1, <2>2, <2>3, LosesCurrent DEF TypeOK
<1>3. CASE mux = 0 \/ m[mux] = "closed"
  <2>1. UNCHANGED <<muxVars, callVars>>
    BY <1>3 DEF close, muxClose
  <2>2. TypeOK'
    <3>1. dialTimer' \in 0..dials'
      BY <1>1, <2>1 DEF TypeOK
    <3> QED
      BY <1>1, <2>1, <3>1 DEF TypeOK
  <2>3. MuxInv' /\ PhaseTruth' /\ OneSocket' /\ NoCallOnDeadMux'
    BY <1>1, <1>3, <2>1 DEF TypeOK, MuxInv, Undecided, PhaseTruth, OneSocket, NoCallOnDeadMux
  <2> QED
    BY <2>2, <2>3
<1>4. CASE mux # 0 /\ m[mux] = "dead"
  <2>1. mux \in Muxes /\ markDefunct(mux, "closed") /\ wsClose(mux)
    BY <1>4 DEF TypeOK, close, muxClose
  <2>2. /\ m' \in [Muxes -> {"pending", "open"} \cup Defunct] /\ m'[mux] = "closed"
        /\ \A x \in Muxes \ {mux} : m'[x] = m[x] /\ lifecycle'[x] = lifecycle[x]
        /\ lifecycle' \in [Muxes -> BOOLEAN] /\ lifecycle'[mux] = FALSE
        /\ cSt' \in [Calls -> {"idle", "open", "ended", "failed"}]
        /\ \A c \in Calls : cSt'[c] = "open" <=> cSt[c] = "open" /\ cMux[c] # mux
        /\ UNCHANGED <<dials, cMux>>
    BY <2>1, Defuncts
  <2>3. /\ sock' \in [Muxes -> {"handshake", "open", "closing", "gone"}]
        /\ sock'[mux] \in {"closing", "gone"}
        /\ \A x \in Muxes \ {mux} : sock'[x] = sock[x]
    BY <2>1, ClosesSocket
  <2>4. TypeOK'
    <3>1. dialTimer' \in 0..dials'
      BY <1>1, <2>2 DEF TypeOK
    <3> QED
      BY <1>1, <2>2, <2>3, <3>1 DEF TypeOK
  <2>5. MuxInv' /\ PhaseTruth'
    BY <1>1, <1>4, <2>2 DEF TypeOK, MuxInv, Undecided, PhaseTruth
  <2>6. OneSocket' /\ NoCallOnDeadMux'
    BY <1>1, <2>1, <2>2, <2>3 DEF TypeOK, MuxInv, OneSocket, NoCallOnDeadMux
  <2> QED
    BY <2>4, <2>5, <2>6
<1> QED
  BY <1>2, <1>3, <1>4 DEF TypeOK

LEMMA Opens == ASSUME IInv, NEW g \in Muxes, onopen(g) PROVE IInv'
<1> USE DEF IInv
<1>1. g = mux /\ g \in 1..dials /\ m[g] \notin Defunct /\ lifecycle[g]
  BY DEF TypeOK, MuxInv, OneSocket, onopen, ignoreOpen
<1>2. /\ onOpen(attempt) /\ UNCHANGED <<opts, paused, closed, mux, retryTimer, dials, lifecycle, callVars>>
      /\ sock' = [sock EXCEPT ![g] = "open"] /\ m' = [m EXCEPT ![g] = "open"]
  BY <1>1 DEF onopen
<1>3. TypeOK'
  <2>1. attempt' \in 0..MaxDials /\ dialTimer' \in 0..dials' /\ stableTimer' \in BOOLEAN
    BY <1>2, OptionTypes DEF TypeOK, onOpen
  <2> QED
    BY <1>2, <2>1 DEF TypeOK, onOpen
<1>4. MuxInv'
  BY <1>1, <1>2 DEF TypeOK, MuxInv, PhaseTruth, Undecided, onOpen
<1>5. PhaseTruth'
  BY <1>1, <1>2 DEF TypeOK, PhaseTruth, onOpen
<1>6. OneSocket' /\ NoCallOnDeadMux'
  BY <1>1, <1>2 DEF TypeOK, OneSocket, NoCallOnDeadMux
<1> QED
  BY <1>3, <1>4, <1>5, <1>6

LEMMA Drops == ASSUME IInv, NEW g \in Muxes, onTransportDrop(g) PROVE IInv'
<1> USE DEF IInv
<1>1. /\ g \in 1..dials /\ UNCHANGED <<opts, paused, closed, mux>>
      /\ sock' = [sock EXCEPT ![g] = "gone"]
  BY DEF TypeOK, onTransportDrop
<1>2. CASE m[g] \notin Defunct
  <2>1. g = mux /\ mux # 0 /\ lifecycle[g] /\ ~closed
    BY <1>1, <1>2 DEF TypeOK, MuxInv, OneSocket, PhaseTruth
  <2>2. markDefunct(mux, "dead") /\ afterDrop(TRUE)
    BY <1>2, <2>1 DEF onTransportDrop, notifyDrop
  <2>3. /\ sock' \in [Muxes -> {"handshake", "open", "closing", "gone"}]
        /\ sock'[mux] = "gone"
        /\ \A x \in Muxes \ {mux} : sock'[x] = sock[x]
    BY <1>1, <2>1 DEF TypeOK
  <2>4. ~retryTimer
    BY <1>2, <2>1 DEF TypeOK, PhaseTruth
  <2> QED
    BY <1>1, <1>2, <2>1, <2>2, <2>3, <2>4, AfterDrop, LosesCurrent DEF TypeOK
<1>3. CASE m[g] \in Defunct
  <2>1. UNCHANGED <<phase, attempt, timers, dials, m, lifecycle, callVars>>
    BY <1>3 DEF onTransportDrop
  <2>2. TypeOK'
    BY <1>1, <2>1 DEF TypeOK
  <2>3. MuxInv' /\ PhaseTruth' /\ NoCallOnDeadMux'
    BY <1>1, <2>1 DEF MuxInv, Undecided, PhaseTruth, Stillborn, NoCallOnDeadMux
  <2>4. OneSocket'
    BY <1>1, <2>1 DEF TypeOK, OneSocket
  <2> QED
    BY <2>2, <2>3, <2>4
<1> QED
  BY <1>2, <1>3

LEMMA Fails == ASSUME IInv, NEW g \in Muxes, fail(g) PROVE IInv'
<1> USE DEF IInv
<1>1. /\ g = mux /\ mux # 0 /\ lifecycle[g] /\ ~closed /\ m[mux] \notin Defunct /\ ~retryTimer
  BY DEF TypeOK, MuxInv, OneSocket, PhaseTruth, fail
<1>2. /\ markDefunct(mux, "closed") /\ wsClose(mux) /\ afterDrop(FALSE)
      /\ UNCHANGED <<opts, paused, closed, mux>>
  BY <1>1 DEF fail, notifyDrop
<1>3. /\ sock' \in [Muxes -> {"handshake", "open", "closing", "gone"}]
      /\ sock'[mux] \in {"closing", "gone"}
      /\ \A x \in Muxes \ {mux} : sock'[x] = sock[x]
  BY <1>1, <1>2, ClosesSocket
<1> QED
  BY <1>1, <1>2, <1>3, AfterDrop, LosesCurrent DEF TypeOK

LEMMA CallSteps == ASSUME IInv, NEW c \in Calls, openStream(c) \/ endCall(c) PROVE IInv'
<1> USE DEF IInv
<1>1. UNCHANGED <<opts, phase, paused, closed, mux, attempt, timers, muxVars>>
  BY DEF openStream, endCall
<1>2. /\ cMux' \in [Calls -> 0..dials] /\ cSt' \in [Calls -> {"idle", "open", "ended", "failed"}]
      /\ \A x \in Calls : cSt'[x] = "open" => cMux'[x] # 0 /\ m[cMux'[x]] \notin Defunct
  <2>1. CASE openStream(c)
    BY <2>1 DEF TypeOK, MuxInv, NoCallOnDeadMux, openStream
  <2>2. CASE endCall(c)
    BY <2>2 DEF TypeOK, MuxInv, NoCallOnDeadMux, endCall
  <2> QED
    BY <2>1, <2>2
<1>3. TypeOK'
  BY <1>1, <1>2 DEF TypeOK
<1>4. MuxInv' /\ PhaseTruth' /\ OneSocket' /\ NoCallOnDeadMux'
  BY <1>1, <1>2 DEF MuxInv, Undecided, PhaseTruth, Stillborn, OneSocket, NoCallOnDeadMux
<1> QED
  BY <1>3, <1>4

LEMMA InvNext == IInv /\ [Next]_vars => IInv'
<1> SUFFICES ASSUME IInv, [Next]_vars PROVE IInv'
  OBVIOUS
<1>1. CASE pause \/ resume \/ retryNow \/ close
  BY <1>1, Pauses, Resumes, Redials, Closes
<1>2. CASE retryFire \/ dialFire \/ stableFire
  BY <1>2, Redials, DialTimesOut, StableTimeout
<1>3. CASE \E g \in Muxes : onopen(g) \/ onTransportDrop(g) \/ fail(g)
  BY <1>3, Opens, Drops, Fails
<1>4. CASE \E c \in Calls : openStream(c) \/ endCall(c)
  BY <1>4, CallSteps
<1>5. CASE UNCHANGED vars
  BY <1>5 DEF vars, IInv, TypeOK, MuxInv, Undecided, PhaseTruth, Stillborn, OneSocket,
              NoCallOnDeadMux
<1> QED
  BY <1>1, <1>2, <1>3, <1>4, <1>5 DEF Next

-----------------------------------------------------------------------------
(* The theorems.                                                           *)

\* Every handler, method and timer of the transport keeps the inductive
\* invariant, whatever the options it was constructed with.
THEOREM Invariance == Spec => []IInv
BY InvInit, InvNext, PTL DEF Spec

\* The transport's fields keep their types, and mux is the one attach set last.
THEOREM TypeCorrect == Spec => []TypeOK
<1>1. IInv => TypeOK
  BY DEF IInv
<1> QED
  BY <1>1, Invariance, PTL

\* The phase that getState reports, and the timers behind it, agree with the
\* current mux in every order of opens, drops, pauses and redials, but for a mux
\* that failed in its constructor.
THEOREM PhaseIsTrue == Spec => []PhaseTruth
<1>1. IInv => PhaseTruth
  BY DEF IInv
<1> QED
  BY <1>1, Invariance, PTL

\* dial never leaves two live muxes, and a mux that is gone has closed its
\* socket.
THEOREM OneSocketAtMost == Spec => []OneSocket
<1>1. IInv => OneSocket
  BY DEF IInv
<1> QED
  BY <1>1, Invariance, PTL

\* failAll leaves no stream open on a mux that dropped, failed or was closed,
\* and openStream adds none.
THEOREM CallsEndWithMux == Spec => []NoCallOnDeadMux
<1>1. IInv => NoCallOnDeadMux
  BY DEF IInv
<1> QED
  BY <1>1, Invariance, PTL

\* With stableMs, attempt is put back to 0 only by resume and by the stable timer
\* when it fires on the connection that armed it: not by onOpen, a redial or a
\* drop.
THEOREM BackoffIsKept == Spec => BackoffKept
<1>1. IInv /\ [Next]_vars =>
        [opts.stable /\ attempt' < attempt =>
            \/ paused /\ ~paused'
            \/ stableTimer /\ ~stableTimer' /\ phase = "connected" /\ phase' = "connected"]_vars
  <2> SUFFICES ASSUME IInv, Next, opts.stable, ~(paused /\ ~paused'), ~stableFire
               PROVE  ~(attempt' < attempt)
    BY DEF IInv, TypeOK, PhaseTruth, stableFire
  <2>1. attempt \in Nat
    BY DEF IInv, TypeOK
  <2>2. attempt' \in {attempt, attempt + 1}
    <3>1. CASE pause \/ resume \/ close
      BY <3>1 DEF pause, resume, close
    <3>2. CASE retryNow \/ retryFire
      BY <3>2 DEF retryNow, retryFire, dial, attached, onOpen
    <3>3. CASE dialFire
      BY <3>3 DEF dialFire, afterDrop, failedAttempt
    <3>4. CASE \E g \in Muxes : onopen(g) \/ onTransportDrop(g) \/ fail(g)
      BY <3>4 DEF onopen, onOpen, onTransportDrop, fail, notifyDrop, afterDrop, failedAttempt
    <3>5. CASE \E c \in Calls : openStream(c) \/ endCall(c)
      BY <3>5 DEF openStream, endCall
    <3> QED
      BY <3>1, <3>2, <3>3, <3>4, <3>5 DEF Next
  <2> QED
    BY <2>1, <2>2
<1> QED
  BY <1>1, Invariance, PTL DEF Spec, BackoffKept

=============================================================================
