---------------------------- MODULE ClientProofs ----------------------------
(***************************************************************************)
(* ClientConn: its safety properties for any number of callers and dials.  *)
(***************************************************************************)
EXTENDS ClientConn, TLAPS

USE ClientAssumption DEF ccVars, muxVars, rVars, xVars, cVars, Muxes

-----------------------------------------------------------------------------
(* Types.                                                                  *)

LEMMA TypeInit == Init => TypeOK
<1> SUFFICES ASSUME Init PROVE TypeOK
  OBVIOUS
<1>1. dials \in Muxes /\ mux \in 0..dials /\ rMux \in 0..dials /\ xMux \in 0..dials
      /\ waitCh \in 0..MaxDials
  BY DEF Init
<1>2. sock \in [Muxes -> {"up", "down"}] /\ rl \in [Muxes -> {"run", "exited", "garbled"}]
  BY DEF Init
<1>3. ctx \in [Muxes -> BOOLEAN] /\ flag \in [Muxes -> BOOLEAN]
  BY DEF Init
<1>4. /\ cMux \in [Callers -> 0..dials] /\ cCh \in [Callers -> 0..MaxDials]
      /\ reg \in [Callers -> BOOLEAN]
      /\ st \in [Callers -> {"none", "OK", "Canceled", "Unavailable"}]
  BY DEF Init
<1>5. cPc \in [Callers -> {"idle", "waiting", "register", "write", "open", "failed"}]
  BY DEF Init
<1> QED
  BY <1>1, <1>2, <1>3, <1>4, <1>5 DEF Init, TypeOK

LEMMA TypeCallers ==
  ASSUME TypeOK, NEW c \in Callers, caller(c)
  PROVE  TypeOK'
<1>1. CASE NewStream(c)
  BY <1>1 DEF TypeOK, NewStream, TakeMux, waitForMux
<1>2. CASE WaitWake(c)
  BY <1>2 DEF TypeOK, WaitWake, TakeMux, waitForMux
<1>3. CASE WaitFail(c)
  BY <1>3 DEF TypeOK, WaitFail
<1>4. CASE register(c)
  BY <1>4 DEF TypeOK, register
<1>5. CASE writeOpen(c)
  BY <1>5 DEF TypeOK, writeOpen
<1>6. CASE writeFail(c)
  BY <1>6 DEF TypeOK, writeFail
<1>7. CASE routeEnd(c)
  BY <1>7 DEF TypeOK, routeEnd
<1> QED
  BY <1>1, <1>2, <1>3, <1>4, <1>5, <1>6, <1>7 DEF caller

LEMMA TypeMuxes ==
  ASSUME TypeOK, NEW g \in Muxes, muxStep(g)
  PROVE  TypeOK'
<1>1. CASE sockDrop(g)
  BY <1>1 DEF TypeOK, sockDrop
<1>2. CASE muxCancel(g)
  BY <1>2 DEF TypeOK, muxCancel
<1>3. CASE readLoopExit(g)
  BY <1>3 DEF TypeOK, readLoopExit, ReadCut, failAll, disconnectErr
<1>4. CASE readLoopGarbled(g)
  BY <1>4 DEF TypeOK, readLoopGarbled, failAll, disconnectErr
<1> QED
  BY <1>1, <1>2, <1>3, <1>4 DEF muxStep

LEMMA TypeRun ==
  ASSUME TypeOK, WakeInv, HolderInv, run
  PROVE  TypeOK'
<1> USE DEF RStep
<1>1. CASE runTop
  BY <1>1 DEF TypeOK, runTop
<1>2. CASE runWait
  BY <1>2 DEF TypeOK, runWait
<1>3. CASE redial \/ dialFail \/ backoff
  BY <1>3 DEF TypeOK, redial, dialFail, backoff
<1>4. CASE dialOk
  BY <1>4 DEF TypeOK, dialOk
<1>5. CASE install
  BY <1>5 DEF TypeOK, install, broadcastLocked, WakeInv
<1>6. CASE installClosed
  BY <1>6 DEF TypeOK, HolderInv, installClosed
<1>7. CASE runDrop
  BY <1>7 DEF TypeOK, runDrop
<1> QED
  BY <1>1, <1>2, <1>3, <1>4, <1>5, <1>6, <1>7 DEF run

\* The steps of Close and of mux.Close.
Closing == Close \/ closeFlag \/ closeCancel \/ closeSock

LEMMA TypeClosing ==
  ASSUME TypeOK, WakeInv, HolderInv, Closing
  PROVE  TypeOK'
<1>1. CASE Close
  BY <1>1 DEF TypeOK, WakeInv, HolderInv, Close, broadcastLocked
<1>2. CASE closeFlag \/ closeCancel \/ closeSock
  BY <1>2 DEF TypeOK, closeFlag, setClosedFlag, closeCancel, closeSock
<1> QED
  BY <1>1, <1>2 DEF Closing

LEMMA TypeNext ==
  ASSUME TypeOK, WakeInv, HolderInv, [Next]_vars
  PROVE  TypeOK'
<1>1. CASE UNCHANGED vars
  BY <1>1 DEF TypeOK, vars
<1> QED
  BY <1>1, TypeCallers, TypeMuxes, TypeRun, TypeClosing DEF Next, Closing

-----------------------------------------------------------------------------
(* Broadcasts.  The channel a caller captures under cc.mu is the current   *)
(* one, and install and Close, which end its wait, replace that channel in *)
(* the critical section that makes their news visible.                     *)

LEMMA WakeCallers ==
  ASSUME TypeOK, WakeInv, NEW c \in Callers, caller(c)
  PROVE  WakeInv'
<1> USE DEF TypeOK, WakeInv, NoMissedWake
<1>1. CASE NewStream(c) \/ WaitWake(c)
  <2>1. TakeMux(c) \/ waitForMux(c)
    BY <1>1 DEF NewStream, WaitWake
  <2>2. UNCHANGED <<ccVars, dials, rPc>>
    BY <1>1 DEF NewStream, WaitWake
  <2>3. CASE TakeMux(c)
    BY <2>2, <2>3 DEF TakeMux
  <2>4. CASE waitForMux(c) /\ ~TakeMux(c)
    <3>1. CASE closed
      BY <2>2, <2>4, <3>1 DEF waitForMux
    <3>2. CASE ~closed
      <4>1. mux = 0 /\ cPc' = [cPc EXCEPT ![c] = "waiting"] /\ cCh' = [cCh EXCEPT ![c] = waitCh]
        BY <2>4, <3>2 DEF waitForMux
      <4>2. cCh'[c] = waitCh /\ \A d \in Callers \ {c} : cCh'[d] = cCh[d] /\ cPc'[d] = cPc[d]
        BY <4>1
      <4> QED
        BY <2>2, <3>2, <4>1, <4>2
    <3> QED
      BY <3>1, <3>2
  <2> QED
    BY <2>1, <2>3, <2>4
<1>2. CASE WaitFail(c) \/ register(c)
  BY <1>2 DEF WaitFail, register
<1>3. CASE writeOpen(c) \/ writeFail(c) \/ routeEnd(c)
  BY <1>3 DEF writeOpen, writeFail, routeEnd
<1> QED
  BY <1>1, <1>2, <1>3 DEF caller

LEMMA WakeNext ==
  ASSUME TypeOK, WakeInv, HolderInv, [Next]_vars
  PROVE  WakeInv'
<1> USE DEF TypeOK, WakeInv, NoMissedWake
<1>1. CASE UNCHANGED vars
  BY <1>1 DEF vars
<1>2. CASE \E g \in Muxes : muxStep(g)
  BY <1>2 DEF muxStep, sockDrop, muxCancel, readLoopExit, readLoopGarbled
<1>3. CASE run
  <2> USE DEF RStep
  <2>1. CASE runTop \/ runWait \/ redial \/ dialFail \/ backoff
    BY <2>1 DEF runTop, runWait, redial, dialFail, backoff
  <2>2. CASE runDrop
    BY <2>2 DEF runDrop
  <2>3. CASE dialOk
    BY <2>3 DEF dialOk
  <2>4. CASE install
    BY <2>4 DEF install, broadcastLocked
  <2>5. CASE installClosed
    BY <2>5 DEF installClosed
  <2> QED
    BY <1>3, <2>1, <2>2, <2>3, <2>4, <2>5 DEF run
<1>4. CASE Closing
  BY <1>4 DEF Closing, Close, broadcastLocked, closeFlag, closeCancel, closeSock
<1> QED
  BY <1>1, <1>2, <1>3, <1>4, WakeCallers DEF Next, Closing

-----------------------------------------------------------------------------
(* Who holds which mux.                                                    *)

LEMMA HolderNext ==
  ASSUME TypeOK, HolderInv, [Next]_vars
  PROVE  HolderInv'
<1> USE DEF TypeOK, HolderInv
<1>1. CASE UNCHANGED vars
  BY <1>1 DEF vars
<1>2. CASE \E c \in Callers : caller(c)
  BY <1>2 DEF caller, NewStream, WaitWake, WaitFail, register, writeOpen, writeFail, routeEnd
<1>3. CASE \E g \in Muxes : muxStep(g)
  <2>1. ASSUME NEW g \in Muxes, sockDrop(g) PROVE HolderInv'
    BY <2>1 DEF sockDrop
  <2>2. ASSUME NEW g \in Muxes, muxCancel(g) PROVE HolderInv'
    BY <2>2 DEF muxCancel
  <2>3. ASSUME NEW g \in Muxes, readLoopExit(g) PROVE HolderInv'
    BY <2>3 DEF readLoopExit, ReadCut
  <2>4. ASSUME NEW g \in Muxes, readLoopGarbled(g) PROVE HolderInv'
    BY <2>4 DEF readLoopGarbled
  <2> QED
    BY <1>3, <2>1, <2>2, <2>3, <2>4 DEF muxStep
<1>4. CASE run
  <2> USE DEF RStep
  <2>1. CASE runTop \/ runWait \/ runDrop
    BY <2>1 DEF runTop, runWait, runDrop
  <2>2. CASE redial \/ dialOk \/ dialFail \/ backoff
    BY <2>2 DEF redial, dialOk, dialFail, backoff
  <2>3. CASE install \/ installClosed
    BY <2>3 DEF install, installClosed
  <2> QED
    BY <1>4, <2>1, <2>2, <2>3 DEF run
<1>5. CASE Closing
  BY <1>5 DEF Closing, Close, closeFlag, setClosedFlag, closeCancel, closeSock
<1> QED
  BY <1>1, <1>2, <1>3, <1>4, <1>5 DEF Next, Closing

\* Over a pipe there is one mux, and no controller.
LEMMA PipeNext ==
  ASSUME TypeOK, HolderInv, PipeInv, [Next]_vars
  PROVE  PipeInv'
<1> USE DEF TypeOK, PipeInv
<1>1. CASE UNCHANGED vars
  BY <1>1 DEF vars
<1>2. CASE \E c \in Callers : caller(c)
  BY <1>2 DEF caller, NewStream, WaitWake, WaitFail, register, writeOpen, writeFail, routeEnd
<1>3. CASE \E g \in Muxes : muxStep(g)
  BY <1>3 DEF muxStep, sockDrop, muxCancel, readLoopExit, readLoopGarbled
<1>4. CASE run
  BY <1>4 DEF run, RStep, runTop, runWait, runDrop, redial, dialOk, dialFail, backoff,
              install, installClosed
<1>5. CASE Closing
  BY <1>5 DEF Closing, Close, closeFlag, closeCancel, closeSock, HolderInv
<1> QED
  BY <1>1, <1>2, <1>3, <1>4, <1>5 DEF Next, Closing

-----------------------------------------------------------------------------
(* A mux: how it died, and who will close its socket.                      *)

LEMMA MuxNext ==
  ASSUME TypeOK, HolderInv, MuxInv, [Next]_vars
  PROVE  MuxInv'
<1> USE DEF TypeOK, MuxInv, Held
<1>1. CASE UNCHANGED vars
  BY <1>1 DEF vars
<1>2. CASE \E c \in Callers : caller(c)
  BY <1>2 DEF caller, NewStream, WaitWake, WaitFail, register, writeOpen, writeFail, routeEnd
<1>3. CASE \E g \in Muxes : muxStep(g)
  <2>1. ASSUME NEW g \in Muxes, sockDrop(g) PROVE MuxInv'
    BY <2>1 DEF sockDrop
  <2>2. ASSUME NEW g \in Muxes, muxCancel(g) PROVE MuxInv'
    BY <2>2 DEF muxCancel
  <2>3. ASSUME NEW g \in Muxes, readLoopExit(g) PROVE MuxInv'
    BY <2>3 DEF readLoopExit, ReadCut
  <2>4. ASSUME NEW g \in Muxes, readLoopGarbled(g) PROVE MuxInv'
    BY <2>4 DEF readLoopGarbled
  <2> QED
    BY <1>3, <2>1, <2>2, <2>3, <2>4 DEF muxStep
<1>4. CASE run
  <2> USE DEF RStep
  <2>1. CASE runTop \/ runWait \/ redial \/ dialFail \/ backoff
    BY <2>1 DEF runTop, runWait, redial, dialFail, backoff
  <2>2. CASE runDrop
    BY <2>2 DEF runDrop, HolderInv
  <2>3. CASE dialOk
    BY <2>3 DEF dialOk
  <2>4. CASE install
    BY <2>4 DEF install, HolderInv
  <2>5. CASE installClosed
    BY <2>5 DEF installClosed
  <2> QED
    BY <1>4, <2>1, <2>2, <2>3, <2>4, <2>5 DEF run
<1>5. CASE Close
  BY <1>5 DEF Close, HolderInv
<1>6. CASE closeFlag \/ closeCancel \/ closeSock
  BY <1>6 DEF closeFlag, setClosedFlag, closeCancel, closeSock, HolderInv
<1> QED
  BY <1>1, <1>2, <1>3, <1>4, <1>5, <1>6 DEF Next

-----------------------------------------------------------------------------
(* Streams and their status.                                               *)

StatusInv == StreamInv /\ CloseStatus /\ DeadMuxFailsStreams

LEMMA StatusCallers ==
  ASSUME TypeOK, MuxInv, StatusInv, NEW c \in Callers, caller(c)
  PROVE  StatusInv'
<1> USE DEF TypeOK, StatusInv, StreamInv, CloseStatus, DeadMuxFailsStreams
<1>1. CASE NewStream(c) \/ WaitWake(c)
  <2>1. /\ UNCHANGED <<ccVars, muxVars, reg, st, late>> /\ cPc[c] \in {"idle", "waiting"}
        /\ cPc'[c] \in {"register", "waiting", "failed"} /\ reg[c] = FALSE /\ st[c] = "none"
        /\ \A d \in Callers \ {c} : cPc'[d] = cPc[d] /\ cMux'[d] = cMux[d]
    BY <1>1 DEF NewStream, WaitWake, TakeMux, waitForMux
  <2>2. StreamInv'
    BY <2>1
  <2>3. CloseStatus'
    BY <2>1
  <2>4. DeadMuxFailsStreams'
    BY <2>1
  <2> QED
    BY <2>2, <2>3, <2>4
<1>2. CASE WaitFail(c)
  BY <1>2 DEF WaitFail
<1>3. CASE register(c)
  BY <1>3 DEF register
<1>4. CASE writeOpen(c)
  BY <1>4 DEF writeOpen, MuxInv
<1>5. CASE writeFail(c)
  BY <1>5 DEF writeFail
<1>6. CASE routeEnd(c)
  BY <1>6 DEF routeEnd
<1> QED
  BY <1>1, <1>2, <1>3, <1>4, <1>5, <1>6 DEF caller

\* failAll gives every stream in the map a status that tells why, whichever way
\* the read loop ended.
LEMMA FailedStatus ==
  ASSUME TypeOK, StatusInv, NEW g \in Muxes, failAll(g),
         closed' = closed, UNCHANGED <<conn, cPc, cMux, late>>, lost \subseteq lost',
         \A h \in Muxes \ {g} : rl'[h] = rl[h],
         flag[g] => closed, ~flag[g] => g \in lost'
  PROVE  StatusInv'
<1> USE DEF TypeOK
<1>1. \A c \in Callers :
        /\ reg[c] /\ cMux[c] = g => ~reg'[c] /\ st'[c] = disconnectErr(g)
        /\ ~(reg[c] /\ cMux[c] = g) => reg'[c] = reg[c] /\ st'[c] = st[c]
  BY DEF failAll, Registered
<1>2. disconnectErr(g) # "none"
  BY DEF disconnectErr
<1>3. StreamInv'
  BY <1>1, <1>2 DEF StatusInv, StreamInv
<1>4. CloseStatus'
  BY <1>1 DEF StatusInv, CloseStatus, disconnectErr
<1>5. DeadMuxFailsStreams'
  <2> SUFFICES ASSUME NEW c \in Callers, cPc[c] = "open", rl'[cMux[c]] # "run", st'[c] = "none"
               PROVE  c \in late /\ (conn' = "pipe" \/ rl'[cMux[c]] = "garbled")
    BY DEF DeadMuxFailsStreams
  <2> QED
    BY <1>1, <1>2 DEF StatusInv, StreamInv, DeadMuxFailsStreams
<1> QED
  BY <1>3, <1>4, <1>5 DEF StatusInv

LEMMA StatusNext ==
  ASSUME TypeOK, MuxInv, StatusInv, [Next]_vars
  PROVE  StatusInv'
<1> USE DEF TypeOK, StatusInv, StreamInv, CloseStatus, DeadMuxFailsStreams
<1>1. CASE UNCHANGED vars
  BY <1>1 DEF vars
<1>2. CASE \E g \in Muxes : sockDrop(g) \/ muxCancel(g)
  BY <1>2 DEF sockDrop, muxCancel
<1>3. ASSUME NEW g \in Muxes, readLoopExit(g)
      PROVE  StatusInv'
  <2>1. /\ UNCHANGED <<ccVars, conn, lost, cPc, cMux, late>> /\ failAll(g)
        /\ \A h \in Muxes \ {g} : rl'[h] = rl[h]
        /\ flag[g] => closed
        /\ ~flag[g] => g \in lost
    BY <1>3 DEF readLoopExit, MuxInv
  <2> QED
    BY <2>1, FailedStatus
<1>6. ASSUME NEW g \in Muxes, readLoopGarbled(g)
      PROVE  StatusInv'
  <2>1. /\ UNCHANGED <<closed, conn, cPc, cMux, late>> /\ failAll(g)
        /\ \A h \in Muxes \ {g} : rl'[h] = rl[h]
        /\ flag[g] => closed
        /\ lost' = lost \cup {g}
    BY <1>6 DEF readLoopGarbled, MuxInv
  <2> QED
    BY <2>1, FailedStatus
<1>4. CASE run
  BY <1>4 DEF run, RStep, runTop, runWait, runDrop, redial, dialOk, dialFail, backoff,
              install, installClosed
<1>5. CASE Closing
  BY <1>5 DEF Closing, Close, closeFlag, closeCancel, closeSock
<1> QED
  BY <1>1, <1>2, <1>3, <1>4, <1>5, <1>6, StatusCallers DEF Next, muxStep, Closing

-----------------------------------------------------------------------------
(* The theorems.                                                           *)

\* The inductive invariant of the client connection.
THEOREM Invariance == Spec => []IInv
<1>1. Init => IInv
  BY TypeInit
     DEF Init, IInv, TypeOK, WakeInv, NoMissedWake, HolderInv, PipeInv, MuxInv, Held,
         StreamInv, CloseStatus, DeadMuxFailsStreams
<1>2. IInv /\ [Next]_vars => IInv'
  BY TypeNext, WakeNext, HolderNext, PipeNext, MuxNext, StatusNext DEF IInv, StatusInv
<1> QED
  BY <1>1, <1>2, PTL DEF Spec

\* Every variable keeps its type; a caller past waitForMux holds a mux.
THEOREM TypeCorrect == Spec => []TypeOK
<1>1. IInv => TypeOK
  BY DEF IInv
<1> QED
  BY <1>1, Invariance, PTL

\* No caller parked in waitForMux misses an install or Close, although it waits
\* outside cc.mu.
THEOREM WakesHeard == Spec => []NoMissedWake
<1>1. IInv => NoMissedWake
  BY DEF IInv, WakeInv
<1> QED
  BY <1>1, Invariance, PTL

\* After Close and the end of the controller no socket stays behind, however
\* dials, drops and Close interleave, but that of a mux that read a frame it
\* could not decode.
THEOREM NothingLeaks == Spec => []NoLeak
<1>1. IInv => NoLeak
  <2> SUFFICES ASSUME IInv, closed, xPc = "done", rPc = "exit",
                      NEW g \in 1..dials, sock[g] = "up"
               PROVE  g # xMux /\ ctx[g] /\ rl[g] \in {"run", "garbled"}
    BY DEF NoLeak
  <2>1. g \in Muxes /\ g <= dials /\ g # mux /\ g # 0
    BY DEF IInv, TypeOK, HolderInv
  <2>2. ctx[g]
    BY <2>1 DEF IInv, MuxInv, Held
  <2>3. g # xMux
    BY <2>1 DEF IInv, HolderInv
  <2>4. conn = "ws"
    BY <2>3 DEF IInv, TypeOK, PipeInv
  <2>5. rl[g] \in {"run", "garbled"}
    BY <2>1, <2>4 DEF IInv, TypeOK, MuxInv
  <2> QED
    BY <2>2, <2>3, <2>5
<1> QED
  BY <1>1, Invariance, PTL

\* Unavailable is read only on a mux that was lost, Canceled only after Close.
THEOREM StatusTellsWhy == Spec => []CloseStatus
<1>1. IInv => CloseStatus
  BY DEF IInv
<1> QED
  BY <1>1, Invariance, PTL

\* A stream NewStream has returned has a status once the read loop of its mux is
\* gone, unless it entered the map after failAll and the connection, a pipe or a
\* websocket nobody closed, still took its OPEN.
THEOREM NoStreamLeftBehind == Spec => []DeadMuxFailsStreams
<1>1. IInv => DeadMuxFailsStreams
  BY DEF IInv
<1> QED
  BY <1>1, Invariance, PTL

=============================================================================
