---------------------------- MODULE ServerProofs ----------------------------
(***************************************************************************)
(* Server: its safety properties for any number of OPENs, any cap on the   *)
(* concurrent streams and any capacity of the buffers.                     *)
(***************************************************************************)
EXTENDS Server, FiniteSetTheorems, TLAPS

USE ServerAssumption DEF Ids, Streams, peerVars, netVars, muxVars, hVars, hist

-----------------------------------------------------------------------------
(* Sequences and frames.                                                   *)

LEMMA SeqPop ==
  ASSUME NEW S, NEW q \in Seq(S), q # <<>>
  PROVE  /\ Head(q) = q[1] /\ q[1] \in S
         /\ Tail(q) \in Seq(S)
         /\ Len(q) \in Nat \ {0} /\ Len(Tail(q)) = Len(q) - 1
         /\ \A i \in 1..Len(Tail(q)) : Tail(q)[i] = q[i + 1]
OBVIOUS

LEMMA SeqPush ==
  ASSUME NEW S, NEW q \in Seq(S), NEW x \in S
  PROVE  /\ Append(q, x) \in Seq(S)
         /\ Len(q) \in Nat /\ Len(Append(q, x)) = Len(q) + 1
         /\ Append(q, x)[Len(q) + 1] = x
         /\ \A i \in 1..Len(q) : Append(q, x)[i] = q[i]
OBVIOUS

\* The frames of each channel.
In == [kind: {"OPEN", "MSG", "RST"}, id: Ids, n: Streams \cup {0}]
Out == [kind: {"MSG", "END", "RST"}, id: Ids]
Ctrl == [kind: {"RST"}, id: Ids]

LEMMA Pipes ==
  ASSUME TypeOK
  PROVE  /\ c2s \in Seq(In) /\ Len(c2s) <= PipeCap
         /\ s2c \in Seq(Out) /\ Len(s2c) <= PipeCap
         /\ ctrlCh \in Seq(Ctrl) /\ Len(ctrlCh) <= CtrlCap
BY DEF TypeOK, In, Out, Ctrl

LEMMA FrameIds ==
  ASSUME NEW f \in In \cup Out \cup Ctrl
  PROVE  f.id \in Ids
BY DEF In, Out, Ctrl

LEMMA Frames ==
  ASSUME NEW id \in Ids
  PROVE  /\ Frame("MSG", id) \in Out /\ Frame("END", id) \in Out
         /\ Frame("RST", id) \in Ctrl /\ Ctrl \subseteq Out
BY DEF Frame, Out, Ctrl

-----------------------------------------------------------------------------
(* Types.                                                                  *)

LEMMA TypeInit == Init => TypeOK
<1> SUFFICES ASSUME Init PROVE TypeOK
  OBVIOUS
<1>1. c2s \in Seq(In) /\ s2c \in Seq(Out) /\ ctrlCh \in Seq(Ctrl)
  BY DEF Init
<1>2. Len(c2s) <= PipeCap /\ Len(s2c) <= PipeCap /\ Len(ctrlCh) <= CtrlCap
  BY DEF Init
<1> QED
  BY <1>1, <1>2 DEF Init, TypeOK, In, Out, Ctrl

\* What the peer's steps have in common.
LEMMA PeerWrites ==
  ASSUME NEW id \in Ids, PeerSend(id) \/ PeerCancel(id) \/ \E n \in Streams : PeerOpen(n, id)
  PROVE  /\ \E f \in In : PeerWrite(f)
         /\ UNCHANGED <<conn, s2c, muxVars, hVars, hist>>
<1>1. CASE PeerSend(id) \/ PeerCancel(id)
  BY <1>1 DEF PeerSend, PeerCancel, PeerFrame, In
<1>2. ASSUME NEW n \in Streams, PeerOpen(n, id)
      PROVE  PeerFrame("OPEN", id, n) \in In /\ PeerWrite(PeerFrame("OPEN", id, n))
  BY <1>2 DEF PeerOpen, PeerFrame, In
<1> QED
  BY <1>1, <1>2 DEF PeerOpen

LEMMA TypePeer ==
  ASSUME TypeOK, NEW id \in Ids,
         PeerSend(id) \/ PeerCancel(id) \/ \E n \in Streams : PeerOpen(n, id)
  PROVE  TypeOK'
<1>1. c2s' \in Seq(In) /\ Len(c2s') <= PipeCap
  <2>1. PICK f \in In : PeerWrite(f)
    BY PeerWrites
  <2> QED
    BY <2>1, Pipes, SeqPush DEF PeerWrite
<1>2. /\ peer' \in [Ids -> {"new", "open", "ended", "cancelled"}]
      /\ idOf' \in [Streams -> Ids \cup {0}]
  <2>1. CASE PeerSend(id) \/ PeerCancel(id)
    BY <2>1 DEF TypeOK, PeerSend, PeerCancel
  <2>2. CASE \E n \in Streams : PeerOpen(n, id)
    BY <2>2 DEF TypeOK, PeerOpen
  <2> QED
    BY <2>1, <2>2
<1>3. UNCHANGED <<conn, s2c, muxVars, hVars, hist>>
  BY PeerWrites
<1> QED
  BY <1>1, <1>2, <1>3 DEF TypeOK, In

\* Whoever writes, with a frame of the server's, the pipe keeps its type.
LEMMA TypeWrite ==
  ASSUME TypeOK, NEW f \in Out, write(f)
  PROVE  s2c' \in Seq(Out) /\ Len(s2c') <= PipeCap
BY SeqPush DEF TypeOK, write, Out

LEMMA TypeCtrl ==
  ASSUME TypeOK, NEW id \in Ids, writeCtrl(Frame("RST", id))
  PROVE  ctrlCh' \in Seq(Ctrl) /\ Len(ctrlCh') <= CtrlCap /\ dropped' \subseteq Ids
<1>1. Frame("RST", id) \in Ctrl /\ Frame("RST", id).id = id
  BY Frames DEF Frame
<1> QED
  <2>1. CASE Len(ctrlCh) < CtrlCap /\ ctrlCh' = Append(ctrlCh, Frame("RST", id)) /\ UNCHANGED dropped
    BY SMTT(20), <1>1, <2>1, Pipes, SeqPush DEF TypeOK
  <2>2. CASE dropped' = dropped \cup {id} /\ UNCHANGED ctrlCh
    BY <2>2, Pipes DEF TypeOK
  <2> QED
    BY <1>1, <2>1, <2>2 DEF writeCtrl

LEMMA TypeNet == ASSUME TypeOK, PeerRead \/ ctrlWriter PROVE TypeOK'
<1>1. CASE PeerRead
  <2>1. s2c' \in Seq(Out) /\ Len(s2c') <= PipeCap /\ Head(s2c).id \in Ids
    BY <1>1, Pipes, SeqPop, FrameIds DEF PeerRead
  <2>2. peer' \in [Ids -> {"new", "open", "ended", "cancelled"}]
    BY <1>1, <2>1 DEF TypeOK, PeerRead
  <2> QED
    BY <1>1, <2>1, <2>2 DEF TypeOK, PeerRead, Out
<1>2. CASE ctrlWriter
  <2>1. ctrlCh' \in Seq(Ctrl) /\ Len(ctrlCh') <= CtrlCap /\ Head(ctrlCh) \in Out
    <3>1. ctrlCh \in Seq(Ctrl) /\ ctrlCh # <<>> /\ Len(ctrlCh) <= CtrlCap /\ ctrlCh' = Tail(ctrlCh)
      BY <1>2, Pipes DEF ctrlWriter
    <3>2. Ctrl \subseteq Out
      BY DEF Ctrl, Out
    <3> QED
      BY <3>1, <3>2, SeqPop
  <2>2. s2c' \in Seq(Out) /\ Len(s2c') <= PipeCap
    BY <1>2, <2>1, TypeWrite DEF TypeOK, ctrlWriter, Out
  <2> QED
    BY <1>2, <2>1, <2>2 DEF TypeOK, ctrlWriter, Ctrl, Out
<1> QED
  BY <1>1, <1>2

\* What the read loop takes off the pipe.
LEMMA Routes ==
  ASSUME TypeOK, NEW k, Route(k)
  PROVE  /\ Head(c2s) = c2s[1] /\ c2s[1] \in In /\ c2s[1].kind = k /\ 1 \in DOMAIN c2s
         /\ Head(c2s).id \in Ids
         /\ c2s' \in Seq(In) /\ Len(c2s') <= PipeCap
         /\ \A i \in DOMAIN c2s' : i + 1 \in DOMAIN c2s /\ i + 1 # 1 /\ c2s'[i] = c2s[i + 1]
         /\ UNCHANGED <<peerVars, conn, s2c, rl, muxCtx>> /\ rl = "run"
<1>1. /\ Head(c2s) = c2s[1] /\ c2s[1] \in In
      /\ c2s' \in Seq(In) /\ Len(c2s) \in Nat \ {0} /\ Len(c2s') = Len(c2s) - 1
      /\ \A i \in 1..Len(c2s') : c2s'[i] = c2s[i + 1]
  BY SeqPop DEF TypeOK, Route, In
<1>2. c2s[1].kind = k /\ Head(c2s).id \in Ids
  BY <1>1 DEF Route, In
<1>3. DOMAIN c2s = 1..Len(c2s) /\ DOMAIN c2s' = 1..Len(c2s') /\ Len(c2s') <= PipeCap
  BY <1>1, Pipes
<1> QED
  BY <1>1, <1>2, <1>3 DEF Route

LEMMA TypeRoute ==
  ASSUME TypeOK, OpenInv, OpenDup \/ OpenOver \/ Open \/ RouteIgnore \/ RouteRST \/ RouteOverflow
  PROVE  TypeOK'
<1> DEFINE id == Head(c2s).id
<1>1. /\ id \in Ids /\ c2s' \in Seq(In) /\ Len(c2s') <= PipeCap
      /\ UNCHANGED <<peerVars, conn, s2c, rl, muxCtx>>
  <2>1. PICK k : Route(k)
    BY DEF OpenDup, OpenOver, Open, RouteIgnore, RouteRST, RouteOverflow
  <2> QED
    BY <2>1, Routes
<1>2. CASE OpenDup \/ OpenOver
  <2>1. ctrlCh' \in Seq(Ctrl) /\ Len(ctrlCh') <= CtrlCap /\ dropped' \subseteq Ids
    BY <1>1, <1>2, TypeCtrl DEF OpenDup, OpenOver
  <2>2. UNCHANGED <<streams, hVars, freed>>
    BY <1>2 DEF OpenDup, OpenOver
  <2> QED
    BY <1>1, <2>1, <2>2 DEF TypeOK, In, Ctrl
<1>3. CASE Open
  <2>1. Head(c2s).n \in Streams
    BY <1>3, Routes DEF Open, OpenInv
  <2>2. /\ streams' \subseteq Streams
        /\ h' \in [Streams -> {"none", "spawned", "run", "end", "fail", "remove", "done"}]
    BY <1>3, <2>1 DEF TypeOK, Open
  <2> QED
    BY <1>1, <1>3, <2>2 DEF TypeOK, Open, In
<1>4. CASE RouteIgnore
  BY <1>1, <1>4 DEF TypeOK, RouteIgnore, In
<1>5. CASE RouteRST
  <2>1. ended' \in [Streams -> BOOLEAN] /\ streams' \subseteq Streams /\ freed' \subseteq Ids
    BY <1>1, <1>5 DEF TypeOK, RouteRST, removeKey
  <2> QED
    BY <1>1, <1>5, <2>1 DEF TypeOK, RouteRST, In
<1>6. CASE RouteOverflow
  <2>1. ctrlCh' \in Seq(Ctrl) /\ Len(ctrlCh') <= CtrlCap /\ dropped' \subseteq Ids
    BY <1>1, <1>6, TypeCtrl DEF RouteOverflow
  <2>2. /\ ended' \in [Streams -> BOOLEAN] /\ ctx' \in [Streams -> BOOLEAN]
        /\ streams' \subseteq Streams /\ freed' \subseteq Ids
    BY <1>1, <1>6 DEF TypeOK, RouteOverflow, removeKey
  <2> QED
    BY <1>1, <1>6, <2>1, <2>2 DEF TypeOK, RouteOverflow, In, Ctrl
<1> QED
  BY <1>2, <1>3, <1>4, <1>5, <1>6

LEMMA TypeHandler ==
  ASSUME TypeOK, OpenInv, NEW n \in Streams, serveStream(n) \/ Respond(n) \/ Return(n) \/ Deadline(n)
  PROVE  TypeOK'
<1>0. h[n] # "none" => idOf[n] \in Ids
  BY DEF TypeOK, OpenInv
<1>1. CASE Lookup(n)
  BY <1>1 DEF TypeOK, Lookup, HStep
<1>2. CASE endWrite(n)
  <2>1. s2c' \in Seq(Out) /\ Len(s2c') <= PipeCap
    BY <1>2, <1>0, Frames, TypeWrite DEF TypeOK, endWrite, HStep, Out
  <2> QED
    BY <1>2, <2>1 DEF TypeOK, endWrite, HStep, Out
<1>3. CASE endFail(n) \/ remove(n)
  BY <1>3 DEF TypeOK, endFail, remove, removeKey, HStep
<1>4. CASE Respond(n)
  <2>1. s2c' \in Seq(Out) /\ Len(s2c') <= PipeCap
    BY <1>4, <1>0, Frames, TypeWrite DEF TypeOK, Respond, Out
  <2> QED
    BY <1>4, <2>1 DEF TypeOK, Respond, Out
<1>5. CASE Return(n) \/ Deadline(n)
  BY <1>5 DEF TypeOK, Return, Deadline, HStep
<1> QED
  BY <1>1, <1>2, <1>3, <1>4, <1>5 DEF serveStream

LEMMA TypeNext == TypeOK /\ OpenInv /\ [Next]_vars => TypeOK'
<1> SUFFICES ASSUME TypeOK, OpenInv, [Next]_vars PROVE TypeOK'
  OBVIOUS
<1>1. CASE \E id \in Ids : PeerSend(id) \/ PeerCancel(id) \/ \E n \in Streams : PeerOpen(n, id)
  BY <1>1, TypePeer
<1>2. CASE PeerRead \/ ctrlWriter
  BY <1>2, TypeNet
<1>3. CASE \E how \in {"silent", "closed"} : ConnDrop(how)
  <2>1. s2c' \in Seq(Out) /\ Len(s2c') <= PipeCap
    BY <1>3 DEF TypeOK, ConnDrop, Out
  <2> QED
    BY <1>3, <2>1 DEF TypeOK, ConnDrop, Out
<1>4. CASE OpenDup \/ OpenOver \/ Open \/ RouteIgnore \/ RouteRST \/ RouteOverflow
  BY <1>4, TypeRoute
<1>5. CASE readLoopExit
  BY <1>5 DEF TypeOK, readLoopExit, failAll
<1>6. CASE keepalive
  BY <1>6 DEF TypeOK, keepalive, keepaliveCancel
<1>7. CASE ServeHTTP
  <2>1. s2c' \in Seq(Out) /\ Len(s2c') <= PipeCap
    BY <1>7 DEF ServeHTTP
  <2> QED
    BY <1>7, <2>1 DEF TypeOK, ServeHTTP, Out
<1>8. CASE \E n \in Streams : serveStream(n) \/ Respond(n) \/ Return(n) \/ Deadline(n)
  BY <1>8, TypeHandler
<1>9. CASE UNCHANGED vars
  BY <1>9 DEF TypeOK, vars
<1> QED
  BY <1>1, <1>2, <1>3, <1>4, <1>5, <1>6, <1>7, <1>8, <1>9 DEF Next, readLoop

-----------------------------------------------------------------------------
(* The pipe.                                                               *)

LEMMA OpenPeer ==
  ASSUME IInv, NEW id \in Ids,
         PeerSend(id) \/ PeerCancel(id) \/ \E n \in Streams : PeerOpen(n, id)
  PROVE  OpenInv' /\ \A n \in Streams : Active(n) => idOf'[n] = idOf[n]
<1> USE DEF IInv
<1>1. PICK f \in In :
        /\ PeerWrite(f) /\ UNCHANGED h
        /\ \/ f.kind # "OPEN" /\ f.n = 0 /\ UNCHANGED idOf
           \/ /\ f.kind = "OPEN" /\ f.n \in Streams /\ idOf[f.n] = 0
              /\ idOf' = [idOf EXCEPT ![f.n] = f.id]
  <2>1. CASE PeerSend(id)
    <3>1. PeerFrame("MSG", id, 0) \in In
      BY DEF PeerFrame, In
    <3> QED
      BY <2>1, <3>1 DEF PeerSend, PeerFrame
  <2>2. CASE PeerCancel(id)
    <3>1. PeerFrame("RST", id, 0) \in In
      BY DEF PeerFrame, In
    <3> QED
      BY <2>2, <3>1 DEF PeerCancel, PeerFrame
  <2>3. ASSUME NEW n \in Streams, PeerOpen(n, id)
        PROVE  /\ PeerFrame("OPEN", id, n) \in In /\ PeerWrite(PeerFrame("OPEN", id, n))
               /\ PeerFrame("OPEN", id, n).kind = "OPEN" /\ PeerFrame("OPEN", id, n).id = id
               /\ PeerFrame("OPEN", id, n).n = n
               /\ idOf[n] = 0 /\ idOf' = [idOf EXCEPT ![n] = id] /\ UNCHANGED h
    BY <2>3 DEF PeerOpen, PeerFrame, In
  <2> QED
    BY <2>1, <2>2, <2>3
<1>2. /\ c2s \in Seq(In) /\ c2s' \in Seq(In)
      /\ DOMAIN c2s = 1..Len(c2s) /\ DOMAIN c2s' = 1..(Len(c2s) + 1) /\ Len(c2s) \in Nat
      /\ c2s'[Len(c2s) + 1] = f /\ \A i \in DOMAIN c2s : c2s'[i] = c2s[i]
  <2>1. /\ c2s' \in Seq(In) /\ Len(c2s) \in Nat /\ Len(c2s') = Len(c2s) + 1
        /\ c2s'[Len(c2s) + 1] = f /\ \A i \in 1..Len(c2s) : c2s'[i] = c2s[i]
    BY <1>1, Pipes, SeqPush DEF PeerWrite
  <2> QED
    BY <2>1, Pipes
<1>3. \A n \in Streams : idOf[n] # 0 => idOf'[n] = idOf[n]
  BY <1>1 DEF TypeOK
<1>4. \A n \in Streams : Active(n) => idOf'[n] = idOf[n]
  BY <1>3 DEF OpenInv, Active
<1>5. \A i \in DOMAIN c2s : (c2s[i].id \in Ids /\ c2s[i].n # f.n) \/ f.kind # "OPEN"
  <2> SUFFICES ASSUME NEW i \in DOMAIN c2s, f.kind = "OPEN" PROVE c2s[i].id \in Ids /\ c2s[i].n # f.n
    OBVIOUS
  <2>1. c2s[i] \in In /\ c2s[i].id \in Ids /\ 0 \notin Ids /\ 0 \notin Streams
    <3>1. c2s[i] \in In
      BY <1>2
    <3> QED
      BY <3>1 DEF In
  <2>2. f.n \in Streams /\ idOf[f.n] = 0
    BY <1>1
  <2> QED
    BY <2>1, <2>2 DEF OpenInv
<1>6. ASSUME NEW i \in DOMAIN c2s, c2s[i].kind = "OPEN"
      PROVE  /\ c2s[i].n \in Streams /\ idOf'[c2s[i].n] = c2s[i].id /\ h'[c2s[i].n] = "none"
             /\ c2s[i].n # f.n
  <2>1. c2s[i].n \in Streams /\ idOf[c2s[i].n] = c2s[i].id /\ h[c2s[i].n] = "none"
    BY <1>6 DEF OpenInv
  <2>2. c2s[i].id \in Ids /\ 0 \notin Ids /\ 0 \notin Streams
    <3>1. c2s[i] \in In
      BY <1>2
    <3> QED
      BY <3>1 DEF In
  <2> QED
    BY <1>1, <1>3, <1>5, <2>1, <2>2
<1>7. ASSUME NEW i \in DOMAIN c2s'
      PROVE  /\ c2s'[i].kind # "OPEN" => c2s'[i].n = 0
             /\ c2s'[i].kind = "OPEN" =>
                 /\ c2s'[i].n \in Streams /\ idOf'[c2s'[i].n] = c2s'[i].id
                 /\ h'[c2s'[i].n] = "none"
                 /\ \A j \in DOMAIN c2s' : j # i => c2s'[j].n # c2s'[i].n
  <2>1. CASE i \in DOMAIN c2s
    BY <1>2, <1>6, <2>1 DEF OpenInv
  <2>2. CASE i = Len(c2s) + 1
    <3>1. c2s'[i] = f /\ \A j \in DOMAIN c2s' : j # i => j \in DOMAIN c2s /\ c2s'[j] = c2s[j]
      BY <1>2, <2>2
    <3>2. CASE f.kind # "OPEN"
      BY <1>1, <3>1, <3>2
    <3>3. CASE f.kind = "OPEN"
      <4>1. f.n \in Streams /\ idOf[f.n] = 0 /\ h[f.n] = "none" /\ idOf'[f.n] = f.id
        BY <1>1, <3>3 DEF OpenInv, TypeOK
      <4> QED
        BY <1>1, <1>5, <3>1, <3>3, <4>1
    <3> QED
      BY <3>2, <3>3
  <2> QED
    BY <1>2, <2>1, <2>2
<1>8. \A n \in Streams : idOf'[n] = 0 => h'[n] = "none"
  BY <1>1, <1>3 DEF OpenInv
<1> QED
  BY <1>4, <1>7, <1>8 DEF OpenInv

\* Reading a frame off the pipe, with or without starting its goroutine.
LEMMA OpenRoute ==
  ASSUME IInv, NEW k, Route(k),
         \/ UNCHANGED h
         \/ k = "OPEN" /\ h' = [h EXCEPT ![Head(c2s).n] = "spawned"]
  PROVE  OpenInv'
<1> USE DEF IInv
<1>1. /\ Head(c2s) = c2s[1] /\ 1 \in DOMAIN c2s /\ UNCHANGED idOf /\ c2s[1].kind = k
      /\ \A i \in DOMAIN c2s' : i + 1 \in DOMAIN c2s /\ i + 1 # 1 /\ c2s'[i] = c2s[i + 1]
      /\ \A i \in DOMAIN c2s' : i \in Nat
  <2>1. c2s' \in Seq(In)
    BY Routes
  <2> QED
    BY <2>1, Routes
<1>2. ASSUME NEW i \in DOMAIN c2s'
      PROVE  /\ c2s'[i].kind # "OPEN" => c2s'[i].n = 0
             /\ c2s'[i].kind = "OPEN" =>
                 /\ c2s'[i].n \in Streams /\ idOf'[c2s'[i].n] = c2s'[i].id
                 /\ h'[c2s'[i].n] = "none"
                 /\ \A j \in DOMAIN c2s' : j # i => c2s'[j].n # c2s'[i].n
  <2>1. i + 1 \in DOMAIN c2s /\ i + 1 # 1 /\ c2s'[i] = c2s[i + 1]
    BY <1>1
  <2>2. ASSUME c2s'[i].kind = "OPEN"
        PROVE  /\ c2s'[i].n \in Streams /\ idOf'[c2s'[i].n] = c2s'[i].id
               /\ h[c2s'[i].n] = "none" /\ c2s'[i].n # Head(c2s).n
    BY <1>1, <2>1, <2>2 DEF OpenInv
  <2>3. ASSUME c2s'[i].kind = "OPEN", NEW j \in DOMAIN c2s', j # i
        PROVE  c2s'[j].n # c2s'[i].n
    <3>1. j + 1 \in DOMAIN c2s /\ c2s'[j] = c2s[j + 1] /\ j + 1 # i + 1
      BY <1>1, <2>3
    <3> QED
      BY <2>1, <2>3, <3>1 DEF OpenInv
  <2>4. c2s'[i].kind = "OPEN" => h'[c2s'[i].n] = "none"
    BY <2>2 DEF TypeOK
  <2>5. c2s'[i].kind # "OPEN" => c2s'[i].n = 0
    BY <2>1 DEF OpenInv
  <2> QED
    BY <2>2, <2>3, <2>4, <2>5
<1>3. \A n \in Streams : idOf'[n] = 0 => h'[n] = "none"
  <2>1. CASE UNCHANGED h
    BY <1>1, <2>1 DEF OpenInv
  <2>2. CASE k = "OPEN" /\ h' = [h EXCEPT ![Head(c2s).n] = "spawned"]
    <3>1. Head(c2s).n \in Streams /\ idOf[Head(c2s).n] = Head(c2s).id /\ Head(c2s).id # 0
      <4>1. Head(c2s).id \in Ids
        BY Routes
      <4> QED
        BY <1>1, <2>2, <4>1 DEF OpenInv
    <3> QED
      BY <1>1, <2>2, <3>1 DEF OpenInv, TypeOK
  <2> QED
    BY <2>1, <2>2
<1> QED
  BY <1>2, <1>3 DEF OpenInv

-----------------------------------------------------------------------------
(* The slots and the handlers.                                             *)

LEMMA SlotsCounted ==
  ASSUME TypeOK
  PROVE  IsFiniteSet(streams) /\ Cardinality(streams) \in Nat
<1>1. IsFiniteSet(1..Opens)
  BY FS_Interval
<1>2. IsFiniteSet(streams)
  BY <1>1, FS_Subset DEF TypeOK
<1> QED
  BY <1>2, FS_CardinalityType

LEMMA FewerSlots ==
  ASSUME TypeOK, SlotOwned, streams' \subseteq streams
  PROVE  MaxStreams > 0 => Cardinality(streams') <= MaxStreams
<1>1. Cardinality(streams') <= Cardinality(streams) /\ IsFiniteSet(streams')
  BY SlotsCounted, FS_Subset
<1>2. Cardinality(streams') \in Nat
  BY <1>1, FS_CardinalityType
<1> QED
  BY <1>1, <1>2, SlotsCounted DEF SlotOwned

\* Steps that leave the map, its keys and the goroutines alone.
LEMMA StillKeeps ==
  ASSUME IInv, UNCHANGED <<streams, h, freed, rl>>,
         \A n \in Streams : Active(n) => idOf'[n] = idOf[n]
  PROVE  SlotOwned' /\ OneHandler' /\ KeyInv'
<1> USE DEF IInv
<1>1. SlotOwned'
  BY DEF SlotOwned, Active
<1>2. OneHandler'
  BY DEF OneHandler, Active
<1>3. KeyInv'
  BY DEF KeyInv, SlotOwned, TypeOK
<1> QED
  BY <1>1, <1>2, <1>3

\* route removes the entry of an id and marks the id freed.
LEMMA FreeKeeps ==
  ASSUME IInv, NEW id \in Ids, removeKey(id), freed' = freed \cup {id},
         UNCHANGED <<idOf, h, rl>>, rl = "run"
  PROVE  SlotOwned' /\ OneHandler' /\ KeyInv'
<1> USE DEF IInv
<1>1. streams' \subseteq streams /\ \A n \in streams : idOf[n] # id => n \in streams'
  BY DEF removeKey, Entry
<1>2. SlotOwned'
  BY <1>1, FewerSlots DEF SlotOwned, Active
<1>3. OneHandler'
  BY <1>1 DEF OneHandler, Active
<1>4. KeyInv'
  BY <1>1 DEF KeyInv
<1> QED
  BY <1>2, <1>3, <1>4

\* Only the read loop starts a goroutine, for an id without an entry.
LEMMA StartKeeps ==
  ASSUME IInv, Open
  PROVE  SlotOwned' /\ OneHandler' /\ KeyInv'
<1> USE DEF IInv
<1> DEFINE m == Head(c2s).n
<1>1. /\ m \in Streams /\ h[m] = "none" /\ idOf[m] = Head(c2s).id
      /\ UNCHANGED <<idOf, rl>> /\ rl = "run"
  BY Routes DEF Open, OpenInv
<1>2. /\ streams' = streams \cup {m} /\ h' = [h EXCEPT ![m] = "spawned"] /\ freed' = freed
      /\ ~over /\ \A n \in streams : idOf[n] # idOf[m]
  BY <1>1 DEF Open, dupId, Entry
<1> HIDE DEF m
<1>3. m \notin streams
  BY <1>1 DEF SlotOwned, Active
<1>4. MaxStreams > 0 => Cardinality(streams') <= MaxStreams
  <2>1. Cardinality(streams') = Cardinality(streams) + 1
    BY <1>2, <1>3, SlotsCounted, FS_AddElement
  <2> QED
    BY <1>2, <2>1, SlotsCounted DEF over
<1>5. \A n \in Streams : Active(n)' <=> Active(n) \/ n = m
  BY <1>1, <1>2 DEF Active, TypeOK
<1>6. SlotOwned'
  BY <1>1, <1>2, <1>4, <1>5 DEF SlotOwned, TypeOK
<1>7. OneHandler'
  BY <1>1, <1>2, <1>5 DEF OneHandler
<1>8. KeyInv'
  BY <1>1, <1>2 DEF KeyInv
<1> QED
  BY <1>6, <1>7, <1>8

\* A goroutine moves on.
LEMMA MoveKeeps ==
  ASSUME IInv, NEW n \in Streams, Lookup(n) \/ endWrite(n) \/ endFail(n) \/ Return(n)
  PROVE  SlotOwned' /\ OneHandler' /\ OpenInv' /\ KeyInv'
<1> USE DEF IInv
<1>1. PICK to \in {"run", "end", "fail", "remove"} : h' = [h EXCEPT ![n] = to]
  BY DEF Lookup, endWrite, endFail, Return, HStep
<1>2. UNCHANGED <<c2s, idOf, streams, freed, rl>> /\ Active(n)
  BY DEF Lookup, endWrite, endFail, Return, HStep, Active
<1>3. \A k \in Streams : (Active(k)' <=> Active(k)) /\ (h[k] = "none" => h'[k] = "none")
  BY <1>1, <1>2 DEF Active, TypeOK
<1>4. SlotOwned'
  BY <1>2, <1>3 DEF SlotOwned, TypeOK
<1>5. OneHandler'
  BY <1>2, <1>3 DEF OneHandler
<1>6. OpenInv'
  BY <1>2, <1>3 DEF OpenInv
<1>7. KeyInv'
  BY <1>2 DEF KeyInv
<1> QED
  BY <1>4, <1>5, <1>6, <1>7

\* The deferred remove deletes the entry under the id, which is the
\* goroutine's own unless the id was freed.
LEMMA RemoveKeeps ==
  ASSUME IInv, NEW n \in Streams, remove(n)
  PROVE  SlotOwned' /\ OneHandler' /\ OpenInv' /\ KeyInv'
<1> USE DEF IInv
<1>1. /\ h' = [h EXCEPT ![n] = "done"] /\ h[n] = "remove"
      /\ UNCHANGED <<c2s, idOf, freed, rl>>
      /\ streams' \subseteq streams /\ \A k \in streams : idOf[k] # idOf[n] => k \in streams'
      /\ n \notin streams'
  BY DEF remove, HStep, removeKey, Entry
<1>2. Active(n) /\ ~Active(n)' /\ \A k \in Streams : k # n => h'[k] = h[k]
  BY <1>1 DEF Active, TypeOK
<1>3. \A k \in Streams : Active(k)' <=> Active(k) /\ k # n
  BY <1>1, <1>2 DEF Active, TypeOK
<1>4. SlotOwned'
  <2>1. MaxStreams > 0 => Cardinality(streams') <= MaxStreams
    BY <1>1, FewerSlots
  <2> QED
    BY <1>1, <1>3, <2>1 DEF SlotOwned, TypeOK
<1>5. OneHandler'
  <2> SUFFICES ASSUME NEW k \in Streams, Active(k)', idOf[k] \notin freed
               PROVE  /\ rl = "run" => k \in streams'
                      /\ \A l \in Streams : Active(l)' /\ idOf[l] = idOf[k] => l = k
    BY <1>1 DEF OneHandler
  <2>1. idOf[k] # idOf[n]
    BY <1>2, <1>3 DEF OneHandler
  <2> QED
    BY <1>1, <1>3, <2>1 DEF OneHandler
<1>6. OpenInv'
  <2>1. \A k \in Streams : h[k] = "none" => h'[k] = "none"
    BY <1>1, <1>2
  <2> QED
    BY <1>1, <2>1 DEF OpenInv
<1>7. KeyInv'
  BY <1>1 DEF KeyInv
<1> QED
  BY <1>4, <1>5, <1>6, <1>7

LEMMA RouteKeeps ==
  ASSUME IInv, OpenDup \/ OpenOver \/ Open \/ RouteIgnore \/ RouteRST \/ RouteOverflow
  PROVE  SlotOwned' /\ OneHandler' /\ OpenInv' /\ KeyInv'
<1> USE DEF IInv
<1>1. CASE OpenDup \/ OpenOver \/ RouteIgnore
  <2>1. PICK k : Route(k)
    BY <1>1 DEF OpenDup, OpenOver, RouteIgnore
  <2>2. UNCHANGED <<streams, h, freed, rl, idOf>>
    BY <1>1, <2>1, Routes DEF OpenDup, OpenOver, RouteIgnore
  <2> QED
    BY <2>1, <2>2, OpenRoute, StillKeeps
<1>2. CASE Open
  <2>1. Route("OPEN") /\ h' = [h EXCEPT ![Head(c2s).n] = "spawned"]
    BY <1>2 DEF Open
  <2> QED
    BY <1>2, <2>1, OpenRoute, StartKeeps
<1>3. CASE RouteRST \/ RouteOverflow
  <2>1. PICK k : Route(k)
    BY <1>3 DEF RouteRST, RouteOverflow
  <2>2. /\ removeKey(Head(c2s).id) /\ freed' = freed \cup {Head(c2s).id} /\ UNCHANGED h
    BY <1>3 DEF RouteRST, RouteOverflow
  <2>3. Head(c2s).id \in Ids /\ UNCHANGED <<idOf, rl>> /\ rl = "run"
    BY <2>1, Routes
  <2> QED
    BY <2>1, <2>2, <2>3, OpenRoute, FreeKeeps
<1> QED
  BY <1>1, <1>2, <1>3

LEMMA ExitKeeps ==
  ASSUME IInv, readLoopExit
  PROVE  SlotOwned' /\ OneHandler' /\ OpenInv' /\ KeyInv'
<1> USE DEF IInv
<1>1. streams' = {} /\ rl' = "exited" /\ UNCHANGED <<c2s, idOf, h, freed>>
  BY DEF readLoopExit, failAll
<1>2. SlotOwned'
  BY <1>1, FewerSlots DEF SlotOwned
<1>3. OneHandler' /\ OpenInv' /\ KeyInv'
  BY <1>1 DEF OneHandler, Active, OpenInv, KeyInv
<1> QED
  BY <1>2, <1>3

-----------------------------------------------------------------------------
(* The theorems.                                                           *)

LEMMA InvInit == Init => IInv
<1> SUFFICES ASSUME Init PROVE IInv
  OBVIOUS
<1>1. SlotOwned
  BY FS_EmptySet DEF Init, SlotOwned
<1>2. OneHandler /\ KeyInv
  BY DEF Init, OneHandler, Active, KeyInv
<1>3. OpenInv
  BY DEF Init, OpenInv
<1> QED
  BY <1>1, <1>2, <1>3, TypeInit DEF IInv

LEMMA InvNext == IInv /\ [Next]_vars => IInv'
<1> SUFFICES ASSUME IInv, [Next]_vars PROVE IInv'
  OBVIOUS
<1>1. TypeOK'
  BY TypeNext DEF IInv
<1>2. CASE \E id \in Ids : PeerSend(id) \/ PeerCancel(id) \/ \E n \in Streams : PeerOpen(n, id)
  <2>1. OpenInv' /\ \A n \in Streams : Active(n) => idOf'[n] = idOf[n]
    BY <1>2, OpenPeer
  <2>2. UNCHANGED <<streams, h, freed, rl>>
    BY <1>2, PeerWrites
  <2> QED
    BY <1>1, <2>1, <2>2, StillKeeps DEF IInv
<1>3. CASE OpenDup \/ OpenOver \/ Open \/ RouteIgnore \/ RouteRST \/ RouteOverflow
  BY <1>1, <1>3, RouteKeeps DEF IInv
<1>4. CASE readLoopExit
  BY <1>1, <1>4, ExitKeeps DEF IInv
<1>5. CASE \E n \in Streams : Lookup(n) \/ endWrite(n) \/ endFail(n) \/ Return(n)
  BY <1>1, <1>5, MoveKeeps DEF IInv
<1>6. CASE \E n \in Streams : remove(n)
  BY <1>1, <1>6, RemoveKeeps DEF IInv
<1>7. CASE \/ \E n \in Streams : Respond(n) \/ Deadline(n)
           \/ PeerRead \/ ctrlWriter \/ keepalive \/ ServeHTTP
           \/ \E how \in {"silent", "closed"} : ConnDrop(how)
           \/ UNCHANGED vars
  <2>1. UNCHANGED <<c2s, idOf, streams, h, freed, rl>>
    BY <1>7 DEF Respond, Deadline, PeerRead, ctrlWriter, keepalive, ServeHTTP, ConnDrop, vars
  <2>2. OpenInv'
    BY <2>1 DEF IInv, OpenInv
  <2> QED
    BY <1>1, <2>1, <2>2, StillKeeps DEF IInv
<1> QED
  BY <1>2, <1>3, <1>4, <1>5, <1>6, <1>7 DEF Next, readLoop, serveStream

\* Every step of the peer, the read loop, the control writer and the stream
\* goroutines keeps the inductive invariant, whatever ids the OPENs carry.
THEOREM Invariance == Spec => []IInv
BY InvInit, InvNext, PTL DEF Spec

\* The connection's state keeps its type; in particular writeCtrl never queues
\* past ctrlBufferSize.
THEOREM TypeCorrect == Spec => []TypeOK
<1>1. IInv => TypeOK
  BY DEF IInv
<1> QED
  BY <1>1, Invariance, PTL

\* The streams map stays within the cap, each of its entries has a goroutine
\* that is still to remove it, and none outlives the read loop.
THEOREM SlotsOwned == Spec => []SlotOwned
<1>1. IInv => SlotOwned
  BY DEF IInv
<1> QED
  BY <1>1, Invariance, PTL

\* A handler runs outside the streams map, or beside another one of its id,
\* only when route removed an entry of the id for an RST or an overflow, in
\* whatever order repeats, cancels, overflows and returns arrive.
THEOREM OneHandlerAtMost == Spec => []OneHandler
<1>1. IInv => OneHandler
  BY DEF IInv
<1> QED
  BY <1>1, Invariance, PTL

=============================================================================
