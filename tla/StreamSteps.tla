---------------------------- MODULE StreamSteps -----------------------------
(* Stream: type correctness, and how its steps change the pipes, the       *)
(* totals and the parts of the inductive invariant, for every value of the *)
(* constants.                                                              *)
EXTENDS Stream, TLAPS

USE DEF endVars, sndVars, bufVars, rcvVars, hVars, netVars, hist

-----------------------------------------------------------------------------
(* Sequences and frames.                                                   *)

LEMMA SeqPop ==
  ASSUME NEW S, NEW q \in Seq(S), q # <<>>
  PROVE  /\ Head(q) = q[1] /\ q[1] \in S
         /\ Tail(q) \in Seq(S)
         /\ Len(q) \in Nat \ {0} /\ Len(Tail(q)) = Len(q) - 1
         /\ \A i \in 1..Len(Tail(q)) : Tail(q)[i] = q[i + 1]
OBVIOUS

LEMMA SeqPush ==
  ASSUME NEW S, NEW q \in Seq(S), NEW x \in S
  PROVE  /\ Append(q, x) \in Seq(S) /\ Append(q, x) # <<>>
         /\ Len(q) \in Nat /\ Len(Append(q, x)) = Len(q) + 1
         /\ Append(q, x)[Len(q) + 1] = x
         /\ \A i \in 1..Len(q) : Append(q, x)[i] = q[i]
OBVIOUS

LEMMA SeqEmpty ==
  ASSUME NEW S, NEW q \in Seq(S)
  PROVE  q = <<>> <=> Len(q) = 0
OBVIOUS

LEMMA ModNat ==
  ASSUME NEW a \in Nat, NEW b \in Nat \ {0}
  PROVE  /\ a % b \in Nat
         /\ a < b => a % b = a
OBVIOUS

LEMMA FrameFields ==
  ASSUME NEW f \in Frame
  PROVE  /\ f.n \in Nat /\ f.seq \in Nat /\ f.off \in Nat
         /\ f.kind \in Kinds /\ f.code \in Codes
BY DEF Frame

LEMMA NewFrames ==
  ASSUME TypeOK, NEW kind \in Kinds, NEW n \in Nat, NEW code \in Codes
  PROVE  FwdFrame(kind, n, code) \in Frame /\ BackFrame(kind, n, code) \in Frame
BY DEF TypeOK, Frame, FwdFrame, BackFrame

LEMMA PopBack ==
  ASSUME TypeOK, back # <<>>
  PROVE  Head(back) \in Frame /\ Tail(back) \in Seq(Frame) /\ Head(back).n \in Nat
<1> Head(back) \in Frame /\ Tail(back) \in Seq(Frame)
  BY SeqPop DEF TypeOK
<1> QED
  BY FrameFields

LEMMA PopFwd ==
  ASSUME TypeOK, fwd # <<>>
  PROVE  Head(fwd) \in Frame /\ Tail(fwd) \in Seq(Frame) /\ Head(fwd).n \in Nat
<1> Head(fwd) \in Frame /\ Tail(fwd) \in Seq(Frame)
  BY SeqPop DEF TypeOK
<1> QED
  BY FrameFields

LEMMA PopItems ==
  ASSUME TypeOK, recvItems # <<>>
  PROVE  Tail(recvItems) \in Seq(Frame) /\ Head(recvItems).n \in Nat
<1> Head(recvItems) \in Frame /\ Tail(recvItems) \in Seq(Frame)
  BY SeqPop DEF TypeOK
<1> QED
  BY FrameFields

\* A frame of the right type leaves a pipe a sequence of frames.
LEMMA WriteTyped ==
  ASSUME TypeOK, NEW f \in Frame
  PROVE  (WriteFwd(f) => fwd' \in Seq(Frame)) /\ (WriteBack(f) => back' \in Seq(Frame))
<1> Append(fwd, f) \in Seq(Frame) /\ Append(back, f) \in Seq(Frame)
  BY SeqPush DEF TypeOK
<1> QED
  BY Zenon DEF WriteFwd, WriteBack

LEMMA PopRecvTyped ==
  ASSUME TypeOK, popRecv
  PROVE  /\ recvItems' \in Seq(Frame) /\ recvBytes' \in Int
         /\ rcvPc' = "credit" /\ rcvArg' \in Nat
         /\ got' \in Nat /\ popped' \in Nat
<1> Tail(recvItems) \in Seq(Frame) /\ Head(recvItems).n \in Nat
  BY PopItems DEF popRecv
<1> QED
  BY DEF popRecv, TypeOK

-----------------------------------------------------------------------------
(* Type correctness.                                                       *)

LEMMA TypeInit == Init => TypeOK
<1> SUFFICES ASSUME Init PROVE TypeOK
  OBVIOUS
<1>1. TypeBool
  BY Zenon DEF Init, TypeBool
<1>2. NoFrame \in Frame /\ NotEnded \in
        [by: {"none", "local", "END", "HALF_CLOSE", "ctx"},
         code: Codes \cup {"none"}, ctx: BOOLEAN]
  BY DEF NoFrame, Frame, Kinds, Codes, NotEnded
<1> QED
  BY <1>1, <1>2, StreamAssumption DEF Init, TypeOK, Codes

LEMMA TypeBoolNext == TypeOK /\ [Next]_vars => TypeBool'
<1> SUFFICES ASSUME TypeBool, [Next]_vars PROVE TypeBool'
  BY DEF TypeOK
<1> USE DEF TypeBool
<1>1. ASSUME NEW n \in Sizes, SendRaw(n) PROVE TypeBool'
  BY Zenon, <1>1 DEF SendRaw
<1>2. CASE SendWait
  BY Zenon, <1>2 DEF SendWait
<1>3. CASE SendWrite
  BY Zenon, <1>3 DEF SendWrite
<1>4. CASE CloseSend
  BY Zenon, <1>4 DEF CloseSend
<1>5. CASE PeerRecvEnded
  BY Zenon, <1>5 DEF PeerRecvEnded
<1>6. ASSUME NEW code \in {"OK", "App"}, EndWrite(code) PROVE TypeBool'
  BY Zenon, <1>6 DEF EndWrite
<1>7. CASE EndFail
  BY Zenon, <1>7 DEF EndFail
<1>8. CASE RouteSndUnknown
  BY Zenon, <1>8 DEF RouteSndUnknown, RouteSnd
<1>9. CASE creditSend
  BY Zenon, <1>9 DEF creditSend, RouteSnd
<1>10. CASE signalEndFrame
  BY Zenon, <1>10 DEF signalEndFrame, RouteSnd
<1>11. CASE signalEndClose
  BY Zenon, <1>11 DEF signalEndClose
<1>12. CASE RouteRcvDrop
  BY Zenon, <1>12 DEF RouteRcvDrop, RouteRcv
<1>13. CASE tryDeliver
  BY Zenon, <1>13 DEF tryDeliver, RouteRcv
<1>14. CASE OverflowReset
  BY Zenon, <1>14 DEF writeCtrl, OverflowReset
<1>15. CASE halfClose
  BY Zenon, <1>15 DEF halfClose, RouteRcv
<1>16. CASE signalEndRcv
  BY Zenon, <1>16 DEF signalEndRcv, RouteRcv
<1>17. CASE ctrlWriter
  BY Zenon, <1>17 DEF ctrlWriter
<1>18. CASE RecvLoop
  BY Zenon, <1>18 DEF RecvLoop
<1>19. CASE RecvSelect
  BY Zenon, <1>19 DEF RecvSelect
<1>20. CASE returnCredit
  BY Zenon, <1>20 DEF returnCredit, Delta
<1>21. CASE creditWrite
  BY Zenon, <1>21 DEF creditWrite
<1>22. ASSUME NEW e \in Ends, Cancel(e) PROVE TypeBool'
  BY Zenon, <1>22 DEF Cancel
<1>23. ASSUME NEW e \in Ends, readLoopExit(e) PROVE TypeBool'
  BY Zenon, <1>23 DEF readLoopExit, failAll
<1>24. CASE ConnDrop
  BY Zenon, <1>24 DEF ConnDrop
<1>25. CASE UNCHANGED vars
  BY <1>25 DEF vars
<1> QED
  BY <1>1, <1>2, <1>3, <1>4, <1>5, <1>6, <1>7, <1>8, <1>9, <1>10, <1>11, <1>12, <1>13, <1>14, <1>15, <1>16, <1>17, <1>18, <1>19, <1>20, <1>21, <1>22, <1>23, <1>24, <1>25 DEF Next

LEMMA TypeNext == TypeOK /\ [Next]_vars => TypeOK'
<1> SUFFICES ASSUME TypeOK, [Next]_vars PROVE TypeOK'
  OBVIOUS
<1> USE StreamAssumption, TypeBoolNext DEF TypeOK
<1>1. ASSUME NEW n \in Sizes, SendRaw(n) PROVE TypeOK'
  BY <1>1 DEF SendRaw
<1>2. CASE SendWait
  BY <1>2 DEF SendWait
<1>3. CASE SendWrite
  <2>1. FwdFrame("MSG", sndArg, "OK") \in Frame
    BY NewFrames DEF Kinds, Codes
  <2>2. fwd' \in Seq(Frame)
    BY <1>3, <2>1, WriteTyped DEF SendWrite
  <2> QED
    BY SMTT(30), <1>3, <2>2 DEF SendWrite
<1>4. CASE CloseSend
  <2>1. FwdFrame("HALF_CLOSE", 0, "OK") \in Frame
    BY NewFrames DEF Kinds, Codes
  <2>2. fwd' \in Seq(Frame)
    BY <1>4, <2>1, WriteTyped DEF CloseSend
  <2> QED
    BY <1>4, <2>2 DEF CloseSend
<1>5. CASE PeerRecvEnded
  BY <1>5, FrameFields DEF PeerRecvEnded, applyEnd, wakeSenders, Ends
<1>6. ASSUME NEW code \in {"OK", "App"}, EndWrite(code) PROVE TypeOK'
  <2>1. FwdFrame("END", 0, code) \in Frame /\ BackFrame("END", 0, code) \in Frame
    BY NewFrames DEF Kinds, Codes
  <2>2. fwd' \in Seq(Frame) /\ back' \in Seq(Frame)
    BY Zenon, <1>6, <2>1, WriteTyped DEF EndWrite
  <2> QED
    BY <1>6, <2>2 DEF EndWrite, Codes
<1>7. CASE EndFail
  BY <1>7 DEF EndFail, failWith, wakeSenders, remove, Codes
<1>8. CASE RouteSndUnknown
  BY <1>8, PopBack DEF RouteSndUnknown, RouteSnd
<1>9. CASE creditSend
  BY <1>9, PopBack DEF creditSend, RouteSnd, wakeSenders
<1>10. CASE signalEndFrame
  <2>1. endFrame' \in [Ends -> Frame] /\ back' \in Seq(Frame)
    BY Zenon, <1>10, PopBack DEF signalEndFrame, RouteSnd
  <2> QED
    BY <1>10, <2>1 DEF signalEndFrame, RouteSnd
<1>11. CASE signalEndClose
  BY Zenon, <1>11 DEF signalEndClose, remove
<1>12. CASE RouteRcvDrop
  BY <1>12, PopFwd, SeqPush DEF RouteRcvDrop, RouteRcv
<1>13. CASE tryDeliver
  BY SMTT(30), <1>13, PopFwd, SeqPush DEF tryDeliver, RouteRcv
<1>14. CASE OverflowReset
  <2>1. fwd' \in Seq(Frame)
    BY <1>14, PopFwd DEF writeCtrl, OverflowReset
  <2>2. /\ endSt' \in [Ends -> Codes \cup {"none"}]
        /\ ended' \in [Ends -> BOOLEAN] /\ ctxErr' \in [Ends -> BOOLEAN]
        /\ registered' \in [Ends -> BOOLEAN] /\ sndPc' = sndPc
    BY Zenon, <1>14 DEF writeCtrl, OverflowReset, failWith, wakeSenders, remove, Codes
  <2> QED
    BY <1>14, <2>1, <2>2 DEF writeCtrl, OverflowReset
<1>15. CASE halfClose
  BY <1>15, PopFwd, SeqPush DEF halfClose, RouteRcv
<1>16. CASE signalEndRcv
  <2>1. endFrame' \in [Ends -> Frame] /\ fwd' \in Seq(Frame)
    BY Zenon, <1>16, PopFwd DEF signalEndRcv, RouteRcv
  <2> QED
    BY <1>16, <2>1 DEF signalEndRcv, RouteRcv, remove
<1>17. CASE ctrlWriter
  <2>1. BackFrame("RST", 0, "ResourceExhausted") \in Frame
    BY NewFrames DEF Kinds, Codes
  <2>2. back' \in Seq(Frame)
    BY Zenon, <1>17, <2>1, WriteTyped DEF ctrlWriter
  <2> QED
    BY <1>17, <2>2 DEF ctrlWriter
<1>18. CASE RecvLoop
  <2>1. CASE popRecv
    <3>1. UNCHANGED <<endVars, server, sndVars, pendingCredit, hVars, netVars,
                      outcome, sent, written, returned>>
      BY <1>18, <2>1 DEF RecvLoop, popRecv
    <3> QED
      BY <2>1, <3>1, PopRecvTyped
  <2>2. CASE ~popRecv
    BY <1>18, <2>2 DEF RecvLoop
  <2> QED
    BY Zenon, <2>1, <2>2
<1>19. CASE RecvSelect
  <2>1. CASE popRecv
    <3>1. UNCHANGED <<endVars, server, sndVars, pendingCredit, hVars, netVars,
                      outcome, sent, written, returned>>
      BY <1>19, <2>1 DEF RecvSelect, popRecv
    <3> QED
      BY <2>1, <3>1, PopRecvTyped
  <2>2. CASE ~popRecv
    <3>1. endFrame["rcv"].code \in Codes
      BY FrameFields DEF Ends
    <3>2. endSt["rcv"] \in Codes \cup {"none"} /\ ctxErr["rcv"] \in BOOLEAN
      BY DEF Ends
    <3>3. outcome' \in [by: {"none", "local", "END", "HALF_CLOSE", "ctx"},
                        code: Codes \cup {"none"}, ctx: BOOLEAN]
      BY <1>19, <2>2, <3>1, <3>2 DEF RecvSelect, recvEnded, ReturnErr, Codes
    <3>4. endSt' \in [Ends -> Codes \cup {"none"}] /\ ctxErr' \in [Ends -> BOOLEAN]
      BY Zenon, <1>19, <2>2, <3>1 DEF RecvSelect, recvEnded
    <3> QED
      BY SMTT(30), <1>19, <2>2, <3>3, <3>4 DEF RecvSelect, recvEnded, ReturnErr
  <2> QED
    BY Zenon, <2>1, <2>2
<1>20. CASE returnCredit
  <2>1. (pendingCredit + rcvArg) % CreditMod \in Nat
    BY ModNat, StreamAssumption
  <2> QED
    <3>1. pendingCredit' \in Nat /\ rcvArg' \in Nat
      BY <1>20, <2>1 DEF returnCredit, Delta
    <3>2. rcvPc' \in {"idle", "flush"}
      BY <1>20 DEF returnCredit, Delta
    <3> QED
      BY <1>20, <3>1, <3>2 DEF returnCredit, Delta
<1>21. CASE creditWrite
  <2>1. BackFrame("WINDOW_UPDATE", rcvArg, "OK") \in Frame
    BY NewFrames DEF Kinds, Codes
  <2>2. back' \in Seq(Frame)
    BY <1>21, <2>1, WriteTyped DEF creditWrite
  <2> QED
    BY <1>21, <2>2 DEF creditWrite
<1>22. ASSUME NEW e \in Ends, Cancel(e) PROVE TypeOK'
  BY <1>22 DEF Cancel
<1>23. ASSUME NEW e \in Ends, readLoopExit(e) PROVE TypeOK'
  <2>1. CASE registered[e]
    <3>1. /\ endSt' \in [Ends -> Codes \cup {"none"}]
          /\ ended' \in [Ends -> BOOLEAN] /\ ctxErr' \in [Ends -> BOOLEAN]
          /\ registered' \in [Ends -> BOOLEAN]
      BY Zenon, <1>23, <2>1 DEF readLoopExit, failAll, failWith, remove, Codes
    <3>2. sndPc' \in {"idle", "checked", "parked", "woken", "write", "failed"}
      BY <1>23, <2>1 DEF readLoopExit, failAll, failWith, wakeSenders
    <3> QED
      BY Zenon, <1>23, <3>1, <3>2 DEF readLoopExit, failAll
  <2>2. CASE ~registered[e]
    <3>1. ctxErr' \in [Ends -> BOOLEAN]
      BY Zenon, <1>23, <2>2 DEF readLoopExit, failAll
    <3> QED
      BY <1>23, <2>2, <3>1 DEF readLoopExit, failAll, remove
  <2> QED
    BY Zenon, <2>1, <2>2
<1>24. CASE ConnDrop
  BY <1>24 DEF ConnDrop
<1>25. CASE UNCHANGED vars
  BY <1>25 DEF vars
<1> QED
  BY ZenonT(30), <1>1, <1>2, <1>3, <1>4, <1>5, <1>6, <1>7, <1>8, <1>9, <1>10, <1>11, <1>12, <1>13, <1>14, <1>15, <1>16, <1>17, <1>18, <1>19, <1>20, <1>21, <1>22, <1>23, <1>24, <1>25 DEF Next

\* Every reachable state has the types TypeOK states.
THEOREM TypeCorrect == Spec => []TypeOK
<1>1. Init => TypeOK
  BY TypeInit
<1>2. TypeOK /\ [Next]_vars => TypeOK'
  BY TypeNext
<1> QED
  BY <1>1, <1>2, PTL DEF Spec

-----------------------------------------------------------------------------
(* How the pipes carry the totals: writing a frame leaves what has arrived *)
(* alone, routing one adds what it carries.                                *)

LEMMA FwdPush ==
  ASSUME TypeOK, FwdChain,
         NEW kind \in Kinds, NEW n \in Nat, NEW code \in Codes,
         WriteFwd(FwdFrame(kind, n, code)),
         written' = written + n,
         sent' = sent + (IF kind = "MSG" THEN 1 ELSE 0)
  PROVE  /\ FwdChain' /\ Arrived' = Arrived /\ ArrivedSeq' = ArrivedSeq
         /\ Len(fwd) \in Nat /\ Len(fwd') = Len(fwd) + 1 /\ fwd' # <<>>
         /\ fwd'[Len(fwd')] = FwdFrame(kind, n, code)
         /\ \A i \in 1..Len(fwd) : fwd'[i] = fwd[i]
<1> DEFINE f == FwdFrame(kind, n, code)
<1>1. f \in Frame
  BY NewFrames
<1>2. f.kind = kind /\ f.n = n /\ f.seq = sent /\ f.off = written /\ f.code = code
  BY DEF FwdFrame
<1> HIDE DEF f
<1>3. /\ fwd' = Append(fwd, f)
      /\ Len(fwd) \in Nat /\ Len(fwd') = Len(fwd) + 1 /\ fwd' # <<>>
      /\ fwd'[Len(fwd) + 1] = f
      /\ \A i \in 1..Len(fwd) : fwd'[i] = fwd[i]
  BY <1>1, SeqPush DEF WriteFwd, TypeOK, f
<1>4. FwdChain'
  <2> SUFFICES ASSUME NEW i \in 1..Len(fwd')
               PROVE  /\ fwd'[i].off + fwd'[i].n =
                          IF i = Len(fwd') THEN written' ELSE fwd'[i + 1].off
                      /\ fwd'[i].seq + IsMsg(fwd'[i]) =
                          IF i = Len(fwd') THEN sent' ELSE fwd'[i + 1].seq
    BY DEF FwdChain, IsMsg
  <2>1. CASE i = Len(fwd')
    BY <2>1, <1>2, <1>3 DEF IsMsg
  <2>2. CASE i \in 1..Len(fwd)
    BY <2>2, <1>2, <1>3 DEF FwdChain
  <2> QED
    BY <2>1, <2>2, <1>3
<1>5. Arrived' = Arrived /\ ArrivedSeq' = ArrivedSeq
  <2>1. CASE fwd = <<>>
    BY <2>1, <1>2, <1>3 DEF Arrived, ArrivedSeq
  <2>2. CASE fwd # <<>>
    BY <2>2, <1>3, SeqPop DEF Arrived, ArrivedSeq, TypeOK
  <2> QED
    BY <2>1, <2>2
<1> QED
  BY <1>3, <1>4, <1>5 DEF f

LEMMA FwdShift ==
  ASSUME FwdChain, fwd # <<>>, UNCHANGED <<sent, written>>,
         Len(fwd) \in Nat \ {0}, Len(fwd') = Len(fwd) - 1,
         fwd' = <<>> <=> Len(fwd') = 0,
         \A i \in 1..Len(fwd') : fwd'[i] = fwd[i + 1]
  PROVE  /\ FwdChain'
         /\ fwd[1].off + fwd[1].n = Arrived'
         /\ fwd[1].seq + IsMsg(fwd[1]) = ArrivedSeq'
<1>1. FwdChain'
  <2> SUFFICES ASSUME NEW i \in 1..Len(fwd')
               PROVE  /\ fwd'[i].off + fwd'[i].n =
                          IF i = Len(fwd') THEN written' ELSE fwd'[i + 1].off
                      /\ fwd'[i].seq + IsMsg(fwd'[i]) =
                          IF i = Len(fwd') THEN sent' ELSE fwd'[i + 1].seq
    BY DEF FwdChain, IsMsg
  <2>1. i + 1 \in 1..Len(fwd) /\ (i # Len(fwd') => i + 1 \in 1..Len(fwd'))
    OBVIOUS
  <2>2. fwd'[i] = fwd[i + 1] /\ (i # Len(fwd') => fwd'[i + 1] = fwd[i + 2])
    BY <2>1
  <2> QED
    BY <2>1, <2>2 DEF FwdChain
<1>2. /\ fwd[1].off + fwd[1].n = Arrived'
      /\ fwd[1].seq + IsMsg(fwd[1]) = ArrivedSeq'
  <2>1. CASE fwd' = <<>>
    <3>1. Len(fwd) = 1
      BY <2>1
    <3> QED
      BY <2>1, <3>1 DEF FwdChain, Arrived, ArrivedSeq
  <2>2. CASE fwd' # <<>>
    <3>1. 1 \in 1..Len(fwd) /\ 1 # Len(fwd) /\ fwd'[1] = fwd[2]
      BY <2>2
    <3> QED
      BY <2>2, <3>1 DEF FwdChain, Arrived, ArrivedSeq
  <2> QED
    BY <2>1, <2>2
<1> QED
  BY <1>1, <1>2

LEMMA FwdPop ==
  ASSUME TypeOK, FwdChain, fwd # <<>>, fwd' = Tail(fwd), UNCHANGED <<sent, written>>
  PROVE  /\ FwdChain'
         /\ Arrived' = Arrived + Head(fwd).n
         /\ ArrivedSeq' = ArrivedSeq + IsMsg(Head(fwd))
         /\ Head(fwd) = fwd[1] /\ Len(fwd) \in Nat \ {0} /\ Len(fwd') = Len(fwd) - 1
         /\ \A i \in 1..Len(fwd') : fwd'[i] = fwd[i + 1]
<1>1. /\ Head(fwd) = fwd[1]
      /\ Len(fwd) \in Nat \ {0} /\ Len(fwd') = Len(fwd) - 1
      /\ fwd' \in Seq(Frame)
      /\ \A i \in 1..Len(fwd') : fwd'[i] = fwd[i + 1]
  BY SeqPop DEF TypeOK
<1>2. fwd' = <<>> <=> Len(fwd') = 0
  BY Zenon, <1>1, SeqEmpty
<1> QED
  BY Zenon, <1>1, <1>2, FwdShift DEF Arrived, ArrivedSeq

LEMMA BackPush ==
  ASSUME TypeOK, BackChain,
         NEW kind \in Kinds, NEW n \in Nat, NEW code \in Codes,
         WriteBack(BackFrame(kind, n, code)),
         returned' = returned + n
  PROVE  /\ BackChain' /\ Credited' = Credited
         /\ Len(back) \in Nat /\ Len(back') = Len(back) + 1
         /\ back'[Len(back')] = BackFrame(kind, n, code)
         /\ \A i \in 1..Len(back) : back'[i] = back[i]
<1> DEFINE f == BackFrame(kind, n, code)
<1>1. f \in Frame
  BY NewFrames
<1>2. f.n = n /\ f.off = returned
  BY DEF BackFrame
<1> HIDE DEF f
<1>3. /\ back' = Append(back, f)
      /\ Len(back) \in Nat /\ Len(back') = Len(back) + 1 /\ back' # <<>>
      /\ back'[Len(back) + 1] = f
      /\ \A i \in 1..Len(back) : back'[i] = back[i]
  BY <1>1, SeqPush DEF WriteBack, TypeOK, f
<1>4. \A i \in 1..Len(back) : back[i].off \in Nat
  BY FrameFields DEF TypeOK
<1>5. BackChain'
  <2> SUFFICES ASSUME NEW i \in 1..Len(back')
               PROVE  /\ back'[i].off + back'[i].n =
                          IF i = Len(back') THEN returned' ELSE back'[i + 1].off
                      /\ back'[i].off <= returned'
    BY DEF BackChain
  <2>1. CASE i = Len(back')
    BY <2>1, <1>2, <1>3 DEF TypeOK
  <2>2. CASE i \in 1..Len(back)
    BY <2>2, <1>2, <1>3, <1>4 DEF BackChain, TypeOK
  <2> QED
    BY <2>1, <2>2, <1>3
<1>6. Credited' = Credited
  <2>1. CASE back = <<>>
    BY <2>1, <1>2, <1>3 DEF Credited
  <2>2. CASE back # <<>>
    BY <2>2, <1>3, SeqPop DEF Credited, TypeOK
  <2> QED
    BY <2>1, <2>2
<1> QED
  BY <1>3, <1>5, <1>6 DEF f

LEMMA BackShift ==
  ASSUME BackChain, back # <<>>, returned' = returned,
         Len(back) \in Nat \ {0}, Len(back') = Len(back) - 1,
         back' = <<>> <=> Len(back') = 0,
         \A i \in 1..Len(back') : back'[i] = back[i + 1]
  PROVE  /\ BackChain'
         /\ back[1].off + back[1].n = Credited'
<1>1. BackChain'
  <2> SUFFICES ASSUME NEW i \in 1..Len(back')
               PROVE  /\ back'[i].off + back'[i].n =
                          IF i = Len(back') THEN returned' ELSE back'[i + 1].off
                      /\ back'[i].off <= returned'
    BY DEF BackChain
  <2>1. i + 1 \in 1..Len(back) /\ (i # Len(back') => i + 1 \in 1..Len(back'))
    OBVIOUS
  <2>2. back'[i] = back[i + 1] /\ (i # Len(back') => back'[i + 1] = back[i + 2])
    BY <2>1
  <2> QED
    BY <2>1, <2>2 DEF BackChain
<1>2. back[1].off + back[1].n = Credited'
  <2>1. CASE back' = <<>>
    <3>1. Len(back) = 1
      BY <2>1
    <3> QED
      BY <2>1, <3>1 DEF BackChain, Credited
  <2>2. CASE back' # <<>>
    <3>1. 1 \in 1..Len(back) /\ 1 # Len(back) /\ back'[1] = back[2]
      BY <2>2
    <3> QED
      BY <2>2, <3>1 DEF BackChain, Credited
  <2> QED
    BY <2>1, <2>2
<1> QED
  BY <1>1, <1>2

LEMMA BackPop ==
  ASSUME TypeOK, BackChain, back # <<>>, back' = Tail(back), returned' = returned
  PROVE  /\ BackChain' /\ Credited' = Credited + Head(back).n
         /\ Head(back) = back[1] /\ Len(back) \in Nat \ {0} /\ Len(back') = Len(back) - 1
         /\ \A i \in 1..Len(back') : back'[i] = back[i + 1]
<1>1. /\ Head(back) = back[1]
      /\ Len(back) \in Nat \ {0} /\ Len(back') = Len(back) - 1
      /\ back' \in Seq(Frame)
      /\ \A i \in 1..Len(back') : back'[i] = back[i + 1]
  BY SeqPop DEF TypeOK
<1>2. back' = <<>> <=> Len(back') = 0
  BY Zenon, <1>1, SeqEmpty
<1> QED
  BY <1>1, <1>2, BackShift DEF Credited

-----------------------------------------------------------------------------
(* What leaves a conjunct of the inductive invariant alone.                *)

\* A stream that has lost its connection, its registration or its context
\* does not get it back.
Fades ==
    /\ conn' => conn
    /\ \A e \in Ends : (registered'[e] => registered[e]) /\ (ctxErr[e] => ctxErr'[e])

LEMMA FadesNext == TypeOK /\ [Next]_vars => Fades
<1> SUFFICES ASSUME TypeOK, [Next]_vars PROVE Fades
  OBVIOUS
<1> USE DEF Fades, TypeOK
<1>1. ASSUME NEW n \in Sizes, SendRaw(n) PROVE Fades
  BY <1>1 DEF SendRaw
<1>2. CASE SendWait
  BY <1>2 DEF SendWait
<1>3. CASE SendWrite
  BY <1>3 DEF SendWrite
<1>4. CASE CloseSend
  BY <1>4 DEF CloseSend
<1>5. CASE PeerRecvEnded
  BY <1>5 DEF PeerRecvEnded, applyEnd
<1>6. ASSUME NEW code \in {"OK", "App"}, EndWrite(code) PROVE Fades
  BY <1>6 DEF EndWrite
<1>7. CASE EndFail
  BY <1>7 DEF EndFail, failWith, remove
<1>8. CASE RouteSndUnknown
  BY <1>8 DEF RouteSndUnknown, RouteSnd
<1>9. CASE creditSend
  BY <1>9 DEF creditSend, RouteSnd
<1>10. CASE signalEndFrame
  BY <1>10 DEF signalEndFrame, RouteSnd
<1>11. CASE signalEndClose
  BY <1>11 DEF signalEndClose, remove
<1>12. CASE RouteRcvDrop
  BY <1>12 DEF RouteRcvDrop, RouteRcv
<1>13. CASE tryDeliver
  BY <1>13 DEF tryDeliver, RouteRcv
<1>14. CASE OverflowReset
  BY <1>14 DEF writeCtrl, OverflowReset, failWith, remove
<1>15. CASE halfClose
  BY <1>15 DEF halfClose, RouteRcv
<1>16. CASE signalEndRcv
  BY <1>16 DEF signalEndRcv, RouteRcv, remove
<1>17. CASE ctrlWriter
  BY <1>17 DEF ctrlWriter
<1>18. CASE RecvLoop
  BY <1>18 DEF RecvLoop, popRecv
<1>19. CASE RecvSelect
  BY <1>19 DEF RecvSelect, popRecv, recvEnded
<1>20. CASE returnCredit
  BY <1>20 DEF returnCredit, Delta
<1>21. CASE creditWrite
  BY <1>21 DEF creditWrite
<1>22. ASSUME NEW e \in Ends, Cancel(e) PROVE Fades
  BY <1>22 DEF Cancel
<1>23. ASSUME NEW e \in Ends, readLoopExit(e) PROVE Fades
  BY <1>23 DEF readLoopExit, failAll, failWith, remove
<1>24. CASE ConnDrop
  BY <1>24 DEF ConnDrop
<1>25. CASE UNCHANGED vars
  BY <1>25 DEF vars
<1> QED
  BY <1>1, <1>2, <1>3, <1>4, <1>5, <1>6, <1>7, <1>8, <1>9, <1>10, <1>11, <1>12, <1>13, <1>14, <1>15, <1>16, <1>17, <1>18, <1>19, <1>20, <1>21, <1>22, <1>23, <1>24, <1>25 DEF Next

LEMMA KeepFwd ==
  ASSUME FwdChain, UNCHANGED <<fwd, sent, written>>
  PROVE  FwdChain' /\ Arrived' = Arrived /\ ArrivedSeq' = ArrivedSeq
BY DEF FwdChain, IsMsg, Arrived, ArrivedSeq

LEMMA KeepBack ==
  ASSUME BackChain, UNCHANGED <<back, returned>>
  PROVE  BackChain' /\ Credited' = Credited
BY DEF BackChain, Credited

LEMMA KeepFrame ==
  ASSUME FrameInv, UNCHANGED <<fwd, back, server, hCode>>,
         endFrame'["rcv"] = endFrame["rcv"],
         sendDone => sendDone', hPc # "run" => hPc' # "run"
  PROVE  FrameInv'
BY DEF FrameInv

LEMMA KeepSender ==
  ASSUME SenderInv, Fades, UNCHANGED <<sendWindow, written, sndArg, fwd, popped>>,
         Credited' = Credited,
         sndPc' = sndPc \/ (sndPc = "parked" /\ sndPc' = "woken")
  PROVE  SenderInv'
BY DEF SenderInv, Fades, Pend, Ends

LEMMA KeepBacklog ==
  ASSUME BacklogInv, Fades, UNCHANGED <<recvItems, recvBytes, popped, got>>,
         Arrived' = Arrived, ArrivedSeq' = ArrivedSeq
  PROVE  BacklogInv'
BY DEF BacklogInv, Fades, Ends

LEMMA KeepCredit ==
  ASSUME CreditInv, Fades, UNCHANGED <<returned, rcvArg, pendingCredit, popped, rcvPc>>
  PROVE  CreditInv'
BY DEF CreditInv, Fades, Ends, Threshold

LEMMA KeepClose ==
  ASSUME CloseInv, Fades, UNCHANGED <<fwd, server, sendDone, halfClosed, rcvPc, outcome>>,
         sndPc' = sndPc \/ (sndPc = "parked" /\ sndPc' = "woken"),
         hPc = "run" <=> hPc' = "run",
         endFrame'["rcv"] = endFrame["rcv"],
         registered'["rcv"] = registered["rcv"] \/ ctxErr'["rcv"]
  PROVE  CloseInv' /\ (AllArrived => AllArrived')
BY DEF CloseInv, AllArrived, Fades, Ends

LEMMA KeepEOF ==
  ASSUME EOFComplete, UNCHANGED <<outcome, got, sent>>
  PROVE  EOFComplete'
BY DEF EOFComplete

-----------------------------------------------------------------------------
(* The inductive invariant: steps that several actions share.              *)

\* The first byte of every MSG in fwd is one the sender had credit for, and no
\* credit is in back that the receiver has not returned.
LEMMA CreditOrder == IInv => Credited <= returned /\ returned <= popped /\ Credited \in Nat
<1> SUFFICES ASSUME IInv PROVE Credited <= returned /\ returned <= popped /\ Credited \in Nat
  OBVIOUS
<1>1. CASE back = <<>>
  BY <1>1 DEF IInv, Credited, CreditInv, TypeOK
<1>2. CASE back # <<>>
  <2>1. back[1].off \in Nat /\ 1 \in 1..Len(back)
    BY <1>2, SeqPop, FrameFields DEF IInv, TypeOK
  <2> QED
    BY <1>2, <2>1 DEF IInv, Credited, CreditInv, TypeOK, BackChain
<1> QED
  BY <1>1, <1>2

\* The types arithmetic needs.
Nums ==
    /\ written \in Nat /\ popped \in Nat /\ returned \in Nat /\ sent \in Nat /\ got \in Nat
    /\ sndArg \in Nat /\ rcvArg \in Nat /\ pendingCredit \in Nat /\ Pend \in Nat
    /\ sendWindow \in Int /\ recvBytes \in Int
    /\ Arrived \in Nat /\ ArrivedSeq \in Nat /\ Credited \in Nat
    /\ SendWin \in Nat \ {0} /\ Threshold \in Nat \ {0}

ItemNums ==
    /\ \A i \in 1..Len(fwd) : fwd[i].off \in Nat
    /\ \A i \in 1..Len(recvItems) :
        recvItems[i].off \in Nat /\ recvItems[i].seq \in Nat /\ recvItems[i].n \in Nat

LEMMA Numbers == TypeOK => Nums /\ ItemNums
<1> SUFFICES ASSUME TypeOK PROVE Nums /\ ItemNums
  OBVIOUS
<1>1. /\ written \in Nat /\ popped \in Nat /\ returned \in Nat
      /\ sent \in Nat /\ got \in Nat
      /\ sndArg \in Nat /\ rcvArg \in Nat /\ pendingCredit \in Nat
      /\ sendWindow \in Int /\ recvBytes \in Int
      /\ fwd \in Seq(Frame) /\ back \in Seq(Frame) /\ recvItems \in Seq(Frame)
  BY DEF TypeOK
<1>2. Pend \in Nat
  BY <1>1 DEF Pend
<1>3. fwd # <<>> => fwd[1].off \in Nat /\ fwd[1].seq \in Nat
  BY <1>1, SeqPop, FrameFields
<1>4. back # <<>> => back[1].off \in Nat
  BY <1>1, SeqPop, FrameFields
<1>5. \A i \in 1..Len(fwd) : fwd[i].off \in Nat
  BY <1>1, FrameFields
<1>6. \A i \in 1..Len(recvItems) : recvItems[i] \in Frame
  BY <1>1
<1>7. SendWin \in Nat \ {0} /\ Threshold \in Nat \ {0}
  BY StreamAssumption DEF Threshold
<1> QED
  BY <1>1, <1>2, <1>3, <1>4, <1>5, <1>6, <1>7, FrameFields
     DEF Nums, ItemNums, Arrived, ArrivedSeq, Credited

LEMMA ShiftKeeps ==
  ASSUME FrameInv, SenderInv, Fades,
         UNCHANGED <<back, server, hPc, hCode, sndVars, popped, written>>, Credited' = Credited,
         endFrame'["rcv"].code \in {"OK", "App"},
         Len(fwd) \in Nat \ {0}, Len(fwd') = Len(fwd) - 1,
         \A i \in 1..Len(fwd') : fwd'[i] = fwd[i + 1]
  PROVE  FrameInv' /\ SenderInv'
<1>1. \A i \in 1..Len(fwd') :
         i + 1 \in 1..Len(fwd) /\ fwd'[i] = fwd[i + 1] /\ (i + 1 = Len(fwd) => i = Len(fwd'))
  OBVIOUS
<1>2. FrameInv'
  BY SMTT(30), <1>1 DEF FrameInv
<1>3. SenderInv'
  BY <1>1 DEF SenderInv, Fades, Ends, Pend
<1> QED
  BY <1>2, <1>3

LEMMA RouteRcvKeeps ==
  ASSUME IInv, Fades, fwd # <<>>, fwd' = Tail(fwd),
         UNCHANGED <<back, server, hPc, hCode, sndVars, rcvVars, hist>>,
         endFrame'["rcv"].code \in {"OK", "App"}
  PROVE  /\ FwdChain' /\ BackChain' /\ FrameInv' /\ SenderInv' /\ CreditInv' /\ EOFComplete'
<1>1. /\ FwdChain' /\ Len(fwd) \in Nat \ {0} /\ Len(fwd') = Len(fwd) - 1
      /\ \A i \in 1..Len(fwd') : fwd'[i] = fwd[i + 1]
  BY FwdPop DEF IInv
<1>2. BackChain' /\ Credited' = Credited
  BY KeepBack DEF IInv
<1>3. FrameInv' /\ SenderInv'
  BY <1>1, <1>2, ShiftKeeps DEF IInv
<1>4. CreditInv' /\ EOFComplete'
  BY KeepCredit, KeepEOF DEF IInv
<1> QED
  BY <1>1, <1>2, <1>3, <1>4

LEMMA RouteSndKeeps ==
  ASSUME IInv, Fades, back # <<>>, back' = Tail(back),
         UNCHANGED <<fwd, sndArg, sendDone, bufVars, rcvVars, hVars, hist>>,
         endFrame'["rcv"] = endFrame["rcv"], registered'["rcv"] = registered["rcv"],
         sndPc' = sndPc \/ (sndPc = "parked" /\ sndPc' = "woken"),
         \/ sendWindow' = sendWindow /\ (registered["snd"] => Head(back).n = 0)
         \/ /\ sendWindow' = sendWindow + Head(back).n
            /\ sndPc' \notin {"checked", "parked"}
  PROVE  /\ FwdChain' /\ BackChain' /\ FrameInv' /\ SenderInv' /\ BacklogInv'
         /\ CreditInv' /\ CloseInv' /\ EOFComplete'
<1>1. /\ BackChain' /\ Credited' = Credited + Head(back).n
      /\ Len(back) \in Nat \ {0} /\ Len(back') = Len(back) - 1
      /\ \A i \in 1..Len(back') : back'[i] = back[i + 1]
  BY BackPop DEF IInv
<1>2. FwdChain' /\ Arrived' = Arrived /\ ArrivedSeq' = ArrivedSeq
  BY KeepFwd DEF IInv
<1>3. Head(back).n \in Nat /\ Credited \in Nat
  BY PopBack, Numbers DEF IInv, Nums
<1> DEFINE p == back'
<1> HIDE DEF p
<1>4. \A i \in 1..Len(p) : i + 1 \in 1..Len(back) /\ p[i] = back[i + 1]
  BY <1>1 DEF p
<1>5. FrameInv'
  BY <1>1, <1>4 DEF IInv, FrameInv, p
<1>6. SenderInv'
  <2>1. Nums /\ Pend' = Pend
    BY Numbers DEF IInv, Pend
  <2> DEFINE h == Head(back).n
  <2> HIDE DEF h
  <2>2. Credited' = Credited + h /\ h \in Nat
    BY <1>1, <1>3 DEF h
  <2>3. \/ sendWindow' = sendWindow /\ (registered["snd"] => h = 0)
        \/ sendWindow' = sendWindow + h /\ sndPc' \notin {"checked", "parked"}
    BY DEF h
  <2>4. (sendWindow + written + Pend <= SendWin + Credited)'
    BY <2>1, <2>2, <2>3 DEF IInv, SenderInv, Nums
  <2>5. (conn /\ registered["snd"] /\ ~ctxErr["snd"]
            => sendWindow + written + Pend = SendWin + Credited)'
    <3>1. /\ conn' => conn
          /\ registered'["snd"] => registered["snd"]
          /\ ~ctxErr'["snd"] => ~ctxErr["snd"]
      BY DEF Fades, Ends
    <3>2. conn /\ registered["snd"] /\ ~ctxErr["snd"]
            => sendWindow + written + Pend = SendWin + Credited
      BY DEF IInv, SenderInv
    <3> QED
      BY <2>1, <2>2, <2>3, <3>1, <3>2 DEF Nums
  <2>6. (sndPc \in {"checked", "parked"} => sendWindow <= 0)'
    BY <2>3 DEF IInv, SenderInv
  <2> QED
    BY <2>4, <2>5, <2>6 DEF IInv, SenderInv
<1>7. BacklogInv' /\ CreditInv' /\ CloseInv' /\ EOFComplete'
  BY <1>2, KeepBacklog, KeepCredit, KeepClose, KeepEOF DEF IInv
<1> QED
  BY <1>1, <1>2, <1>5, <1>6, <1>7

LEMMA PopRecvKeeps ==
  ASSUME IInv, Fades, popRecv, rcvPc \notin {"credit", "flush"}, outcome = NotEnded,
         UNCHANGED <<endVars, sndVars, halfClosed, pendingCredit, hVars, netVars,
                     sent, written, returned>>
  PROVE  /\ FwdChain' /\ BackChain' /\ FrameInv' /\ SenderInv' /\ BacklogInv'
         /\ CreditInv' /\ CloseInv' /\ EOFComplete'
<1>1. FwdChain' /\ Arrived' = Arrived /\ ArrivedSeq' = ArrivedSeq
  BY KeepFwd DEF IInv
<1>2. BackChain' /\ Credited' = Credited
  BY KeepBack DEF IInv
<1>3. FrameInv'
  BY KeepFrame DEF IInv
<1>4. /\ Head(recvItems) = recvItems[1] /\ Head(recvItems).n \in Nat
      /\ Len(recvItems) \in Nat \ {0} /\ Len(recvItems') = Len(recvItems) - 1
      /\ recvItems' \in Seq(Frame)
      /\ \A i \in 1..Len(recvItems') : recvItems'[i] = recvItems[i + 1]
  BY SeqPop, PopItems DEF IInv, TypeOK, popRecv
<1>5. recvItems' = <<>> <=> Len(recvItems') = 0
  BY <1>4, SeqEmpty
<1> DEFINE h == recvItems[1].n
<1> HIDE DEF h
<1>6. /\ recvBytes' = recvBytes - h /\ popped' = popped + h
      /\ got' = got + 1 /\ rcvArg' = h /\ rcvPc' = "credit"
      /\ h \in Sizes /\ h \in Nat
  <2>1. 1 \in 1..Len(recvItems)
    BY SMTT(30), <1>4
  <2>2. recvItems[1].n \in Sizes
    BY <2>1 DEF IInv, BacklogInv
  <2> QED
    BY <1>4, <2>2 DEF popRecv, h
<1> Nums /\ ItemNums
  BY Numbers DEF IInv
<1> USE DEF IInv, Nums
<1>7. SenderInv'
  <2>1. Pend' = Pend
    BY DEF Pend
  <2>2. /\ sendWindow' + written' + Pend' <= SendWin + Credited'
        /\ conn' /\ registered'["snd"] /\ ~ctxErr'["snd"]
            => sendWindow' + written' + Pend' = SendWin + Credited'
        /\ sndPc' \in {"checked", "parked"} => sendWindow' <= 0
        /\ sndPc' \notin {"idle", "failed"} => sndArg' \in Sizes
    BY <1>2, <2>1 DEF SenderInv
  <2>3. sndPc' = "write" => written' - popped' < SendWin
    BY <1>6 DEF SenderInv
  <2>4. \A i \in 1..Len(fwd') : fwd'[i].kind = "MSG" => fwd'[i].off - popped' < SendWin
    <3> SUFFICES ASSUME NEW i \in 1..Len(fwd), fwd[i].kind = "MSG"
                 PROVE  fwd[i].off - popped' < SendWin
      OBVIOUS
    <3> DEFINE o == fwd[i].off
    <3>1. o \in Nat /\ o - popped < SendWin
      BY DEF SenderInv, ItemNums
    <3> HIDE DEF o
    <3>2. o - popped' < SendWin
      BY SMTT(30), <3>1, <1>6
    <3> QED
      BY <3>2 DEF o
  <2> QED
    BY <2>2, <2>3, <2>4 DEF SenderInv
<1>8. CreditInv'
  <2> Threshold' = Threshold
    BY DEF Threshold
  <2> QED
    BY <1>6 DEF CreditInv
<1>9. CloseInv' /\ EOFComplete'
  BY SMTT(20), <1>6 DEF IInv, CloseInv, EOFComplete, AllArrived, popRecv, NotEnded
<1> DEFINE p == recvItems'
<1> HIDE DEF p
<1>10. BacklogInv'
  <2>1. \A i \in 1..Len(p) : i + 1 \in 1..Len(recvItems) /\ p[i] = recvItems[i + 1]
    BY SMTT(30), <1>4 DEF p
  <2>2. p = <<>> => Len(recvItems) = 1
    BY <1>4, <1>5 DEF p
  <2>3. p # <<>> => 1 # Len(recvItems) /\ p[1] = recvItems[2] /\ 1 \in 1..Len(p)
    BY <1>4, <1>5, <2>1 DEF p
  <2>4. \A i \in 1..Len(p) : Len(p) # i => i + 1 \in 1..Len(p)
    BY <1>4 DEF p
  <2>5. (recvItems = <<>> => recvBytes = 0)'
    <3>1. ASSUME Len(recvItems) = 1 PROVE recvBytes = h
      <4>1. 1 \in 1..Len(recvItems) /\ recvItems # <<>>
        BY <3>1 DEF popRecv
      <4>2. recvItems[1].off + h = popped + recvBytes /\ recvItems[1].off = popped
        BY <3>1, <4>1 DEF BacklogInv, h
      <4> QED
        BY <4>2, <1>6
    <3> QED
      BY <3>1, <1>6, <2>2 DEF p
  <2>6. (recvItems # <<>> => recvItems[1].off = popped)'
    <3> SUFFICES ASSUME p # <<>> PROVE p[1].off = popped'
      BY DEF p
    <3>1. 1 \in 1..Len(recvItems) /\ 1 # Len(recvItems) /\ recvItems # <<>>
      BY <2>3, <1>4 DEF popRecv
    <3>2. /\ recvItems[1].off + recvItems[1].n =
             IF 1 = Len(recvItems) THEN popped + recvBytes ELSE recvItems[1 + 1].off
          /\ recvItems[1].off = popped
      BY Zenon, <3>1 DEF BacklogInv
    <3>3. popped + h = recvItems[2].off
      BY <3>1, <3>2 DEF h
    <3> QED
      BY <3>3, <2>3, <1>6
  <2>7. (recvBytes + popped <= Arrived)' /\ (~ctxErr["rcv"] => recvBytes + popped = Arrived)'
    BY <1>1, <1>6 DEF BacklogInv
  <2>8. (~ctxErr["rcv"] => got + Len(recvItems) = ArrivedSeq)'
    <3>1. ~ctxErr["rcv"] => got + Len(recvItems) = ArrivedSeq
      BY DEF BacklogInv
    <3> DEFINE m == Len(recvItems)
    <3> HIDE DEF m
    <3>2. ~ctxErr["rcv"] => got + m = ArrivedSeq
      BY <3>1 DEF m
    <3>3. Len(recvItems') = m - 1 /\ m \in Nat
      BY <1>4 DEF m
    <3> QED
      BY <1>1, <1>6, <3>2, <3>3
  <2>9. ASSUME NEW i \in 1..Len(p)
        PROVE  /\ p[i].n \in Sizes
               /\ p[i].seq = got' + i - 1
               /\ p[i].off + p[i].n =
                    IF i = Len(p) THEN popped' + recvBytes' ELSE p[i + 1].off
    <3>1. i + 1 \in 1..Len(recvItems) /\ p[i] = recvItems[i + 1]
      BY <2>1
    <3>2. i # Len(p) => p[i + 1] = recvItems[i + 1 + 1]
      BY <2>1, <2>4
    <3>3. i = Len(p) <=> i + 1 = Len(recvItems)
      BY <1>4 DEF p
    <3> QED
      <4> DEFINE j == i + 1
      <4>1. /\ recvItems[j].n \in Sizes
            /\ recvItems[j].seq = got + j - 1
            /\ recvItems[j].off + recvItems[j].n =
                IF j = Len(recvItems) THEN popped + recvBytes ELSE recvItems[j + 1].off
        BY <3>1 DEF BacklogInv
      <4>2. popped' + recvBytes' = popped + recvBytes
        BY <1>6
      <4>3. p[i].n \in Sizes /\ p[i].seq = got' + i - 1
        BY <4>1, <1>6, <3>1
      <4> QED
        BY <4>1, <4>2, <4>3, <3>1, <3>2, <3>3
  <2> QED
    BY SMTT(30), <2>5, <2>6, <2>7, <2>8, <2>9 DEF BacklogInv, p
<1> QED
  BY <1>1, <1>2, <1>3, <1>7, <1>8, <1>9, <1>10

\* A delivered MSG continues the backlog: it starts where the backlog ends.
LEMMA DeliverKeeps ==
  ASSUME BacklogInv, Nums, ItemNums, ~ctxErr["rcv"], UNCHANGED <<ctxErr, popped, got>>,
         NEW f, f.n \in Sizes, f.n \in Nat, f.off = Arrived, f.seq = ArrivedSeq,
         Len(recvItems) \in Nat, Len(recvItems') = Len(recvItems) + 1,
         recvItems = <<>> <=> Len(recvItems) = 0, recvItems' # <<>>,
         recvItems'[Len(recvItems) + 1] = f,
         \A i \in 1..Len(recvItems) : recvItems'[i] = recvItems[i],
         recvBytes' = recvBytes + f.n,
         Arrived' = Arrived + f.n, ArrivedSeq' = ArrivedSeq + 1
  PROVE  BacklogInv'
<1> DEFINE n == f.n
           m == Len(recvItems)
<1>1. recvBytes + popped = Arrived /\ got + m = ArrivedSeq
  BY DEF BacklogInv
<1>2. /\ m \in Nat /\ n \in Nat /\ recvBytes' = recvBytes + n
      /\ Arrived' = Arrived + n /\ ArrivedSeq' = ArrivedSeq + 1 /\ Len(recvItems') = m + 1
  OBVIOUS
<1>3. f.off + n = popped' + recvBytes' /\ f.seq = got' + (m + 1) - 1
  <2> HIDE DEF m, n
  <2> QED
    BY <1>1, <1>2 DEF Nums
<1>4. /\ recvBytes' + popped' = Arrived'
      /\ got' + Len(recvItems') = ArrivedSeq'
  <2> HIDE DEF m, n
  <2>1. /\ recvBytes \in Int /\ popped \in Nat /\ got \in Nat
        /\ popped' = popped /\ got' = got
    BY DEF Nums
  <2>2. (recvBytes + n) + popped = (recvBytes + popped) + n
    BY <1>2, <2>1
  <2>3. got + (m + 1) = (got + m) + 1
    BY <1>2, <2>1
  <2> QED
    BY Zenon, <1>1, <1>2, <2>1, <2>2, <2>3
<1>5. recvItems'[1].off = popped'
  <2>1. CASE m = 0
    BY <2>1, <1>1 DEF BacklogInv, Nums
  <2>2. CASE m # 0
    BY <2>2 DEF BacklogInv
  <2> QED
    BY <2>1, <2>2
<1>6. ASSUME NEW i \in 1..Len(recvItems')
      PROVE  /\ recvItems'[i].n \in Sizes
             /\ recvItems'[i].seq = got' + i - 1
             /\ recvItems'[i].off + recvItems'[i].n =
                  IF i = Len(recvItems') THEN popped' + recvBytes' ELSE recvItems'[i + 1].off
  <2>1. CASE i = m + 1
    BY <2>1, <1>2, <1>3
  <2>2. CASE i \in 1..m
    <3>1. /\ recvItems[i].n \in Sizes
          /\ recvItems[i].seq = got + i - 1
          /\ recvItems[i].off + recvItems[i].n =
              IF i = Len(recvItems) THEN popped + recvBytes ELSE recvItems[i + 1].off
      BY <2>2 DEF BacklogInv
    <3>2. recvItems'[i] = recvItems[i] /\ i # Len(recvItems')
      BY <2>2
    <3>3. recvItems'[i + 1] = IF i = m THEN f ELSE recvItems[i + 1]
      BY <2>2
    <3>4. popped + recvBytes = f.off
      BY <1>1 DEF Nums
    <3> QED
      BY <3>1, <3>2, <3>3, <3>4
  <2> QED
    BY <2>1, <2>2, <1>2
<1> QED
  BY <1>4, <1>5, <1>6 DEF BacklogInv, Nums

\* A frame written to fwd follows MSGs only, and a MSG is one the sender had
\* credit for.
LEMMA PushKeeps ==
  ASSUME FrameInv, NEW f,
         ~sendDone, ~(server = "snd" /\ hPc # "run"),
         UNCHANGED <<back, server, popped, endFrame>>, hCode' \in {"OK", "App"},
         Len(fwd) \in Nat, Len(fwd') = Len(fwd) + 1, fwd'[Len(fwd')] = f,
         \A i \in 1..Len(fwd) : fwd'[i] = fwd[i],
         \/ f.kind = "MSG" /\ f.n \in Sizes
         \/ f.kind = "HALF_CLOSE" /\ f.n = 0 /\ server = "rcv" /\ sendDone'
         \/ f.kind = "END" /\ f.n = 0 /\ server = "snd" /\ hPc' # "run",
         f.code \in {"OK", "App"},
         \A i \in 1..Len(fwd) : fwd[i].kind = "MSG" => fwd[i].off - popped < SendWin,
         f.kind = "MSG" => f.off - popped < SendWin
  PROVE  /\ FrameInv'
         /\ \A i \in 1..Len(fwd') : fwd'[i].kind = "MSG" => fwd'[i].off - popped' < SendWin
<1>1. \A i \in 1..Len(fwd') : i = Len(fwd') \/ i \in 1..Len(fwd)
  OBVIOUS
<1>2. \A i \in 1..Len(fwd) : fwd[i].kind = "MSG"
  BY DEF FrameInv
<1>3. FrameInv'
  BY <1>1, <1>2 DEF FrameInv
<1> QED
  BY <1>1, <1>3
=============================================================================
