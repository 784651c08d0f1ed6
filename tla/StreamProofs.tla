---------------------------- MODULE StreamProofs ----------------------------
(* Stream: the invariant IInv is inductive, the theorems that follow, and  *)
(* the refinement of Delivery, for every value of the constants.           *)
EXTENDS StreamSteps, StreamMap, SumProofs

USE DEF endVars, sndVars, bufVars, rcvVars, hVars, netVars, hist

-----------------------------------------------------------------------------
(* The inductive invariant, one step per action.                           *)

\* A step that only ends things: statuses, contexts, registrations, the
\* connection, the wake-up of a parked Send.
LEMMA KeepAll ==
  ASSUME IInv, TypeOK', Fades,
         UNCHANGED <<fwd, back, server, hCode, sendWindow, sndArg, sendDone,
                     recvItems, recvBytes, halfClosed, rcvVars, hist>>,
         endFrame'["rcv"] = endFrame["rcv"],
         hPc = "run" <=> hPc' = "run",
         sndPc' = sndPc \/ (sndPc = "parked" /\ sndPc' = "woken"),
         registered'["rcv"] = registered["rcv"] \/ ctxErr'["rcv"]
  PROVE  IInv'
<1>1. FwdChain' /\ Arrived' = Arrived /\ ArrivedSeq' = ArrivedSeq
  BY KeepFwd DEF IInv
<1>2. BackChain' /\ Credited' = Credited
  BY KeepBack DEF IInv
<1>3. FrameInv' /\ SenderInv' /\ BacklogInv'
  BY <1>1, <1>2, KeepFrame, KeepSender, KeepBacklog DEF IInv
<1>4. CreditInv' /\ CloseInv' /\ EOFComplete'
  BY KeepCredit, KeepClose, KeepEOF DEF IInv
<1> QED
  BY <1>1, <1>2, <1>3, <1>4 DEF IInv

LEMMA InvInit == Init => IInv
<1> SUFFICES ASSUME Init PROVE IInv
  OBVIOUS
<1>1. TypeOK
  BY TypeInit
<1>2. SendWin \in Nat \ {0} /\ Threshold \in Nat \ {0}
  BY StreamAssumption DEF Threshold
<1>3. /\ Len(fwd) = 0 /\ Len(back) = 0 /\ Len(recvItems) = 0
      /\ Arrived = 0 /\ ArrivedSeq = 0 /\ Credited = 0 /\ Pend = 0
  BY DEF Init, Arrived, ArrivedSeq, Credited, Pend
<1>4. FwdChain /\ BackChain /\ FrameInv
  BY <1>3 DEF Init, FwdChain, BackChain, FrameInv, NoFrame, Ends
<1>5. SenderInv /\ BacklogInv /\ CreditInv
  BY <1>2, <1>3 DEF Init, SenderInv, BacklogInv, CreditInv
<1>6. CloseInv /\ EOFComplete
  BY DEF Init, CloseInv, EOFComplete, NotEnded, Ends
<1> QED
  BY <1>1, <1>4, <1>5, <1>6 DEF IInv

LEMMA InvNext == IInv /\ [Next]_vars => IInv'
<1> SUFFICES ASSUME IInv, [Next]_vars PROVE IInv'
  OBVIOUS
<1> /\ TypeOK /\ FwdChain /\ BackChain /\ FrameInv /\ SenderInv
    /\ BacklogInv /\ CreditInv /\ CloseInv /\ EOFComplete
  BY DEF IInv
<1> TypeOK'
  BY TypeNext
<1> Fades
  BY FadesNext
<1> Nums /\ ItemNums
  BY Numbers
<1>1. ASSUME NEW n \in Sizes, SendRaw(n) PROVE IInv'
  <2>1. FwdChain' /\ Arrived' = Arrived /\ ArrivedSeq' = ArrivedSeq
    BY <1>1, KeepFwd DEF SendRaw
  <2>2. BackChain' /\ Credited' = Credited
    BY <1>1, KeepBack DEF SendRaw
  <2>3. FrameInv' /\ CreditInv' /\ EOFComplete'
    BY <1>1, KeepFrame, KeepCredit, KeepEOF DEF SendRaw
  <2>4. BacklogInv'
    BY <1>1, <2>1, KeepBacklog DEF SendRaw
  <2>5. SenderInv'
    <3>1. Pend = 0 /\ UNCHANGED <<written, popped, fwd, conn, registered, ctxErr>> /\ sndArg' = n
      BY <1>1 DEF SendRaw, Pend
    <3>2. written < SendWin + popped \/ sendWindow <= 0
      BY <3>1, CreditOrder DEF SenderInv, Nums
    <3>3. CASE sndPc' = "write"
      <4>1. sendWindow' = sendWindow - n /\ Pend' = n /\ n \in Nat /\ sendWindow > 0
        BY <1>1, <3>3, StreamAssumption DEF SendRaw, Pend
      <4>2. /\ sendWindow' + written' + Pend' = sendWindow + written + Pend
            /\ written' - popped' < SendWin
        BY <3>1, <3>2, <4>1 DEF Nums
      <4> QED
        BY <3>1, <3>3, <4>2, <2>2 DEF SenderInv
    <3>4. CASE sndPc' # "write"
      <4>1. sendWindow' = sendWindow /\ Pend' = 0 /\ (sndPc' = "checked" => sendWindow <= 0)
        BY <1>1, <3>4 DEF SendRaw, Pend
      <4>2. sndPc' \in {"failed", "checked"}
        BY <1>1, <3>4 DEF SendRaw
      <4> QED
        BY <3>1, <4>1, <4>2, <2>2 DEF SenderInv
    <3> QED
      BY <3>3, <3>4
  <2>6. CloseInv'
    <3>1. ~sendDone /\ ~(server = "snd" /\ hPc # "run")
      BY <1>1 DEF SendRaw, MaySend, CloseInv
    <3> QED
      BY <1>1, <3>1 DEF SendRaw, CloseInv, AllArrived
  <2> QED
    BY <2>1, <2>2, <2>3, <2>4, <2>5, <2>6 DEF IInv
<1>2. CASE SendWait
  <2>1. FwdChain' /\ Arrived' = Arrived /\ ArrivedSeq' = ArrivedSeq
    BY <1>2, KeepFwd DEF SendWait
  <2>2. BackChain' /\ Credited' = Credited
    BY <1>2, KeepBack DEF SendWait
  <2>3. FrameInv' /\ BacklogInv' /\ CreditInv' /\ EOFComplete'
    BY <1>2, <2>1, KeepFrame, KeepBacklog, KeepCredit, KeepEOF DEF SendWait
  <2>4. SenderInv'
    BY <1>2, <2>2 DEF SendWait, SenderInv, Pend
  <2>5. CloseInv'
    BY <1>2 DEF SendWait, CloseInv, AllArrived
  <2> QED
    BY <2>1, <2>2, <2>3, <2>4, <2>5 DEF IInv
<1>3. CASE SendWrite
  <2>1. /\ sndPc = "write" /\ sndArg \in Sizes
        /\ UNCHANGED <<endVars, bufVars, rcvVars, hVars, back, conn, popped, got, returned,
                      sndArg, sendWindow, sendDone>>
    BY <1>3 DEF SendWrite, SenderInv
  <2>2. BackChain' /\ Credited' = Credited
    BY <2>1, KeepBack
  <2>3. ~sendDone /\ ~(server = "snd" /\ hPc # "run") /\ ~AllArrived
    BY <2>1 DEF CloseInv, AllArrived
  <2>4. CASE sndPc' = "idle"
    <3> DEFINE f == FwdFrame("MSG", sndArg, "OK")
    <3>1. /\ f.kind = "MSG" /\ f.n = sndArg /\ f.off = written /\ f.code = "OK"
          /\ WriteFwd(f) /\ sent' = sent + 1 /\ written' = written + sndArg
      BY <1>3, <2>4 DEF SendWrite, FwdFrame
    <3>2. /\ FwdChain' /\ Arrived' = Arrived /\ ArrivedSeq' = ArrivedSeq
          /\ Len(fwd) \in Nat /\ Len(fwd') = Len(fwd) + 1 /\ fwd'[Len(fwd')] = f
          /\ \A i \in 1..Len(fwd) : fwd'[i] = fwd[i]
      BY <3>1, FwdPush DEF Nums, Kinds, Codes
    <3> HIDE DEF f
    <3>3. /\ FrameInv'
          /\ \A i \in 1..Len(fwd') : fwd'[i].kind = "MSG" => fwd'[i].off - popped' < SendWin
      BY <2>1, <2>3, <3>1, <3>2, PushKeeps DEF FrameInv, SenderInv
    <3>4. SenderInv'
      <4>1. Pend = sndArg /\ Pend' = 0
        BY <2>1, <2>4 DEF Pend
      <4>2. sendWindow' + written' + Pend' = sendWindow + written + Pend
        BY <2>1, <3>1, <4>1 DEF Nums
      <4> QED
        BY <2>1, <2>2, <2>4, <3>3, <4>2 DEF SenderInv
    <3>5. BacklogInv' /\ CreditInv'
      BY <2>1, <3>2, KeepBacklog, <1>3, KeepCredit
    <3>6. CloseInv' /\ EOFComplete'
      BY <2>1, <2>3, <2>4 DEF CloseInv, EOFComplete
    <3> QED
      BY <2>2, <3>2, <3>3, <3>4, <3>5, <3>6 DEF IInv
  <2>5. CASE sndPc' # "idle"
    <3>1. /\ sndPc' = "failed" /\ UNCHANGED <<fwd, sent, written>> /\ (~conn \/ ctxErr["snd"])
      BY <1>3, <2>5 DEF SendWrite, WriteFails
    <3>2. FwdChain' /\ Arrived' = Arrived /\ ArrivedSeq' = ArrivedSeq
      BY <3>1, KeepFwd
    <3>3. FrameInv' /\ BacklogInv' /\ CreditInv' /\ EOFComplete'
      BY <2>1, <3>1, <3>2, KeepFrame, KeepBacklog, KeepCredit, KeepEOF
    <3>4. SenderInv'
      <4>1. Pend' = 0 /\ sendWindow' + written' + Pend' <= sendWindow + written + Pend
        BY <2>1, <3>1 DEF Nums, Pend
      <4>2. sendWindow' + written' + Pend' <= SendWin + Credited'
        BY <2>1, <2>2, <3>1, <4>1 DEF SenderInv, Nums
      <4> QED
        BY <2>1, <3>1, <4>2 DEF SenderInv
    <3>5. CloseInv'
      BY <2>1, <2>3, <3>1 DEF CloseInv
    <3> QED
      BY <2>2, <3>2, <3>3, <3>4, <3>5 DEF IInv
  <2> QED
    BY <2>4, <2>5
<1>4. CASE CloseSend
  <2>1. /\ server = "rcv" /\ ~sendDone /\ sendDone' = TRUE /\ sndPc \in {"idle", "failed"}
        /\ UNCHANGED <<endVars, bufVars, rcvVars, hVars, back, conn, hist,
                      sndArg, sendWindow, sndPc>>
    BY <1>4 DEF CloseSend
  <2>2. BackChain' /\ Credited' = Credited
    BY <2>1, KeepBack
  <2>3. CreditInv' /\ EOFComplete'
    BY <2>1, KeepCredit, KeepEOF
  <2>4. ~AllArrived
    BY <2>1 DEF AllArrived
  <2>5. CloseInv'
    BY <2>1, <2>4 DEF CloseInv
  <2>6. CASE fwd' # fwd
    <3> DEFINE f == FwdFrame("HALF_CLOSE", 0, "OK")
    <3>1. f.kind = "HALF_CLOSE" /\ f.n = 0 /\ f.code = "OK" /\ WriteFwd(f)
      BY <1>4, <2>6 DEF CloseSend, FwdFrame
    <3>2. /\ FwdChain' /\ Arrived' = Arrived /\ ArrivedSeq' = ArrivedSeq
          /\ Len(fwd) \in Nat /\ Len(fwd') = Len(fwd) + 1 /\ fwd'[Len(fwd')] = f
          /\ \A i \in 1..Len(fwd) : fwd'[i] = fwd[i]
      BY <2>1, <3>1, FwdPush DEF Nums, Kinds, Codes
    <3> HIDE DEF f
    <3>3. /\ FrameInv'
          /\ \A i \in 1..Len(fwd') : fwd'[i].kind = "MSG" => fwd'[i].off - popped' < SendWin
      BY <2>1, <3>1, <3>2, PushKeeps DEF FrameInv, SenderInv
    <3>4. SenderInv'
      BY SMTT(30), <2>1, <2>2, <3>3 DEF SenderInv, Pend
    <3>5. BacklogInv'
      BY <2>1, <3>2, KeepBacklog
    <3> QED
      BY <2>2, <2>3, <2>5, <3>2, <3>3, <3>4, <3>5 DEF IInv
  <2>7. CASE fwd' = fwd
    <3>1. FwdChain' /\ Arrived' = Arrived /\ ArrivedSeq' = ArrivedSeq
      BY <2>1, <2>7, KeepFwd
    <3>2. FrameInv' /\ SenderInv' /\ BacklogInv'
      BY <2>1, <2>2, <2>7, <3>1, KeepFrame, KeepSender, KeepBacklog
    <3> QED
      BY <2>2, <2>3, <2>5, <3>1, <3>2 DEF IInv
  <2> QED
    BY <2>6, <2>7
<1>5. CASE PeerRecvEnded
  BY <1>5, KeepAll DEF PeerRecvEnded, applyEnd, wakeSenders
<1>6. ASSUME NEW code \in {"OK", "App"}, EndWrite(code) PROVE IInv'
  <2>1. /\ hPc = "run" /\ hPc' = "ending" /\ hCode' = code
        /\ server = "snd" => sndPc \in {"idle", "failed"}
        /\ UNCHANGED <<server, endVars, sndVars, bufVars, rcvVars, conn, hist>>
    BY <1>6 DEF EndWrite
  <2>2. CreditInv' /\ EOFComplete'
    BY <2>1, KeepCredit, KeepEOF
  <2>3. CASE server = "snd" /\ fwd' # fwd
    <3> DEFINE f == FwdFrame("END", 0, code)
    <3>1. f.kind = "END" /\ f.n = 0 /\ f.code = code /\ WriteFwd(f) /\ back' = back
      BY Zenon, <1>6, <2>3 DEF EndWrite, FwdFrame
    <3>2. /\ FwdChain' /\ Arrived' = Arrived /\ ArrivedSeq' = ArrivedSeq
          /\ Len(fwd) \in Nat /\ Len(fwd') = Len(fwd) + 1 /\ fwd'[Len(fwd')] = f
          /\ \A i \in 1..Len(fwd) : fwd'[i] = fwd[i]
      BY <2>1, <3>1, FwdPush DEF Nums, Kinds, Codes
    <3> HIDE DEF f
    <3>3. ~sendDone /\ ~AllArrived
      BY SMTT(20), <2>1, <2>3 DEF CloseInv, AllArrived
    <3>4. /\ FrameInv'
          /\ \A i \in 1..Len(fwd') : fwd'[i].kind = "MSG" => fwd'[i].off - popped' < SendWin
      BY <2>1, <2>3, <3>1, <3>2, <3>3, PushKeeps DEF FrameInv, SenderInv
    <3>5. BackChain' /\ Credited' = Credited
      BY <2>1, <3>1, KeepBack
    <3>6. SenderInv'
      BY SMTT(30), <2>1, <3>4, <3>5 DEF SenderInv, Pend
    <3>7. BacklogInv'
      BY <2>1, <3>2, KeepBacklog
    <3>8. CloseInv'
      BY <2>1, <2>3, <3>3 DEF CloseInv
    <3> QED
      BY <2>2, <3>2, <3>4, <3>5, <3>6, <3>7, <3>8 DEF IInv
  <2>4. CASE ~(server = "snd" /\ fwd' # fwd)
    <3>1. fwd' = fwd
      BY Zenon, <1>6, <2>4 DEF EndWrite
    <3>2. FwdChain' /\ Arrived' = Arrived /\ ArrivedSeq' = ArrivedSeq
      BY <2>1, <3>1, KeepFwd
    <3>3. BackChain' /\ Credited' = Credited
          /\ \A i \in 1..Len(back') : back'[i].kind # "WINDOW_UPDATE" => back'[i].n = 0
      <4>1. CASE back' = back
        BY <2>1, <4>1, KeepBack DEF FrameInv
      <4>2. CASE back' # back
        <5> DEFINE f == BackFrame("END", 0, code)
        <5>1. f.n = 0 /\ WriteBack(f)
          BY Zenon, <1>6, <4>2 DEF EndWrite, BackFrame
        <5>2. /\ BackChain' /\ Credited' = Credited
              /\ Len(back) \in Nat /\ Len(back') = Len(back) + 1 /\ back'[Len(back')] = f
              /\ \A i \in 1..Len(back) : back'[i] = back[i]
          BY SMTT(20), <2>1, <5>1, BackPush DEF Nums, Kinds, Codes
        <5> HIDE DEF f
        <5>3. \A i \in 1..Len(back') : i = Len(back') \/ i \in 1..Len(back)
          BY <5>2
        <5> QED
          BY <5>1, <5>2, <5>3 DEF FrameInv
      <4> QED
        BY <4>1, <4>2
    <3>4. FrameInv'
      BY <2>1, <3>1, <3>3 DEF FrameInv
    <3>5. SenderInv' /\ BacklogInv'
      BY <2>1, <3>1, <3>2, <3>3, KeepSender, KeepBacklog
    <3>6. CloseInv'
      BY SMTT(30), <2>1, <3>1 DEF CloseInv, AllArrived
    <3> QED
      BY <2>2, <3>2, <3>3, <3>4, <3>5, <3>6 DEF IInv
  <2> QED
    BY <2>3, <2>4
<1>7. CASE EndFail
  <2>1. registered'["rcv"] = registered["rcv"] \/ ctxErr'["rcv"]
    BY <1>7 DEF EndFail, failWith, remove, TypeOK, Ends
  <2>2. sndPc' = sndPc \/ (sndPc = "parked" /\ sndPc' = "woken")
    BY <1>7 DEF EndFail, failWith, wakeSenders
  <2>3. hPc # "run" /\ hPc' # "run" /\ endFrame' = endFrame
    BY <1>7 DEF EndFail
  <2> QED
    BY <1>7, <2>1, <2>2, <2>3, KeepAll DEF EndFail
<1>8. CASE RouteSndUnknown
  BY <1>8, RouteSndKeeps DEF RouteSndUnknown, RouteSnd, IInv
<1>9. CASE creditSend
  BY <1>9, RouteSndKeeps DEF creditSend, RouteSnd, IInv, MuFree, wakeSenders
<1>10. CASE signalEndFrame
  <2>1. Head(back).n = 0
    <3>1. Head(back) = back[1] /\ 1 \in 1..Len(back)
      BY <1>10, SeqPop DEF signalEndFrame, RouteSnd, TypeOK
    <3> QED
      BY <1>10, <3>1 DEF signalEndFrame, RouteSnd, FrameInv
  <2>2. endFrame'["rcv"] = endFrame["rcv"]
    BY <1>10 DEF signalEndFrame
  <2> QED
    BY <1>10, <2>1, <2>2, RouteSndKeeps DEF signalEndFrame, RouteSnd, IInv
<1>11. CASE signalEndClose
  <2>1. registered'["rcv"] = registered["rcv"]
    BY <1>11 DEF signalEndClose, remove
  <2> QED
    BY <1>11, <2>1, KeepAll DEF signalEndClose
<1>12. CASE RouteRcvDrop
  <2>1. /\ fwd # <<>> /\ fwd' = Tail(fwd)
        /\ UNCHANGED <<back, conn, rlPc, sndVars, rcvVars, hVars, hist, endVars, bufVars>>
    BY <1>12 DEF RouteRcvDrop, RouteRcv
  <2>2. endFrame'["rcv"].code \in {"OK", "App"}
    BY <2>1 DEF FrameInv
  <2>3. /\ FwdChain' /\ BackChain' /\ FrameInv' /\ SenderInv' /\ CreditInv' /\ EOFComplete'
    BY <2>1, <2>2, RouteRcvKeeps
  <2>4. ~AllArrived
    BY <2>1 DEF AllArrived
  <2>5. ctxErr["rcv"]
    BY <1>12, <2>4 DEF RouteRcvDrop, CloseInv
  <2>6. BacklogInv'
    <3>1. Arrived' = Arrived + Head(fwd).n /\ Head(fwd).n \in Nat
      BY <2>1, FwdPop, PopFwd
    <3>2. recvBytes + popped <= Arrived
      BY DEF BacklogInv
    <3>3. recvBytes' + popped' <= Arrived'
      BY <2>1, <3>1, <3>2 DEF Nums
    <3> QED
      BY <2>1, <2>5, <3>3 DEF BacklogInv
  <2>7. CloseInv'
    BY <2>1, <2>4 DEF CloseInv
  <2> QED
    BY <2>3, <2>6, <2>7 DEF IInv
<1>13. CASE tryDeliver
  <2>1. /\ fwd # <<>> /\ fwd' = Tail(fwd) /\ ~ctxErr["rcv"] /\ Head(fwd).kind = "MSG"
        /\ UNCHANGED <<back, conn, rlPc, sndVars, rcvVars, hVars, hist, endVars, halfClosed>>
        /\ recvItems' = Append(recvItems, Head(fwd)) /\ recvBytes' = recvBytes + Head(fwd).n
    BY <1>13 DEF tryDeliver, RouteRcv
  <2>2. endFrame'["rcv"].code \in {"OK", "App"}
    BY <2>1 DEF FrameInv
  <2>3. /\ FwdChain' /\ BackChain' /\ FrameInv' /\ SenderInv' /\ CreditInv' /\ EOFComplete'
    BY <2>1, <2>2, RouteRcvKeeps
  <2>4. ~AllArrived
    BY <2>1 DEF AllArrived
  <2>5. CloseInv'
    BY <2>1, <2>4 DEF CloseInv
  <2>6. BacklogInv'
    <3> DEFINE f == Head(fwd)
    <3>1. /\ Arrived' = Arrived + f.n /\ ArrivedSeq' = ArrivedSeq + 1
          /\ f = fwd[1] /\ 1 \in 1..Len(fwd)
      BY <2>1, FwdPop DEF IsMsg
    <3>2. f \in Frame /\ f.n \in Nat /\ f.n \in Sizes /\ f.off = Arrived /\ f.seq = ArrivedSeq
      BY <2>1, <3>1, PopFwd DEF FrameInv, Arrived, ArrivedSeq
    <3>3. /\ Len(recvItems) \in Nat /\ Len(recvItems') = Len(recvItems) + 1
          /\ recvItems' # <<>> /\ recvItems'[Len(recvItems) + 1] = f
          /\ \A i \in 1..Len(recvItems) : recvItems'[i] = recvItems[i]
      BY <2>1, <3>2, SeqPush DEF TypeOK
    <3>4. recvItems = <<>> <=> Len(recvItems) = 0
      BY SeqEmpty DEF TypeOK
    <3>5. recvBytes' = recvBytes + f.n
      BY <2>1
    <3> HIDE DEF f
    <3> QED
      BY <2>1, <3>1, <3>2, <3>3, <3>4, <3>5, DeliverKeeps
  <2> QED
    BY <2>3, <2>5, <2>6 DEF IInv
<1>14. CASE OverflowReset
  <2>1. /\ fwd # <<>> /\ fwd' = Tail(fwd) /\ ctxErr'["rcv"]
        /\ UNCHANGED <<back, conn, rlPc, sndVars, rcvVars, hVars, hist, endFrame, bufVars>>
    BY <1>14 DEF writeCtrl, OverflowReset, failWith, wakeSenders, TypeOK, Ends
  <2>2. endFrame'["rcv"].code \in {"OK", "App"}
    BY SMTT(30), <2>1 DEF FrameInv
  <2>3. /\ FwdChain' /\ BackChain' /\ FrameInv' /\ SenderInv' /\ CreditInv' /\ EOFComplete'
    BY <2>1, <2>2, RouteRcvKeeps
  <2>4. ~AllArrived
    BY <2>1 DEF AllArrived
  <2>5. BacklogInv'
    <3>1. Arrived' = Arrived + Head(fwd).n /\ Head(fwd).n \in Nat
      BY <2>1, FwdPop, PopFwd
    <3>2. recvBytes + popped <= Arrived
      BY DEF BacklogInv
    <3>3. recvBytes' + popped' <= Arrived'
      BY <2>1, <3>1, <3>2 DEF Nums
    <3> QED
      BY <2>1, <3>3 DEF BacklogInv
  <2>6. CloseInv'
    BY <2>1, <2>4 DEF CloseInv
  <2> QED
    BY <2>3, <2>5, <2>6 DEF IInv
<1>15. CASE halfClose
  <2>1. /\ fwd # <<>> /\ fwd' = Tail(fwd) /\ registered["rcv"]
        /\ Head(fwd).kind = "HALF_CLOSE"
        /\ UNCHANGED <<back, conn, rlPc, sndVars, rcvVars, hVars, hist, endVars, recvItems, recvBytes>>
    BY <1>15 DEF halfClose, RouteRcv
  <2>2. Head(fwd) = fwd[1] /\ 1 \in 1..Len(fwd) /\ Len(fwd') = Len(fwd) - 1
    BY SMTT(30), <2>1, FwdPop
  <2>3. /\ fwd[1].n = 0 /\ Len(fwd) = 1 /\ fwd[1].code \in {"OK", "App"}
        /\ IF server = "snd" THEN hPc # "run" ELSE sendDone
    BY ZenonT(30), <2>1, <2>2 DEF FrameInv
  <2>4. endFrame'["rcv"].code \in {"OK", "App"}
    BY SMTT(30), <1>15, <2>1, <2>2, <2>3 DEF FrameInv, halfClose, TypeOK, Ends
  <2>5. /\ FwdChain' /\ BackChain' /\ FrameInv' /\ SenderInv' /\ CreditInv' /\ EOFComplete'
    BY <2>1, <2>4, RouteRcvKeeps
  <2>6. Arrived' = Arrived /\ ArrivedSeq' = ArrivedSeq
    <3>1. Arrived' = Arrived + Head(fwd).n /\ ArrivedSeq' = ArrivedSeq + IsMsg(Head(fwd))
      BY <2>1, FwdPop
    <3>2. Head(fwd).n = 0 /\ IsMsg(Head(fwd)) = 0
      BY <2>1, <2>2, <2>3 DEF IsMsg
    <3> QED
      BY <3>1, <3>2 DEF Nums
  <2>7. BacklogInv'
    BY <2>1, <2>6, KeepBacklog
  <2>8. AllArrived'
    <3>1. fwd' = <<>>
      BY <2>2, <2>3, SeqEmpty DEF TypeOK
    <3>2. sndPc \in {"idle", "failed"}
      BY <2>3 DEF CloseInv, TypeOK, Ends
    <3> QED
      BY <2>1, <2>3, <3>1, <3>2 DEF AllArrived
  <2>9. CloseInv'
    BY <2>1, <2>8 DEF CloseInv
  <2> QED
    BY <2>5, <2>7, <2>9 DEF IInv
<1>16. CASE signalEndRcv
  <2>1. /\ fwd # <<>> /\ fwd' = Tail(fwd) /\ registered["rcv"]
        /\ Head(fwd).kind = "END"
        /\ UNCHANGED <<back, conn, rlPc, sndVars, rcvVars, hVars, hist, ctxErr, bufVars>>
    BY <1>16 DEF signalEndRcv, RouteRcv
  <2>2. Head(fwd) = fwd[1] /\ 1 \in 1..Len(fwd) /\ Len(fwd') = Len(fwd) - 1
    BY SMTT(30), <2>1, FwdPop
  <2>3. /\ fwd[1].n = 0 /\ Len(fwd) = 1 /\ fwd[1].code \in {"OK", "App"}
        /\ IF server = "snd" THEN hPc # "run" ELSE sendDone
    BY ZenonT(30), <2>1, <2>2 DEF FrameInv
  <2>4. endFrame'["rcv"].code \in {"OK", "App"}
    BY SMTT(20), <1>16, <2>1, <2>2, <2>3 DEF FrameInv, signalEndRcv, TypeOK, Ends
  <2>5. /\ FwdChain' /\ BackChain' /\ FrameInv' /\ SenderInv' /\ CreditInv' /\ EOFComplete'
    BY <2>1, <2>4, RouteRcvKeeps
  <2>6. Arrived' = Arrived /\ ArrivedSeq' = ArrivedSeq
    <3>1. Arrived' = Arrived + Head(fwd).n /\ ArrivedSeq' = ArrivedSeq + IsMsg(Head(fwd))
      BY <2>1, FwdPop
    <3>2. Head(fwd).n = 0 /\ IsMsg(Head(fwd)) = 0
      BY <2>1, <2>2, <2>3 DEF IsMsg
    <3> QED
      BY <3>1, <3>2 DEF Nums
  <2>7. BacklogInv'
    BY <2>1, <2>6, KeepBacklog
  <2>8. AllArrived'
    <3>1. fwd' = <<>>
      BY <2>2, <2>3, SeqEmpty DEF TypeOK
    <3>2. sndPc \in {"idle", "failed"}
      BY <2>3 DEF CloseInv, TypeOK, Ends
    <3> QED
      BY <2>1, <2>3, <3>1, <3>2 DEF AllArrived
  <2>9. CloseInv'
    BY <2>1, <2>8 DEF CloseInv
  <2> QED
    BY <2>5, <2>7, <2>9 DEF IInv
<1>17. CASE ctrlWriter
  <2>1. UNCHANGED <<fwd, conn, rlPc, endVars, sndVars, bufVars, rcvVars, hVars, hist>>
    BY <1>17 DEF ctrlWriter
  <2>2. FwdChain' /\ Arrived' = Arrived /\ ArrivedSeq' = ArrivedSeq
    BY <2>1, KeepFwd
  <2>3. BackChain' /\ Credited' = Credited
        /\ \A i \in 1..Len(back') : back'[i].kind # "WINDOW_UPDATE" => back'[i].n = 0
    <3>1. CASE back' = back
      BY SMTT(30), <2>1, <3>1, KeepBack DEF FrameInv
    <3>2. CASE back' # back
      <4> DEFINE f == BackFrame("RST", 0, "ResourceExhausted")
      <4>1. f.n = 0 /\ WriteBack(f)
        BY ZenonT(30), <1>17, <3>2 DEF ctrlWriter, BackFrame
      <4>2. /\ BackChain' /\ Credited' = Credited
            /\ Len(back) \in Nat /\ Len(back') = Len(back) + 1 /\ back'[Len(back')] = f
            /\ \A i \in 1..Len(back) : back'[i] = back[i]
        BY <2>1, <4>1, BackPush DEF Nums, Kinds, Codes
      <4> HIDE DEF f
      <4>3. \A i \in 1..Len(back') : i = Len(back') \/ i \in 1..Len(back)
        BY <4>2
      <4> QED
        BY <4>1, <4>2, <4>3 DEF FrameInv
    <3> QED
      BY <3>1, <3>2
  <2>4. FrameInv'
    BY <2>1, <2>3 DEF FrameInv
  <2>5. SenderInv' /\ BacklogInv' /\ CreditInv' /\ CloseInv' /\ EOFComplete'
    BY <2>1, <2>2, <2>3, KeepSender, KeepBacklog, KeepCredit, KeepClose, KeepEOF
  <2> QED
    BY <2>2, <2>3, <2>4, <2>5 DEF IInv
<1>18. CASE RecvLoop
  <2>1. /\ rcvPc \in {"idle", "loop"} /\ outcome = NotEnded
        /\ UNCHANGED <<endVars, sndVars, halfClosed, pendingCredit, hVars, netVars,
                      sent, written, returned, outcome>>
    BY <1>18 DEF RecvLoop, popRecv
  <2>2. CASE popRecv
    BY <2>1, <2>2, PopRecvKeeps DEF IInv
  <2>3. CASE ~popRecv
    <3>1. rcvPc' = "select" /\ UNCHANGED <<recvItems, recvBytes, rcvArg, got, popped>>
      BY <1>18, <2>3 DEF RecvLoop
    <3>2. FwdChain' /\ Arrived' = Arrived /\ ArrivedSeq' = ArrivedSeq
      BY <2>1, KeepFwd
    <3>3. BackChain' /\ Credited' = Credited
      BY <2>1, KeepBack
    <3>4. FrameInv' /\ SenderInv' /\ BacklogInv' /\ EOFComplete'
      BY <2>1, <3>1, <3>2, <3>3, KeepFrame, KeepSender, KeepBacklog, KeepEOF
    <3>5. CreditInv'
      BY <2>1, <3>1 DEF CreditInv, Threshold
    <3>6. CloseInv'
      BY <2>1, <3>1 DEF CloseInv, AllArrived
    <3> QED
      BY <3>2, <3>3, <3>4, <3>5, <3>6 DEF IInv
  <2> QED
    BY <2>2, <2>3
<1>19. CASE RecvSelect
  <2>1. /\ rcvPc = "select" /\ outcome = NotEnded
        /\ UNCHANGED <<endFrame, ended, registered, sndVars, halfClosed, pendingCredit,
                      hVars, netVars, sent, written, returned>>
    BY <1>19 DEF RecvSelect, CloseInv
  <2>2. CASE popRecv
    <3>1. UNCHANGED <<endSt, ctxErr>>
      BY <2>2 DEF popRecv
    <3> QED
      BY <2>1, <2>2, <3>1, PopRecvKeeps DEF IInv
  <2>3. CASE ~popRecv
    <3>1. rcvPc' \in {"idle", "loop"} /\ UNCHANGED <<recvItems, recvBytes, rcvArg, got, popped>>
      BY <1>19, <2>3 DEF RecvSelect, recvEnded, ReturnErr
    <3>2. FwdChain' /\ Arrived' = Arrived /\ ArrivedSeq' = ArrivedSeq
      BY <2>1, KeepFwd
    <3>3. BackChain' /\ Credited' = Credited
      BY <2>1, KeepBack
    <3>4. FrameInv' /\ SenderInv' /\ BacklogInv'
      BY <2>1, <3>1, <3>2, <3>3, KeepFrame, KeepSender, KeepBacklog
    <3>5. CreditInv'
      <4>1. Threshold' = Threshold /\ (~ctxErr'["rcv"] => ~ctxErr["rcv"])
        BY SMTT(30) DEF Threshold, Fades, Ends
      <4> QED
        BY <2>1, <3>1, <4>1 DEF CreditInv
    <3>6. \/ outcome' = outcome /\ UNCHANGED ctxErr
          \/ /\ outcome'.by \in {"END", "HALF_CLOSE"} /\ AllArrived /\ rcvPc' = "idle"
             /\ recvItems = <<>> /\ outcome'.ctx = ctxErr["rcv"]
          \/ outcome'.by \in {"local", "ctx"} /\ rcvPc' = "idle" /\ UNCHANGED ctxErr
      BY <1>19, <2>3 DEF RecvSelect, recvEnded, ReturnErr, CloseInv
    <3>7. AllArrived => AllArrived'
      BY <2>1 DEF AllArrived
    <3>8. CloseInv'
      <4>1. ~ctxErr'["rcv"] => ~ctxErr["rcv"]
        BY DEF Fades, Ends
      <4>2. outcome' # NotEnded => rcvPc' = "idle"
        BY <2>1, <3>6
      <4>3. outcome'.by \in {"END", "HALF_CLOSE"} => AllArrived'
        BY <2>1, <3>6, <3>7 DEF CloseInv
      <4> QED
        BY <2>1, <3>7, <4>1, <4>2, <4>3 DEF CloseInv
    <3>9. EOFComplete'
      <4>1. CASE outcome' = outcome \/ outcome'.by \in {"local", "ctx"}
        BY <2>1, <3>1, <4>1 DEF EOFComplete
      <4>2. CASE /\ outcome'.by \in {"END", "HALF_CLOSE"} /\ AllArrived
                 /\ recvItems = <<>> /\ outcome'.ctx = ctxErr["rcv"]
        <5>1. Len(recvItems) = 0 /\ ArrivedSeq = sent
          BY <4>2 DEF AllArrived, ArrivedSeq
        <5>2. ~ctxErr["rcv"] => got + Len(recvItems) = ArrivedSeq
          BY DEF BacklogInv
        <5>3. ~ctxErr["rcv"] => got = sent
          BY <5>1, <5>2 DEF Nums
        <5> QED
          BY <2>1, <3>1, <4>2, <5>3 DEF EOFComplete
      <4> QED
        BY <3>6, <4>1, <4>2
    <3> QED
      BY SMTT(30), <3>2, <3>3, <3>4, <3>5, <3>8, <3>9 DEF IInv
  <2> QED
    BY <2>2, <2>3
<1>20. CASE returnCredit
  <2>1. /\ rcvPc = "credit" /\ rcvPc' \in {"idle", "flush"}
        /\ UNCHANGED <<outcome, endVars, sndVars, bufVars, hVars, netVars, hist>>
    BY <1>20 DEF returnCredit, Delta
  <2>2. FwdChain' /\ Arrived' = Arrived /\ ArrivedSeq' = ArrivedSeq
    BY <2>1, KeepFwd
  <2>3. BackChain' /\ Credited' = Credited
    BY <2>1, KeepBack
  <2>4. FrameInv' /\ SenderInv' /\ BacklogInv' /\ EOFComplete'
    BY SMTT(20), <2>1, <2>2, <2>3, KeepFrame, KeepSender, KeepBacklog, KeepEOF
  <2>5. CreditInv'
    <3> DEFINE pending == pendingCredit + rcvArg
    <3>1. /\ rcvArg \in Sizes /\ pendingCredit < Threshold /\ CreditMod \in Nat \ {0}
          /\ pending < CreditMod /\ pending \in Nat
      BY <2>1, DeltaFits, StreamAssumption DEF CreditInv, Nums
    <3>2. pending % CreditMod = pending
      BY <3>1, ModNat
    <3> HIDE DEF pending
    <3>3. \/ pendingCredit' = pending /\ rcvPc' = "idle" /\ rcvArg' = 0
             /\ (rcvArg = 0 \/ pending < Threshold)
          \/ pendingCredit' = 0 /\ rcvPc' = "flush" /\ rcvArg' = pending
      BY <1>20, <3>1, <3>2 DEF returnCredit, Delta, pending, Nums
    <3>4. pendingCredit' + rcvArg' = pending /\ pendingCredit' < Threshold
      BY <3>1, <3>3 DEF Nums, pending
    <3>5. returned' + rcvArg' + pendingCredit' = returned + rcvArg + pendingCredit
      BY <2>1, <3>3, <3>4 DEF Nums, pending
    <3>6. Threshold' = Threshold
      BY DEF Threshold
    <3> QED
      BY <2>1, <3>3, <3>4, <3>5, <3>6 DEF CreditInv
  <2>6. CloseInv'
    BY <2>1 DEF CloseInv, AllArrived
  <2> QED
    BY <2>2, <2>3, <2>4, <2>5, <2>6 DEF IInv
<1>21. CASE creditWrite
  <2>1. /\ rcvPc = "flush" /\ rcvPc' = "idle" /\ rcvArg' = 0
        /\ UNCHANGED <<pendingCredit, outcome, endVars, sndVars, bufVars, hVars,
                      fwd, conn, rlPc, sent, got, written, popped>>
    BY <1>21 DEF creditWrite
  <2>2. FwdChain' /\ Arrived' = Arrived /\ ArrivedSeq' = ArrivedSeq
    BY <2>1, KeepFwd
  <2>3. /\ BackChain' /\ Credited' = Credited
        /\ \A i \in 1..Len(back') : back'[i].kind # "WINDOW_UPDATE" => back'[i].n = 0
        /\ \/ returned' = returned + rcvArg
           \/ returned' = returned /\ (~conn \/ ctxErr["rcv"])
    <3>1. CASE UNCHANGED <<back, returned>> /\ (~conn \/ ctxErr["rcv"])
      BY SMTT(30), <2>1, <3>1, KeepBack DEF FrameInv
    <3>2. CASE ~(UNCHANGED <<back, returned>> /\ (~conn \/ ctxErr["rcv"]))
      <4> DEFINE f == BackFrame("WINDOW_UPDATE", rcvArg, "OK")
      <4>1. f.kind = "WINDOW_UPDATE" /\ WriteBack(f) /\ returned' = returned + rcvArg
        BY SMTT(30), <1>21, <3>2 DEF creditWrite, BackFrame, WriteFails
      <4>2. /\ BackChain' /\ Credited' = Credited
            /\ Len(back) \in Nat /\ Len(back') = Len(back) + 1 /\ back'[Len(back')] = f
            /\ \A i \in 1..Len(back) : back'[i] = back[i]
        BY SMTT(30), <2>1, <4>1, BackPush DEF Nums, Kinds, Codes
      <4> HIDE DEF f
      <4>3. \A i \in 1..Len(back') : i = Len(back') \/ i \in 1..Len(back)
        BY <4>2
      <4> QED
        BY ZenonT(30), <4>1, <4>2, <4>3 DEF FrameInv
    <3> QED
      BY SMTT(30), <3>1, <3>2
  <2>4. FrameInv'
    BY SMTT(30), <2>1, <2>3 DEF FrameInv
  <2>5. SenderInv' /\ BacklogInv' /\ EOFComplete'
    BY <2>1, <2>2, <2>3, KeepSender, KeepBacklog, KeepEOF
  <2>6. CreditInv'
    <3>1. Threshold' = Threshold
      BY DEF Threshold
    <3>2. /\ returned' + rcvArg' + pendingCredit' <= popped'
          /\ conn' /\ ~ctxErr'["rcv"] => returned' + rcvArg' + pendingCredit' = popped'
      BY <2>1, <2>3 DEF CreditInv, Nums
    <3> QED
      BY <2>1, <3>1, <3>2 DEF CreditInv
  <2>7. CloseInv'
    BY <2>1 DEF CloseInv, AllArrived
  <2> QED
    BY <2>2, <2>3, <2>4, <2>5, <2>6, <2>7 DEF IInv
<1>22. ASSUME NEW e \in Ends, Cancel(e) PROVE IInv'
  BY SMTT(30), <1>22, KeepAll DEF Cancel
<1>23. ASSUME NEW e \in Ends, readLoopExit(e) PROVE IInv'
  <2>1. registered'["rcv"] = registered["rcv"] \/ ctxErr'["rcv"]
    BY Zenon, <1>23 DEF readLoopExit, failAll, failWith, remove, TypeOK, Ends
  <2>2. sndPc' = sndPc \/ (sndPc = "parked" /\ sndPc' = "woken")
    BY <1>23 DEF readLoopExit, failAll, failWith, wakeSenders
  <2> QED
    BY SMTT(30), <1>23, <2>1, <2>2, KeepAll DEF readLoopExit, failAll
<1>24. CASE ConnDrop
  BY <1>24, KeepAll DEF ConnDrop
<1>25. CASE UNCHANGED vars
  BY <1>25, KeepAll DEF vars
<1> QED
  BY <1>1, <1>2, <1>3, <1>4, <1>5, <1>6, <1>7, <1>8, <1>9, <1>10, <1>11, <1>12, <1>13,
     <1>14, <1>15, <1>16, <1>17, <1>18, <1>19, <1>20, <1>21, <1>22, <1>23, <1>24, <1>25
     DEF Next

-----------------------------------------------------------------------------
(* The theorems.                                                           *)

\* The inductive invariant holds in every reachable state.
THEOREM Invariance == Spec => []IInv
<1>1. Init => IInv
  BY InvInit
<1>2. IInv /\ [Next]_vars => IInv'
  BY InvNext
<1> QED
  BY <1>1, <1>2, PTL DEF Spec

\* Recv hands MSGs over in the order they were written, for any windows and
\* message sizes, whatever is cancelled or lost.
THEOREM Ordered == Spec => []InOrder
<1>1. IInv => InOrder
  <2> SUFFICES ASSUME IInv, recvItems # <<>> PROVE Head(recvItems).seq = got
    BY DEF InOrder
  <2>1. Head(recvItems) = recvItems[1] /\ 1 \in 1..Len(recvItems)
    BY SeqPop DEF IInv, TypeOK
  <2>2. recvItems[1].seq = got + 1 - 1
    BY <2>1 DEF IInv, BacklogInv
  <2> QED
    BY <2>1, <2>2 DEF IInv, TypeOK
<1> QED
  BY <1>1, Invariance, PTL

\* Drain-first: a receiver told of its peer's END or HALF_CLOSE has every MSG,
\* unless its own context had ended.
THEOREM Complete == Spec => []EOFComplete
<1>1. IInv => EOFComplete
  BY DEF IInv
<1> QED
  BY <1>1, Invariance, PTL

\* The bytes in a chain of frames that ends at e.
LEMMA ChainTotal ==
  ASSUME NEW q \in Seq(Frame), NEW e \in Nat,
         \A i \in 1..Len(q) : q[i].off + q[i].n = IF i = Len(q) THEN e ELSE q[i + 1].off
  PROVE  Total(q) = e - (IF q = <<>> THEN e ELSE q[1].off)
<1> DEFINE s == [i \in 1..Len(q) |-> q[i].n]
           o == [i \in 1..(Len(q) + 1) |-> IF i = Len(q) + 1 THEN e ELSE q[i].off]
<1>1. Len(q) \in Nat /\ \A i \in 1..Len(q) : q[i].n \in Nat /\ q[i].off \in Nat
  <2>1. \A i \in 1..Len(q) : q[i] \in Frame
    OBVIOUS
  <2> QED
    BY <2>1, FrameFields
<1>2. s \in Seq(Int) /\ Len(s) = Len(q) /\ \A i \in 1..Len(q) : s[i] = q[i].n
  <2>1. s \in [1..Len(q) -> Int]
    BY <1>1
  <2> QED
    BY <1>1, <2>1
<1>3. \A i \in 1..(Len(s) + 1) : o[i] \in Int
  <2> SUFFICES ASSUME NEW i \in 1..(Len(q) + 1) PROVE o[i] \in Int
    BY <1>2
  <2>1. i # Len(q) + 1 => i \in 1..Len(q)
    BY <1>1
  <2> QED
    BY <1>1, <2>1
<1>4. \A i \in 1..Len(s) : o[i + 1] = o[i] + s[i]
  <2> SUFFICES ASSUME NEW i \in 1..Len(q) PROVE o[i + 1] = o[i] + q[i].n
    BY <1>2
  <2>1. i \in 1..(Len(q) + 1) /\ i + 1 \in 1..(Len(q) + 1) /\ i # Len(q) + 1
        /\ (i = Len(q) <=> i + 1 = Len(q) + 1)
    BY <1>1
  <2>2. o[i] = q[i].off
    BY <2>1
  <2>3. o[i + 1] = IF i = Len(q) THEN e ELSE q[i + 1].off
    BY <2>1
  <2> QED
    BY <2>2, <2>3
<1>5. o[Len(q) + 1] = e /\ o[1] = IF q = <<>> THEN e ELSE q[1].off
  BY <1>1
<1>6. Total(q) = Sum(s)
  BY DEF Total
<1> HIDE DEF s, o
<1>7. Sum(s) = o[Len(s) + 1] - o[1]
  BY <1>2, <1>3, <1>4, Telescopes
<1> QED
  BY <1>2, <1>5, <1>6, <1>7

\* No byte of credit is lost or made up while the stream lives: window, payload
\* under way, backlog, credit withheld and credit under way add up to the
\* initial window, for any pair of windows and any message sizes.
THEOREM CreditConserves == Spec => []CreditConservation
<1>1. IInv => CreditConservation
  <2> SUFFICES ASSUME IInv, conn, \A e \in Ends : registered[e] /\ ~ctxErr[e]
               PROVE  SendWin = sendWindow
                        + (IF sndPc = "write" THEN sndArg ELSE 0)
                        + Total(fwd) + recvBytes
                        + rcvArg + pendingCredit + Total(back)
    BY DEF CreditConservation
  <2>1. Nums
    BY Numbers DEF IInv
  <2>2. fwd \in Seq(Frame) /\ back \in Seq(Frame)
    BY DEF IInv, TypeOK
  <2>3. Total(fwd) = written - Arrived
    BY <2>1, <2>2, ChainTotal DEF IInv, FwdChain, Arrived, Nums
  <2>4. Total(back) = returned - Credited
    BY <2>1, <2>2, ChainTotal DEF IInv, BackChain, Credited, Nums
  <2>5. sendWindow + written + Pend = SendWin + Credited
    BY DEF IInv, SenderInv, Ends
  <2>6. recvBytes + popped = Arrived
    BY DEF IInv, BacklogInv, Ends
  <2>7. returned + rcvArg + pendingCredit = popped
    BY DEF IInv, CreditInv, Ends
  <2>8. SendWin = sendWindow + Pend + (written - Arrived) + recvBytes
                    + rcvArg + pendingCredit + (returned - Credited)
    BY <2>1, <2>5, <2>6, <2>7 DEF Nums
  <2> QED
    BY <2>3, <2>4, <2>8 DEF Pend
<1> QED
  BY <1>1, Invariance, PTL

\* With a receive window at least the send window, the overflow reset is never
\* taken: the first byte of a MSG in flight is one the sender had credit for.
THEOREM NeverReset ==
  ASSUME SendWin <= RecvWin
  PROVE  Spec => []NoFalseReset
<1>1. Init => NoFalseReset
  BY DEF Init, NoFalseReset, Ends
<1>2. IInv /\ NoFalseReset /\ [Next]_vars => NoFalseReset'
  <2> SUFFICES ASSUME IInv, NoFalseReset, [Next]_vars PROVE NoFalseReset'
    OBVIOUS
  <2> TypeOK /\ FrameInv /\ SenderInv /\ BacklogInv
    BY DEF IInv
  <2> Nums /\ ItemNums
    BY Numbers
  <2>1. ~OverflowReset
    <3> SUFFICES ASSUME OverflowReset PROVE FALSE
      OBVIOUS
    <3>1. /\ fwd # <<>> /\ Head(fwd).kind = "MSG" /\ ~ctxErr["rcv"] /\ recvBytes > RecvWin
      BY DEF writeCtrl, OverflowReset, Overflows
    <3>2. Head(fwd) = fwd[1] /\ 1 \in 1..Len(fwd)
      BY <3>1, SeqPop DEF TypeOK
    <3>3. Arrived = fwd[1].off /\ fwd[1].off - popped < SendWin
      BY <3>1, <3>2 DEF Arrived, SenderInv
    <3>4. recvBytes + popped = Arrived
      BY SMTT(20), <3>1 DEF BacklogInv
    <3>5. Arrived - popped < SendWin
      BY <3>3
    <3> QED
      BY <3>1, <3>4, <3>5, StreamAssumption DEF Nums
  <2>2. ASSUME UNCHANGED <<endSt, ctrlCh>> PROVE NoFalseReset'
    BY <2>2 DEF NoFalseReset
  <2>3. CASE PeerRecvEnded
    BY SMTT(20), <2>3 DEF PeerRecvEnded, applyEnd, NoFalseReset
  <2>4. CASE EndFail
    BY <2>4 DEF EndFail, failWith, NoFalseReset, FrameInv, TypeOK, Ends
  <2>5. CASE ctrlWriter
    BY SMTT(20), <2>5 DEF ctrlWriter, NoFalseReset
  <2>6. CASE RecvSelect
    BY <2>6 DEF RecvSelect, recvEnded, popRecv, NoFalseReset, FrameInv, TypeOK, Ends
  <2>7. ASSUME NEW e \in Ends, readLoopExit(e) PROVE NoFalseReset'
    BY <2>7 DEF readLoopExit, failAll, failWith, NoFalseReset, TypeOK, Ends
  <2>8. ASSUME \/ \E n \in Sizes : SendRaw(n)
               \/ SendWait \/ SendWrite \/ CloseSend
               \/ \E code \in {"OK", "App"} : EndWrite(code)
               \/ UNCHANGED vars
        PROVE  NoFalseReset'
    BY Zenon, <2>2, <2>8 DEF SendRaw, SendWait, SendWrite, CloseSend, EndWrite, vars
  <2>9. ASSUME RouteSndUnknown \/ creditSend \/ signalEndFrame \/ signalEndClose
        PROVE  NoFalseReset'
    BY SMTT(20), <2>2, <2>9 DEF RouteSndUnknown, creditSend, signalEndFrame, signalEndClose, RouteSnd
  <2>10. ASSUME RouteRcvDrop \/ tryDeliver \/ halfClose \/ signalEndRcv
         PROVE  NoFalseReset'
    BY SMTT(20), <2>2, <2>10 DEF RouteRcvDrop, tryDeliver, halfClose, signalEndRcv, RouteRcv
  <2>11. ASSUME RecvLoop \/ returnCredit \/ creditWrite \/ ConnDrop
                \/ \E e \in Ends : Cancel(e)
         PROVE  NoFalseReset'
    BY <2>2, <2>11 DEF RecvLoop, popRecv, returnCredit, creditWrite, ConnDrop, Cancel
  <2> QED
    BY <2>1, <2>3, <2>4, <2>5, <2>6, <2>7, <2>8, <2>9, <2>10, <2>11 DEF Next
<1> QED
  BY <1>1, <1>2, Invariance, PTL DEF Spec

\* With a flush threshold at most the send window, a sender whose receiver has
\* consumed everything has credit: withheld credit stays below the threshold.
THEOREM NeverStalled ==
  ASSUME Threshold <= SendWin
  PROVE  Spec => []NoCreditStall
<1>1. IInv => NoCreditStall
  <2> SUFFICES ASSUME IInv, Quiet PROVE sendWindow > 0 /\ sndPc # "parked"
    BY DEF NoCreditStall
  <2>1. Nums
    BY Numbers DEF IInv
  <2>2. /\ conn /\ registered["snd"] /\ ~ctxErr["snd"] /\ ~ctxErr["rcv"]
        /\ fwd = <<>> /\ back = <<>> /\ recvItems = <<>>
        /\ rcvPc \notin {"credit", "flush"} /\ sndPc # "write"
    BY DEF Quiet, Ends
  <2>3. Arrived = written /\ Credited = returned /\ Pend = 0
    BY <2>2 DEF Arrived, Credited, Pend
  <2>4. recvBytes = 0 /\ recvBytes + popped = Arrived
    BY <2>2 DEF IInv, BacklogInv
  <2>5. rcvArg = 0 /\ returned + rcvArg + pendingCredit = popped /\ pendingCredit < Threshold
    BY <2>2 DEF IInv, CreditInv
  <2>6. sendWindow + written + Pend = SendWin + Credited
    BY <2>2 DEF IInv, SenderInv
  <2>7. sendWindow > 0
    BY <2>1, <2>3, <2>4, <2>5, <2>6 DEF Nums
  <2> QED
    BY <2>1, <2>7 DEF IInv, SenderInv, Nums
<1> QED
  BY <1>1, Invariance, PTL

\* Whatever the windows of the two sides, the backlog exceeds the receiver's
\* ceiling by at most its newest message.
THEOREM Bounded == Spec => []BacklogCeiling
<1>1. Init => BacklogCeiling
  BY DEF Init, BacklogCeiling
<1>2. IInv /\ BacklogCeiling /\ [Next]_vars => BacklogCeiling'
  <2> SUFFICES ASSUME IInv, BacklogCeiling, [Next]_vars PROVE BacklogCeiling'
    OBVIOUS
  <2> TypeOK /\ BacklogInv
    BY DEF IInv
  <2> Nums /\ ItemNums /\ RecvWin \in Nat
    BY Numbers, StreamAssumption
  <2>1. ASSUME UNCHANGED <<recvItems, recvBytes>> PROVE BacklogCeiling'
    BY <2>1 DEF BacklogCeiling
  <2>2. CASE tryDeliver
    <3> DEFINE f == Head(fwd)
    <3>1. /\ fwd # <<>> /\ (recvItems # <<>> => recvBytes <= RecvWin)
          /\ recvItems' = Append(recvItems, f) /\ recvBytes' = recvBytes + f.n
      BY <2>2 DEF tryDeliver, RouteRcv, Overflows, Nums
    <3>2. f \in Frame /\ f.n \in Nat
      BY SMTT(20), <3>1, PopFwd
    <3>3. recvItems'[Len(recvItems')] = f
      BY <3>1, <3>2, SeqPush DEF TypeOK
    <3>4. recvBytes <= RecvWin
      BY <3>1 DEF BacklogInv
    <3> DEFINE n == f.n
    <3> HIDE DEF n
    <3>5. recvBytes' - n <= RecvWin
      <4>1. recvBytes' = recvBytes + n /\ n \in Nat
        BY <3>1, <3>2 DEF n
      <4> QED
        BY <3>4, <4>1 DEF Nums
    <3> QED
      BY <3>3, <3>5 DEF BacklogCeiling, n
  <2>3. CASE popRecv
    <3>1. /\ Len(recvItems) \in Nat \ {0} /\ Len(recvItems') = Len(recvItems) - 1
          /\ recvItems' \in Seq(Frame)
          /\ \A i \in 1..Len(recvItems') : recvItems'[i] = recvItems[i + 1]
          /\ recvItems # <<>>
      BY <2>3, SeqPop DEF popRecv, TypeOK
    <3>2. recvItems' # <<>> => recvItems'[Len(recvItems')] = recvItems[Len(recvItems)]
      BY <3>1, SeqEmpty
    <3> DEFINE h == Head(recvItems).n
               l == recvItems[Len(recvItems)].n
    <3>3. recvBytes' = recvBytes - h /\ h \in Nat
      BY <2>3, PopItems DEF popRecv
    <3>4. recvBytes - l <= RecvWin /\ l \in Nat
      BY <3>1 DEF BacklogCeiling, ItemNums
    <3> HIDE DEF h, l
    <3>5. recvBytes' - l <= RecvWin
      BY <3>3, <3>4 DEF Nums
    <3> QED
      BY <3>2, <3>5 DEF BacklogCeiling, l
  <2>4. ASSUME \/ \E n \in Sizes : SendRaw(n)
               \/ SendWait \/ SendWrite \/ CloseSend \/ PeerRecvEnded
               \/ \E code \in {"OK", "App"} : EndWrite(code)
               \/ EndFail \/ UNCHANGED vars
        PROVE  BacklogCeiling'
    BY Zenon, <2>1, <2>4 DEF SendRaw, SendWait, SendWrite, CloseSend, PeerRecvEnded, EndWrite,
                      EndFail, vars
  <2>5. ASSUME RouteSndUnknown \/ creditSend \/ signalEndFrame \/ signalEndClose
        PROVE  BacklogCeiling'
    BY <2>1, <2>5 DEF RouteSndUnknown, creditSend, signalEndFrame, signalEndClose, RouteSnd
  <2>6. ASSUME RouteRcvDrop \/ OverflowReset \/ halfClose \/ signalEndRcv \/ ctrlWriter
        PROVE  BacklogCeiling'
    BY Zenon, <2>1, <2>6 DEF RouteRcvDrop, OverflowReset, halfClose, signalEndRcv, ctrlWriter, RouteRcv
  <2>7. ASSUME RecvLoop \/ RecvSelect PROVE BacklogCeiling'
    BY <2>1, <2>3, <2>7 DEF RecvLoop, RecvSelect, recvEnded, ReturnErr
  <2>8. ASSUME \/ returnCredit \/ creditWrite \/ ConnDrop
               \/ \E e \in Ends : Cancel(e) \/ readLoopExit(e)
        PROVE  BacklogCeiling'
    BY <2>1, <2>8 DEF returnCredit, Delta, creditWrite, ConnDrop, Cancel, readLoopExit
  <2> QED
    BY <2>2, <2>4, <2>5, <2>6, <2>7, <2>8 DEF Next
<1> QED
  BY <1>1, <1>2, Invariance, PTL DEF Spec

\* No client ever reports a second status.
THEOREM StatusFinal == Spec => ClientStatusFinal
<1> DEFINE Final == \A e \in Ends : e # server /\ endSt[e] # "none" => endSt'[e] = endSt[e]
<1>1. Init => StatusInv
  BY SMTT(30) DEF Init, StatusInv
<1>2. TypeOK /\ StatusInv /\ [Next]_vars => StatusInv' /\ Final
  <2> SUFFICES ASSUME TypeOK, StatusInv, [Next]_vars PROVE StatusInv' /\ Final
    OBVIOUS
  <2>0. /\ endSt \in [Ends -> Codes \cup {"none"}] /\ registered \in [Ends -> BOOLEAN]
        /\ server \in Ends /\ ended \in [Ends -> BOOLEAN]
        /\ endFrame \in [Ends -> Frame] /\ rlPc \in [Ends -> {"run", "sigend", "exited"}]
    BY DEF TypeOK
  <2> USE <2>0 DEF StatusInv, Ends
  <2>1. ASSUME NEW n \in Sizes, SendRaw(n) PROVE StatusInv' /\ Final
    BY <2>1 DEF SendRaw
  <2>2. CASE SendWait
    BY <2>2 DEF SendWait
  <2>3. CASE SendWrite
    BY <2>3 DEF SendWrite
  <2>4. CASE CloseSend
    BY <2>4 DEF CloseSend
  <2>5. CASE PeerRecvEnded
    BY <2>5 DEF PeerRecvEnded, applyEnd
  <2>6. ASSUME NEW code \in {"OK", "App"}, EndWrite(code) PROVE StatusInv' /\ Final
    BY <2>6 DEF EndWrite
  <2>7. CASE EndFail
    BY <2>7 DEF EndFail, failWith, remove
  <2>8. CASE RouteSndUnknown
    BY <2>8 DEF RouteSndUnknown, RouteSnd
  <2>9. CASE creditSend
    BY <2>9 DEF creditSend, RouteSnd
  <2>10. CASE signalEndFrame
    BY <2>10 DEF signalEndFrame, RouteSnd
  <2>11. CASE signalEndClose
    BY <2>11 DEF signalEndClose, remove
  <2>12. CASE RouteRcvDrop
    BY <2>12 DEF RouteRcvDrop, RouteRcv
  <2>13. CASE tryDeliver
    BY <2>13 DEF tryDeliver, RouteRcv
  <2>14. CASE OverflowReset
    BY <2>14 DEF writeCtrl, OverflowReset, failWith, remove
  <2>15. CASE halfClose
    BY <2>15 DEF halfClose, RouteRcv
  <2>16. CASE signalEndRcv
    BY <2>16 DEF signalEndRcv, RouteRcv, remove
  <2>17. CASE ctrlWriter
    BY <2>17 DEF ctrlWriter
  <2>18. CASE RecvLoop
    BY SMTT(20), <2>18 DEF RecvLoop, popRecv
  <2>19. CASE RecvSelect
    BY <2>19 DEF RecvSelect, popRecv, recvEnded, ReturnErr
  <2>20. CASE returnCredit
    BY <2>20 DEF returnCredit, Delta
  <2>21. CASE creditWrite
    BY <2>21 DEF creditWrite
  <2>22. ASSUME NEW x \in Ends, Cancel(x) PROVE StatusInv' /\ Final
    BY SMTT(20), <2>22 DEF Cancel
  <2>23. ASSUME NEW x \in Ends, readLoopExit(x) PROVE StatusInv' /\ Final
    BY <2>23 DEF readLoopExit, failAll, failWith, remove
  <2>24. CASE ConnDrop
    BY <2>24 DEF ConnDrop
  <2>25. CASE UNCHANGED vars
    BY <2>25 DEF vars
  <2> QED
    BY ZenonT(30), <2>1, <2>2, <2>3, <2>4, <2>5, <2>6, <2>7, <2>8, <2>9, <2>10, <2>11, <2>12, <2>13,
       <2>14, <2>15, <2>16, <2>17, <2>18, <2>19, <2>20, <2>21, <2>22, <2>23, <2>24, <2>25
       DEF Next
<1>3. Spec => [][Final]_vars
  BY <1>1, <1>2, TypeCorrect, PTL DEF Spec
<1> QED
  BY <1>3 DEF ClientStatusFinal

-----------------------------------------------------------------------------
(* Stream implements Delivery.                                             *)

\* The MSGs of the pipe carry increasing numbers, all above the backlog's; a
\* stream that ended without a terminal frame had its context cancelled.
DInv ==
    /\ got + Len(recvItems) <= sent
    /\ \A i \in 1..Len(fwd) : fwd[i].kind = "MSG" =>
        /\ got + Len(recvItems) <= fwd[i].seq /\ fwd[i].seq < sent
        /\ \A j \in 1..Len(fwd) : i < j => fwd[i].seq < fwd[j].seq
    /\ ended["rcv"] /\ endFrame["rcv"] = NoFrame => ctxErr["rcv"]

-----------------------------------------------------------------------------
(* DInv is inductive, given TypeOK.                                        *)

\* A write to fwd keeps the order of the pipe.
LEMMA PushOrder ==
  ASSUME TypeOK, DInv, NEW kind \in Kinds, NEW n \in Nat, NEW code \in Codes,
         WriteFwd(FwdFrame(kind, n, code)), UNCHANGED <<got, recvItems, ended, endFrame, ctxErr>>,
         sent' = sent + (IF kind = "MSG" THEN 1 ELSE 0)
  PROVE  DInv'
<1> DEFINE f == FwdFrame(kind, n, code)
<1>1. f \in Frame /\ f.seq = sent /\ f.kind = kind
  BY NewFrames DEF FwdFrame
<1>2. fwd' = Append(fwd, f) /\ fwd \in Seq(Frame) /\ sent \in Nat /\ got \in Nat
      /\ recvItems \in Seq(Frame)
  BY SMTT(20) DEF WriteFwd, TypeOK
<1> HIDE DEF f
<1>3. /\ Len(fwd) \in Nat /\ Len(fwd') = Len(fwd) + 1 /\ fwd'[Len(fwd) + 1] = f
      /\ \A i \in 1..Len(fwd) : fwd'[i] = fwd[i] /\ fwd[i].seq \in Nat
  BY <1>1, <1>2, SeqPush, FrameFields
<1>4. Len(recvItems) \in Nat
  BY <1>2
<1>5. got' + Len(recvItems') <= sent' /\ sent <= sent' /\ (kind = "MSG" => sent < sent')
  BY <1>2, <1>4 DEF DInv
<1>6. ASSUME NEW i \in 1..Len(fwd'), fwd'[i].kind = "MSG"
      PROVE  /\ got + Len(recvItems) <= fwd'[i].seq /\ fwd'[i].seq < sent'
             /\ \A j \in 1..Len(fwd') : i < j => fwd'[i].seq < fwd'[j].seq
  <2>1. CASE i = Len(fwd) + 1
    <3>1. fwd'[i].seq = sent /\ kind = "MSG" /\ ~\E j \in 1..Len(fwd') : i < j
      BY SMTT(20), <1>1, <1>3, <1>6, <2>1
    <3> QED
      BY SMTT(20), <1>2, <1>4, <1>5, <3>1 DEF DInv
  <2>2. CASE i \in 1..Len(fwd)
    <3>1. /\ got + Len(recvItems) <= fwd[i].seq /\ fwd[i].seq < sent
          /\ \A j \in 1..Len(fwd) : i < j => fwd[i].seq < fwd[j].seq
      BY <1>3, <1>6, <2>2 DEF DInv
    <3>2. \A j \in 1..Len(fwd') : j \in 1..Len(fwd) \/ fwd'[j].seq = sent
      BY <1>1, <1>3
    <3>3. fwd[i].seq < sent'
      BY SMTT(20), <1>2, <1>3, <1>5, <2>2, <3>1
    <3> QED
      BY SMTT(20), <1>3, <2>2, <3>1, <3>2, <3>3
  <2> QED
    BY <1>3, <2>1, <2>2
<1> QED
  BY <1>5, <1>6 DEF DInv

\* A read from fwd keeps it, and makes room for one more MSG in the backlog.
LEMMA PopOrder ==
  ASSUME TypeOK, DInv, fwd # <<>>, fwd' = Tail(fwd), UNCHANGED <<got, sent>>,
         \/ recvItems' = recvItems
         \/ Head(fwd).kind = "MSG" /\ recvItems' = Append(recvItems, Head(fwd)),
         ended'["rcv"] /\ endFrame'["rcv"] = NoFrame => ctxErr'["rcv"]
  PROVE  DInv'
<1>1. /\ Head(fwd) = fwd[1] /\ Len(fwd) \in Nat \ {0} /\ Len(fwd') = Len(fwd) - 1
      /\ \A i \in 1..Len(fwd') : fwd'[i] = fwd[i + 1]
      /\ Head(fwd) \in Frame
  BY SMTT(20), SeqPop, PopFwd DEF TypeOK
<1>2. /\ Len(recvItems) \in Nat /\ got \in Nat /\ sent \in Nat
      /\ \/ Len(recvItems') = Len(recvItems)
         \/ Head(fwd).kind = "MSG" /\ Len(recvItems') = Len(recvItems) + 1
  BY <1>1, SeqPush DEF TypeOK
<1>3. \A i \in 1..Len(fwd) : fwd[i].seq \in Nat
  BY SMTT(20), FrameFields DEF TypeOK
<1> QED
  BY SMTT(20), <1>1, <1>2, <1>3 DEF DInv

\* popRecv moves the boundary from the backlog to what was handed over.
LEMMA PopRecvOrder ==
  ASSUME TypeOK, DInv, popRecv, UNCHANGED <<fwd, sent, ended, endFrame, ctxErr>>
  PROVE  DInv'
<1>1. /\ Len(recvItems) \in Nat \ {0} /\ Len(recvItems') = Len(recvItems) - 1
      /\ got \in Nat /\ got' = got + 1
  BY SeqPop DEF popRecv, TypeOK
<1> QED
  BY <1>1 DEF DInv

\* Every other step leaves the numbers alone.
LEMMA KeepOrder ==
  ASSUME DInv, UNCHANGED <<fwd, recvItems, got, sent>>,
         ended'["rcv"] /\ endFrame'["rcv"] = NoFrame => ctxErr'["rcv"]
  PROVE  DInv'
BY DEF DInv

LEMMA OrderNext == TypeOK /\ FrameInv /\ DInv /\ [Next]_vars => DInv'
<1> SUFFICES ASSUME TypeOK, FrameInv, DInv, [Next]_vars PROVE DInv'
  OBVIOUS
<1>0. /\ ended \in [Ends -> BOOLEAN] /\ ctxErr \in [Ends -> BOOLEAN]
      /\ endFrame \in [Ends -> Frame] /\ "rcv" \in Ends /\ sndArg \in Nat
  BY DEF TypeOK, Ends
<1>01. ended["rcv"] /\ endFrame["rcv"] = NoFrame => ctxErr["rcv"]
  BY DEF DInv
<1> USE <1>0, <1>01
<1>1. ASSUME NEW n \in Sizes, SendRaw(n) PROVE DInv'
  BY <1>1, KeepOrder DEF SendRaw
<1>2. CASE SendWait
  BY <1>2, KeepOrder DEF SendWait
<1>3. CASE SendWrite
  <2>1. CASE WriteFwd(FwdFrame("MSG", sndArg, "OK")) /\ sent' = sent + 1
    BY <1>3, <2>1, PushOrder DEF SendWrite, Kinds, Codes
  <2>2. CASE UNCHANGED <<fwd, sent>>
    BY <1>3, <2>2, KeepOrder DEF SendWrite
  <2> QED
    BY <1>3, <2>1, <2>2 DEF SendWrite
<1>4. CASE CloseSend
  <2>1. CASE WriteFwd(FwdFrame("HALF_CLOSE", 0, "OK"))
    BY <1>4, <2>1, PushOrder DEF CloseSend, Kinds, Codes, TypeOK
  <2>2. CASE UNCHANGED fwd
    BY <1>4, <2>2, KeepOrder DEF CloseSend
  <2> QED
    BY SMTT(20), <1>4, <2>1, <2>2 DEF CloseSend
<1>5. CASE PeerRecvEnded
  BY <1>5, KeepOrder DEF PeerRecvEnded, applyEnd
<1>6. ASSUME NEW code \in {"OK", "App"}, EndWrite(code) PROVE DInv'
  <2>1. CASE WriteFwd(FwdFrame("END", 0, code))
    BY <1>6, <2>1, PushOrder DEF EndWrite, Kinds, Codes, TypeOK
  <2>2. CASE UNCHANGED fwd
    BY <1>6, <2>2, KeepOrder DEF EndWrite
  <2> QED
    BY <1>6, <2>1, <2>2 DEF EndWrite
<1>7. CASE EndFail
  BY <1>7, KeepOrder DEF EndFail, failWith
<1>8. CASE RouteSndUnknown
  BY <1>8, KeepOrder DEF RouteSndUnknown, RouteSnd
<1>9. CASE creditSend
  BY <1>9, KeepOrder DEF creditSend, RouteSnd
<1>10. CASE signalEndFrame
  BY <1>10, KeepOrder DEF signalEndFrame, RouteSnd
<1>11. CASE signalEndClose
  BY <1>11, KeepOrder DEF signalEndClose
<1>12. CASE RouteRcvDrop
  BY <1>12, PopOrder DEF RouteRcvDrop, RouteRcv
<1>13. CASE tryDeliver
  BY <1>13, PopOrder DEF tryDeliver, RouteRcv
<1>14. CASE OverflowReset
  BY <1>14, PopOrder DEF OverflowReset, failWith
<1>15. CASE halfClose
  BY <1>15, PopOrder DEF halfClose, RouteRcv
<1>16. CASE signalEndRcv
  <2>1. Head(fwd) # NoFrame
    BY <1>16 DEF signalEndRcv, RouteRcv, NoFrame
  <2> QED
    BY SMTT(20), <1>16, <2>1, PopOrder DEF signalEndRcv, RouteRcv
<1>17. CASE ctrlWriter
  BY <1>17, KeepOrder DEF ctrlWriter
<1>18. CASE RecvLoop
  <2>1. CASE popRecv
    BY <1>18, <2>1, PopRecvOrder DEF RecvLoop, popRecv
  <2>2. CASE ~popRecv
    BY SMTT(20), <1>18, <2>2, KeepOrder DEF RecvLoop
  <2> QED
    BY SMTT(20), <2>1, <2>2
<1>19. CASE RecvSelect
  <2>1. CASE popRecv
    BY <1>19, <2>1, PopRecvOrder DEF RecvSelect, popRecv
  <2>2. CASE ~popRecv
    <3>1. UNCHANGED <<fwd, recvItems, got, sent, ended, endFrame>>
      BY <1>19, <2>2 DEF RecvSelect, recvEnded, ReturnErr
    <3>2. ctxErr' = ctxErr \/ ctxErr' = [ctxErr EXCEPT !["rcv"] = TRUE]
      BY <1>19, <2>2 DEF RecvSelect, recvEnded, ReturnErr
    <3> QED
      BY SMTT(20), <3>1, <3>2, KeepOrder
  <2> QED
    BY <2>1, <2>2
<1>20. CASE returnCredit
  BY <1>20, KeepOrder DEF returnCredit
<1>21. CASE creditWrite
  BY <1>21, KeepOrder DEF creditWrite
<1>22. ASSUME NEW x \in Ends, Cancel(x) PROVE DInv'
  BY <1>22, KeepOrder DEF Cancel
<1>23. ASSUME NEW x \in Ends, readLoopExit(x) PROVE DInv'
  BY <1>23, KeepOrder DEF readLoopExit, failAll, failWith
<1>24. CASE ConnDrop
  BY <1>24, KeepOrder DEF ConnDrop
<1>25. CASE UNCHANGED vars
  BY SMTT(20), <1>25, KeepOrder DEF vars
<1> QED
  BY ZenonT(30), <1>1, <1>2, <1>3, <1>4, <1>5, <1>6, <1>7, <1>8, <1>9, <1>10, <1>11, <1>12, <1>13,
     <1>14, <1>15, <1>16, <1>17, <1>18, <1>19, <1>20, <1>21, <1>22, <1>23, <1>24, <1>25
     DEF Next

-----------------------------------------------------------------------------
(* The messages on their way, step by step.                                *)

LEMMA PipePush ==
  ASSUME TypeOK, NEW kind \in Kinds, NEW n \in Nat, NEW code \in Codes,
         WriteFwd(FwdFrame(kind, n, code))
  PROVE  InPipe' = IF kind = "MSG" THEN InPipe \cup {sent} ELSE InPipe
<1> DEFINE f == FwdFrame(kind, n, code)
<1>1. f \in Frame /\ f.seq = sent /\ f.kind = kind
  BY NewFrames DEF FwdFrame
<1>2. fwd' = Append(fwd, f) /\ fwd \in Seq(Frame)
  BY SMTT(20) DEF WriteFwd, TypeOK
<1> HIDE DEF f
<1>3. /\ Len(fwd) \in Nat /\ Len(fwd') = Len(fwd) + 1 /\ fwd'[Len(fwd) + 1] = f
      /\ \A i \in 1..Len(fwd) : fwd'[i] = fwd[i]
  BY <1>1, <1>2, SeqPush
<1> DEFINE J == {j \in 1..Len(fwd) : fwd[j].kind = "MSG"}
<1>4. {j \in 1..Len(fwd') : fwd'[j].kind = "MSG"}
        = IF kind = "MSG" THEN J \cup {Len(fwd) + 1} ELSE J
  BY <1>1, <1>3
<1>5. \A j \in J : fwd'[j].seq = fwd[j].seq
  BY <1>3
<1>6. InPipe = {fwd[j].seq : j \in J}
  BY DEF InPipe
<1> HIDE DEF J
<1>7. CASE kind = "MSG"
  <2>1. InPipe' = {fwd'[j].seq : j \in J \cup {Len(fwd) + 1}}
    BY <1>4, <1>7 DEF InPipe
  <2>2. InPipe' = {fwd'[j].seq : j \in J} \cup {fwd'[Len(fwd) + 1].seq}
    BY <2>1
  <2>3. {fwd'[j].seq : j \in J} = {fwd[j].seq : j \in J}
    BY <1>5
  <2> QED
    BY <1>1, <1>3, <1>6, <1>7, <2>2, <2>3
<1>8. CASE kind # "MSG"
  <2>1. InPipe' = {fwd'[j].seq : j \in J}
    BY <1>4, <1>8 DEF InPipe
  <2>2. {fwd'[j].seq : j \in J} = {fwd[j].seq : j \in J}
    BY <1>5
  <2> QED
    BY <1>6, <1>8, <2>1, <2>2
<1> QED
  BY <1>7, <1>8

LEMMA PipePop ==
  ASSUME TypeOK, fwd # <<>>, fwd' = Tail(fwd)
  PROVE  InPipe = IF Head(fwd).kind = "MSG" THEN InPipe' \cup {Head(fwd).seq} ELSE InPipe'
<1>1. /\ Head(fwd) = fwd[1] /\ Len(fwd) \in Nat \ {0} /\ Len(fwd') = Len(fwd) - 1
      /\ \A i \in 1..Len(fwd') : fwd'[i] = fwd[i + 1]
  BY SeqPop DEF TypeOK
<1>2. \A i \in 1..Len(fwd) : i = 1 \/ (i - 1 \in 1..Len(fwd') /\ fwd'[i - 1] = fwd[i])
  BY <1>1
<1>3. \A i \in 1..Len(fwd') : i + 1 \in 1..Len(fwd) /\ fwd'[i] = fwd[i + 1]
  BY <1>1
<1>4. InPipe' \subseteq InPipe
  <2> SUFFICES ASSUME NEW i \in 1..Len(fwd'), fwd'[i].kind = "MSG"
               PROVE  fwd'[i].seq \in InPipe
    BY DEF InPipe
  <2> QED
    BY <1>3 DEF InPipe
<1>5. ASSUME NEW i \in 1..Len(fwd), fwd[i].kind = "MSG"
      PROVE  i = 1 \/ fwd[i].seq \in InPipe'
  BY <1>2, <1>5 DEF InPipe
<1>6. Head(fwd).kind = "MSG" => Head(fwd).seq \in InPipe
  BY <1>1 DEF InPipe
<1> QED
  BY <1>1, <1>4, <1>5, <1>6 DEF InPipe

LEMMA BacklogPush ==
  ASSUME TypeOK, NEW f \in Frame, recvItems' = Append(recvItems, f)
  PROVE  InBacklog' = InBacklog \cup {f.seq}
<1>1. /\ Len(recvItems) \in Nat /\ Len(recvItems') = Len(recvItems) + 1
      /\ recvItems'[Len(recvItems) + 1] = f
      /\ \A i \in 1..Len(recvItems) : recvItems'[i] = recvItems[i]
  BY SeqPush DEF TypeOK
<1> QED
  BY <1>1 DEF InBacklog

\* Message number got is the head of the backlog, and is nowhere else.
LEMMA BacklogPop ==
  ASSUME TypeOK, BacklogInv, DInv, popRecv
  PROVE  got \in InBacklog /\ got \notin InPipe /\ InBacklog' = InBacklog \ {got}
<1>1. /\ Len(recvItems) \in Nat \ {0} /\ Len(recvItems') = Len(recvItems) - 1
      /\ \A i \in 1..Len(recvItems') : recvItems'[i] = recvItems[i + 1]
      /\ got \in Nat
  BY SeqPop DEF popRecv, TypeOK
<1>2. \A i \in 1..Len(recvItems) : recvItems[i].seq = got + i - 1
  BY DEF BacklogInv
<1>3. InBacklog = got..(got + Len(recvItems) - 1)
  <2>1. \A x \in got..(got + Len(recvItems) - 1) :
          x - got + 1 \in 1..Len(recvItems) /\ recvItems[x - got + 1].seq = x
    BY <1>1, <1>2
  <2>2. \A x \in got..(got + Len(recvItems) - 1) : x \in InBacklog
    BY <2>1 DEF InBacklog
  <2>3. \A i \in 1..Len(recvItems) : recvItems[i].seq \in got..(got + Len(recvItems) - 1)
    BY <1>1, <1>2
  <2>4. \A x \in InBacklog : x \in got..(got + Len(recvItems) - 1)
    BY <2>3 DEF InBacklog
  <2> QED
    BY <2>2, <2>4
<1>4. InBacklog' = (got + 1)..(got + Len(recvItems) - 1)
  <2>1. \A i \in 1..Len(recvItems') : recvItems'[i].seq = got + i
    BY <1>1, <1>2
  <2>2. \A x \in (got + 1)..(got + Len(recvItems) - 1) :
          x - got \in 1..Len(recvItems') /\ recvItems'[x - got].seq = x
    BY <1>1, <2>1
  <2>3. \A x \in (got + 1)..(got + Len(recvItems) - 1) : x \in InBacklog'
    BY <2>2 DEF InBacklog
  <2>4. \A i \in 1..Len(recvItems') :
          recvItems'[i].seq \in (got + 1)..(got + Len(recvItems) - 1)
    BY <1>1, <2>1
  <2>5. \A x \in InBacklog' : x \in (got + 1)..(got + Len(recvItems) - 1)
    BY <2>4 DEF InBacklog
  <2> QED
    BY <2>3, <2>5
<1>5. InBacklog' = InBacklog \ {got} /\ got \in InBacklog
  BY <1>1, <1>3, <1>4
<1>6. \A i \in 1..Len(fwd) : fwd[i].kind = "MSG" => fwd[i].seq # got
  <2>1. \A i \in 1..Len(fwd) : fwd[i].seq \in Nat
    BY SMTT(20), FrameFields DEF TypeOK
  <2> QED
    BY <1>1, <2>1 DEF DInv
<1> QED
  BY <1>5, <1>6 DEF InPipe

-----------------------------------------------------------------------------
(* Every step of Stream is a step of Delivery or leaves its variables.     *)

Abstract == [D!Next]_(D!dvars)

\* What Delivery sees of a step that changes neither the messages on their way
\* nor what the applications know.
LEMMA Stutters ==
  ASSUME UNCHANGED <<sent, got, outcome>>, InBacklog' \cup InPipe' = InBacklog \cup InPipe,
         SndClosed' = SndClosed, ctxErr'["rcv"] = ctxErr["rcv"]
  PROVE  Abstract
BY DEF Abstract, D!dvars, Told

\* A step that ends the receiver's context, or happens behind it.
LEMMA Cuts ==
  ASSUME UNCHANGED <<sent, got, outcome>>, InBacklog' \cup InPipe' \subseteq InBacklog \cup InPipe,
         SndClosed' = SndClosed, ctxErr'["rcv"] = TRUE
  PROVE  Abstract
BY DEF Abstract, D!Next, D!Cut, Told

\* The common case: pipe, backlog and the sender's side are left alone.
LEMMA Quietly ==
  ASSUME UNCHANGED <<sent, got, outcome, fwd, recvItems, server, sendDone>>,
         hPc = "run" <=> hPc' = "run",
         ctxErr'["rcv"] = ctxErr["rcv"] \/ ctxErr'["rcv"] = TRUE
  PROVE  Abstract
<1>1. InBacklog' \cup InPipe' = InBacklog \cup InPipe
  BY DEF InBacklog, InPipe
<1>2. SndClosed' = SndClosed
  BY DEF SndClosed
<1> QED
  BY <1>1, <1>2, Stutters, Cuts

\* popRecv hands over message number got.
LEMMA Hands ==
  ASSUME IInv, DInv, popRecv, outcome = NotEnded,
         UNCHANGED <<sent, fwd, server, hPc, sendDone>>
  PROVE  Abstract
<1>1. /\ got \in InBacklog /\ got \notin InPipe /\ InBacklog' = InBacklog \ {got}
      /\ got' = got + 1 /\ ctxErr' = ctxErr /\ outcome' = outcome
  BY BacklogPop DEF IInv, popRecv
<1>2. InPipe' = InPipe /\ SndClosed' = SndClosed
  BY DEF InPipe, SndClosed
<1>3. Told = "none" /\ Told' = Told
  BY <1>1 DEF Told
<1>4. D!Hand
  BY <1>1, <1>2, <1>3 DEF D!Hand
<1> QED
  BY <1>4 DEF Abstract, D!Next

\* Recv reports the peer's end.
LEMMA TellsEnd ==
  ASSUME IInv, outcome = NotEnded, recvItems = <<>>, AllArrived,
         NEW by \in {"END", "HALF_CLOSE"}, NEW code, ReturnErr(by, code),
         UNCHANGED <<sent, fwd, server, hPc, sendDone>>,
         ctxErr'["rcv"] = ctxErr["rcv"] \/ ctxErr'["rcv"] = TRUE
  PROVE  Abstract
<1>1. InBacklog = {} /\ InPipe = {}
  BY SMTT(20) DEF InBacklog, InPipe, AllArrived
<1>2. InBacklog' = InBacklog /\ InPipe' = InPipe /\ got' = got /\ sent' = sent
  BY DEF InBacklog, InPipe, ReturnErr
<1>3. SndClosed /\ SndClosed' = SndClosed
  BY DEF SndClosed, AllArrived
<1>4. Told = "none" /\ Told' = "eof"
  BY DEF Told, ReturnErr, NotEnded
<1>5. D!TellEnd
  BY <1>1, <1>2, <1>3, <1>4 DEF D!TellEnd
<1> QED
  BY <1>5 DEF Abstract, D!Next

\* Recv reports the stream's own failure, or its context's.
LEMMA TellsFail ==
  ASSUME outcome = NotEnded, ctxErr["rcv"],
         NEW by \in {"local", "ctx"}, NEW code, ReturnErr(by, code),
         UNCHANGED <<sent, fwd, server, hPc, sendDone, ctxErr>>
  PROVE  Abstract
<1>1. InBacklog' = InBacklog /\ InPipe' = InPipe /\ got' = got
  BY DEF InBacklog, InPipe, ReturnErr
<1>2. SndClosed' = SndClosed
  BY DEF SndClosed
<1>3. Told = "none" /\ Told' = "fail"
  BY DEF Told, ReturnErr, NotEnded
<1>4. D!TellFail
  BY <1>1, <1>2, <1>3 DEF D!TellFail
<1> QED
  BY <1>4 DEF Abstract, D!Next

LEMMA StepRefines == IInv /\ DInv /\ [Next]_vars => Abstract
<1> SUFFICES ASSUME IInv, DInv, [Next]_vars PROVE Abstract
  OBVIOUS
<1>0. /\ ctxErr \in [Ends -> BOOLEAN] /\ "rcv" \in Ends /\ TypeOK /\ CloseInv /\ sndArg \in Nat
  BY DEF IInv, TypeOK, Ends
<1> USE <1>0
<1>1. ASSUME NEW n \in Sizes, SendRaw(n) PROVE Abstract
  BY <1>1, Quietly DEF SendRaw
<1>2. CASE SendWait
  BY <1>2, Quietly DEF SendWait
<1>3. CASE SendWrite
  <2>1. CASE WriteFwd(FwdFrame("MSG", sndArg, "OK")) /\ sent' = sent + 1
    <3>1. InPipe' = InPipe \cup {sent}
      BY SMTT(20), <2>1, PipePush DEF Kinds, Codes
    <3>2. InBacklog' = InBacklog /\ Told' = Told /\ got' = got /\ ctxErr' = ctxErr
      BY SMTT(20), <1>3 DEF SendWrite, InBacklog, Told
    <3>3. ~SndClosed /\ SndClosed' = SndClosed
      BY <1>3 DEF SendWrite, SndClosed, CloseInv, TypeOK, Ends
    <3>4. D!Write
      BY <2>1, <3>1, <3>2, <3>3 DEF D!Write
    <3> QED
      BY <3>4 DEF Abstract, D!Next
  <2>2. CASE UNCHANGED <<fwd, sent>>
    BY <1>3, <2>2, Quietly DEF SendWrite
  <2> QED
    BY <1>3, <2>1, <2>2 DEF SendWrite
<1>4. CASE CloseSend
  <2>1. InPipe' = InPipe
    <3>1. CASE WriteFwd(FwdFrame("HALF_CLOSE", 0, "OK"))
      BY <3>1, PipePush DEF Kinds, Codes
    <3>2. CASE UNCHANGED fwd
      BY SMTT(20), <3>2 DEF InPipe
    <3> QED
      BY <1>4, <3>1, <3>2 DEF CloseSend
  <2>2. /\ InBacklog' = InBacklog /\ Told' = Told /\ UNCHANGED <<got, sent, ctxErr>>
    BY <1>4 DEF CloseSend, InBacklog, Told
  <2>3. ~SndClosed /\ SndClosed'
    BY <1>4 DEF CloseSend, SndClosed
  <2>4. D!Close
    BY SMTT(20), <2>1, <2>2, <2>3 DEF D!Close
  <2> QED
    BY <2>4 DEF Abstract, D!Next
<1>5. CASE PeerRecvEnded
  BY <1>5, Quietly DEF PeerRecvEnded, applyEnd
<1>6. ASSUME NEW code \in {"OK", "App"}, EndWrite(code) PROVE Abstract
  <2>1. InPipe' = InPipe
    <3>1. CASE WriteFwd(FwdFrame("END", 0, code))
      BY <3>1, PipePush DEF Kinds, Codes
    <3>2. CASE UNCHANGED fwd
      BY <3>2 DEF InPipe
    <3> QED
      BY <1>6, <3>1, <3>2 DEF EndWrite
  <2>2. /\ InBacklog' = InBacklog /\ Told' = Told /\ UNCHANGED <<got, sent, ctxErr, outcome>>
    BY <1>6 DEF EndWrite, InBacklog, Told
  <2>3. CASE server = "snd"
    <3>1. ~SndClosed /\ SndClosed'
      BY <1>6, <2>3 DEF EndWrite, SndClosed
    <3>2. D!Close
      BY <2>1, <2>2, <3>1 DEF D!Close
    <3> QED
      BY <3>2 DEF Abstract, D!Next
  <2>4. CASE server # "snd"
    <3>1. SndClosed' = SndClosed
      BY <1>6, <2>4 DEF EndWrite, SndClosed
    <3> QED
      BY <2>1, <2>2, <3>1, Stutters
  <2> QED
    BY <2>3, <2>4
<1>7. CASE EndFail
  BY <1>7, Quietly DEF EndFail, failWith
<1>8. CASE RouteSndUnknown
  BY <1>8, Quietly DEF RouteSndUnknown, RouteSnd
<1>9. CASE creditSend
  BY <1>9, Quietly DEF creditSend, RouteSnd
<1>10. CASE signalEndFrame
  BY <1>10, Quietly DEF signalEndFrame, RouteSnd
<1>11. CASE signalEndClose
  BY <1>11, Quietly DEF signalEndClose
<1>12. CASE RouteRcvDrop
  <2>1. fwd # <<>> /\ fwd' = Tail(fwd) /\ UNCHANGED <<sent, got, outcome, ctxErr, recvItems, server, hPc, sendDone>>
    BY <1>12 DEF RouteRcvDrop, RouteRcv
  <2>2. InBacklog' = InBacklog /\ SndClosed' = SndClosed
    BY <2>1 DEF InBacklog, SndClosed
  <2>3. CASE ctxErr["rcv"]
    <3>1. InPipe' \subseteq InPipe
      BY <2>1, PipePop
    <3> QED
      BY <2>1, <2>2, <2>3, <3>1, Cuts
  <2>4. CASE ~ctxErr["rcv"]
    <3> QED
      BY <1>12, <2>1, <2>4 DEF RouteRcvDrop, CloseInv, AllArrived
  <2> QED
    BY <2>3, <2>4
<1>13. CASE tryDeliver
  <2>1. /\ fwd # <<>> /\ fwd' = Tail(fwd) /\ Head(fwd).kind = "MSG" /\ Head(fwd) \in Frame
        /\ recvItems' = Append(recvItems, Head(fwd))
        /\ UNCHANGED <<sent, got, outcome, ctxErr, server, hPc, sendDone>>
    BY <1>13, PopFwd DEF tryDeliver, RouteRcv
  <2>2. InPipe = InPipe' \cup {Head(fwd).seq} /\ InBacklog' = InBacklog \cup {Head(fwd).seq}
    BY SMTT(20), <2>1, PipePop, BacklogPush
  <2>3. SndClosed' = SndClosed /\ InBacklog' \cup InPipe' = InBacklog \cup InPipe
    BY <2>1, <2>2 DEF SndClosed
  <2> QED
    BY <2>1, <2>3, Stutters
<1>14. CASE OverflowReset
  <2>1. /\ fwd # <<>> /\ fwd' = Tail(fwd) /\ ctxErr'["rcv"] = TRUE
        /\ UNCHANGED <<sent, got, outcome, recvItems, server, hPc, sendDone>>
    BY <1>14 DEF OverflowReset, failWith
  <2>2. InPipe' \subseteq InPipe /\ InBacklog' = InBacklog /\ SndClosed' = SndClosed
    BY <2>1, PipePop DEF InBacklog, SndClosed
  <2> QED
    BY <2>1, <2>2, Cuts
<1>15. CASE halfClose
  <2>1. /\ fwd # <<>> /\ fwd' = Tail(fwd) /\ Head(fwd).kind # "MSG"
        /\ UNCHANGED <<sent, got, outcome, ctxErr, recvItems, server, hPc, sendDone>>
    BY SMTT(20), <1>15 DEF halfClose, RouteRcv
  <2>2. InPipe' = InPipe /\ InBacklog' = InBacklog /\ SndClosed' = SndClosed
    BY SMTT(20), <2>1, PipePop DEF InBacklog, SndClosed
  <2> QED
    BY <2>1, <2>2, Stutters
<1>16. CASE signalEndRcv
  <2>1. /\ fwd # <<>> /\ fwd' = Tail(fwd) /\ Head(fwd).kind # "MSG"
        /\ UNCHANGED <<sent, got, outcome, ctxErr, recvItems, server, hPc, sendDone>>
    BY SMTT(20), <1>16 DEF signalEndRcv, RouteRcv
  <2>2. InPipe' = InPipe /\ InBacklog' = InBacklog /\ SndClosed' = SndClosed
    BY <2>1, PipePop DEF InBacklog, SndClosed
  <2> QED
    BY <2>1, <2>2, Stutters
<1>17. CASE ctrlWriter
  BY <1>17, Quietly DEF ctrlWriter
<1>18. CASE RecvLoop
  <2>1. CASE popRecv
    BY <1>18, <2>1, Hands DEF RecvLoop
  <2>2. CASE ~popRecv
    BY <1>18, <2>2, Quietly DEF RecvLoop
  <2> QED
    BY <2>1, <2>2
<1>19. CASE RecvSelect
  <2>1. /\ outcome = NotEnded
        /\ UNCHANGED <<sent, fwd, server, hPc, sendDone>>
    BY <1>19 DEF RecvSelect, CloseInv
  <2>2. CASE popRecv
    BY <2>1, <2>2, Hands
  <2>3. CASE UNCHANGED <<recvItems, outcome, got, ctxErr>>
    BY <2>1, <2>3, Quietly
  <2>4. CASE /\ halfClosed /\ recvItems = <<>>
             /\ ReturnErr("HALF_CLOSE", "OK") /\ ctxErr' = ctxErr
    BY SMTT(20), <2>1, <2>4, TellsEnd DEF CloseInv
  <2>5. CASE /\ ended["rcv"] /\ recvItems = <<>> /\ endFrame["rcv"] = NoFrame
             /\ ReturnErr("local", endSt["rcv"]) /\ ctxErr' = ctxErr
    BY <2>1, <2>5, TellsFail DEF DInv
  <2>6. CASE /\ recvItems = <<>> /\ endFrame["rcv"] # NoFrame
             /\ ReturnErr("END", endFrame["rcv"].code)
             /\ ctxErr' = [ctxErr EXCEPT !["rcv"] = TRUE]
    <3>1. AllArrived /\ ctxErr'["rcv"] = TRUE
      BY <2>6 DEF CloseInv
    <3> QED
      BY <2>1, <2>6, <3>1, TellsEnd
  <2>7. CASE ctxErr["rcv"] /\ ReturnErr("ctx", "Canceled") /\ ctxErr' = ctxErr
    BY <2>1, <2>7, TellsFail
  <2> QED
    BY <1>19, <2>2, <2>3, <2>4, <2>5, <2>6, <2>7 DEF RecvSelect, recvEnded
<1>20. CASE returnCredit
  BY <1>20, Quietly DEF returnCredit
<1>21. CASE creditWrite
  BY <1>21, Quietly DEF creditWrite
<1>22. ASSUME NEW x \in Ends, Cancel(x) PROVE Abstract
  BY <1>22, Quietly DEF Cancel
<1>23. ASSUME NEW x \in Ends, readLoopExit(x) PROVE Abstract
  BY <1>23, Quietly DEF readLoopExit, failAll, failWith
<1>24. CASE ConnDrop
  BY <1>24, Quietly DEF ConnDrop
<1>25. CASE UNCHANGED vars
  BY <1>25, Quietly DEF vars
<1> QED
  BY ZenonT(30), <1>1, <1>2, <1>3, <1>4, <1>5, <1>6, <1>7, <1>8, <1>9, <1>10, <1>11, <1>12, <1>13,
     <1>14, <1>15, <1>16, <1>17, <1>18, <1>19, <1>20, <1>21, <1>22, <1>23, <1>24, <1>25
     DEF Next

-----------------------------------------------------------------------------

\* Every behaviour of Stream is a behaviour of Delivery under the mapping of
\* StreamMap: for any windows, sizes, cancellations and loss of the connection,
\* SendRaw, the pipes, the read loops and Recv deliver each message by number,
\* lose one only behind the receiver's ended context, and report the peer's
\* end last.
THEOREM Refinement == Spec => ImplementsDelivery
<1>1. Init => D!Init /\ DInv
  <2> SUFFICES ASSUME Init PROVE D!Init /\ DInv
    OBVIOUS
  <2>1. Len(fwd) = 0 /\ Len(recvItems) = 0
    BY SMTT(20) DEF Init
  <2>2. InBacklog = {} /\ InPipe = {} /\ ~SndClosed /\ Told = "none"
    BY <2>1 DEF Init, InBacklog, InPipe, SndClosed, Told
  <2>3. SndClosed = FALSE
    BY DEF Init, SndClosed, Ends
  <2> QED
    BY <2>1, <2>2, <2>3 DEF Init, D!Init, DInv, Ends
<1>2. IInv /\ DInv /\ [Next]_vars => DInv'
  BY OrderNext DEF IInv
<1>3. IInv /\ DInv /\ [Next]_vars => [D!Next]_(D!dvars)
  BY StepRefines DEF Abstract
<1> QED
  BY <1>1, <1>2, <1>3, Invariance, PTL DEF Spec, ImplementsDelivery, D!Spec
=============================================================================
