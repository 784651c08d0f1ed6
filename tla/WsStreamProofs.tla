--------------------------- MODULE WsStreamProofs ---------------------------
(***************************************************************************)
(* WsStream: its safety properties for every window, send buffer and set   *)
(* of payload lengths, and any number of messages.                         *)
(***************************************************************************)
EXTENDS WsStream, SumProofs, TLAPS

USE WsStreamAssumption DEF muxVars, sendVars, recvVars, appVars, peerVars

-----------------------------------------------------------------------------
(* Offsets, frames and the queues that hold them.                          *)

LEMMA Frames0 ==
  ASSUME NEW kind \in Kinds, NEW n \in Nat, NEW seq \in Nat, NEW off \in Nat
  PROVE  /\ Frame(kind, n, seq, off) \in Frames
         /\ Frame(kind, n, seq, off).kind = kind /\ Frame(kind, n, seq, off).n = n
         /\ Frame(kind, n, seq, off).seq = seq /\ Frame(kind, n, seq, off).off = off
BY DEF Frame, Frames

LEMMA PayloadTypes ==
  /\ Payloads \subseteq Frames
  /\ \A f \in Payloads : f.kind = "MSG" /\ f.n \in Sizes /\ f.n \in Nat /\ f.seq \in Nat /\ f.off \in Nat
  /\ \A f \in Frames : f.kind \in Kinds /\ f.n \in Nat /\ f.seq \in Nat /\ f.off \in Nat
  /\ \A f \in Frames : Step(f) \in {0, 1}
BY DEF Payloads, Frames, Kinds, Step

LEMMA MsgFrame ==
  ASSUME NEW n \in Sizes, NEW seq \in Nat, NEW off \in Nat
  PROVE  Frame("MSG", n, seq, off) \in Payloads
BY DEF Frame, Payloads

LEMMA OneMessage ==
  ASSUME NEW f \in Payloads
  PROVE  <<f>> \in Seq(Payloads) /\ Len(<<f>>) = 1 /\ <<f>>[1] = f
OBVIOUS

LEMMA AtMostOne ==
  ASSUME NEW q \in Seq(Payloads), q # <<>>, Len(q) <= 1
  PROVE  Len(q) = 1 /\ Head(q) = q[1] /\ q[1] \in Payloads
<1>1. Len(q) \in Nat /\ Len(q) # 0
  OBVIOUS
<1>2. \A n \in Nat : n # 0 /\ n <= 1 => n = 1
  OBVIOUS
<1>3. Len(q) = 1
  BY <1>1, <1>2, Zenon
<1> QED
  BY <1>3

LEMMA OneMore ==
  ASSUME NEW S, NEW q \in Seq(S), NEW f \in S
  PROVE  /\ Append(q, f) \in Seq(S) /\ Len(Append(q, f)) = Len(q) + 1
         /\ Append(q, f)[Len(q) + 1] = f
         /\ \A i \in 1..Len(q) : Append(q, f)[i] = q[i]
OBVIOUS

LEMMA EndNat ==
  ASSUME NEW q \in Seq(Payloads)
  PROVE  End(q) \in Nat
BY PayloadTypes DEF End

LEMMA UptoNat ==
  ASSUME TypeOK
  PROVE  \A i \in 0..Len(pSent) : Upto(i) \in Nat
<1> SUFFICES ASSUME NEW i \in 0..Len(pSent) PROVE Upto(i) \in Nat
  OBVIOUS
<1>1. CASE i = 0
  BY <1>1 DEF Upto
<1>2. CASE i # 0
  <2>1. pSent[i] \in Payloads
    BY <1>2 DEF TypeOK
  <2>2. pSent[i].off \in Nat /\ pSent[i].n \in Nat
    BY <2>1, PayloadTypes
  <2> QED
    BY <1>2, <2>2 DEF Upto
<1> QED
  BY <1>1, <1>2

\* The bytes before a message are those before an earlier one, and its own.
LEMMA UptoStep ==
  ASSUME TypeOK, SentInv, NEW i \in 0..(Len(pSent) - 1)
  PROVE  pSent[i + 1].off = Upto(i) /\ Upto(i + 1) = Upto(i) + pSent[i + 1].n
<1>1. i + 1 \in 1..Len(pSent) /\ (i + 1) - 1 = i /\ i + 1 # 0
  BY DEF TypeOK
<1> QED
  BY <1>1 DEF SentInv, Upto

LEMMA UptoGrows ==
  ASSUME TypeOK, SentInv, NEW i \in 0..Len(pSent), NEW j \in 0..Len(pSent), i <= j
  PROVE  Upto(i) <= Upto(j)
<1>1. CASE i = j \/ i = 0
  BY <1>1, UptoNat DEF Upto
<1>2. CASE i < j /\ i # 0
  <2>1. i \in 1..Len(pSent) /\ j \in 1..Len(pSent) /\ pSent[j].n \in Nat /\ pSent[j].off \in Nat
    BY <1>2, PayloadTypes DEF TypeOK
  <2>2. Upto(i) <= pSent[j].off
    BY <1>2, <2>1 DEF SentInv
  <2>3. Upto(j) = pSent[j].off + pSent[j].n
    BY <2>1 DEF Upto
  <2> QED
    BY <2>1, <2>2, <2>3, UptoNat
<1> QED
  BY <1>1, <1>2

\* Offsets in the server's sequence and in what was delivered agree.
LEMMA EndIsUpto ==
  ASSUME TypeOK, OrderInv
  PROVE  End(delivered) = Upto(Len(delivered))
<1>1. CASE delivered = <<>>
  BY <1>1 DEF End, Upto
<1>2. CASE delivered # <<>>
  <2>1. Len(delivered) \in 1..Len(delivered) /\ Len(delivered) # 0
    BY <1>2 DEF TypeOK
  <2> QED
    BY <1>2, <2>1 DEF End, Upto, OrderInv
<1> QED
  BY <1>1, <1>2

\* What writeFrame does on a mux that is not dead.
LEMMA Writes ==
  ASSUME TypeOK, EndInv, NEW fs \in Seq(Frames), writeFrames(fs), conn' = conn,
         conn # "dead" \/ fs = <<>>
  PROVE  /\ c2s' \in Seq(Frames) /\ sendBuffer' \in Seq(Frames) /\ thrown' = thrown
         /\ Pipe' = Pipe \o fs
         /\ conn' = "handshake" => c2s' = <<>>
         /\ conn' # "handshake" => sendBuffer' = <<>>
<1>1. c2s \in Seq(Frames) /\ sendBuffer \in Seq(Frames) /\ thrown \in BOOLEAN
  BY DEF TypeOK
<1>2. c2s' \in Seq(Frames) /\ sendBuffer' \in Seq(Frames) /\ thrown' = thrown
  BY <1>1 DEF writeFrames
<1>3. Pipe' = Pipe \o fs
  <2>1. CASE conn = "dead"
    BY <1>1, <2>1 DEF writeFrames, Pipe
  <2>2. CASE conn # "dead"
    BY SMTT(20), <1>1, <2>2 DEF writeFrames, Pipe, TypeOK
  <2> QED
    BY <2>1, <2>2
<1> QED
  BY <1>2, <1>3 DEF writeFrames, EndInv

-----------------------------------------------------------------------------
(* The pump.                                                               *)

LEMMA FirstInt ==
  ASSUME NEW q \in Seq(Payloads), NEW k \in 0..Len(q)
  PROVE  First(q, k) \in Int
<1>1. CASE k = 0
  BY <1>1 DEF First
<1>2. CASE k # 0
  <2>1. k \in 1..Len(q) /\ 1 \in 1..Len(q)
    BY <1>2
  <2>2. q[k].off \in Nat /\ q[k].n \in Nat /\ q[1].off \in Nat
    BY <2>1, PayloadTypes
  <2> QED
    BY <1>2, <2>2 DEF First
<1> QED
  BY <1>1, <1>2

LEMMA NatSum == \A a, b \in Nat : a + b \in Nat
OBVIOUS

\* The end of the k-th message of a run lies between its start and its end.
LEMMA RunEnds ==
  ASSUME NEW q \in Seq(Payloads), Run(q), NEW k \in 1..Len(q)
  PROVE  /\ q[1].off \in Nat /\ q[k].off + q[k].n \in Nat /\ q[Len(q)].off + q[Len(q)].n \in Nat
         /\ q[1].off <= q[k].off + q[k].n
         /\ q[k].off + q[k].n <= q[Len(q)].off + q[Len(q)].n
<1>1. 1 \in 1..Len(q) /\ Len(q) \in 1..Len(q)
  OBVIOUS
<1>2. /\ q[1].off \in Nat /\ q[1].n \in Nat /\ q[k].off \in Nat /\ q[k].n \in Nat
      /\ q[Len(q)].off \in Nat /\ q[Len(q)].n \in Nat
  BY <1>1, PayloadTypes
<1>3. q[1].off <= q[k].off + q[k].n
  <2>1. CASE k = 1
    BY <1>2, <2>1
  <2>2. CASE 1 < k
    <3>1. q[1].off + q[1].n <= q[k].off
      BY <1>1, <2>2 DEF Run
    <3> QED
      BY <1>2, <3>1
  <2> QED
    BY <2>1, <2>2
<1>4. q[k].off + q[k].n <= q[Len(q)].off + q[Len(q)].n
  <2>1. CASE k = Len(q)
    BY <1>2, <2>1
  <2>2. CASE k < Len(q)
    <3>1. q[k].off + q[k].n <= q[Len(q)].off
      BY <1>1, <2>2 DEF Run
    <3> QED
      BY <1>2, <3>1
  <2> QED
    BY <2>1, <2>2
<1>5. q[k].off + q[k].n \in Nat /\ q[Len(q)].off + q[Len(q)].n \in Nat
  BY SMTT(20), <1>2, NatSum
<1> QED
  BY <1>2, <1>3, <1>4, <1>5

\* A message appended at the end of a run continues it.
LEMMA RunGrows ==
  ASSUME NEW q \in Seq(Payloads), Run(q), NEW f \in Payloads, f.off = End(q)
  PROVE  Run(Append(q, f)) /\ First(Append(q, f), Len(q) + 1) = First(q, Len(q)) + f.n
<1> DEFINE r == Append(q, f)
<1>1. /\ r \in Seq(Payloads) /\ Len(r) = Len(q) + 1 /\ r[Len(q) + 1] = f
      /\ \A i \in 1..Len(q) : r[i] = q[i] /\ q[i] \in Payloads
  OBVIOUS
<1>2. \A i \in 1..Len(q) : q[i].off \in Nat /\ q[i].n \in Nat
  BY <1>1, PayloadTypes
<1>3. f.off \in Nat /\ f.n \in Nat
  BY PayloadTypes
<1>4. Len(q) # 0 => f.off = q[Len(q)].off + q[Len(q)].n
  BY DEF End
<1>5. \A i \in 1..Len(q) : q[i].off + q[i].n <= f.off
  <2> SUFFICES ASSUME NEW i \in 1..Len(q) PROVE q[i].off + q[i].n <= f.off
    OBVIOUS
  <2>1. Len(q) \in 1..Len(q)
    OBVIOUS
  <2>2. CASE i = Len(q)
    BY <1>2, <1>3, <1>4, <2>2
  <2>3. CASE i < Len(q)
    <3>1. q[i].off + q[i].n <= q[Len(q)].off
      BY <2>1, <2>3 DEF Run
    <3> QED
      BY <1>2, <1>3, <1>4, <2>1, <3>1
  <2> QED
    BY <2>2, <2>3
<1>6. \A i \in 1..(Len(r) - 1) : r[i + 1].off = r[i].off + r[i].n
  <2> SUFFICES ASSUME NEW i \in 1..Len(q) PROVE r[i + 1].off = r[i].off + r[i].n
    BY <1>1
  <2>1. CASE i = Len(q)
    BY <1>1, <1>4, <2>1
  <2>2. CASE i < Len(q)
    <3>1. i \in 1..(Len(q) - 1) /\ i + 1 \in 1..Len(q)
      BY <2>2
    <3> QED
      BY <1>1, <3>1 DEF Run
  <2> QED
    BY <2>1, <2>2
<1>7. \A i, j \in 1..Len(r) : i < j => r[i].off + r[i].n <= r[j].off
  <2> SUFFICES ASSUME NEW i \in 1..Len(q), NEW j \in 1..(Len(q) + 1), i < j
               PROVE  r[i].off + r[i].n <= r[j].off
    BY <1>1
  <2>1. CASE j = Len(q) + 1
    BY <1>1, <1>5, <2>1
  <2>2. CASE j \in 1..Len(q)
    BY <1>1, <2>2 DEF Run
  <2> QED
    BY <2>1, <2>2
<1>8. First(r, Len(q) + 1) = First(q, Len(q)) + f.n
  <2>1. CASE Len(q) = 0
    BY <1>1, <1>3, <2>1 DEF First
  <2>2. CASE Len(q) # 0
    <3>1. 1 \in 1..Len(q) /\ Len(q) \in 1..Len(q) /\ Len(q) + 1 # 0
      BY <2>2
    <3>2. First(r, Len(q) + 1) = (f.off + f.n) - q[1].off
      BY <1>1, <3>1 DEF First
    <3>3. First(q, Len(q)) = (q[Len(q)].off + q[Len(q)].n) - q[1].off
      BY <2>2 DEF First
    <3>4. f.off = q[Len(q)].off + q[Len(q)].n
      BY <1>4, <2>2
    <3>5. q[1].off \in Nat /\ q[Len(q)].off \in Nat /\ q[Len(q)].n \in Nat
      BY <1>2, <3>1
    <3> HIDE DEF r
    <3>6. First(q, Len(q)) = f.off - q[1].off
      BY <3>3, <3>4, <3>5
    <3> QED
      BY <1>3, <3>2, <3>5, <3>6
  <2> QED
    BY <2>1, <2>2
<1> QED
  BY <1>6, <1>7, <1>8 DEF Run

\* What the pump leaves is a run, and outboundBytes its length.
LEMMA Takes ==
  ASSUME NEW q \in Seq(Payloads), Run(q), NEW w \in Int, NEW k \in 0..Len(q),
         take(q, First(q, Len(q)), w, k)
  PROVE  /\ outbound' \in Seq(Payloads) /\ outboundBytes' \in Nat /\ sendWindow' \in Int
         /\ OutInv'
<1> /\ outbound' = SubSeq(q, k + 1, Len(q))
    /\ outboundBytes' = First(q, Len(q)) - First(q, k)
    /\ sendWindow' = w - First(q, k)
  BY DEF take
<1> DEFINE r == SubSeq(q, k + 1, Len(q))
<1>1. /\ r \in Seq(Payloads) /\ Len(r) = Len(q) - k
      /\ \A i \in 1..(Len(q) - k) : r[i] = q[k + i]
  OBVIOUS
<1>3. \A i \in 1..Len(q) : q[i].off \in Nat /\ q[i].n \in Nat
  BY PayloadTypes
<1>4. First(q, k) \in Int /\ First(q, Len(q)) \in Int
  BY FirstInt
<1>5. Run(r)
  <2>1. \A i \in 1..(Len(r) - 1) : r[i + 1].off = r[i].off + r[i].n
    <3> SUFFICES ASSUME NEW i \in 1..(Len(r) - 1) PROVE r[i + 1].off = r[i].off + r[i].n
      OBVIOUS
    <3>1. i \in 1..(Len(q) - k) /\ i + 1 \in 1..(Len(q) - k) /\ k + i \in 1..(Len(q) - 1)
      BY <1>1
    <3>2. k + (i + 1) = (k + i) + 1
      BY <3>1
    <3> QED
      BY <1>1, <3>1, <3>2 DEF Run
  <2>2. \A i, j \in 1..Len(r) : i < j => r[i].off + r[i].n <= r[j].off
    <3> SUFFICES ASSUME NEW i \in 1..Len(r), NEW j \in 1..Len(r), i < j
                 PROVE  r[i].off + r[i].n <= r[j].off
      OBVIOUS
    <3>1. k + i \in 1..Len(q) /\ k + j \in 1..Len(q) /\ k + i < k + j
      BY <1>1
    <3> QED
      BY <1>1, <3>1 DEF Run
  <2> QED
    BY <2>1, <2>2 DEF Run
<1>6. First(q, Len(q)) - First(q, k) = First(r, Len(r)) /\ First(r, Len(r)) \in Nat
  <2>1. CASE k = Len(q)
    BY <1>1, <1>4, <2>1 DEF First
  <2>2. CASE k = 0 /\ Len(q) # 0
    <3>1. r = q
      <4>1. Len(r) = Len(q) /\ \A i \in 1..Len(q) : r[i] = q[i]
        BY <1>1, <2>2
      <4> HIDE DEF r
      <4> QED
        BY <1>1, <4>1
    <3>2. First(q, 0) = 0
      BY DEF First
    <3>3. First(q, Len(q)) \in Nat
      <4>1. Len(q) \in 1..Len(q)
        BY <2>2
      <4>2. /\ q[1].off \in Nat /\ q[Len(q)].off + q[Len(q)].n \in Nat
            /\ q[1].off <= q[Len(q)].off + q[Len(q)].n
        BY <4>1, RunEnds
      <4>3. First(q, Len(q)) = (q[Len(q)].off + q[Len(q)].n) - q[1].off
        BY <2>2 DEF First
      <4> QED
        BY <4>2, <4>3
    <3> HIDE DEF r
    <3> QED
      BY <1>4, <2>2, <3>1, <3>2, <3>3
  <2>3. CASE k # 0 /\ k # Len(q)
    <3>1. /\ k \in 1..(Len(q) - 1) /\ k + 1 \in 1..Len(q) /\ Len(q) \in 1..Len(q)
          /\ k \in 1..Len(q) /\ 1 \in 1..Len(q) /\ Len(q) # 0 /\ k < Len(q)
          /\ 1 \in 1..(Len(q) - k) /\ Len(q) - k \in 1..(Len(q) - k) /\ k + (Len(q) - k) = Len(q)
      BY <2>3
    <3>2. q[k + 1].off = q[k].off + q[k].n
      BY <3>1 DEF Run
    <3>3. First(q, Len(q)) = (q[Len(q)].off + q[Len(q)].n) - q[1].off
      BY <3>1 DEF First
    <3>4. First(q, k) = (q[k].off + q[k].n) - q[1].off
      BY <2>3 DEF First
    <3> HIDE DEF r
    <3>5. First(r, Len(r)) = (q[Len(q)].off + q[Len(q)].n) - q[k + 1].off
      <4>1. Len(r) = Len(q) - k /\ Len(r) # 0
        BY <1>1, <3>1
      <4>2. r[1] = q[k + 1]
        BY <1>1, <3>1
      <4>3. r[Len(q) - k] = q[k + (Len(q) - k)]
        BY <1>1, <3>1
      <4>4. r[Len(r)] = q[Len(q)]
        BY <3>1, <4>1, <4>3
      <4> QED
        BY <4>1, <4>2, <4>4 DEF First
    <3>6. /\ q[1].off \in Nat /\ q[k].off + q[k].n \in Nat
          /\ q[Len(q)].off + q[Len(q)].n \in Nat
          /\ q[k].off + q[k].n <= q[Len(q)].off + q[Len(q)].n
      BY <3>1, RunEnds
    <3>7. First(r, Len(r)) = (q[Len(q)].off + q[Len(q)].n) - (q[k].off + q[k].n)
      BY <3>2, <3>5
    <3>8. PICK first \in Nat, mid \in Nat, end \in Nat :
            /\ first = q[1].off /\ mid = q[k].off + q[k].n
            /\ end = q[Len(q)].off + q[Len(q)].n /\ mid <= end
      BY <3>6
    <3>9. /\ First(q, Len(q)) = end - first /\ First(q, k) = mid - first
          /\ First(r, Len(r)) = end - mid
      BY <3>3, <3>4, <3>7, <3>8
    <3>10. mid <= end
      BY <3>8
    <3>11. (end - first) - (mid - first) = end - mid /\ end - mid \in Nat
      BY <3>10
    <3> QED
      BY <3>9, <3>11, Zenon
  <2> QED
    BY <2>1, <2>2, <2>3
<1> QED
  <2>1. outbound' = r /\ Len(outbound') = Len(r)
    OBVIOUS
  <2>2. outbound' \in Seq(Payloads) /\ outboundBytes' \in Nat /\ sendWindow' \in Int
    BY <1>1, <1>4, <1>6
  <2> HIDE DEF r
  <2>3. outboundBytes' = First(r, Len(r))
    BY <1>6
  <2>4. OutInv'
    BY <1>5, <2>1, <2>3 DEF OutInv, Run, First
  <2> QED
    BY <2>2, <2>4

LEMMA Pumps ==
  ASSUME NEW q \in Seq(Payloads), Run(q), NEW w \in Int, pump(q, First(q, Len(q)), w)
  PROVE  /\ outbound' \in Seq(Payloads) /\ outboundBytes' \in Nat /\ sendWindow' \in Int
         /\ OutInv'
         /\ \E fs \in Seq(Payloads) : writeFrames(fs)
<1> PICK k \in 0..Len(q) : take(q, First(q, Len(q)), w, k) /\ writeFrames(SubSeq(q, 1, k))
  BY DEF pump
<1>1. SubSeq(q, 1, k) \in Seq(Payloads)
  OBVIOUS
<1> QED
  BY <1>1, Takes

-----------------------------------------------------------------------------
(* What the steps share, one part of the invariant at a time.              *)

LEMMA KeepArrived ==
  ASSUME OrderInv, BacklogInv, UNCHANGED <<delivered, resolved, values, pSent, bufferedBytes>>
  PROVE  OrderInv' /\ BacklogInv' /\ Arrived' = Arrived
BY DEF OrderInv, BacklogInv, Arrived, Upto

LEMMA KeepSent ==
  ASSUME SentInv, pSent' = pSent
  PROVE  SentInv'
BY DEF SentInv, Upto

LEMMA KeepOut ==
  ASSUME OutInv, UNCHANGED <<outbound, outboundBytes>>
  PROVE  OutInv'
BY DEF OutInv, Run, First

LEMMA KeepSocket ==
  ASSUME SocketInv, UNCHANGED <<s2c, pSent, pEnded, delivered, resolved, values>>,
         finished => finished'
  PROVE  SocketInv'
BY DEF SocketInv, Arrived, Step

LEMMA KeepWithin ==
  ASSUME WithinInv, UNCHANGED <<s2c, pOverran, pWindow, pSent>>
  PROVE  WithinInv'
BY DEF WithinInv, Credited, Upto

LEMMA CreditInts ==
  ASSUME TypeOK
  PROVE  Credited \in Int /\ Returned \in Int
<1>1. Upto(Len(pSent)) \in Nat /\ End(delivered) \in Nat
  BY UptoNat, EndNat DEF TypeOK
<1> QED
  BY SMTT(20), <1>1 DEF TypeOK, Credited, Returned

\* Frames without credit go to the server.
LEMMA KeepCredit ==
  ASSUME TypeOK, CreditInv, NEW fs \in Seq(Frames), Pipe' = Pipe \o fs,
         \A i \in 1..Len(fs) : fs[i].kind # "WINDOW_UPDATE",
         UNCHANGED <<pWindow, pSent, delivered, pendingCredit>>, finished => finished'
  PROVE  CreditInv'
<1>1. Pipe \in Seq(Frames)
  BY DEF TypeOK, Pipe
<1>2. /\ Credited' = Credited /\ Returned' = Returned /\ End(delivered)' = End(delivered)
      /\ Upto(Len(delivered))' = Upto(Len(delivered))
  BY DEF Credited, Returned, Upto, End
<1>3. \A i \in 1..Len(Pipe') : Pipe'[i].kind = "WINDOW_UPDATE" =>
        i \in 1..Len(Pipe) /\ Pipe'[i] = Pipe[i]
  BY <1>1
<1> HIDE DEF Pipe
<1> QED
  BY <1>2, <1>3 DEF CreditInv

LEMMA SamePipe ==
  ASSUME TypeOK, CreditInv, Pipe' = Pipe \/ Pipe' = <<>>,
         UNCHANGED <<pWindow, pSent, delivered, pendingCredit>>, finished => finished'
  PROVE  CreditInv'
<1>1. Pipe \in Seq(Frames)
  BY DEF TypeOK, Pipe
<1>2. /\ Credited' = Credited /\ Returned' = Returned /\ End(delivered)' = End(delivered)
      /\ Upto(Len(delivered))' = Upto(Len(delivered))
  BY DEF Credited, Returned, Upto, End
<1>3. \A i \in 1..Len(Pipe') : i \in 1..Len(Pipe) /\ Pipe'[i] = Pipe[i]
  BY <1>1
<1> HIDE DEF Pipe
<1> QED
  BY <1>2, <1>3 DEF CreditInv

\* A frame of the socket is routed; a message is queued unless the stream has
\* finished.
LEMMA RoutedSocket ==
  ASSUME TypeOK, SocketInv, s2c # <<>>, s2c' = Tail(s2c), UNCHANGED <<pSent, pEnded>>,
         ~finished' => ~finished /\ Arrived' = Arrived + Step(Head(s2c))
  PROVE  SocketInv'
<1>1. /\ s2c \in Seq(Frames) /\ Len(s2c') = Len(s2c) - 1 /\ Len(s2c) \in Nat \ {0}
      /\ \A i \in 1..(Len(s2c) - 1) : s2c'[i] = s2c[i + 1] /\ i + 1 \in 1..Len(s2c)
  BY DEF TypeOK
<1>2. \A i \in 1..Len(s2c') : s2c'[i].kind = "MSG" =>
        s2c'[i].seq < Len(pSent') /\ s2c'[i] = pSent'[s2c'[i].seq + 1]
  <2> SUFFICES ASSUME NEW i \in 1..Len(s2c'), s2c'[i].kind = "MSG"
               PROVE  s2c'[i].seq < Len(pSent') /\ s2c'[i] = pSent'[s2c'[i].seq + 1]
    OBVIOUS
  <2>1. i + 1 \in 1..Len(s2c) /\ s2c'[i] = s2c[i + 1]
    BY <1>1
  <2>2. s2c[i + 1].seq < Len(pSent) /\ s2c[i + 1] = pSent[s2c[i + 1].seq + 1]
    BY <2>1 DEF SocketInv
  <2> QED
    BY <2>1, <2>2
<1>3. \A i \in 1..(Len(s2c') - 1) : s2c'[i + 1].seq = s2c'[i].seq + Step(s2c'[i])
  <2> SUFFICES ASSUME NEW i \in 1..(Len(s2c') - 1)
               PROVE  s2c'[i + 1].seq = s2c'[i].seq + Step(s2c'[i])
    OBVIOUS
  <2>1. i \in 1..(Len(s2c) - 1) /\ i + 1 \in 1..(Len(s2c) - 1)
    BY <1>1
  <2> QED
    BY <1>1, <2>1 DEF SocketInv
<1>4. s2c' # <<>> => s2c'[Len(s2c')].seq + Step(s2c'[Len(s2c')]) = Len(pSent')
  <2> SUFFICES ASSUME s2c' # <<>>
               PROVE  s2c'[Len(s2c')].seq + Step(s2c'[Len(s2c')]) = Len(pSent')
    OBVIOUS
  <2>1. Len(s2c') \in 1..(Len(s2c) - 1) /\ Len(s2c') + 1 = Len(s2c)
    BY <1>1
  <2>2. s2c'[Len(s2c')] = s2c[Len(s2c)]
    BY <1>1, <2>1
  <2> QED
    BY <2>2 DEF SocketInv
<1>5. ~finished' => Arrived' = IF s2c' = <<>> THEN Len(pSent') ELSE s2c'[1].seq
  <2> SUFFICES ASSUME ~finished' PROVE Arrived' = IF s2c' = <<>> THEN Len(pSent') ELSE s2c'[1].seq
    OBVIOUS
  <2>1. Arrived' = s2c[1].seq + Step(s2c[1])
    <3>1. Arrived = s2c[1].seq
      BY DEF SocketInv
    <3>2. Head(s2c) = s2c[1]
      BY <1>1
    <3> QED
      BY <3>1, <3>2
  <2>2. CASE s2c' = <<>>
    <3>1. Len(s2c) = 1
      BY SMTT(20), <1>1, <2>2
    <3> QED
      BY <2>1, <2>2, <3>1 DEF SocketInv
  <2>3. CASE s2c' # <<>>
    <3>1. 1 \in 1..(Len(s2c) - 1) /\ s2c'[1] = s2c[1 + 1]
      BY <1>1, <2>3
    <3> QED
      BY <2>1, <2>3, <3>1 DEF SocketInv
  <2> QED
    BY <2>2, <2>3
<1>6. \A i \in 1..Len(s2c') : s2c'[i].kind = "END" => i = Len(s2c') /\ pEnded'
  <2> SUFFICES ASSUME NEW i \in 1..Len(s2c'), s2c'[i].kind = "END"
               PROVE  i = Len(s2c') /\ pEnded'
    OBVIOUS
  <2>1. i + 1 \in 1..Len(s2c) /\ s2c'[i] = s2c[i + 1]
    BY <1>1
  <2>2. i + 1 = Len(s2c) /\ pEnded
    BY <2>1 DEF SocketInv
  <2>3. i = Len(s2c')
    <3>1. i \in Nat /\ Len(s2c') = Len(s2c) - 1
      BY <1>1
    <3> QED
      BY <2>2, <3>1
  <2> QED
    BY <2>2, <2>3, Zenon
<1> QED
  BY <1>2, <1>3, <1>4, <1>5, <1>6 DEF SocketInv, Step

LEMMA RoutedWithin ==
  ASSUME TypeOK, WithinInv, s2c # <<>>, s2c' = Tail(s2c), UNCHANGED <<pWindow, pSent, pOverran>>
  PROVE  WithinInv'
<1>1. /\ s2c \in Seq(Frames) /\ Len(s2c') = Len(s2c) - 1 /\ Len(s2c) \in Nat \ {0}
      /\ \A i \in 1..(Len(s2c) - 1) : s2c'[i] = s2c[i + 1] /\ i + 1 \in 1..Len(s2c)
  BY DEF TypeOK
<1>2. Credited' = Credited
  BY DEF Credited, Upto
<1> QED
  BY <1>1, <1>2 DEF WithinInv

\* The server appends a frame that is not a message; after END it appends
\* nothing.
LEMMA AppendedSocket ==
  ASSUME TypeOK, SocketInv, ~pEnded, NEW f \in Frames, s2c' = Append(s2c, f),
         f.seq = Len(pSent), f.kind # "MSG", f.kind = "END" => pEnded',
         UNCHANGED <<pSent, finished, delivered, resolved, values>>
  PROVE  SocketInv'
<1>1. /\ s2c \in Seq(Frames) /\ Len(s2c') = Len(s2c) + 1 /\ Len(s2c) \in Nat
      /\ s2c'[Len(s2c) + 1] = f /\ \A i \in 1..Len(s2c) : s2c'[i] = s2c[i]
  BY DEF TypeOK
<1>2. \A i \in 1..Len(s2c') : s2c'[i].kind = "MSG" =>
        s2c'[i].seq < Len(pSent') /\ s2c'[i] = pSent'[s2c'[i].seq + 1]
  <2> SUFFICES ASSUME NEW i \in 1..Len(s2c), s2c[i].kind = "MSG"
               PROVE  s2c[i].seq < Len(pSent) /\ s2c[i] = pSent[s2c[i].seq + 1]
    BY <1>1
  <2> QED
    BY DEF SocketInv
<1>3. \A i \in 1..(Len(s2c') - 1) : s2c'[i + 1].seq = s2c'[i].seq + Step(s2c'[i])
  <2> SUFFICES ASSUME NEW i \in 1..Len(s2c)
               PROVE  s2c'[i + 1].seq = s2c'[i].seq + Step(s2c'[i])
    BY <1>1
  <2>1. CASE i = Len(s2c)
    <3>1. s2c[Len(s2c)].seq + Step(s2c[Len(s2c)]) = Len(pSent)
      BY <1>1, <2>1 DEF SocketInv
    <3> QED
      BY <1>1, <2>1, <3>1
  <2>2. CASE i \in 1..(Len(s2c) - 1)
    <3>1. i + 1 \in 1..Len(s2c) /\ s2c[i + 1].seq = s2c[i].seq + Step(s2c[i])
      BY <1>1, <2>2 DEF SocketInv
    <3> QED
      BY <1>1, <3>1
  <2> QED
    BY <1>1, <2>1, <2>2
<1>4. s2c' # <<>> /\ s2c'[Len(s2c')].seq + Step(s2c'[Len(s2c')]) = Len(pSent')
  <2>1. s2c' # <<>> /\ s2c'[Len(s2c')] = f
    BY <1>1
  <2>2. f.seq + Step(f) = Len(pSent)
    BY DEF Step, TypeOK
  <2> QED
    BY <2>1, <2>2
<1>5. ~finished' => Arrived' = s2c'[1].seq
  <2> SUFFICES ASSUME ~finished PROVE Arrived = s2c'[1].seq
    BY DEF Arrived
  <2>1. CASE s2c = <<>>
    BY <1>1, <2>1 DEF SocketInv
  <2>2. CASE s2c # <<>>
    <3>1. 1 \in 1..Len(s2c) /\ Arrived = s2c[1].seq
      BY <1>1, <2>2 DEF SocketInv
    <3> QED
      BY <1>1, <3>1
  <2> QED
    BY <2>1, <2>2
<1>6. \A i \in 1..Len(s2c') : s2c'[i].kind = "END" => i = Len(s2c') /\ pEnded'
  <2>1. \A i \in 1..Len(s2c) : s2c[i].kind # "END"
    BY DEF SocketInv
  <2> SUFFICES ASSUME NEW i \in 1..Len(s2c'), s2c'[i].kind = "END"
               PROVE  i = Len(s2c') /\ pEnded'
    OBVIOUS
  <2>2. i = Len(s2c) + 1
    BY <1>1, <2>1
  <2>3. f.kind = "END"
    BY <1>1, <2>2
  <2> QED
    BY <1>1, <2>2, <2>3
<1> QED
  BY <1>2, <1>3, <1>4, <1>5, <1>6 DEF SocketInv, Step

\* The stream ends, and with it its queue: a pull that waits is settled.
LEMMA QueueEnds ==
  ASSUME TypeOK, EndInv, ~finished, finished', NEW how, NEW out, queueEnd(how, out),
         \/ how = "ended" /\ out = "null"
         \/ how = "failed" /\ out = "error",
         UNCHANGED <<values, resolved, delivered, pSent>>,
         how = "ended" => cancelled' \/ (Arrived = Len(pSent) /\ pEnded'),
         conn' = "handshake" => c2s' = <<>> /\ s2c' = <<>>,
         conn' # "handshake" => sendBuffer' = <<>>
  PROVE  /\ EndInv' /\ waiter' = FALSE
         /\ qEnd' \in {"no", "ended", "failed"} /\ outcome' \in {"none", "null", "error"}
<1>1. qEnd = "no" /\ outcome = "none"
  BY DEF EndInv, TypeOK
<1>2. qEnd' = how /\ waiter' = FALSE /\ outcome' = IF waiter THEN out ELSE "none"
  BY <1>1 DEF queueEnd
<1>3. Arrived' = Arrived
  BY DEF Arrived
<1>4. outcome' # "none" => resolved' = <<>> /\ values' = <<>>
  BY <1>2 DEF TypeOK
<1>5. outcome' = "null" => qEnd' = "ended"
  BY <1>2
<1>6. qEnd' = "ended" /\ ~cancelled' => Arrived' = Len(pSent') /\ pEnded'
  BY <1>2, <1>3
<1> QED
  BY <1>2, <1>4, <1>5, <1>6 DEF EndInv

-----------------------------------------------------------------------------
(* Each step preserves the invariant.                                      *)

LEMMA InvInit == Init => IInv
<1> SUFFICES ASSUME Init PROVE IInv
  OBVIOUS
<1>1. TypeOK
  <2>1. <<>> \in Seq(Frames) /\ <<>> \in Seq(Payloads) /\ Len(<<>>) = 0
    OBVIOUS
  <2>2. Window \in Int /\ 0 \in 0..MaxSends
    OBVIOUS
  <2>3. {sendBuffer, c2s, s2c} \subseteq Seq(Frames)
    BY <2>1 DEF Init
  <2>4. /\ {thrown, finished, sendClosed, waiter, cancelled, overflowed} \subseteq BOOLEAN
        /\ {pEnded, pOverran, pHalf, pLate} \subseteq BOOLEAN
    BY DEF Init
  <2>5. /\ outbound \in Seq(Payloads) /\ values \in Seq(Payloads) /\ resolved \in Seq(Payloads)
        /\ delivered \in Seq(Payloads) /\ pSent \in Seq(Payloads) /\ Len(resolved) <= 1
    BY <2>1 DEF Init
  <2> QED
    BY <2>2, <2>3, <2>4, <2>5 DEF Init, TypeOK
<1>2. OutInv /\ SentInv
  BY DEF Init, OutInv, SentInv, Run, First
<1>3. OrderInv /\ BacklogInv
  BY DEF Init, OrderInv, BacklogInv, Arrived, Upto
<1>4. SocketInv
  BY DEF Init, SocketInv, Arrived
<1>5. EndInv /\ TeardownSafe /\ NeverFalselyReset
  BY DEF Init, EndInv, TeardownSafe, NeverFalselyReset
<1>6. CreditInv
  BY DEF Init, CreditInv, Credited, Returned, Pipe, Upto, End
<1>7. WithinInv
  BY DEF Init, WithinInv
<1> QED
  BY <1>1, <1>2, <1>3, <1>4, <1>5, <1>6, <1>7 DEF IInv

LEMMA InvOpen ==
  ASSUME IInv, onopen
  PROVE  IInv'
<1> USE DEF onopen
<1>1. TypeOK'
  BY DEF IInv, TypeOK
<1>2. OutInv' /\ SentInv' /\ OrderInv' /\ BacklogInv' /\ SocketInv' /\ WithinInv'
  BY KeepOut, KeepSent, KeepArrived, KeepSocket, KeepWithin DEF IInv
<1>3. EndInv'
  BY DEF IInv, EndInv, Arrived
<1>4. CreditInv'
  <2>1. Pipe' = Pipe
    BY DEF IInv, TypeOK, Pipe
  <2> QED
    BY <2>1, SamePipe DEF IInv
<1>5. TeardownSafe' /\ NeverFalselyReset'
  BY DEF IInv, TeardownSafe, NeverFalselyReset
<1> QED
  BY <1>1, <1>2, <1>3, <1>4, <1>5 DEF IInv

LEMMA Controls ==
  ASSUME NEW kind \in {"RST", "HALF_CLOSE"}
  PROVE  /\ <<Control(kind)>> \in Seq(Frames)
         /\ \A i \in 1..Len(<<Control(kind)>>) : <<Control(kind)>>[i].kind # "WINDOW_UPDATE"
<1>1. Control(kind) \in Frames /\ Control(kind).kind = kind
  BY Frames0 DEF Control, Kinds
<1> QED
  BY <1>1

\* abort and cancel of a stream that lives, also when they end a send or a
\* socket event.
LEMMA Terminates ==
  ASSUME IInv, ~finished, NEW how, NEW out, terminate(how, out),
         \/ how = "ended" /\ out = "null"
         \/ how = "failed" /\ out = "error",
         cancelled' \in BOOLEAN, how = "ended" => cancelled',
         overflowed' \in BOOLEAN, overflowed' => overflowed \/ pOverran,
         calls' \in 0..MaxSends, s2c' = s2c \/ (s2c # <<>> /\ s2c' = Tail(s2c)),
         UNCHANGED <<conn, sendWindow, outbound, outboundBytes, bufferedBytes, pendingCredit,
                     values, resolved, delivered, peerVars>>
  PROVE  IInv'
<1>1. finished' /\ sendClosed' /\ writeFrames(<<Control("RST")>>) /\ queueEnd(how, out)
  BY DEF terminate
<1>2. conn # "dead"
  BY DEF IInv, EndInv
<1>3. /\ c2s' \in Seq(Frames) /\ sendBuffer' \in Seq(Frames) /\ thrown' = thrown
      /\ Pipe' = Pipe \o <<Control("RST")>>
      /\ conn' = "handshake" => c2s' = <<>>
      /\ conn' # "handshake" => sendBuffer' = <<>>
  BY <1>1, <1>2, Controls, Writes DEF IInv
<1>4. s2c' \in Seq(Frames) /\ (conn' = "handshake" => s2c' = <<>>)
  <2>1. s2c \in Seq(Frames) /\ (conn = "handshake" => s2c = <<>>)
    BY DEF IInv, TypeOK, EndInv
  <2> QED
    BY <2>1
<1>5. /\ EndInv' /\ waiter' = FALSE
      /\ qEnd' \in {"no", "ended", "failed"} /\ outcome' \in {"none", "null", "error"}
  BY <1>1, <1>3, <1>4, QueueEnds DEF IInv
<1>6. TypeOK'
  BY <1>1, <1>3, <1>4, <1>5 DEF IInv, TypeOK, terminate
<1>7. OutInv' /\ SentInv' /\ OrderInv' /\ BacklogInv'
  BY KeepOut, KeepSent, KeepArrived DEF IInv
<1>8. SocketInv' /\ WithinInv'
  <2>1. CASE s2c' = s2c
    BY <1>1, <2>1, KeepSocket, KeepWithin DEF IInv
  <2>2. CASE s2c # <<>> /\ s2c' = Tail(s2c)
    BY <1>1, <2>2, RoutedSocket, RoutedWithin DEF IInv
  <2> QED
    BY <2>1, <2>2
<1>9. CreditInv'
  BY <1>1, <1>3, Controls, KeepCredit DEF IInv
<1>10. TeardownSafe' /\ NeverFalselyReset'
  BY <1>3, <1>5 DEF IInv, TeardownSafe, NeverFalselyReset
<1> QED
  BY <1>5, <1>6, <1>7, <1>8, <1>9, <1>10 DEF IInv

LEMMA InvCancel ==
  ASSUME IInv, cancel \/ abort
  PROVE  IInv'
<1>1. calls \in 0..MaxSends /\ cancelled \in BOOLEAN /\ overflowed \in BOOLEAN
  BY DEF IInv, TypeOK
<1>2. CASE cancel
  BY <1>1, <1>2, Terminates DEF cancel
<1>3. CASE abort
  BY <1>1, <1>3, Terminates DEF abort
<1> QED
  BY <1>2, <1>3

\* Frames that carry no credit are written, and only the sender's state moves.
LEMMA Sends ==
  ASSUME IInv, ~finished, NEW fs \in Seq(Frames), writeFrames(fs),
         \A i \in 1..Len(fs) : fs[i].kind # "WINDOW_UPDATE",
         sendWindow' \in Int, outbound' \in Seq(Payloads), outboundBytes' \in Nat, OutInv',
         sendClosed' \in BOOLEAN, calls' \in 0..MaxSends,
         s2c' = s2c \/ (s2c # <<>> /\ s2c' = Tail(s2c) /\ Head(s2c).kind # "MSG"),
         UNCHANGED <<conn, finished, recvVars, delivered, outcome, cancelled, overflowed, peerVars>>
  PROVE  IInv'
<1>1. conn # "dead"
  BY DEF IInv, EndInv
<1>2. /\ c2s' \in Seq(Frames) /\ sendBuffer' \in Seq(Frames) /\ thrown' = thrown
      /\ Pipe' = Pipe \o fs
      /\ conn' = "handshake" => c2s' = <<>>
      /\ conn' # "handshake" => sendBuffer' = <<>>
  BY <1>1, Writes DEF IInv
<1>3. s2c' \in Seq(Frames) /\ (conn' = "handshake" => s2c' = <<>>)
  <2>1. s2c \in Seq(Frames) /\ (conn = "handshake" => s2c = <<>>)
    BY DEF IInv, TypeOK, EndInv
  <2>2. s2c # <<>> => Tail(s2c) \in Seq(Frames)
    BY <2>1
  <2> QED
    BY <2>1, <2>2
<1>4. TypeOK'
  BY <1>2, <1>3 DEF IInv, TypeOK
<1>5. SentInv' /\ OrderInv' /\ BacklogInv' /\ Arrived' = Arrived
  BY KeepSent, KeepArrived DEF IInv
<1>6. SocketInv' /\ WithinInv'
  <2>1. CASE s2c' = s2c
    BY <2>1, KeepSocket, KeepWithin DEF IInv
  <2>2. CASE s2c # <<>> /\ s2c' = Tail(s2c) /\ Head(s2c).kind # "MSG"
    <3>1. Arrived' = Arrived + Step(Head(s2c))
      <4>1. Step(Head(s2c)) = 0 /\ Arrived \in Nat
        BY <2>2 DEF Step, Arrived, IInv, TypeOK
      <4> QED
        BY <1>5, <4>1
    <3> QED
      BY <2>2, <3>1, RoutedSocket, RoutedWithin DEF IInv
  <2> QED
    BY <2>1, <2>2
<1>7. EndInv'
  BY <1>2, <1>3, <1>5 DEF IInv, EndInv
<1>8. CreditInv'
  BY <1>2, KeepCredit DEF IInv
<1>9. TeardownSafe' /\ NeverFalselyReset'
  BY <1>2 DEF IInv, TeardownSafe, NeverFalselyReset
<1> QED
  BY <1>4, <1>5, <1>6, <1>7, <1>8, <1>9 DEF IInv

\* Messages are frames without credit.
LEMMA Messages ==
  ASSUME NEW fs \in Seq(Payloads)
  PROVE  fs \in Seq(Frames) /\ \A i \in 1..Len(fs) : fs[i].kind # "WINDOW_UPDATE"
<1>1. \A i \in 1..Len(fs) : fs[i] \in Payloads
  OBVIOUS
<1>2. \A i \in 1..Len(fs) : fs[i] \in Frames /\ fs[i].kind = "MSG"
  BY <1>1, PayloadTypes
<1> QED
  BY <1>2

\* send puts a message behind those that wait.
LEMMA Enqueued ==
  ASSUME IInv, NEW n \in Sizes
  PROVE  LET q == Append(outbound, Frame("MSG", n, 0, End(outbound)))
         IN  q \in Seq(Payloads) /\ Run(q) /\ First(q, Len(q)) = outboundBytes + n
<1> DEFINE f == Frame("MSG", n, 0, End(outbound))
           q == Append(outbound, f)
<1>1. outbound \in Seq(Payloads) /\ Run(outbound) /\ outboundBytes = First(outbound, Len(outbound))
  BY DEF IInv, TypeOK, OutInv
<1>2. End(outbound) \in Nat
  BY <1>1, EndNat
<1>3. f \in Payloads /\ f.off = End(outbound) /\ f.n = n
  <2>1. f \in Payloads
    BY <1>2, MsgFrame
  <2> QED
    BY <2>1 DEF Frame
<1> HIDE DEF f
<1>4. Run(q) /\ First(q, Len(outbound) + 1) = First(outbound, Len(outbound)) + f.n
  BY <1>1, <1>3, RunGrows
<1>5. q \in Seq(Payloads) /\ Len(q) = Len(outbound) + 1
  BY <1>1, <1>3
<1> HIDE DEF q
<1>6. q \in Seq(Payloads) /\ Run(q) /\ First(q, Len(q)) = outboundBytes + n
  BY <1>1, <1>3, <1>4, <1>5
<1> QED
  BY <1>6 DEF q, f

LEMMA InvSend ==
  ASSUME IInv, NEW n \in Sizes, send(n)
  PROVE  IInv'
<1>1. calls' \in 0..MaxSends
  BY DEF send, IInv, TypeOK
<1>2. ~finished
  BY DEF send
<1>3. CASE outboundBytes > SendBuffer
  <2>1. /\ terminate("failed", "error")
        /\ UNCHANGED <<sendWindow, outbound, outboundBytes, conn, s2c, bufferedBytes, pendingCredit,
                       values, resolved, delivered, cancelled, overflowed, peerVars>>
    BY <1>3 DEF send, IInv, TypeOK
  <2>2. cancelled \in BOOLEAN /\ overflowed \in BOOLEAN
    BY DEF IInv, TypeOK
  <2> QED
    BY <1>1, <1>2, <2>1, <2>2, Terminates
<1>4. CASE outboundBytes <= SendBuffer
  <2> DEFINE q == Append(outbound, Frame("MSG", n, 0, End(outbound)))
  <2>1. /\ pump(q, outboundBytes + n, sendWindow)
        /\ UNCHANGED <<conn, s2c, sendClosed, finished, recvVars, delivered, outcome, cancelled,
                       overflowed, peerVars>>
    BY <1>4 DEF send, IInv, TypeOK
  <2>2. sendWindow \in Int /\ sendClosed \in BOOLEAN
    BY DEF IInv, TypeOK
  <2>3. q \in Seq(Payloads) /\ Run(q) /\ First(q, Len(q)) = outboundBytes + n
    BY Enqueued
  <2> HIDE DEF q
  <2>4. pump(q, First(q, Len(q)), sendWindow)
    BY <2>1, <2>3
  <2>5. /\ outbound' \in Seq(Payloads) /\ outboundBytes' \in Nat /\ sendWindow' \in Int
        /\ OutInv'
        /\ \E fs \in Seq(Payloads) : writeFrames(fs)
    BY <2>2, <2>3, <2>4, Pumps
  <2>6. PICK fs \in Seq(Payloads) : writeFrames(fs)
    BY <2>5
  <2>7. fs \in Seq(Frames) /\ \A i \in 1..Len(fs) : fs[i].kind # "WINDOW_UPDATE"
    BY Messages
  <2> QED
    BY <1>1, <1>2, <2>1, <2>2, <2>5, <2>6, <2>7, Sends
<1> QED
  BY <1>3, <1>4 DEF send

LEMMA InvCloseSend ==
  ASSUME IInv, closeSend
  PROVE  IInv'
<1>1. /\ ~finished /\ writeFrames(<<Control("HALF_CLOSE")>>) /\ sendClosed' = TRUE
      /\ UNCHANGED <<conn, s2c, sendWindow, outbound, outboundBytes, finished, recvVars, appVars,
                     peerVars>>
  BY DEF closeSend
<1>2. OutInv'
  BY <1>1, KeepOut DEF IInv
<1>3. sendWindow \in Int /\ outbound \in Seq(Payloads) /\ outboundBytes \in Nat /\ calls \in 0..MaxSends
  BY DEF IInv, TypeOK
<1> QED
  BY <1>1, <1>2, <1>3, Controls, Sends

\* The frame at the head of the socket.
LEMMA HeadFrame ==
  ASSUME IInv, NEW kind \in Kinds, handleMessage(kind)
  PROVE  /\ s2c # <<>> /\ Head(s2c) = s2c[1] /\ 1 \in 1..Len(s2c)
         /\ s2c[1] \in Frames /\ s2c[1].kind = kind /\ resolved = <<>> /\ conn = "open"
         /\ Tail(s2c) \in Seq(Frames)
<1>1. s2c \in Seq(Frames)
  BY DEF IInv, TypeOK
<1> QED
  BY <1>1 DEF handleMessage

LEMMA InvRouteWindowUpdate ==
  ASSUME IInv, routeWindowUpdate
  PROVE  IInv'
<1>1. /\ ~finished /\ s2c' = Tail(s2c) /\ creditSend(Head(s2c).n)
      /\ UNCHANGED <<conn, sendClosed, finished, recvVars, appVars, peerVars>>
  BY DEF routeWindowUpdate, Detached
<1>2. /\ s2c # <<>> /\ Head(s2c).kind # "MSG" /\ Head(s2c).n \in Nat
  BY HeadFrame, PayloadTypes DEF routeWindowUpdate, Kinds
<1>3. /\ outbound \in Seq(Payloads) /\ sendWindow + Head(s2c).n \in Int
      /\ sendClosed \in BOOLEAN /\ calls \in 0..MaxSends
  BY <1>2 DEF IInv, TypeOK
<1>4. Run(outbound) /\ pump(outbound, First(outbound, Len(outbound)), sendWindow + Head(s2c).n)
  BY <1>1 DEF creditSend, IInv, OutInv
<1>5. /\ outbound' \in Seq(Payloads) /\ outboundBytes' \in Nat /\ sendWindow' \in Int
      /\ OutInv'
      /\ \E fs \in Seq(Payloads) : writeFrames(fs)
  BY <1>3, <1>4, Pumps
<1>6. PICK fs \in Seq(Payloads) : writeFrames(fs)
  BY <1>5
<1>7. fs \in Seq(Frames) /\ \A i \in 1..Len(fs) : fs[i].kind # "WINDOW_UPDATE"
  BY Messages
<1> QED
  BY <1>1, <1>2, <1>3, <1>5, <1>6, <1>7, Sends

\* The next message on the socket of a stream that lives: it follows what has
\* arrived.
LEMMA NextMessage ==
  ASSUME IInv, ~finished, handleMessage("MSG")
  PROVE  /\ Arrived < Len(pSent) /\ s2c[1] = pSent[Arrived + 1] /\ s2c[1] \in Payloads
         /\ s2c[1].off = Upto(Arrived) /\ Upto(Arrived + 1) = Upto(Arrived) + s2c[1].n
         /\ Arrived \in 0..(Len(pSent) - 1)
<1>1. s2c # <<>> /\ 1 \in 1..Len(s2c) /\ s2c[1].kind = "MSG"
  BY HeadFrame DEF Kinds
<1>2. Arrived = s2c[1].seq
  BY <1>1 DEF IInv, SocketInv
<1>3. Arrived < Len(pSent) /\ s2c[1] = pSent[Arrived + 1]
  BY <1>1, <1>2 DEF IInv, SocketInv
<1>4. Arrived \in Nat /\ pSent \in Seq(Payloads)
  BY DEF IInv, TypeOK, Arrived
<1>5. Arrived \in 0..(Len(pSent) - 1) /\ Arrived + 1 \in 1..Len(pSent)
  BY <1>3, <1>4
<1>6. pSent[Arrived + 1].off = Upto(Arrived) /\ Upto(Arrived + 1) = Upto(Arrived) + pSent[Arrived + 1].n
  BY <1>5, UptoStep DEF IInv
<1> QED
  BY <1>3, <1>4, <1>5, <1>6

\* The receive backlog overflows only for a server that sent without window.
LEMMA InvRouteOverflow ==
  ASSUME IInv, routeOverflow
  PROVE  IInv'
<1>1. /\ ~finished /\ handleMessage("MSG") /\ s2c' = Tail(s2c) /\ bufferedBytes > Window
      /\ terminate("failed", "error") /\ overflowed' = TRUE
      /\ UNCHANGED <<conn, sendWindow, outbound, outboundBytes, bufferedBytes, pendingCredit, values,
                     resolved, calls, delivered, cancelled, peerVars>>
  BY DEF routeOverflow, Detached, overCeiling
<1>2. pOverran
  <2> SUFFICES ASSUME ~pOverran PROVE FALSE
    OBVIOUS
  <2>1. s2c[1].off = Upto(Arrived) /\ 1 \in 1..Len(s2c) /\ s2c[1].kind = "MSG"
    BY <1>1, NextMessage, HeadFrame DEF Kinds
  <2>2. Upto(Arrived) < Window + Credited
    BY <2>1 DEF IInv, WithinInv
  <2>3. Credited <= Upto(Len(delivered)) /\ bufferedBytes = Upto(Arrived) - Upto(Len(delivered))
    BY DEF IInv, CreditInv, BacklogInv
  <2>4. Arrived \in 0..Len(pSent) /\ Len(delivered) \in 0..Len(pSent)
    BY DEF IInv, OrderInv, Arrived, TypeOK
  <2>5. Upto(Arrived) \in Nat /\ Upto(Len(delivered)) \in Nat /\ Credited \in Int
    BY <2>4, UptoNat, CreditInts DEF IInv
  <2> QED
    BY <1>1, <2>2, <2>3, <2>5
<1>3. s2c # <<>>
  BY <1>1 DEF handleMessage
<1>4. cancelled \in BOOLEAN /\ calls \in 0..MaxSends
  BY DEF IInv, TypeOK
<1> QED
  BY <1>1, <1>2, <1>3, <1>4, Terminates

LEMMA InvRouteEnd ==
  ASSUME IInv, routeEnd
  PROVE  IInv'
<1>1. /\ ~finished /\ finished' = TRUE /\ handleMessage("END") /\ s2c' = Tail(s2c)
      /\ UNCHANGED <<conn, sendBuffer, c2s, thrown, sendVars, bufferedBytes, pendingCredit, values,
                     resolved, calls, delivered, cancelled, overflowed, peerVars>>
      /\ \/ queueEnd("ended", "null") \/ queueEnd("failed", "error")
  BY DEF routeEnd, Detached
<1>2. /\ s2c # <<>> /\ 1 \in 1..Len(s2c) /\ s2c[1].kind = "END" /\ s2c[1] \in Frames
      /\ Tail(s2c) \in Seq(Frames) /\ conn = "open"
  BY <1>1, HeadFrame DEF Kinds
<1>3. Arrived = Len(pSent) /\ pEnded
  <2>1. 1 = Len(s2c) /\ pEnded
    BY <1>2 DEF IInv, SocketInv
  <2>2. Step(s2c[1]) = 0 /\ s2c[1].seq \in Nat
    BY <1>2, PayloadTypes DEF Step
  <2>3. s2c[1].seq + Step(s2c[1]) = Len(pSent) /\ Arrived = s2c[1].seq
    BY <1>1, <1>2, <2>1 DEF IInv, SocketInv
  <2> QED
    BY <2>1, <2>2, <2>3
<1>4. /\ EndInv' /\ waiter' = FALSE
      /\ qEnd' \in {"no", "ended", "failed"} /\ outcome' \in {"none", "null", "error"}
  <2>1. TypeOK /\ EndInv /\ (conn' # "handshake" => sendBuffer' = <<>>) /\ conn' # "handshake"
    BY <1>1, <1>2 DEF IInv, EndInv
  <2>2. CASE queueEnd("ended", "null")
    BY <1>1, <1>3, <2>1, <2>2, QueueEnds
  <2>3. CASE queueEnd("failed", "error")
    BY <1>1, <2>1, <2>3, QueueEnds
  <2> QED
    BY <1>1, <2>2, <2>3
<1>5. TypeOK'
  BY <1>1, <1>2, <1>4 DEF IInv, TypeOK
<1>6. OutInv' /\ SentInv' /\ OrderInv' /\ BacklogInv' /\ SocketInv' /\ WithinInv'
  BY <1>1, <1>2, KeepOut, KeepSent, KeepArrived, RoutedSocket, RoutedWithin DEF IInv
<1>7. CreditInv'
  <2>1. Pipe' = Pipe
    BY <1>1 DEF Pipe
  <2> QED
    BY <1>1, <2>1, SamePipe DEF IInv
<1>8. TeardownSafe' /\ NeverFalselyReset'
  BY <1>1, <1>4 DEF IInv, TeardownSafe, NeverFalselyReset
<1> QED
  BY <1>4, <1>5, <1>6, <1>7, <1>8 DEF IInv

LEMMA InvTransportDrop ==
  ASSUME IInv, onTransportDrop
  PROVE  IInv'
<1>1. /\ conn' = "dead" /\ sendBuffer' = <<>> /\ c2s' = <<>> /\ s2c' = <<>> /\ finished' = TRUE
      /\ UNCHANGED <<thrown, sendVars, bufferedBytes, pendingCredit, values, resolved,
                     calls, delivered, cancelled, overflowed, peerVars>>
      /\ \/ ~finished /\ queueEnd("failed", "error")
         \/ finished /\ UNCHANGED <<qEnd, waiter, outcome>>
  BY DEF onTransportDrop
<1>2. /\ EndInv' /\ waiter' = FALSE
      /\ qEnd' \in {"no", "ended", "failed"} /\ outcome' \in {"none", "null", "error"}
  <2>1. CASE ~finished /\ queueEnd("failed", "error")
    BY <1>1, <2>1, QueueEnds DEF IInv
  <2>2. CASE finished /\ UNCHANGED <<qEnd, waiter, outcome>>
    <3>1. waiter = FALSE
      BY <2>2 DEF IInv, TypeOK, TeardownSafe
    <3>2. EndInv'
      BY <1>1, <2>2 DEF IInv, EndInv, Arrived
    <3> QED
      BY <2>2, <3>1, <3>2 DEF IInv, TypeOK
  <2> QED
    BY <1>1, <2>1, <2>2
<1>3. TypeOK'
  <2>1. <<>> \in Seq(Frames)
    OBVIOUS
  <2>2. {sendBuffer', c2s', s2c'} \subseteq Seq(Frames)
    BY <1>1, <2>1
  <2> QED
    BY <1>1, <1>2, <2>2 DEF IInv, TypeOK
<1>4. OutInv' /\ SentInv' /\ OrderInv' /\ BacklogInv'
  BY <1>1, KeepOut, KeepSent, KeepArrived DEF IInv
<1>5. SocketInv' /\ WithinInv'
  BY <1>1 DEF SocketInv, WithinInv
<1>6. CreditInv'
  <2>1. Pipe' = <<>>
    BY <1>1 DEF Pipe
  <2> QED
    BY <1>1, <2>1, SamePipe DEF IInv
<1>7. TeardownSafe' /\ NeverFalselyReset'
  BY <1>1, <1>2 DEF IInv, TeardownSafe, NeverFalselyReset
<1> QED
  BY <1>2, <1>3, <1>4, <1>5, <1>6, <1>7 DEF IInv

\* The mux fails inside a write of a stream that lives.
LEMMA Fails ==
  ASSUME IInv, NEW how, NEW out, writeFull(how, out),
         \/ how = "ended" /\ out = "null"
         \/ how = "failed" /\ out = "error",
         cancelled' \in BOOLEAN, how = "ended" => cancelled',
         sendWindow' \in Int, outbound' \in Seq(Payloads), outboundBytes' \in Nat, OutInv',
         sendClosed' \in BOOLEAN, calls' \in 0..MaxSends
  PROVE  IInv'
<1>1. /\ conn = "handshake" /\ ~finished
      /\ conn' = "dead" /\ sendBuffer' = <<>> /\ finished' = TRUE /\ queueEnd(how, out)
      /\ UNCHANGED <<c2s, s2c, thrown, bufferedBytes, pendingCredit, values, resolved,
                     delivered, overflowed, peerVars>>
  BY DEF writeFull
<1>2. c2s = <<>> /\ s2c = <<>>
  BY <1>1 DEF IInv, EndInv
<1>3. /\ EndInv' /\ waiter' = FALSE
      /\ qEnd' \in {"no", "ended", "failed"} /\ outcome' \in {"none", "null", "error"}
  BY <1>1, <1>2, QueueEnds, Zenon DEF IInv
<1>4. TypeOK'
  <2>1. <<>> \in Seq(Frames)
    OBVIOUS
  <2>2. {sendBuffer', c2s', s2c'} \subseteq Seq(Frames)
    BY <1>1, <1>2, <2>1
  <2> QED
    BY <1>1, <1>3, <2>2 DEF IInv, TypeOK
<1>5. SentInv' /\ OrderInv' /\ BacklogInv' /\ SocketInv' /\ WithinInv'
  BY <1>1, KeepSent, KeepArrived, KeepSocket, KeepWithin DEF IInv
<1>6. CreditInv'
  <2>1. Pipe' = <<>>
    BY <1>1, <1>2 DEF Pipe
  <2> QED
    BY <1>1, <2>1, SamePipe DEF IInv
<1>7. TeardownSafe' /\ NeverFalselyReset'
  BY <1>1, <1>3 DEF IInv, TeardownSafe, NeverFalselyReset
<1> QED
  BY <1>3, <1>4, <1>5, <1>6, <1>7 DEF IInv

LEMMA InvFull ==
  ASSUME IInv, full
  PROVE  IInv'
<1>1. /\ sendWindow \in Int /\ outbound \in Seq(Payloads) /\ outboundBytes \in Nat /\ OutInv
      /\ calls \in 0..MaxSends /\ {cancelled, sendClosed} \subseteq BOOLEAN
  BY DEF IInv, TypeOK
<1>2. CASE closeSendFull
  <2>1. OutInv'
    BY <1>1, <1>2, KeepOut DEF closeSendFull
  <2> QED
    BY <1>1, <1>2, <2>1, Fails DEF closeSendFull
<1>3. CASE terminateFull
  <2>1. OutInv'
    BY <1>1, <1>3, KeepOut DEF terminateFull
  <2>2. CASE writeFull("ended", "null") /\ cancelled' = TRUE
    BY <1>1, <1>3, <2>1, <2>2, Fails DEF terminateFull
  <2>3. CASE writeFull("failed", "error") /\ cancelled' = cancelled
    BY <1>1, <1>3, <2>1, <2>3, Fails DEF terminateFull
  <2> QED
    BY <1>3, <2>2, <2>3 DEF terminateFull
<1>4. ASSUME NEW n \in Sizes, sendFull(n) PROVE IInv'
  <2> DEFINE q == Append(outbound, Frame("MSG", n, 0, End(outbound)))
  <2>1. calls' \in 0..MaxSends /\ writeFull("failed", "error") /\ cancelled' = cancelled
    BY <1>1, <1>4 DEF sendFull
  <2>2. CASE outboundBytes > SendBuffer
    <3>1. sendClosed' = TRUE /\ UNCHANGED <<sendWindow, outbound, outboundBytes>>
      BY <1>1, <1>4, <2>2 DEF sendFull
    <3>2. OutInv'
      BY <1>1, <3>1, KeepOut
    <3> QED
      BY <1>1, <2>1, <3>1, <3>2, Fails
  <2>3. CASE outboundBytes <= SendBuffer
    <3>1. /\ sendClosed' = sendClosed
          /\ \E k \in 1..Len(q) : take(q, outboundBytes + n, sendWindow, k)
      BY <1>1, <1>4, <2>3 DEF sendFull
    <3>2. q \in Seq(Payloads) /\ Run(q) /\ First(q, Len(q)) = outboundBytes + n
      BY <1>1, Enqueued DEF IInv
    <3> HIDE DEF q
    <3>3. PICK k \in 0..Len(q) : take(q, First(q, Len(q)), sendWindow, k)
      BY <3>1, <3>2
    <3>4. /\ outbound' \in Seq(Payloads) /\ outboundBytes' \in Nat /\ sendWindow' \in Int
          /\ OutInv'
      BY <1>1, <3>2, <3>3, Takes
    <3> QED
      BY <1>1, <2>1, <3>1, <3>4, Fails
  <2> QED
    BY <1>1, <2>2, <2>3
<1> QED
  BY <1>2, <1>3, <1>4 DEF full

LEMMA InvRouteDetached ==
  ASSUME IInv, routeDetached
  PROVE  IInv'
<1>1. /\ finished /\ s2c' = Tail(s2c) /\ s2c # <<>> /\ conn = "open"
      /\ UNCHANGED <<conn, sendBuffer, c2s, thrown, sendVars, finished, recvVars, appVars, peerVars>>
  BY DEF routeDetached, Detached, handleMessage
<1>2. TypeOK'
  <2>1. s2c' \in Seq(Frames)
    BY <1>1 DEF IInv, TypeOK
  <2> QED
    BY <1>1, <2>1 DEF IInv, TypeOK
<1>3. OutInv' /\ SentInv' /\ OrderInv' /\ BacklogInv' /\ SocketInv' /\ WithinInv'
  BY <1>1, KeepOut, KeepSent, KeepArrived, RoutedSocket, RoutedWithin DEF IInv
<1>4. EndInv'
  BY <1>1 DEF IInv, EndInv, Arrived
<1>5. CreditInv'
  <2>1. Pipe' = Pipe
    BY <1>1 DEF Pipe
  <2> QED
    BY <1>1, <2>1, SamePipe DEF IInv
<1>6. TeardownSafe' /\ NeverFalselyReset'
  BY <1>1 DEF IInv, TeardownSafe, NeverFalselyReset
<1> QED
  BY <1>2, <1>3, <1>4, <1>5, <1>6 DEF IInv

LEMMA InvRecv ==
  ASSUME IInv, recv
  PROVE  IInv'
<1>1. /\ ~waiter /\ resolved = <<>> /\ outcome = "none"
      /\ UNCHANGED <<muxVars, sendVars, finished, bufferedBytes, pendingCredit, qEnd,
                     calls, delivered, cancelled, overflowed, peerVars>>
  BY DEF recv
<1>2. OutInv' /\ SentInv' /\ WithinInv' /\ NeverFalselyReset'
  BY <1>1, KeepOut, KeepSent, KeepWithin DEF IInv, NeverFalselyReset
<1>3. CreditInv'
  <2>1. Pipe' = Pipe
    BY <1>1 DEF Pipe
  <2> QED
    BY <1>1, <2>1, SamePipe DEF IInv
<1>4. CASE values # <<>> /\ values' = Tail(values) /\ resolved' = <<Head(values)>> /\ UNCHANGED <<waiter, outcome>>
  <2>1. /\ values \in Seq(Payloads) /\ values' \in Seq(Payloads) /\ resolved' \in Seq(Payloads)
        /\ Len(values) \in Nat \ {0} /\ Len(values') = Len(values) - 1 /\ Len(resolved') = 1
        /\ Len(resolved) = 0 /\ resolved'[1] = values[1]
        /\ \A i \in 1..(Len(values) - 1) : values'[i] = values[i + 1]
    BY SMTT(20), <1>1, <1>4 DEF IInv, TypeOK
  <2>2. TypeOK'
    BY <1>1, <1>4, <2>1 DEF IInv, TypeOK
  <2>3. Arrived' = Arrived
    BY <1>1, <2>1 DEF Arrived, IInv, TypeOK
  <2>4. OrderInv' /\ BacklogInv'
    <3>1. BacklogInv' /\ Arrived' <= Len(pSent')
      BY <1>1, <2>3 DEF IInv, BacklogInv, OrderInv, Upto
    <3>2. values[1] = pSent[Len(delivered) + 1]
      <4>1. 1 \in 1..Len(values) /\ Len(delivered) \in Nat /\ (Len(delivered) + Len(resolved)) + 1 = Len(delivered) + 1
        BY <2>1 DEF IInv, TypeOK
      <4>2. values[1] = pSent[(Len(delivered) + Len(resolved)) + 1]
        BY <4>1 DEF IInv, OrderInv
      <4> QED
        BY <4>1, <4>2
    <3>3. \A i \in 1..Len(resolved') : resolved'[i] = pSent'[Len(delivered') + i]
      BY <1>1, <2>1, <3>2
    <3>4. \A i \in 1..Len(values') : values'[i] = pSent'[Len(delivered') + Len(resolved') + i]
      <4> SUFFICES ASSUME NEW i \in 1..(Len(values) - 1)
                   PROVE  values[i + 1] = pSent[Len(delivered) + 1 + i]
        BY <1>1, <2>1
      <4>1. /\ i + 1 \in 1..Len(values) /\ Len(delivered) \in Nat
            /\ (Len(delivered) + Len(resolved)) + (i + 1) = (Len(delivered) + 1) + i
        BY <2>1 DEF IInv, TypeOK
      <4>2. values[i + 1] = pSent[(Len(delivered) + Len(resolved)) + (i + 1)]
        BY <4>1 DEF IInv, OrderInv
      <4> QED
        BY <4>1, <4>2
    <3>5. \A i \in 1..Len(delivered') : delivered'[i] = pSent'[i]
      BY <1>1 DEF IInv, OrderInv
    <3> QED
      BY SMTT(20), <3>1, <3>3, <3>4, <3>5 DEF OrderInv
  <2>5. SocketInv'
    BY <1>1, <2>3 DEF IInv, SocketInv, Step
  <2>6. EndInv' /\ TeardownSafe'
    BY <1>1, <1>4, <2>3 DEF IInv, EndInv, TeardownSafe
  <2> QED
    BY <1>2, <1>3, <2>2, <2>4, <2>5, <2>6 DEF IInv
<1>5. CASE /\ atEnd /\ outcome' = IF qEnd = "ended" THEN "null" ELSE "error"
           /\ UNCHANGED <<values, resolved, waiter>>
  <2>1. TypeOK'
    BY <1>1, <1>5 DEF IInv, TypeOK
  <2>2. OrderInv' /\ BacklogInv' /\ SocketInv'
    BY <1>1, <1>5, KeepArrived, KeepSocket DEF IInv
  <2>3. EndInv' /\ TeardownSafe'
    BY <1>1, <1>5 DEF IInv, EndInv, TeardownSafe, atEnd, Arrived
  <2> QED
    BY <1>2, <1>3, <2>1, <2>2, <2>3 DEF IInv
<1>6. CASE values = <<>> /\ qEnd = "no" /\ waiter' = TRUE /\ UNCHANGED <<values, resolved, outcome>>
  <2>1. TypeOK'
    BY <1>1, <1>6 DEF IInv, TypeOK
  <2>2. OrderInv' /\ BacklogInv' /\ SocketInv'
    BY <1>1, <1>6, KeepArrived, KeepSocket DEF IInv
  <2>3. EndInv' /\ TeardownSafe'
    BY <1>1, <1>6 DEF IInv, EndInv, TeardownSafe, Arrived
  <2> QED
    BY <1>2, <1>3, <2>1, <2>2, <2>3 DEF IInv
<1> QED
  BY <1>4, <1>5, <1>6 DEF recv

LEMMA InvRouteMsg ==
  ASSUME IInv, routeMsg
  PROVE  IInv'
<1> DEFINE f == Head(s2c)
<1>1. /\ ~finished /\ handleMessage("MSG") /\ s2c' = Tail(s2c) /\ push(f)
      /\ UNCHANGED <<conn, sendBuffer, c2s, thrown, sendVars, finished, pendingCredit, qEnd,
                     appVars, peerVars>>
  BY DEF routeMsg, Detached
<1>2. /\ s2c # <<>> /\ f = s2c[1] /\ f.kind = "MSG" /\ resolved = <<>> /\ conn = "open"
      /\ s2c' \in Seq(Frames)
  BY <1>1, HeadFrame DEF Kinds
<1>3. /\ Arrived < Len(pSent) /\ f = pSent[Arrived + 1] /\ f \in Payloads
      /\ Upto(Arrived + 1) = Upto(Arrived) + f.n /\ Arrived \in 0..(Len(pSent) - 1)
  BY <1>1, <1>2, NextMessage
<1> HIDE DEF f
<1>4. /\ bufferedBytes' = bufferedBytes + f.n /\ waiter' = FALSE
      /\ \/ waiter /\ resolved' = <<f>> /\ values' = values
         \/ ~waiter /\ values' = Append(values, f) /\ resolved' = resolved
  BY <1>1 DEF push
<1>5. f.n \in Nat
  BY <1>3, PayloadTypes
<1>6. /\ values \in Seq(Payloads) /\ Len(values) \in Nat /\ Len(delivered) \in Nat
      /\ Len(resolved) = 0 /\ Arrived = Len(delivered) + Len(values)
      /\ waiter => values = <<>> /\ Len(values) = 0
  BY <1>2 DEF IInv, TypeOK, Arrived
<1>7. ASSUME waiter
      PROVE  /\ resolved' \in Seq(Payloads) /\ Len(resolved') = 1 /\ resolved'[1] = f
             /\ values' \in Seq(Payloads) /\ Len(values') = 0 /\ Len(values) = 0
  <2>1. resolved' = <<f>> /\ values' = values
    BY <1>4, <1>7
  <2> QED
    BY <1>3, <1>6, <1>7, <2>1, OneMessage
<1>8. ASSUME ~waiter
      PROVE  /\ values' \in Seq(Payloads) /\ Len(values') = Len(values) + 1
             /\ values'[Len(values) + 1] = f /\ \A i \in 1..Len(values) : values'[i] = values[i]
             /\ resolved' \in Seq(Payloads) /\ resolved' = <<>> /\ Len(resolved') = 0
  <2>1. values' = Append(values, f) /\ resolved' = <<>>
    BY <1>2, <1>4, <1>8
  <2>2. <<>> \in Seq(Payloads) /\ Len(<<>>) = 0
    OBVIOUS
  <2> QED
    BY <1>3, <1>6, <2>1, <2>2, OneMore
<1>9. TypeOK'
  <2>1. values' \in Seq(Payloads) /\ resolved' \in Seq(Payloads) /\ Len(resolved') <= 1
    <3>1. CASE waiter
      <4>1. values' \in Seq(Payloads) /\ resolved' \in Seq(Payloads) /\ Len(resolved') = 1
        BY <1>7, <3>1
      <4> QED
        BY <4>1
    <3>2. CASE ~waiter
      BY <1>8, <3>2
    <3> QED
      BY <3>1, <3>2
  <2>2. bufferedBytes' \in Nat
    BY SMTT(20), <1>4, <1>5 DEF IInv, TypeOK
  <2> QED
    BY <1>1, <1>2, <1>4, <2>1, <2>2 DEF IInv, TypeOK
<1>10. Arrived' = Arrived + 1
  <2>1. Arrived' = Len(delivered) + Len(resolved') + Len(values')
    BY <1>1 DEF Arrived
  <2>2. CASE waiter
    <3>1. Len(resolved') = 1 /\ Len(values') = 0 /\ Len(values) = 0
      BY <1>7, <2>2
    <3> QED
      BY <1>6, <2>1, <3>1
  <2>3. CASE ~waiter
    <3>1. Len(resolved') = 0 /\ Len(values') = Len(values) + 1
      BY <1>8, <2>3
    <3> QED
      BY <1>6, <2>1, <3>1
  <2> QED
    BY <2>2, <2>3
<1>11. OrderInv'
  <2>1. Arrived' <= Len(pSent')
    BY SMTT(20), <1>1, <1>3, <1>10
  <2>2. \A i \in 1..Len(delivered') : delivered'[i] = pSent'[i]
    BY <1>1 DEF IInv, OrderInv
  <2>3. CASE waiter /\ resolved' = <<f>> /\ values' = values
    BY <1>1, <1>3, <1>6, <2>1, <2>2, <2>3 DEF OrderInv
  <2>4. CASE ~waiter /\ values' = Append(values, f) /\ resolved' = resolved
    <3>1. \A i \in 1..Len(values') : values'[i] = pSent'[Len(delivered') + Len(resolved') + i]
      <4> SUFFICES ASSUME NEW i \in 1..(Len(values) + 1)
                   PROVE  values'[i] = pSent[Len(delivered) + Len(resolved) + i]
        BY <1>1, <1>6, <1>8, <2>4
      <4>1. CASE i = Len(values) + 1
        BY <1>3, <1>6, <1>8, <2>4, <4>1
      <4>2. CASE i \in 1..Len(values)
        <5>1. values[i] = pSent[Len(delivered) + Len(resolved) + i]
          BY <4>2 DEF IInv, OrderInv
        <5> QED
          BY <1>8, <2>4, <4>2, <5>1
      <4> QED
        BY <1>6, <4>1, <4>2
    <3> QED
      BY SMTT(20), <1>6, <2>1, <2>2, <2>4, <3>1 DEF OrderInv
  <2> QED
    BY <1>4, <2>3, <2>4
<1>12. BacklogInv'
  <2>1. Upto(Len(delivered))' = Upto(Len(delivered)) /\ Upto(Arrived)' = Upto(Arrived + 1)
    BY <1>1, <1>10 DEF Upto
  <2>2. bufferedBytes = Upto(Arrived) - Upto(Len(delivered))
    BY DEF IInv, BacklogInv
  <2>3. Arrived \in 0..Len(pSent) /\ Len(delivered) \in 0..Len(pSent)
    BY <1>3, <1>6
  <2>4. Upto(Arrived) \in Nat /\ Upto(Len(delivered)) \in Nat
    BY <2>3, UptoNat DEF IInv
  <2> QED
    BY SMTT(20), <1>3, <1>4, <1>5, <2>1, <2>2, <2>4 DEF BacklogInv
<1>13. SocketInv' /\ WithinInv'
  <2>1. Arrived' = Arrived + Step(Head(s2c))
    BY <1>2, <1>10 DEF Step, f
  <2> QED
    BY <1>1, <1>2, <2>1, RoutedSocket, RoutedWithin DEF IInv
<1>14. OutInv' /\ SentInv'
  BY <1>1, KeepOut, KeepSent DEF IInv
<1>15. EndInv'
  BY <1>1, <1>2 DEF IInv, EndInv, TypeOK
<1>16. CreditInv'
  <2>1. Pipe' = Pipe
    BY <1>1 DEF Pipe
  <2> QED
    BY <1>1, <2>1, SamePipe DEF IInv
<1>17. TeardownSafe' /\ NeverFalselyReset'
  BY <1>1, <1>4 DEF IInv, TeardownSafe, NeverFalselyReset
<1> QED
  BY <1>9, <1>11, <1>12, <1>13, <1>14, <1>15, <1>16, <1>17 DEF IInv

\* The continuation of recv() delivers the message and returns its credit, with
\* what was pending, once there is enough of it.
LEMMA InvRecvContinue ==
  ASSUME IInv, recvContinue
  PROVE  IInv'
<1> DEFINE f == Head(resolved)
           D == Len(delivered)
<1>1. /\ resolved # <<>> /\ resolved' = <<>> /\ delivered' = Append(delivered, f)
      /\ bufferedBytes' = bufferedBytes - f.n /\ returnCredit(f.n)
      /\ UNCHANGED <<conn, s2c, sendVars, finished, values, qEnd, waiter,
                     calls, outcome, cancelled, overflowed, peerVars>>
  BY DEF recvContinue
<1>2. /\ resolved \in Seq(Payloads) /\ Len(resolved) = 1 /\ f = resolved[1] /\ f \in Payloads
      /\ delivered \in Seq(Payloads) /\ values \in Seq(Payloads)
  <2>1. /\ resolved \in Seq(Payloads) /\ Len(resolved) <= 1
        /\ delivered \in Seq(Payloads) /\ values \in Seq(Payloads)
    BY DEF IInv, TypeOK
  <2>2. resolved # <<>>
    BY <1>1
  <2> QED
    BY <2>1, <2>2, AtMostOne
<1>3. /\ D \in Nat /\ Len(values) \in Nat /\ Arrived = D + 1 + Len(values) /\ Arrived <= Len(pSent)
      /\ D \in 0..(Len(pSent) - 1) /\ D + 1 \in 0..Len(pSent) /\ Arrived \in 0..Len(pSent)
      /\ pSent \in Seq(Payloads) /\ D \in 0..Len(pSent)
  BY SMTT(20), <1>2 DEF IInv, TypeOK, OrderInv, Arrived
<1>4. f = pSent[D + 1]
  BY <1>2 DEF IInv, OrderInv
<1>5. f.off = Upto(D) /\ Upto(D + 1) = Upto(D) + f.n
  BY <1>3, <1>4, UptoStep DEF IInv
<1>6. Upto(D) \in Nat /\ Upto(D + 1) \in Nat /\ Upto(Arrived) \in Nat /\ f.n \in Nat
  BY <1>2, <1>3, UptoNat, PayloadTypes DEF IInv
<1>7. Upto(D + 1) <= Upto(Arrived)
  BY <1>3, UptoGrows DEF IInv
<1>8. End(delivered) = Upto(D)
  BY EndIsUpto DEF IInv
<1> HIDE DEF f
<1>9. /\ delivered' \in Seq(Payloads) /\ Len(delivered') = D + 1 /\ delivered'[D + 1] = f
      /\ \A i \in 1..D : delivered'[i] = delivered[i]
  BY <1>1, <1>2, OneMore
<1> HIDE DEF D
<1>10. Arrived' = Arrived
  <2>1. Arrived' = Len(delivered') + Len(resolved') + Len(values)
    BY <1>1 DEF Arrived
  <2>2. Len(resolved') = 0
    BY <1>1
  <2> QED
    BY <1>3, <1>9, <2>1, <2>2
<1>11. OrderInv'
  <2>1. Arrived' <= Len(pSent')
    BY <1>1, <1>3, <1>10
  <2>2. \A i \in 1..Len(delivered') : delivered'[i] = pSent'[i]
    <3>1. \A i \in 1..D : delivered[i] = pSent[i]
      BY DEF IInv, OrderInv, D
    <3> QED
      BY <1>1, <1>3, <1>4, <1>9, <3>1
  <2>3. \A i \in 1..Len(resolved') : resolved'[i] = pSent'[Len(delivered') + i]
    BY <1>1
  <2>4. \A i \in 1..Len(values') : values'[i] = pSent'[Len(delivered') + Len(resolved') + i]
    <3> SUFFICES ASSUME NEW i \in 1..Len(values)
                 PROVE  values[i] = pSent[Len(delivered') + Len(resolved') + i]
      BY <1>1
    <3>1. values[i] = pSent[D + Len(resolved) + i]
      BY DEF IInv, OrderInv, D
    <3>2. Len(delivered') + Len(resolved') + i = D + Len(resolved) + i
      <4>1. Len(resolved') = 0
        BY <1>1
      <4> QED
        BY <1>2, <1>3, <1>9, <4>1
    <3> QED
      BY <3>1, <3>2
  <2> QED
    BY <2>1, <2>2, <2>3, <2>4 DEF OrderInv
<1>12. Upto(Len(delivered))' = Upto(D + 1) /\ Upto(Arrived)' = Upto(Arrived) /\ Credited' = Credited
  BY <1>1, <1>9, <1>10 DEF Upto, Credited
<1>13. BacklogInv' /\ bufferedBytes' \in Nat
  <2>1. bufferedBytes = Upto(Arrived) - Upto(D)
    BY DEF IInv, BacklogInv, D
  <2>2. bufferedBytes' = Upto(Arrived) - Upto(D + 1)
    BY <1>1, <1>5, <1>6, <2>1
  <2> QED
    BY <1>6, <1>7, <1>12, <2>2 DEF BacklogInv
<1>14. End(delivered)' = Upto(D) + f.n
  <2>1. delivered' # <<>>
    BY <1>3, <1>9
  <2> QED
    BY <1>5, <1>9, <2>1 DEF End
<1>15. pendingCredit \in Nat /\ pendingCredit <= Upto(D) /\ Threshold \in Nat
  BY SMTT(20), <1>8 DEF IInv, TypeOK, CreditInv, Threshold
<1>16. Returned = Upto(D) - pendingCredit /\ Returned' = (Upto(D) + f.n) - pendingCredit'
  BY <1>8, <1>14 DEF Returned
<1>17. Pipe \in Seq(Frames) /\ Credited \in Int /\ TypeOK /\ EndInv
  BY SMTT(20), CreditInts DEF IInv, TypeOK, Pipe
<1>18. \A i \in 1..Len(Pipe) : /\ Pipe[i] \in Frames /\ Pipe[i].off \in Nat /\ Pipe[i].n \in Nat
                               /\ Pipe[i].off + Pipe[i].n \in Nat
  BY SMTT(20), <1>17, PayloadTypes, NatSum
<1>19. /\ Credited <= Upto(D) /\ (~finished => Credited <= Returned)
       /\ \A i \in 1..Len(Pipe) : Pipe[i].kind = "WINDOW_UPDATE" =>
             /\ Credited <= Pipe[i].off /\ Pipe[i].off + Pipe[i].n <= Upto(D)
             /\ ~finished => Pipe[i].off + Pipe[i].n <= Returned
       /\ \A i, j \in 1..Len(Pipe) :
             i < j /\ Pipe[i].kind = "WINDOW_UPDATE" /\ Pipe[j].kind = "WINDOW_UPDATE" =>
               Pipe[i].off + Pipe[i].n <= Pipe[j].off
  BY DEF IInv, CreditInv, D
<1>20. Credited' <= Upto(D + 1)
  BY <1>5, <1>6, <1>12, <1>17, <1>19
<1> DEFINE Written == /\ c2s' \in Seq(Frames) /\ sendBuffer' \in Seq(Frames) /\ thrown' = thrown
                      /\ conn' = "handshake" => c2s' = <<>>
                      /\ conn' # "handshake" => sendBuffer' = <<>>
                      /\ pendingCredit' \in Nat /\ CreditInv'
<1>21. ASSUME /\ noCredit(f.n) \/ pendingCredit + f.n < Threshold
              /\ pendingCredit' = IF noCredit(f.n) THEN pendingCredit ELSE pendingCredit + f.n
              /\ writeFrames(<<>>)
       PROVE  Written
  <2>1. <<>> \in Seq(Frames)
    OBVIOUS
  <2>2. /\ c2s' \in Seq(Frames) /\ sendBuffer' \in Seq(Frames) /\ thrown' = thrown
        /\ Pipe' = Pipe \o <<>>
        /\ conn' = "handshake" => c2s' = <<>>
        /\ conn' # "handshake" => sendBuffer' = <<>>
    BY <1>1, <1>17, <1>21, <2>1, Writes
  <2>3. Pipe' = Pipe
    BY <1>17, <2>2
  <2>4. /\ pendingCredit' \in Nat /\ pendingCredit' <= Upto(D) + f.n
        /\ ~finished => Returned' = Returned
    <3>1. CASE noCredit(f.n)
      BY <1>6, <1>15, <1>16, <1>21, <3>1 DEF noCredit
    <3>2. CASE ~noCredit(f.n)
      BY SMTT(20), <1>6, <1>15, <1>16, <1>21, <3>2
    <3> QED
      BY <3>1, <3>2
  <2>5. CreditInv'
    <3>1. \A i \in 1..Len(Pipe') : Pipe'[i].kind = "WINDOW_UPDATE" =>
            /\ Credited' <= Pipe'[i].off
            /\ Pipe'[i].off + Pipe'[i].n <= Upto(D + 1)
            /\ ~finished' => Pipe'[i].off + Pipe'[i].n <= Returned'
      <4> SUFFICES ASSUME NEW i \in 1..Len(Pipe), Pipe[i].kind = "WINDOW_UPDATE"
                   PROVE  /\ Credited <= Pipe[i].off
                          /\ Pipe[i].off + Pipe[i].n <= Upto(D + 1)
                          /\ ~finished => Pipe[i].off + Pipe[i].n <= Returned'
        BY <1>1, <1>12, <2>3
      <4>1. /\ Credited <= Pipe[i].off /\ Pipe[i].off + Pipe[i].n <= Upto(D)
            /\ ~finished => Pipe[i].off + Pipe[i].n <= Returned
        BY <1>19
      <4>2. Pipe[i].off + Pipe[i].n <= Upto(D + 1)
        BY <1>5, <1>6, <1>18, <4>1
      <4> QED
        BY <2>4, <4>1, <4>2
    <3>2. \A i, j \in 1..Len(Pipe') :
            i < j /\ Pipe'[i].kind = "WINDOW_UPDATE" /\ Pipe'[j].kind = "WINDOW_UPDATE" =>
              Pipe'[i].off + Pipe'[i].n <= Pipe'[j].off
      BY <1>19, <2>3
    <3>3. pendingCredit' <= End(delivered)' /\ (~finished' => Credited' <= Returned')
      BY <1>1, <1>12, <1>14, <1>19, <2>4
    <3> QED
      BY <1>12, <1>20, <3>1, <3>2, <3>3 DEF CreditInv
  <2> QED
    BY <2>2, <2>4, <2>5
<1>22. ASSUME /\ ~noCredit(f.n) /\ pendingCredit + f.n >= Threshold
              /\ pendingCredit' = 0
              /\ writeFrames(<<Frame("WINDOW_UPDATE", pendingCredit + f.n, 0, Returned)>>)
       PROVE  Written
  <2> DEFINE g == Frame("WINDOW_UPDATE", pendingCredit + f.n, 0, Returned)
             l == Len(Pipe)
  <2>1. ~finished /\ conn # "dead"
    BY <1>17, <1>22 DEF noCredit, EndInv
  <2>2. pendingCredit + f.n \in Nat /\ Returned \in Nat
    BY <1>6, <1>15, <1>16
  <2>3. /\ g \in Frames /\ g.off = Returned /\ g.n = pendingCredit + f.n
    BY <2>2 DEF Frame, Frames, Kinds
  <2>4. writeFrames(<<g>>)
    BY <1>22
  <2>5. Returned' = Upto(D + 1) /\ g.off + g.n = Upto(D + 1)
    BY <1>5, <1>6, <1>15, <1>16, <1>22, <2>3
  <2> HIDE DEF g
  <2>6. <<g>> \in Seq(Frames)
    BY <2>3
  <2>7. /\ c2s' \in Seq(Frames) /\ sendBuffer' \in Seq(Frames) /\ thrown' = thrown
        /\ Pipe' = Pipe \o <<g>>
        /\ conn' = "handshake" => c2s' = <<>>
        /\ conn' # "handshake" => sendBuffer' = <<>>
    BY <1>1, <1>17, <2>1, <2>4, <2>6, Writes
  <2>8. /\ l \in Nat /\ Len(Pipe') = l + 1 /\ Pipe'[l + 1] = g
        /\ \A i \in 1..l : Pipe'[i] = Pipe[i]
    BY <1>17, <2>3, <2>7
  <2>9. \A i \in 1..l : Pipe[i].kind = "WINDOW_UPDATE" =>
          /\ Credited <= Pipe[i].off /\ Pipe[i].off + Pipe[i].n <= Returned
          /\ Pipe[i].off + Pipe[i].n <= Upto(D + 1)
    <3> SUFFICES ASSUME NEW i \in 1..l, Pipe[i].kind = "WINDOW_UPDATE"
                 PROVE  /\ Credited <= Pipe[i].off /\ Pipe[i].off + Pipe[i].n <= Returned
                        /\ Pipe[i].off + Pipe[i].n <= Upto(D + 1)
      OBVIOUS
    <3>1. /\ Credited <= Pipe[i].off /\ Pipe[i].off + Pipe[i].n <= Upto(D)
          /\ Pipe[i].off + Pipe[i].n <= Returned
      BY <1>19, <2>1
    <3> QED
      BY <1>5, <1>6, <1>18, <3>1
  <2> HIDE DEF l
  <2>10. \A i \in 1..Len(Pipe') : Pipe'[i].kind = "WINDOW_UPDATE" =>
           /\ Credited' <= Pipe'[i].off
           /\ Pipe'[i].off + Pipe'[i].n <= Upto(D + 1)
           /\ ~finished' => Pipe'[i].off + Pipe'[i].n <= Returned'
    <3> SUFFICES ASSUME NEW i \in 1..(l + 1), Pipe'[i].kind = "WINDOW_UPDATE"
                 PROVE  Credited <= Pipe'[i].off /\ Pipe'[i].off + Pipe'[i].n <= Upto(D + 1)
      BY <1>12, <2>5, <2>8
    <3>1. CASE i \in 1..l
      BY <2>8, <2>9, <3>1
    <3>2. CASE i = l + 1
      <4>1. Pipe'[i] = g
        BY <2>8, <3>2
      <4>2. Credited <= g.off /\ g.off + g.n <= Upto(D + 1)
        BY <1>6, <1>19, <2>1, <2>3, <2>5
      <4> QED
        BY <4>1, <4>2
    <3> QED
      BY <2>8, <3>1, <3>2
  <2>11. \A i, j \in 1..Len(Pipe') :
           i < j /\ Pipe'[i].kind = "WINDOW_UPDATE" /\ Pipe'[j].kind = "WINDOW_UPDATE" =>
             Pipe'[i].off + Pipe'[i].n <= Pipe'[j].off
    <3> SUFFICES ASSUME NEW i \in 1..l, NEW j \in 1..(l + 1), i < j,
                        Pipe[i].kind = "WINDOW_UPDATE", Pipe'[j].kind = "WINDOW_UPDATE"
                 PROVE  Pipe[i].off + Pipe[i].n <= Pipe'[j].off
      BY <2>8
    <3>1. CASE j \in 1..l
      <4>1. Pipe'[j] = Pipe[j]
        BY <2>8, <3>1
      <4> QED
        BY <1>19, <3>1, <4>1 DEF l
    <3>2. CASE j = l + 1
      <4>1. Pipe'[j] = g
        BY <2>8, <3>2
      <4> QED
        BY <2>3, <2>9, <4>1
    <3> QED
      BY <2>8, <3>1, <3>2
  <2>12. pendingCredit' <= End(delivered)' /\ Credited' <= Returned'
    BY SMTT(20), <1>5, <1>6, <1>14, <1>20, <1>22, <2>5
  <2>13. CreditInv'
    BY <1>12, <1>20, <2>10, <2>11, <2>12 DEF CreditInv
  <2>14. pendingCredit' \in Nat
    BY <1>22
  <2> QED
    BY <2>7, <2>13, <2>14
<1>23. Written
  BY SMTT(20), <1>1, <1>21, <1>22 DEF returnCredit
<1>24. TypeOK'
  <2>1. <<>> \in Seq(Payloads) /\ Len(<<>>) <= 1
    OBVIOUS
  <2> QED
    BY <1>1, <1>9, <1>13, <1>17, <1>23, <2>1 DEF TypeOK
<1>25. OutInv' /\ SentInv' /\ WithinInv'
  BY SMTT(20), <1>1, KeepOut, KeepSent, KeepWithin DEF IInv
<1>26. SocketInv'
  BY <1>1, <1>10 DEF IInv, SocketInv, Step
<1>27. EndInv' /\ TeardownSafe' /\ NeverFalselyReset'
  BY <1>1, <1>10, <1>23 DEF IInv, EndInv, TeardownSafe, NeverFalselyReset
<1> QED
  BY <1>11, <1>13, <1>23, <1>24, <1>25, <1>26, <1>27 DEF IInv

LEMMA Reaches ==
  \A credit, limit \in Int : \A off, n \in Nat :
    credit <= off /\ off + n <= limit => credit + n <= limit
OBVIOUS

LEMMA InvPeerRead ==
  ASSUME IInv, peerRead
  PROVE  IInv'
<1> DEFINE f == Head(c2s)
           add == IF f.kind = "WINDOW_UPDATE" THEN f.n ELSE 0
<1>1. /\ c2s # <<>> /\ c2s' = Tail(c2s)
      /\ pHalf' = (pHalf \/ f.kind = "HALF_CLOSE") /\ pLate' = (pLate \/ (pHalf /\ f.kind = "MSG"))
      /\ pEnded' = (pEnded \/ f.kind = "RST")
      /\ pWindow' = IF f.kind = "WINDOW_UPDATE" THEN pWindow + f.n ELSE pWindow
      /\ UNCHANGED <<conn, sendBuffer, thrown, sendVars, finished, recvVars, appVars, pSent, pOverran>>
  BY DEF peerRead
<1>2. c2s \in Seq(Frames) /\ conn # "handshake"
  BY <1>1 DEF IInv, TypeOK, EndInv
<1>3. /\ f = c2s[1] /\ f \in Frames /\ 1 \in 1..Len(c2s) /\ c2s' \in Seq(Frames)
      /\ Len(c2s) \in Nat \ {0} /\ Len(c2s') = Len(c2s) - 1
      /\ \A i \in 1..(Len(c2s) - 1) : c2s'[i] = c2s[i + 1] /\ i + 1 \in 1..Len(c2s)
  BY <1>1, <1>2
<1>4. f.n \in Nat /\ add \in Nat
  BY SMTT(20), <1>3, PayloadTypes
<1>5. \/ pPending' = pPending /\ s2c' = s2c
      \/ pPending' = pPending + f.n /\ s2c' = s2c
      \/ /\ pPending' = 0 /\ ~pEnded /\ pEnded' = pEnded
         /\ s2c' = Append(s2c, Frame("WINDOW_UPDATE", pPending + f.n, Len(pSent), 0))
  <2>1. \/ pPending' = pPending /\ s2c' = s2c
        \/ pPending' = pPending + f.n /\ s2c' = s2c
        \/ /\ f.kind = "MSG" /\ ~pEnded /\ pPending' = 0
           /\ s2c' = Append(s2c, Frame("WINDOW_UPDATE", pPending + f.n, Len(pSent), 0))
    BY Zenon DEF peerRead
  <2>2. f.kind = "MSG" /\ ~pEnded => pEnded' = pEnded
    <3>1. pEnded \in BOOLEAN /\ "MSG" # "RST"
      BY DEF IInv, TypeOK
    <3> QED
      BY <1>1, <3>1
  <2> QED
    BY Zenon, <2>1, <2>2
<1> HIDE DEF f
<1>6. Pipe = c2s /\ Pipe' = c2s'
  BY <1>1, <1>2 DEF Pipe
<1>7. /\ pPending \in Nat /\ pWindow \in Int /\ pSent \in Seq(Payloads) /\ s2c \in Seq(Frames)
      /\ {pEnded, pOverran, pHalf, pLate} \subseteq BOOLEAN
  BY SMTT(20) DEF IInv, TypeOK
<1> DEFINE g == Frame("WINDOW_UPDATE", pPending + f.n, Len(pSent), 0)
<1>8. g \in Frames /\ g.kind = "WINDOW_UPDATE" /\ g.seq = Len(pSent)
  BY SMTT(20), <1>4, <1>7 DEF Frame, Frames, Kinds
<1> HIDE DEF g
<1>9. TypeOK'
  <2>1. s2c' \in Seq(Frames) /\ pPending' \in Nat
    <3>1. s2c' = s2c \/ s2c' = Append(s2c, g)
      BY <1>5 DEF g
    <3>2. Append(s2c, g) \in Seq(Frames)
      BY <1>7, <1>8, OneMore
    <3>3. pPending' \in {pPending, pPending + f.n, 0}
      BY <1>5
    <3>4. pPending' \in Nat
      BY <1>4, <1>7, <3>3
    <3> QED
      BY <1>7, <3>1, <3>2, <3>4
  <2>2. pWindow' \in Int
    <3>1. pWindow' = pWindow \/ pWindow' = pWindow + f.n
      BY <1>1
    <3> QED
      BY <1>4, <1>7, <3>1
  <2>3. {pEnded', pOverran', pHalf', pLate'} \subseteq BOOLEAN
    BY <1>1, <1>7
  <2> QED
    BY <1>1, <1>3, <2>1, <2>2, <2>3 DEF IInv, TypeOK
<1>10. OutInv' /\ SentInv' /\ OrderInv' /\ BacklogInv' /\ Arrived' = Arrived
  BY <1>1, KeepOut, KeepSent, KeepArrived DEF IInv
<1>11. SocketInv'
  <2>1. CASE s2c' = s2c
    BY <1>1, <1>10, <2>1 DEF IInv, SocketInv, Step
  <2>2. CASE ~pEnded /\ s2c' = Append(s2c, g)
    BY <1>1, <1>8, <2>2, AppendedSocket DEF IInv
  <2> QED
    BY SMTT(20), <1>5, <2>1, <2>2 DEF g
<1>12. EndInv'
  <2>1. pEnded => pEnded'
    BY <1>1
  <2> QED
    BY <1>1, <1>2, <1>10, <2>1 DEF IInv, EndInv
<1>13. Credited \in Int /\ Credited' = Credited + add
  <2>1. Credited' = pWindow' - Window + Upto(Len(pSent)) /\ Credited = pWindow - Window + Upto(Len(pSent))
    BY <1>1 DEF Credited, Upto
  <2>2. Upto(Len(pSent)) \in Nat
    BY <1>7, UptoNat DEF IInv
  <2>3. pWindow' = pWindow + add
    BY <1>1, <1>4, <1>7
  <2> HIDE DEF add
  <2>4. \A w, c, u, a \in Int : (w + a) - c + u = (w - c + u) + a
    OBVIOUS
  <2>5. Window \in Int /\ Upto(Len(pSent)) \in Int /\ add \in Int
    BY <1>4, <2>2
  <2> QED
    BY <1>7, <2>1, <2>3, <2>4, <2>5
<1>14. \A i \in 1..Len(c2s) : c2s[i] \in Frames /\ c2s[i].off \in Nat /\ c2s[i].n \in Nat
  BY SMTT(20), <1>2, PayloadTypes
<1>15. CreditInv'
  <2>1. /\ pendingCredit' <= End(delivered)' /\ Returned' = Returned
        /\ Upto(Len(delivered))' = Upto(Len(delivered)) /\ Returned \in Int
        /\ Upto(Len(delivered)) \in Nat
    <3>1. Len(delivered) \in 0..Len(pSent)
      BY SMTT(20) DEF IInv, TypeOK, OrderInv, Arrived
    <3>2. Upto(Len(delivered)) \in Nat /\ Returned \in Int
      BY SMTT(20), <3>1, UptoNat, CreditInts DEF IInv
    <3> QED
      BY SMTT(20), <1>1, <3>2 DEF IInv, CreditInv, End, Returned, Upto
  <2>2. /\ Credited <= Upto(Len(delivered)) /\ (~finished => Credited <= Returned)
        /\ \A i \in 1..Len(c2s) : c2s[i].kind = "WINDOW_UPDATE" =>
              /\ Credited <= c2s[i].off /\ c2s[i].off + c2s[i].n <= Upto(Len(delivered))
              /\ ~finished => c2s[i].off + c2s[i].n <= Returned
        /\ \A i, j \in 1..Len(c2s) :
              i < j /\ c2s[i].kind = "WINDOW_UPDATE" /\ c2s[j].kind = "WINDOW_UPDATE" =>
                c2s[i].off + c2s[i].n <= c2s[j].off
    BY <1>6 DEF IInv, CreditInv
  <2>3. Credited' <= Upto(Len(delivered)) /\ (~finished => Credited' <= Returned)
    <3>1. CASE f.kind = "WINDOW_UPDATE"
      <4>1. /\ Credited <= c2s[1].off /\ c2s[1].off + c2s[1].n <= Upto(Len(delivered))
            /\ ~finished => c2s[1].off + c2s[1].n <= Returned
        BY <1>3, <2>2, <3>1
      <4>2. Credited' = Credited + c2s[1].n /\ c2s[1].off \in Nat /\ c2s[1].n \in Nat
        BY SMTT(20), <1>3, <1>13, <1>14, <3>1
      <4>3. Credited + c2s[1].n <= Upto(Len(delivered))
        BY <1>13, <2>1, <4>1, <4>2, Reaches
      <4>4. ~finished => Credited + c2s[1].n <= Returned
        BY <1>13, <2>1, <4>1, <4>2, Reaches
      <4> QED
        BY <4>2, <4>3, <4>4
    <3>2. CASE f.kind # "WINDOW_UPDATE"
      BY <1>13, <2>2, <3>2
    <3> QED
      BY <3>1, <3>2
  <2>4. \A i \in 1..Len(c2s') : c2s'[i].kind = "WINDOW_UPDATE" =>
          /\ Credited' <= c2s'[i].off /\ c2s'[i].off + c2s'[i].n <= Upto(Len(delivered))
          /\ ~finished => c2s'[i].off + c2s'[i].n <= Returned
    <3> SUFFICES ASSUME NEW i \in 1..(Len(c2s) - 1), c2s[i + 1].kind = "WINDOW_UPDATE"
                 PROVE  /\ Credited' <= c2s[i + 1].off
                        /\ c2s[i + 1].off + c2s[i + 1].n <= Upto(Len(delivered))
                        /\ ~finished => c2s[i + 1].off + c2s[i + 1].n <= Returned
      BY <1>3
    <3>1. /\ i + 1 \in 1..Len(c2s) /\ 1 < i + 1
      BY <1>3
    <3>2. /\ Credited <= c2s[i + 1].off /\ c2s[i + 1].off + c2s[i + 1].n <= Upto(Len(delivered))
          /\ ~finished => c2s[i + 1].off + c2s[i + 1].n <= Returned
      BY <2>2, <3>1
    <3>3. Credited' <= c2s[i + 1].off
      <4>1. CASE f.kind = "WINDOW_UPDATE"
        <5>1. Credited <= c2s[1].off /\ c2s[1].off + c2s[1].n <= c2s[i + 1].off
          BY <1>3, <2>2, <3>1, <4>1
        <5>2. /\ Credited' = Credited + c2s[1].n /\ c2s[1].off \in Nat /\ c2s[1].n \in Nat
              /\ c2s[i + 1].off \in Nat
          BY <1>3, <1>13, <1>14, <3>1, <4>1
        <5> QED
          BY <1>13, <5>1, <5>2, Reaches
      <4>2. CASE f.kind # "WINDOW_UPDATE"
        BY <1>13, <3>2, <4>2
      <4> QED
        BY <4>1, <4>2
    <3> QED
      BY <3>2, <3>3
  <2>5. \A i, j \in 1..Len(c2s') :
          i < j /\ c2s'[i].kind = "WINDOW_UPDATE" /\ c2s'[j].kind = "WINDOW_UPDATE" =>
            c2s'[i].off + c2s'[i].n <= c2s'[j].off
    <3> SUFFICES ASSUME NEW i \in 1..Len(c2s'), NEW j \in 1..Len(c2s'), i < j,
                        c2s'[i].kind = "WINDOW_UPDATE", c2s'[j].kind = "WINDOW_UPDATE"
                 PROVE  c2s'[i].off + c2s'[i].n <= c2s'[j].off
      OBVIOUS
    <3>1. c2s'[i] = c2s[i + 1] /\ c2s'[j] = c2s[j + 1]
      BY <1>3
    <3>2. i + 1 \in 1..Len(c2s) /\ j + 1 \in 1..Len(c2s) /\ i + 1 < j + 1
      BY <1>3
    <3> QED
      BY <2>2, <3>1, <3>2
  <2> QED
    BY SMTT(20), <1>1, <1>6, <2>1, <2>3, <2>4, <2>5 DEF CreditInv
<1>16. WithinInv'
  <2> SUFFICES ASSUME ~pOverran, NEW i \in 1..Len(s2c'), s2c'[i].kind = "MSG"
               PROVE  s2c'[i].off < Window + Credited'
    BY <1>1 DEF WithinInv
  <2>1. i \in 1..Len(s2c) /\ s2c'[i] = s2c[i]
    <3>1. CASE s2c' = s2c
      BY <3>1
    <3>2. CASE s2c' = Append(s2c, g)
      BY <1>7, <1>8, <3>2
    <3> QED
      BY <1>5, <3>1, <3>2 DEF g
  <2>2. s2c[i].off < Window + Credited /\ s2c[i] \in Frames
    BY <1>7, <2>1 DEF IInv, WithinInv
  <2>3. s2c[i].off \in Nat
    BY <2>2, PayloadTypes
  <2> HIDE DEF add
  <2> QED
    BY <1>4, <1>13, <2>1, <2>2, <2>3
<1>17. TeardownSafe' /\ NeverFalselyReset'
  BY <1>1 DEF IInv, TeardownSafe, NeverFalselyReset
<1> QED
  BY <1>9, <1>10, <1>11, <1>12, <1>15, <1>16, <1>17 DEF IInv

LEMMA InvPeerEnd ==
  ASSUME IInv, NEW status \in {0, 1}, peerEnd(status)
  PROVE  IInv'
<1> DEFINE g == Frame("END", status, Len(pSent), 0)
<1>1. /\ conn = "open" /\ ~pEnded /\ pEnded' = TRUE /\ s2c' = Append(s2c, g)
      /\ UNCHANGED <<conn, sendBuffer, c2s, thrown, sendVars, finished, recvVars, appVars,
                     pWindow, pPending, pSent, pOverran, pHalf, pLate>>
  BY DEF peerEnd
<1>2. pSent \in Seq(Payloads) /\ s2c \in Seq(Frames)
  BY SMTT(20) DEF IInv, TypeOK
<1>3. g \in Frames /\ g.kind = "END" /\ g.seq = Len(pSent)
  BY <1>2 DEF Frame, Frames, Kinds
<1> HIDE DEF g
<1>4. /\ s2c' \in Seq(Frames) /\ Len(s2c') = Len(s2c) + 1
      /\ s2c'[Len(s2c) + 1] = g /\ \A i \in 1..Len(s2c) : s2c'[i] = s2c[i]
  BY SMTT(20), <1>1, <1>2, <1>3, OneMore
<1>5. TypeOK'
  BY <1>1, <1>4 DEF IInv, TypeOK
<1>6. OutInv' /\ SentInv' /\ OrderInv' /\ BacklogInv' /\ Arrived' = Arrived
  BY <1>1, KeepOut, KeepSent, KeepArrived DEF IInv
<1>7. SocketInv'
  BY <1>1, <1>3, AppendedSocket DEF IInv
<1>8. EndInv'
  BY <1>1, <1>6 DEF IInv, EndInv
<1>9. CreditInv'
  <2>1. Pipe' = Pipe
    BY <1>1 DEF Pipe
  <2> QED
    BY <1>1, <2>1, SamePipe DEF IInv
<1>10. WithinInv'
  <2> SUFFICES ASSUME ~pOverran, NEW i \in 1..Len(s2c'), s2c'[i].kind = "MSG"
               PROVE  s2c'[i].off < Window + Credited'
    BY <1>1 DEF WithinInv
  <2>1. i \in 1..Len(s2c) /\ s2c'[i] = s2c[i]
    BY <1>2, <1>3, <1>4
  <2>2. Credited' = Credited
    BY <1>1 DEF Credited, Upto
  <2> QED
    BY <2>1, <2>2 DEF IInv, WithinInv
<1>11. TeardownSafe' /\ NeverFalselyReset'
  BY <1>1 DEF IInv, TeardownSafe, NeverFalselyReset
<1> QED
  BY <1>5, <1>6, <1>7, <1>8, <1>9, <1>10, <1>11 DEF IInv

\* A message is sent within the window when less than a window of what came
\* before it is uncredited.
LEMMA InvPeerSend ==
  ASSUME IInv, NEW n \in Sizes, peerSend(n)
  PROVE  IInv'
<1> DEFINE L == Len(pSent)
           f == Frame("MSG", n, L, End(pSent))
<1>1. /\ conn = "open" /\ ~pEnded /\ pOverran' = (pOverran \/ pWindow <= 0)
      /\ pWindow' = pWindow - n /\ pSent' = Append(pSent, f) /\ s2c' = Append(s2c, f)
      /\ UNCHANGED <<conn, sendBuffer, c2s, thrown, sendVars, finished, recvVars, appVars,
                     pPending, pEnded, pHalf, pLate>>
  BY DEF peerSend
<1>2. /\ pSent \in Seq(Payloads) /\ s2c \in Seq(Frames) /\ L \in Nat /\ n \in Nat /\ pWindow \in Int
      /\ pOverran \in BOOLEAN
  <2>1. n \in Nat
    OBVIOUS
  <2> QED
    BY <2>1 DEF IInv, TypeOK
<1>3. End(pSent) = Upto(L) /\ Upto(L) \in Nat
  BY <1>2, UptoNat DEF IInv, End, Upto
<1>4. /\ f \in Payloads /\ f \in Frames /\ f.kind = "MSG" /\ f.seq = L /\ f.off = Upto(L) /\ f.n = n
  <2>1. f \in Payloads
    BY <1>2, <1>3, MsgFrame
  <2>2. f.kind = "MSG" /\ f.seq = L /\ f.off = Upto(L) /\ f.n = n
    BY SMTT(20), <1>3 DEF Frame
  <2> QED
    BY <2>1, <2>2, PayloadTypes
<1> HIDE DEF f
<1>5. /\ pSent' \in Seq(Payloads) /\ Len(pSent') = L + 1
      /\ pSent'[L + 1] = f /\ \A i \in 1..L : pSent'[i] = pSent[i]
  BY SMTT(20), <1>1, <1>2, <1>4, OneMore
<1>6. /\ s2c' \in Seq(Frames) /\ Len(s2c') = Len(s2c) + 1
      /\ s2c'[Len(s2c) + 1] = f /\ \A i \in 1..Len(s2c) : s2c'[i] = s2c[i]
  BY SMTT(20), <1>1, <1>2, <1>4, OneMore
<1> HIDE DEF L
<1>7. TypeOK'
  <2>1. pWindow' \in Int /\ pOverran' \in BOOLEAN
    BY <1>1, <1>2
  <2> QED
    BY <1>1, <1>5, <1>6, <2>1 DEF IInv, TypeOK
<1>8. \A i \in 0..L : Upto(i)' = Upto(i) /\ Upto(i) \in Nat
  <2>1. \A i \in 0..L : Upto(i) \in Nat
    BY <1>2, UptoNat DEF IInv, L
  <2>2. \A i \in 0..L : Upto(i)' = Upto(i)
    BY <1>2, <1>5 DEF Upto
  <2> QED
    BY <2>1, <2>2
<1>9. Upto(Len(pSent))' = Upto(L) + n
  <2>1. Upto(Len(pSent))' = pSent'[L + 1].off + pSent'[L + 1].n
    BY <1>2, <1>5 DEF Upto
  <2> QED
    BY <1>4, <1>5, <2>1
<1>10. Credited' = Credited /\ Credited \in Int /\ Credited = pWindow - Window + Upto(L)
  <2>1. Credited' = (pWindow - n) - Window + (Upto(L) + n) /\ Credited = pWindow - Window + Upto(L)
    BY <1>1, <1>9 DEF Credited, L
  <2>2. \A w, a, c, u \in Int : (w - a) - c + (u + a) = w - c + u /\ w - c + u \in Int
    OBVIOUS
  <2>3. Window \in Int /\ n \in Int /\ Upto(L) \in Int
    BY <1>2, <1>3
  <2> QED
    BY <1>2, <2>1, <2>2, <2>3
<1>11. SentInv'
  <2>1. \A i \in 1..Len(pSent') : pSent'[i].seq = i - 1 /\ pSent'[i].off = Upto(i - 1)'
    <3> SUFFICES ASSUME NEW i \in 1..(L + 1)
                 PROVE  pSent'[i].seq = i - 1 /\ pSent'[i].off = Upto(i - 1)
      BY <1>2, <1>5, <1>8
    <3>1. CASE i \in 1..L
      <4>1. pSent[i].seq = i - 1 /\ pSent[i].off = Upto(i - 1)
        BY <3>1 DEF IInv, SentInv, L
      <4> QED
        BY <1>5, <3>1, <4>1
    <3>2. CASE i = L + 1
      BY <1>2, <1>4, <1>5, <3>2
    <3> QED
      BY <1>2, <3>1, <3>2
  <2>2. \A i, j \in 1..Len(pSent') : i < j => Upto(i)' <= pSent'[j].off
    <3> SUFFICES ASSUME NEW i \in 1..L, NEW j \in 1..(L + 1), i < j
                 PROVE  Upto(i) <= pSent'[j].off
      BY <1>2, <1>5, <1>8
    <3>1. CASE j \in 1..L
      <4>1. Upto(i) <= pSent[j].off
        BY <3>1 DEF IInv, SentInv, L
      <4> QED
        BY <1>5, <3>1, <4>1
    <3>2. CASE j = L + 1
      <4>1. Upto(i) <= Upto(L)
        BY <1>2, UptoGrows DEF IInv, L
      <4> QED
        BY <1>4, <1>5, <3>2, <4>1
    <3> QED
      BY <1>2, <3>1, <3>2
  <2> QED
    BY <2>1, <2>2 DEF SentInv
<1>12. /\ Arrived' = Arrived /\ Arrived <= L /\ Arrived = Len(delivered) + Len(resolved) + Len(values)
       /\ Len(delivered) \in Nat /\ Len(resolved) \in Nat /\ Len(values) \in Nat /\ Arrived \in 0..L
       /\ Len(delivered) \in 0..L
  <2>1. Arrived' = Arrived
    BY <1>1 DEF Arrived
  <2>2. Arrived <= L /\ Len(delivered) \in Nat /\ Len(resolved) \in Nat /\ Len(values) \in Nat
    BY DEF IInv, OrderInv, TypeOK, L
  <2> QED
    BY <1>2, <2>1, <2>2 DEF Arrived
<1>13. OrderInv'
  <2>1. Arrived' <= Len(pSent')
    BY <1>2, <1>5, <1>12
  <2>2. \A i \in 1..Len(delivered) : delivered[i] = pSent'[i]
    <3> SUFFICES ASSUME NEW i \in 1..Len(delivered) PROVE delivered[i] = pSent'[i]
      OBVIOUS
    <3>1. i \in 1..L /\ delivered[i] = pSent[i]
      BY <1>2, <1>12 DEF IInv, OrderInv
    <3> QED
      BY <1>5, <3>1
  <2>3. \A i \in 1..Len(resolved) : resolved[i] = pSent'[Len(delivered) + i]
    <3> SUFFICES ASSUME NEW i \in 1..Len(resolved) PROVE resolved[i] = pSent'[Len(delivered) + i]
      OBVIOUS
    <3>1. Len(delivered) + i \in 1..L
      BY <1>2, <1>12
    <3>2. resolved[i] = pSent[Len(delivered) + i]
      BY DEF IInv, OrderInv
    <3> QED
      BY <1>5, <3>1, <3>2
  <2>4. \A i \in 1..Len(values) : values[i] = pSent'[Len(delivered) + Len(resolved) + i]
    <3> SUFFICES ASSUME NEW i \in 1..Len(values)
                 PROVE  values[i] = pSent'[Len(delivered) + Len(resolved) + i]
      OBVIOUS
    <3>1. Len(delivered) + Len(resolved) + i \in 1..L
      BY <1>2, <1>12
    <3>2. values[i] = pSent[Len(delivered) + Len(resolved) + i]
      BY DEF IInv, OrderInv
    <3> QED
      BY <1>5, <3>1, <3>2
  <2> QED
    BY <1>1, <2>1, <2>2, <2>3, <2>4 DEF OrderInv
<1>14. BacklogInv' /\ CreditInv'
  <2>1. Upto(Arrived)' = Upto(Arrived) /\ Upto(Len(delivered))' = Upto(Len(delivered))
    <3>1. \A i \in 0..L : i = Arrived => Upto(Arrived)' = Upto(i)'
      BY <1>12 DEF Upto
    <3>2. \A i \in 0..L : i = Len(delivered) => Upto(Len(delivered))' = Upto(i)'
      BY <1>1 DEF Upto
    <3> QED
      BY <1>8, <1>12, <3>1, <3>2
  <2>2. BacklogInv'
    BY <1>1, <2>1 DEF IInv, BacklogInv
  <2>3. Returned' = Returned /\ End(delivered)' = End(delivered) /\ Pipe' = Pipe
    BY SMTT(20), <1>1 DEF Returned, End, Pipe
  <2>4. CreditInv'
    BY SMTT(20), <1>1, <1>10, <2>1, <2>3 DEF IInv, CreditInv
  <2> QED
    BY <2>2, <2>4
<1>15. SocketInv'
  <2>1. \A i \in 1..Len(s2c') : s2c'[i].kind = "MSG" =>
          s2c'[i].seq < Len(pSent') /\ s2c'[i] = pSent'[s2c'[i].seq + 1]
    <3> SUFFICES ASSUME NEW i \in 1..(Len(s2c) + 1), s2c'[i].kind = "MSG"
                 PROVE  s2c'[i].seq < L + 1 /\ s2c'[i] = pSent'[s2c'[i].seq + 1]
      BY <1>5, <1>6
    <3>1. CASE i \in 1..Len(s2c)
      <4>1. s2c'[i] = s2c[i] /\ s2c[i] \in Frames
        BY <1>2, <1>6, <3>1
      <4>2. s2c[i].seq < L /\ s2c[i] = pSent[s2c[i].seq + 1]
        BY <3>1, <4>1 DEF IInv, SocketInv, L
      <4>3. s2c[i].seq \in Nat /\ s2c[i].seq + 1 \in 1..L
        BY SMTT(20), <1>2, <4>1, <4>2, PayloadTypes
      <4>4. pSent'[s2c[i].seq + 1] = pSent[s2c[i].seq + 1]
        BY SMTT(20), <1>5, <4>3
      <4>5. \A x \in Nat : x < L => x < L + 1
        BY <1>2
      <4> QED
        BY SMTT(20), <4>1, <4>2, <4>3, <4>4, <4>5
    <3>2. CASE i = Len(s2c) + 1
      BY <1>2, <1>4, <1>5, <1>6, <3>2
    <3> QED
      BY <1>2, <3>1, <3>2
  <2>2. \A i \in 1..(Len(s2c') - 1) : s2c'[i + 1].seq = s2c'[i].seq + Step(s2c'[i])
    <3> SUFFICES ASSUME NEW i \in 1..Len(s2c)
                 PROVE  s2c'[i + 1].seq = s2c'[i].seq + Step(s2c'[i])
      BY <1>2, <1>6
    <3>1. CASE i = Len(s2c)
      <4>1. s2c[Len(s2c)].seq + Step(s2c[Len(s2c)]) = L
        BY <1>2, <3>1 DEF IInv, SocketInv, L
      <4>2. s2c'[i] = s2c[Len(s2c)] /\ s2c'[i + 1] = f
        BY <1>6, <3>1
      <4> QED
        BY <1>4, <4>1, <4>2
    <3>2. CASE i \in 1..(Len(s2c) - 1)
      <4>1. i + 1 \in 1..Len(s2c) /\ s2c[i + 1].seq = s2c[i].seq + Step(s2c[i])
        BY <1>2, <3>2 DEF IInv, SocketInv
      <4> QED
        BY <1>6, <4>1
    <3> QED
      BY <1>2, <3>1, <3>2
  <2>3. s2c' # <<>> /\ s2c'[Len(s2c')].seq + Step(s2c'[Len(s2c')]) = Len(pSent')
    <3>1. s2c' # <<>> /\ s2c'[Len(s2c')] = f
      BY <1>2, <1>6
    <3>2. f.seq + Step(f) = L + 1
      BY <1>4 DEF Step
    <3> QED
      BY <1>5, <3>1, <3>2
  <2>4. ~finished => Arrived = s2c'[1].seq
    <3> SUFFICES ASSUME ~finished PROVE Arrived = s2c'[1].seq
      OBVIOUS
    <3>1. CASE s2c = <<>>
      <4>1. Arrived = L
        BY <3>1 DEF IInv, SocketInv, L
      <4>2. s2c'[1] = f
        BY <1>6, <3>1
      <4> QED
        BY <1>4, <4>1, <4>2
    <3>2. CASE s2c # <<>>
      <4>1. 1 \in 1..Len(s2c) /\ Arrived = s2c[1].seq
        BY SMTT(20), <1>2, <3>2 DEF IInv, SocketInv
      <4> QED
        BY SMTT(20), <1>6, <4>1
    <3> QED
      BY <3>1, <3>2
  <2>5. \A i \in 1..Len(s2c') : s2c'[i].kind # "END"
    <3>1. \A i \in 1..Len(s2c) : s2c[i].kind # "END"
      BY <1>1 DEF IInv, SocketInv
    <3> QED
      BY SMTT(20), <1>2, <1>4, <1>6, <3>1
  <2> QED
    BY <1>1, <1>12, <2>1, <2>2, <2>3, <2>4, <2>5 DEF SocketInv, Step
<1>16. WithinInv'
  <2> SUFFICES ASSUME ~pOverran', NEW i \in 1..(Len(s2c) + 1), s2c'[i].kind = "MSG"
               PROVE  s2c'[i].off < Window + Credited
    BY <1>6, <1>10 DEF WithinInv
  <2>1. ~pOverran /\ 0 < pWindow
    <3>1. ~pOverran /\ ~(pWindow <= 0)
      BY <1>1, Zenon
    <3> QED
      BY <1>2, <3>1
  <2>2. CASE i \in 1..Len(s2c)
    <3>1. s2c'[i] = s2c[i]
      BY <1>6, <2>2
    <3> QED
      BY <2>1, <2>2, <3>1 DEF IInv, WithinInv
  <2>3. CASE i = Len(s2c) + 1
    <3>1. s2c'[i].off = Upto(L)
      BY <1>4, <1>6, <2>3
    <3>2. Upto(L) < Window + (pWindow - Window + Upto(L))
      BY <1>2, <1>3, <2>1
    <3> QED
      BY <1>10, <3>1, <3>2
  <2> QED
    BY SMTT(20), <1>2, <2>2, <2>3
<1>17. OutInv' /\ EndInv' /\ TeardownSafe' /\ NeverFalselyReset'
  <2>1. OutInv'
    BY <1>1, KeepOut DEF IInv
  <2>2. EndInv'
    BY <1>1, <1>12 DEF IInv, EndInv
  <2> QED
    BY <1>1, <2>1, <2>2 DEF IInv, TeardownSafe, NeverFalselyReset
<1> QED
  BY SMTT(20), <1>7, <1>11, <1>13, <1>14, <1>15, <1>16, <1>17 DEF IInv

LEMMA InvNext ==
  ASSUME IInv, [Next]_vars
  PROVE  IInv'
<1>1. CASE Next
  BY SMTT(20), <1>1, InvOpen, InvTransportDrop, InvRouteDetached, InvRouteMsg, InvRouteOverflow,
     InvRouteWindowUpdate, InvRouteEnd, InvSend, InvFull, InvPeerSend, InvCloseSend, InvCancel, InvRecv,
     InvRecvContinue, InvPeerRead, InvPeerEnd DEF Next, socket
<1>2. CASE UNCHANGED vars
  <2> USE <1>2 DEF vars
  <2>1. TypeOK'
    BY DEF IInv, TypeOK
  <2>2. OutInv' /\ SentInv' /\ OrderInv' /\ BacklogInv' /\ SocketInv' /\ WithinInv'
    BY KeepOut, KeepSent, KeepArrived, KeepSocket, KeepWithin DEF IInv
  <2>3. CreditInv'
    <3>1. Pipe' = Pipe
      BY DEF Pipe
    <3> QED
      BY <3>1, SamePipe DEF IInv
  <2>4. EndInv' /\ TeardownSafe' /\ NeverFalselyReset'
    BY DEF IInv, EndInv, TeardownSafe, NeverFalselyReset, Arrived
  <2> QED
    BY SMTT(20), <2>1, <2>2, <2>3, <2>4 DEF IInv
<1> QED
  BY <1>1, <1>2

-----------------------------------------------------------------------------
(* The theorems.                                                           *)

\* Offsets, queues, credit and the end of a stream stay consistent through every
\* interleaving of the application, the event loop, the socket and the server.
THEOREM Invariance == Spec => []IInv
<1>1. Init => IInv
  BY InvInit
<1>2. IInv /\ [Next]_vars => IInv'
  BY InvNext
<1> QED
  BY <1>1, <1>2, PTL DEF Spec

\* Every variable of StreamImpl, its queue and its mux keeps its type, and a pull
\* waits only on an empty queue.
THEOREM TypeCorrect == Spec => []TypeOK
<1>1. IInv => TypeOK
  BY DEF IInv
<1> QED
  BY <1>1, Invariance, PTL

\* No recv() waits on a stream that has finished, and nothing writes to a dead
\* mux, where writeFrame throws.
THEOREM TeardownIsSafe == Spec => []TeardownSafe
<1>1. IInv => TeardownSafe
  BY DEF IInv
<1> QED
  BY <1>1, Invariance, PTL

\* pushMsg aborts a stream for its receive backlog only when the server sent
\* without window, whatever the window and the lengths of the messages.
THEOREM ObedientNeverReset == Spec => []NeverFalselyReset
<1>1. IInv => NeverFalselyReset
  BY DEF IInv
<1> QED
  BY <1>1, Invariance, PTL

LEMMA PrefixOfThree ==
  ASSUME NEW S, NEW a \in Seq(S), NEW b \in Seq(S), NEW c \in Seq(S), NEW p \in Seq(S),
         Len(a) + Len(b) + Len(c) <= Len(p), \A i \in 1..Len(a) : a[i] = p[i],
         \A i \in 1..Len(b) : b[i] = p[Len(a) + i],
         \A i \in 1..Len(c) : c[i] = p[Len(a) + Len(b) + i]
  PROVE  a \o b \o c = SubSeq(p, 1, Len(a) + Len(b) + Len(c))
<1>1. Len(a) \in Nat /\ Len(b) \in Nat /\ Len(c) \in Nat /\ a \o b \o c \in Seq(S)
  OBVIOUS
<1>2. Len(a \o b \o c) = Len(a) + Len(b) + Len(c)
  BY SMTT(20)
<1>3. \A i \in 1..Len(a \o b \o c) : (a \o b \o c)[i] = p[i]
  <2> SUFFICES ASSUME NEW i \in 1..(Len(a) + Len(b) + Len(c)) PROVE (a \o b \o c)[i] = p[i]
    BY <1>2
  <2>1. CASE i <= Len(a)
    BY <1>1, <2>1
  <2>2. CASE i > Len(a) /\ i <= Len(a) + Len(b)
    BY <1>1, <2>2
  <2>3. CASE i > Len(a) + Len(b)
    BY <1>1, <2>3
  <2> QED
    BY <1>1, <2>1, <2>2, <2>3
<1> QED
  BY <1>1, <1>2, <1>3

\* recv() returns what the server sent, in order and without a gap, and after a
\* clean end that nobody cancelled, all of it.
THEOREM RecvInOrder == Spec => []DeliveredInOrder
<1>1. ASSUME IInv PROVE DeliveredInOrder
  <2>1. /\ delivered \in Seq(Payloads) /\ resolved \in Seq(Payloads)
        /\ values \in Seq(Payloads) /\ pSent \in Seq(Payloads)
    BY <1>1 DEF IInv, TypeOK
  <2>2. delivered \o resolved \o values = SubSeq(pSent, 1, Arrived) /\ Arrived \in 0..Len(pSent)
    BY <1>1, <2>1, PrefixOfThree DEF IInv, OrderInv, Arrived
  <2>3. ASSUME outcome = "null", ~cancelled PROVE delivered = pSent
    <3>1. resolved = <<>> /\ values = <<>> /\ Arrived = Len(pSent)
      BY <1>1, <2>3 DEF IInv, EndInv
    <3>2. Len(delivered) = Len(pSent)
      BY <2>1, <3>1 DEF Arrived
    <3> QED
      BY <1>1, <2>1, <3>2, SameSequence DEF IInv, OrderInv
  <2> QED
    BY <2>2, <2>3 DEF DeliveredInOrder
<1> QED
  BY <1>1, Invariance, PTL

-----------------------------------------------------------------------------
(* Credit: bytes of the frames in flight.                                  *)

\* CreditConserved, told of the frames the stream has written.
Accounts ==
    ~finished /\ ~pEnded =>
        /\ sendWindow + Bytes(Pipe, "MSG") + pPending + Bytes(s2c, "WINDOW_UPDATE") = Window
        /\ pWindow + Bytes(s2c, "MSG") + bufferedBytes + pendingCredit
             + Bytes(Pipe, "WINDOW_UPDATE") = Window

LEMMA FrameLengths == \A f \in Frames : f.n \in Int
BY PayloadTypes

\* What the accounts add up.
LEMMA AccountInts ==
  ASSUME TypeOK, NEW kind
  PROVE  /\ Pipe \in Seq(Frames) /\ s2c \in Seq(Frames)
         /\ Bytes(Pipe, kind) \in Int /\ Bytes(s2c, kind) \in Int
         /\ sendWindow \in Int /\ pPending \in Int /\ pWindow \in Int
         /\ bufferedBytes \in Int /\ pendingCredit \in Int /\ Window \in Int
<1>1. Pipe \in Seq(Frames) /\ s2c \in Seq(Frames)
  BY DEF TypeOK, Pipe
<1>2. Bytes(Pipe, kind) \in Int /\ Bytes(s2c, kind) \in Int
  BY <1>1, FrameLengths, BytesInt
<1> QED
  BY <1>1, <1>2 DEF TypeOK

LEMMA AccountsKeep ==
  ASSUME Accounts, Pipe' = Pipe, finished => finished', pEnded => pEnded',
         UNCHANGED <<sendWindow, pPending, s2c, pWindow, bufferedBytes, pendingCredit>>
  PROVE  Accounts'
BY DEF Accounts

\* The messages of a run add up to its length, and are no credit.
LEMMA BytesRun ==
  ASSUME NEW q \in Seq(Payloads), Run(q), NEW k \in 0..Len(q)
  PROVE  /\ SubSeq(q, 1, k) \in Seq(Frames)
         /\ Bytes(SubSeq(q, 1, k), "MSG") = First(q, k)
         /\ Bytes(SubSeq(q, 1, k), "WINDOW_UPDATE") = 0
<1> DEFINE fs == SubSeq(q, 1, k)
<1>1. /\ fs \in Seq(Payloads) /\ Len(fs) = k /\ Len(q) \in Nat
      /\ \A i \in 1..k : fs[i] = q[i] /\ i \in 1..Len(q)
  OBVIOUS
<1> HIDE DEF fs
<1>2. fs \in Seq(Frames)
  BY <1>1, Messages
<1>3. \A i \in 1..k : q[i].kind = "MSG" /\ q[i].off \in Nat /\ q[i].n \in Nat
  <2>1. \A i \in 1..k : q[i] \in Payloads
    BY <1>1
  <2>2. \A f \in Payloads : f.kind = "MSG" /\ f.off \in Nat /\ f.n \in Nat
    BY PayloadTypes
  <2> QED
    BY <2>1, <2>2
<1>4. ASSUME NEW kind
      PROVE  /\ Counted(fs, kind) \in Seq(Int) /\ Len(Counted(fs, kind)) = Len(fs)
             /\ \A i \in 1..Len(fs) :
                  Counted(fs, kind)[i] = IF fs[i].kind = kind THEN fs[i].n ELSE 0
  BY <1>2, FrameLengths, Counts, Zenon
<1>5. Bytes(fs, "WINDOW_UPDATE") = 0
  <2> DEFINE c == Counted(fs, "WINDOW_UPDATE")
             o == [i \in 1..(k + 1) |-> 0]
  <2>1. /\ c \in Seq(Int) /\ Len(c) = k
        /\ \A i \in 1..k : c[i] = IF fs[i].kind = "WINDOW_UPDATE" THEN fs[i].n ELSE 0
    BY <1>1, <1>4
  <2> HIDE DEF c
  <2>2. \A i \in 1..k : c[i] = 0
    BY SMTT(20), <1>1, <1>3, <2>1
  <2>3. /\ \A i \in 1..(Len(c) + 1) : o[i] \in Int
        /\ \A i \in 1..Len(c) : o[i + 1] = o[i] + c[i]
    BY <2>1, <2>2
  <2>4. o[Len(c) + 1] = 0 /\ o[1] = 0
    BY <2>1
  <2> HIDE DEF o
  <2>5. Sum(c) = o[Len(c) + 1] - o[1]
    BY <2>1, <2>3, Telescopes
  <2> QED
    BY <2>4, <2>5 DEF Bytes, c
<1>6. Bytes(fs, "MSG") = First(q, k)
  <2>1. CASE k = 0
    <3>1. fs = <<>>
      BY <1>1, <2>1
    <3> QED
      BY <2>1, <3>1, BytesNone DEF First
  <2>2. CASE k # 0
    <3> DEFINE c == Counted(fs, "MSG")
               o == [i \in 1..(k + 1) |-> IF i <= k THEN q[i].off ELSE q[k].off + q[k].n]
    <3>1. /\ c \in Seq(Int) /\ Len(c) = k
          /\ \A i \in 1..k : c[i] = IF fs[i].kind = "MSG" THEN fs[i].n ELSE 0
      BY SMTT(20), <1>1, <1>4
    <3> HIDE DEF c
    <3>2. \A i \in 1..k : c[i] = q[i].n
      BY <1>1, <1>3, <3>1
    <3>3. /\ \A i \in 1..k : o[i] = q[i].off
          /\ o[k + 1] = q[k].off + q[k].n /\ k \in 1..k /\ 1 \in 1..k
      BY <2>2
    <3> HIDE DEF o
    <3>4. ASSUME NEW i \in 1..(k + 1) PROVE o[i] \in Int
      <4>1. CASE i \in 1..k
        <5>1. o[i] = q[i].off /\ q[i].off \in Nat
          BY <1>3, <3>3, <4>1
        <5> QED
          BY <5>1
      <4>2. CASE i = k + 1
        <5>1. q[k].off \in Nat /\ q[k].n \in Nat
          BY <1>3, <3>3
        <5> QED
          BY <3>3, <4>2, <5>1
      <4> QED
        BY <4>1, <4>2
    <3>5. ASSUME NEW i \in 1..k PROVE o[i + 1] = o[i] + c[i]
      <4>1. CASE i = k
        BY <3>2, <3>3, <4>1
      <4>2. CASE i < k
        <5>1. i + 1 \in 1..k /\ i \in 1..(Len(q) - 1)
          BY <1>1, <4>2
        <5>2. q[i + 1].off = q[i].off + q[i].n
          BY <5>1 DEF Run
        <5> QED
          BY <3>2, <3>3, <5>1, <5>2
      <4> QED
        BY <4>1, <4>2
    <3>6. Sum(c) = o[k + 1] - o[1]
      BY <3>1, <3>4, <3>5, Telescopes
    <3>7. Sum(c) = (q[k].off + q[k].n) - q[1].off
      BY <3>3, <3>6
    <3> QED
      BY <2>2, <3>7 DEF First, Bytes, c
  <2> QED
    BY <2>1, <2>2
<1> QED
  BY <1>2, <1>5, <1>6 DEF fs

\* The pump takes from the window what it writes.
LEMMA PumpCredit ==
  ASSUME IInv, ~finished, NEW q \in Seq(Payloads), Run(q), NEW b, NEW w \in Int, pump(q, b, w),
         conn' = conn
  PROVE  /\ sendWindow' + Bytes(Pipe', "MSG") = w + Bytes(Pipe, "MSG")
         /\ Bytes(Pipe', "WINDOW_UPDATE") = Bytes(Pipe, "WINDOW_UPDATE")
<1>1. PICK k \in 0..Len(q) : sendWindow' = w - First(q, k) /\ writeFrames(SubSeq(q, 1, k))
  BY DEF pump, take
<1> DEFINE fs == SubSeq(q, 1, k)
<1>2. /\ fs \in Seq(Frames) /\ Bytes(fs, "MSG") = First(q, k)
      /\ Bytes(fs, "WINDOW_UPDATE") = 0 /\ First(q, k) \in Int
  BY BytesRun, FirstInt
<1> HIDE DEF fs
<1>3. Pipe' = Pipe \o fs
  BY <1>1, <1>2, Writes DEF fs, IInv, EndInv
<1>4. /\ Pipe \in Seq(Frames) /\ Bytes(Pipe, "MSG") \in Int /\ Bytes(Pipe, "WINDOW_UPDATE") \in Int
  BY AccountInts DEF IInv
<1>5. /\ Bytes(Pipe', "MSG") = Bytes(Pipe, "MSG") + First(q, k)
      /\ Bytes(Pipe', "WINDOW_UPDATE") = Bytes(Pipe, "WINDOW_UPDATE") + 0
  <2>1. ASSUME NEW kind PROVE Bytes(Pipe \o fs, kind) = Bytes(Pipe, kind) + Bytes(fs, kind)
    BY <1>2, <1>4, FrameLengths, BytesConcat
  <2> QED
    BY <1>2, <1>3, <2>1
<1> QED
  BY <1>1, <1>2, <1>4, <1>5

LEMMA AccountsSend ==
  ASSUME IInv, Accounts, NEW n \in Sizes, send(n)
  PROVE  Accounts'
<1>1. ~finished
  BY SMTT(20) DEF send
<1>2. CASE outboundBytes > SendBuffer
  BY <1>2 DEF send, terminate, IInv, TypeOK, Accounts
<1>3. CASE outboundBytes <= SendBuffer
  <2> DEFINE q == Append(outbound, Frame("MSG", n, 0, End(outbound)))
  <2>1. /\ pump(q, outboundBytes + n, sendWindow)
        /\ UNCHANGED <<conn, s2c, finished, bufferedBytes, pendingCredit, peerVars>>
    BY <1>3 DEF send, IInv, TypeOK
  <2>2. sendWindow \in Int
    BY DEF IInv, TypeOK
  <2>3. q \in Seq(Payloads) /\ Run(q)
    BY Enqueued
  <2> HIDE DEF q
  <2>4. /\ sendWindow' + Bytes(Pipe', "MSG") = sendWindow + Bytes(Pipe, "MSG")
        /\ Bytes(Pipe', "WINDOW_UPDATE") = Bytes(Pipe, "WINDOW_UPDATE")
    BY <1>1, <2>1, <2>2, <2>3, PumpCredit
  <2> QED
    BY SMTT(20), <2>1, <2>4 DEF Accounts
<1> QED
  BY <1>2, <1>3 DEF send

LEMMA AccountsCloseSend ==
  ASSUME IInv, Accounts, closeSend
  PROVE  Accounts'
<1> DEFINE f == Control("HALF_CLOSE")
<1>1. /\ ~finished /\ writeFrames(<<f>>)
      /\ UNCHANGED <<conn, s2c, sendWindow, finished, bufferedBytes, pendingCredit, peerVars>>
  BY DEF closeSend
<1>2. f \in Frames /\ f.kind = "HALF_CLOSE" /\ <<f>> \in Seq(Frames)
  BY Frames0 DEF Control, Kinds
<1> HIDE DEF f
<1>3. Pipe' = Pipe \o <<f>>
  BY <1>1, <1>2, Writes DEF IInv, EndInv
<1>4. ASSUME NEW kind \in {"MSG", "WINDOW_UPDATE"} PROVE Bytes(Pipe', kind) = Bytes(Pipe, kind)
  <2>1. Pipe \in Seq(Frames) /\ Bytes(Pipe, kind) \in Int
    BY AccountInts DEF IInv
  <2>2. Bytes(Pipe', kind) = Bytes(Pipe, kind) + (IF f.kind = kind THEN f.n ELSE 0)
    BY <1>2, <1>3, <2>1, FrameLengths, BytesAppend
  <2> QED
    BY <1>2, <2>1, <2>2
<1> QED
  BY <1>1, <1>4 DEF Accounts

\* Credit that arrives is spent from the same window.
LEMMA AccountsRouteWindowUpdate ==
  ASSUME IInv, Accounts, routeWindowUpdate
  PROVE  Accounts'
<1> DEFINE n == Head(s2c).n
<1>1. /\ ~finished /\ s2c' = Tail(s2c) /\ creditSend(n)
      /\ UNCHANGED <<conn, finished, bufferedBytes, pendingCredit, peerVars>>
  BY DEF routeWindowUpdate, Detached
<1>2. s2c # <<>> /\ Head(s2c).kind = "WINDOW_UPDATE" /\ n \in Nat /\ s2c \in Seq(Frames)
  BY HeadFrame, PayloadTypes DEF routeWindowUpdate, Kinds, IInv, TypeOK
<1>3. /\ Bytes(s2c, "WINDOW_UPDATE") = n + Bytes(s2c', "WINDOW_UPDATE")
      /\ Bytes(s2c, "MSG") = 0 + Bytes(s2c', "MSG")
  <2>1. ASSUME NEW kind
        PROVE  Bytes(s2c, kind) = (IF Head(s2c).kind = kind THEN n ELSE 0) + Bytes(s2c', kind)
    BY <1>1, <1>2, FrameLengths, BytesHead
  <2> QED
    BY SMTT(20), <1>2, <2>1
<1>4. Bytes(s2c', "WINDOW_UPDATE") \in Int /\ Bytes(s2c', "MSG") \in Int
  <2>1. s2c' \in Seq(Frames)
    BY <1>1, <1>2
  <2> QED
    BY <2>1, FrameLengths, BytesInt
<1> HIDE DEF n
<1>5. /\ outbound \in Seq(Payloads) /\ Run(outbound) /\ sendWindow + n \in Int /\ sendWindow \in Int
  BY <1>2 DEF IInv, TypeOK, OutInv
<1>6. /\ sendWindow' + Bytes(Pipe', "MSG") = (sendWindow + n) + Bytes(Pipe, "MSG")
      /\ Bytes(Pipe', "WINDOW_UPDATE") = Bytes(Pipe, "WINDOW_UPDATE")
  BY <1>1, <1>5, PumpCredit DEF creditSend
<1>7. Bytes(Pipe, "MSG") \in Int /\ pPending \in Int /\ Window \in Int
  BY AccountInts DEF IInv
<1> SUFFICES ASSUME ~pEnded
             PROVE  /\ sendWindow' + Bytes(Pipe', "MSG") + pPending + Bytes(s2c', "WINDOW_UPDATE") = Window
                    /\ pWindow + Bytes(s2c', "MSG") + bufferedBytes + pendingCredit
                          + Bytes(Pipe', "WINDOW_UPDATE") = Window
  BY <1>1 DEF Accounts
<1>8. /\ sendWindow + Bytes(Pipe, "MSG") + pPending + Bytes(s2c, "WINDOW_UPDATE") = Window
      /\ pWindow + Bytes(s2c, "MSG") + bufferedBytes + pendingCredit
           + Bytes(Pipe, "WINDOW_UPDATE") = Window
  BY <1>1 DEF Accounts
<1>9. Bytes(s2c, "MSG") = Bytes(s2c', "MSG")
  BY <1>3, <1>4
<1>10. pWindow + Bytes(s2c', "MSG") + bufferedBytes + pendingCredit
         + Bytes(Pipe', "WINDOW_UPDATE") = Window
  BY <1>6, <1>8, <1>9
<1>11. ASSUME NEW w \in Int, NEW p \in Int, NEW g \in Int, NEW r \in Int, NEW m \in Int,
              w + p + g + (m + r) = Window
       PROVE  ((w + m) + p) + g + r = Window
  BY <1>11
<1>12. n \in Int
  BY <1>2
<1>13. sendWindow + Bytes(Pipe, "MSG") + pPending + (n + Bytes(s2c', "WINDOW_UPDATE")) = Window
  BY <1>3, <1>8
<1>14. ((sendWindow + n) + Bytes(Pipe, "MSG")) + pPending + Bytes(s2c', "WINDOW_UPDATE") = Window
  BY <1>4, <1>5, <1>7, <1>11, <1>12, <1>13
<1> QED
  BY SMTT(20), <1>6, <1>10, <1>14

\* A message that arrives moves from the socket to the queue.
LEMMA AccountsRouteMsg ==
  ASSUME IInv, Accounts, routeMsg
  PROVE  Accounts'
<1> DEFINE n == Head(s2c).n
<1>1. /\ s2c' = Tail(s2c) /\ bufferedBytes' = bufferedBytes + n
      /\ UNCHANGED <<conn, sendBuffer, c2s, sendWindow, finished, pendingCredit, peerVars>>
  BY SMTT(20) DEF routeMsg, push
<1>2. s2c # <<>> /\ Head(s2c).kind = "MSG" /\ n \in Nat /\ s2c \in Seq(Frames)
  BY SMTT(20), HeadFrame, PayloadTypes DEF routeMsg, Kinds, IInv, TypeOK
<1>3. /\ Bytes(s2c, "MSG") = n + Bytes(s2c', "MSG")
      /\ Bytes(s2c, "WINDOW_UPDATE") = 0 + Bytes(s2c', "WINDOW_UPDATE")
  <2>1. ASSUME NEW kind
        PROVE  Bytes(s2c, kind) = (IF Head(s2c).kind = kind THEN n ELSE 0) + Bytes(s2c', kind)
    BY <1>1, <1>2, FrameLengths, BytesHead
  <2> QED
    BY SMTT(20), <1>2, <2>1
<1>4. Bytes(s2c', "WINDOW_UPDATE") \in Int /\ Bytes(s2c', "MSG") \in Int
  <2>1. s2c' \in Seq(Frames)
    BY <1>1, <1>2
  <2> QED
    BY <2>1, FrameLengths, BytesInt
<1> HIDE DEF n
<1>5. /\ pWindow \in Int /\ bufferedBytes \in Int /\ pendingCredit \in Int /\ n \in Int
      /\ Bytes(Pipe, "WINDOW_UPDATE") \in Int
  BY <1>2, AccountInts DEF IInv
<1>6. Pipe' = Pipe
  BY <1>1 DEF Pipe
<1> SUFFICES ASSUME ~finished, ~pEnded
             PROVE  /\ sendWindow + Bytes(Pipe, "MSG") + pPending + Bytes(s2c', "WINDOW_UPDATE") = Window
                    /\ pWindow + Bytes(s2c', "MSG") + (bufferedBytes + n) + pendingCredit
                          + Bytes(Pipe, "WINDOW_UPDATE") = Window
  BY <1>1, <1>6 DEF Accounts
<1>7. /\ sendWindow + Bytes(Pipe, "MSG") + pPending + Bytes(s2c, "WINDOW_UPDATE") = Window
      /\ pWindow + (n + Bytes(s2c', "MSG")) + bufferedBytes + pendingCredit
           + Bytes(Pipe, "WINDOW_UPDATE") = Window
  BY <1>3 DEF Accounts
<1>8. Bytes(s2c, "WINDOW_UPDATE") = Bytes(s2c', "WINDOW_UPDATE")
  BY <1>3, <1>4
<1>9. ASSUME NEW w \in Int, NEW m \in Int, NEW r \in Int, NEW b \in Int, NEW c \in Int, NEW u \in Int,
             w + (m + r) + b + c + u = Window
      PROVE  w + r + (b + m) + c + u = Window
  BY <1>9
<1> QED
  BY <1>4, <1>5, <1>7, <1>8, <1>9

\* A message consumed becomes credit: pending, or in a WINDOW_UPDATE.
LEMMA AccountsRecvContinue ==
  ASSUME IInv, Accounts, recvContinue
  PROVE  Accounts'
<1> DEFINE n == Head(resolved).n
<1>1. /\ resolved # <<>> /\ bufferedBytes' = bufferedBytes - n /\ returnCredit(n)
      /\ UNCHANGED <<conn, s2c, sendWindow, finished, peerVars>>
  BY DEF recvContinue
<1>2. n \in Nat
  <2>1. Head(resolved) \in Payloads
    BY SMTT(20), <1>1, AtMostOne DEF IInv, TypeOK
  <2> QED
    BY <2>1, PayloadTypes
<1> HIDE DEF n
<1>3. /\ sendWindow \in Int /\ pPending \in Int /\ pWindow \in Int /\ bufferedBytes \in Int
      /\ pendingCredit \in Nat /\ Pipe \in Seq(Frames) /\ Bytes(s2c, "MSG") \in Int
      /\ Bytes(Pipe, "MSG") \in Int /\ Bytes(Pipe, "WINDOW_UPDATE") \in Int
  BY AccountInts DEF IInv, TypeOK
<1>4. CASE finished
  BY <1>1, <1>4 DEF Accounts
<1>5. CASE ~finished
  <2> SUFFICES ASSUME ~pEnded
               PROVE  /\ sendWindow + Bytes(Pipe', "MSG") + pPending + Bytes(s2c, "WINDOW_UPDATE") = Window
                      /\ pWindow + Bytes(s2c, "MSG") + (bufferedBytes - n) + pendingCredit'
                            + Bytes(Pipe', "WINDOW_UPDATE") = Window
    BY <1>1 DEF Accounts
  <2>1. /\ sendWindow + Bytes(Pipe, "MSG") + pPending + Bytes(s2c, "WINDOW_UPDATE") = Window
        /\ pWindow + Bytes(s2c, "MSG") + bufferedBytes + pendingCredit
             + Bytes(Pipe, "WINDOW_UPDATE") = Window
    BY <1>5 DEF Accounts
  <2>2. CASE /\ pendingCredit' = pendingCredit + n
             /\ writeFrames(<<>>)
    <3>1. Pipe' = Pipe \o <<>>
      <4>1. <<>> \in Seq(Frames) /\ TypeOK /\ EndInv
        BY DEF IInv
      <4> QED
        BY <1>1, <2>2, <4>1, Writes
    <3>2. Pipe' = Pipe
      BY <1>3, <3>1
    <3>3. ASSUME NEW w \in Int, NEW s \in Int, NEW b \in Int, NEW c \in Int, NEW u \in Int, NEW m \in Int,
                 w + s + b + c + u = Window
          PROVE  w + s + (b - m) + (c + m) + u = Window
      BY <3>3
    <3>4. n \in Int /\ pendingCredit \in Int
      BY <1>2, <1>3
    <3>5. pWindow + Bytes(s2c, "MSG") + (bufferedBytes - n) + (pendingCredit + n)
            + Bytes(Pipe, "WINDOW_UPDATE") = Window
      BY <1>3, <2>1, <3>3, <3>4
    <3> QED
      BY <2>1, <2>2, <3>2, <3>5
  <2>3. CASE /\ pendingCredit' = 0
             /\ writeFrames(<<Frame("WINDOW_UPDATE", pendingCredit + n, 0, Returned)>>)
    <3> DEFINE f == Frame("WINDOW_UPDATE", pendingCredit + n, 0, Returned)
    <3>1. Returned \in Nat
      <4>1. End(delivered) \in Nat /\ pendingCredit <= End(delivered)
        BY EndNat DEF IInv, TypeOK, CreditInv
      <4> QED
        BY SMTT(20), <1>3, <4>1 DEF Returned
    <3>2. f \in Frames /\ f.kind = "WINDOW_UPDATE" /\ f.n = pendingCredit + n
      <4>1. pendingCredit + n \in Nat /\ 0 \in Nat /\ "WINDOW_UPDATE" \in Kinds
        BY <1>2, <1>3 DEF Kinds
      <4> QED
        BY <3>1, <4>1, Frames0
    <3> HIDE DEF f
    <3>3. Pipe' = Pipe \o <<f>>
      <4>1. <<f>> \in Seq(Frames) /\ writeFrames(<<f>>) /\ conn # "dead"
        BY <1>5, <2>3, <3>2 DEF f, IInv, EndInv
      <4> QED
        BY <1>1, <4>1, Writes DEF IInv
    <3>4. ASSUME NEW kind
          PROVE  Bytes(Pipe', kind) = Bytes(Pipe, kind) + (IF f.kind = kind THEN f.n ELSE 0)
      BY <1>3, <3>2, <3>3, FrameLengths, BytesAppend
    <3>5. /\ Bytes(Pipe', "MSG") = Bytes(Pipe, "MSG")
          /\ Bytes(Pipe', "WINDOW_UPDATE") = Bytes(Pipe, "WINDOW_UPDATE") + (pendingCredit + n)
      BY <1>3, <3>2, <3>4
    <3>6. ASSUME NEW w \in Int, NEW s \in Int, NEW b \in Int, NEW c \in Int, NEW u \in Int, NEW m \in Int,
                 w + s + b + c + u = Window
          PROVE  w + s + (b - m) + 0 + (u + (c + m)) = Window
      BY <3>6
    <3>7. n \in Int /\ pendingCredit \in Int
      BY <1>2, <1>3
    <3>8. pWindow + Bytes(s2c, "MSG") + (bufferedBytes - n) + 0
            + (Bytes(Pipe, "WINDOW_UPDATE") + (pendingCredit + n)) = Window
      BY SMTT(20), <1>3, <2>1, <3>6, <3>7
    <3> QED
      BY <2>1, <2>3, <3>5, <3>8
  <2>4. n = 0 => pendingCredit = pendingCredit + n
    BY <1>3
  <2> QED
    BY <1>1, <1>5, <2>2, <2>3, <2>4 DEF returnCredit, noCredit
<1> QED
  BY SMTT(20), <1>4, <1>5

\* The server reads a frame: a message becomes credit, pending or returned, and
\* credit its window.
LEMMA AccountsPeerRead ==
  ASSUME IInv, Accounts, peerRead
  PROVE  Accounts'
<1> DEFINE f == Head(c2s)
           due == pPending + f.n
           g == Frame("WINDOW_UPDATE", due, Len(pSent), 0)
<1>1. /\ c2s # <<>> /\ c2s' = Tail(c2s) /\ pEnded' = (pEnded \/ f.kind = "RST")
      /\ pWindow' = IF f.kind = "WINDOW_UPDATE" THEN pWindow + f.n ELSE pWindow
      /\ UNCHANGED <<conn, sendWindow, finished, bufferedBytes, pendingCredit>>
  BY DEF peerRead
<1>2. \/ f.kind # "MSG" /\ UNCHANGED <<pPending, s2c>>
      \/ f.kind = "MSG" /\ pPending' = due /\ UNCHANGED s2c
      \/ f.kind = "MSG" /\ pPending' = 0 /\ s2c' = Append(s2c, g)
  BY DEF peerRead
<1>3. c2s \in Seq(Frames) /\ f \in Frames /\ Tail(c2s) \in Seq(Frames)
  BY SMTT(20), <1>1 DEF IInv, TypeOK
<1>4. /\ sendWindow \in Int /\ pPending \in Nat /\ pWindow \in Int /\ bufferedBytes \in Int
      /\ pendingCredit \in Int /\ s2c \in Seq(Frames) /\ Len(pSent) \in Nat
      /\ Bytes(s2c, "MSG") \in Int /\ Bytes(s2c, "WINDOW_UPDATE") \in Int
  BY AccountInts DEF IInv, TypeOK
<1>5. g \in Frames /\ g.kind = "WINDOW_UPDATE" /\ g.n = due /\ f.n \in Nat
  <2>1. f.n \in Nat
    BY <1>3, PayloadTypes
  <2> HIDE DEF f
  <2>2. due \in Nat /\ Len(pSent) \in Nat /\ 0 \in Nat /\ "WINDOW_UPDATE" \in Kinds
    BY <1>4, <2>1 DEF Kinds
  <2> HIDE DEF due
  <2> QED
    BY SMTT(20), <2>1, <2>2, Frames0
<1>6. Pipe = c2s /\ Pipe' = Tail(c2s)
  BY <1>1 DEF IInv, EndInv, Pipe
<1> HIDE DEF f, g
<1>7. ASSUME NEW kind
      PROVE  /\ Bytes(Pipe, kind) = (IF f.kind = kind THEN f.n ELSE 0) + Bytes(Pipe', kind)
             /\ Bytes(Pipe', kind) \in Int
  BY <1>1, <1>3, <1>6, FrameLengths, BytesHead, BytesInt DEF f
<1> SUFFICES ASSUME ~finished, ~pEnded, f.kind # "RST"
             PROVE  /\ sendWindow + Bytes(Pipe', "MSG") + pPending' + Bytes(s2c', "WINDOW_UPDATE") = Window
                    /\ pWindow' + Bytes(s2c', "MSG") + bufferedBytes + pendingCredit
                          + Bytes(Pipe', "WINDOW_UPDATE") = Window
  BY <1>1 DEF Accounts
<1>8. /\ sendWindow + Bytes(Pipe, "MSG") + pPending + Bytes(s2c, "WINDOW_UPDATE") = Window
      /\ pWindow + Bytes(s2c, "MSG") + bufferedBytes + pendingCredit
           + Bytes(Pipe, "WINDOW_UPDATE") = Window
  BY DEF Accounts
<1>9. /\ Bytes(Pipe', "MSG") \in Int /\ Bytes(Pipe', "WINDOW_UPDATE") \in Int
  BY <1>7
<1>10. CASE f.kind = "MSG"
  <2>1. Bytes(Pipe, "MSG") = f.n + Bytes(Pipe', "MSG")
        /\ Bytes(Pipe, "WINDOW_UPDATE") = Bytes(Pipe', "WINDOW_UPDATE")
    <3>1. Bytes(Pipe, "WINDOW_UPDATE") = 0 + Bytes(Pipe', "WINDOW_UPDATE")
      BY <1>7, <1>10
    <3> QED
      BY <1>7, <1>9, <1>10, <3>1
  <2>2. pWindow' = pWindow
    BY <1>1, <1>10
  <2>3. sendWindow + (f.n + Bytes(Pipe', "MSG")) + pPending + Bytes(s2c, "WINDOW_UPDATE") = Window
    BY <1>8, <2>1
  <2>4. ASSUME NEW w \in Int, NEW m \in Int, NEW r \in Int, NEW p \in Int, NEW u \in Int,
               w + (m + r) + p + u = Window
        PROVE  w + r + (p + m) + u = Window /\ w + r + 0 + (u + (p + m)) = Window
    BY <2>4
  <2>5. f.n \in Int /\ pPending \in Int
    BY <1>4, <1>5
  <2>6. /\ sendWindow + Bytes(Pipe', "MSG") + due + Bytes(s2c, "WINDOW_UPDATE") = Window
        /\ sendWindow + Bytes(Pipe', "MSG") + 0 + (Bytes(s2c, "WINDOW_UPDATE") + due) = Window
    BY SMTT(20), <1>4, <1>9, <2>3, <2>4, <2>5
  <2> HIDE DEF due
  <2>7. CASE pPending' = due /\ UNCHANGED s2c
    BY <1>8, <2>1, <2>2, <2>6, <2>7
  <2>8. CASE pPending' = 0 /\ s2c' = Append(s2c, g)
    <3>1. ASSUME NEW kind
          PROVE  Bytes(s2c', kind) = Bytes(s2c, kind) + (IF g.kind = kind THEN g.n ELSE 0)
      <4>1. s2c \in Seq(Frames) /\ g \in Frames /\ s2c' = Append(s2c, g)
        BY <1>4, <1>5, <2>8
      <4>2. /\ Bytes(s2c \o <<g>>, kind) = Bytes(s2c, kind) + (IF g.kind = kind THEN g.n ELSE 0)
            /\ Append(s2c, g) = s2c \o <<g>>
        BY <4>1, FrameLengths, BytesAppend
      <4> QED
        BY <4>1, <4>2
    <3>2. Bytes(s2c', "WINDOW_UPDATE") = Bytes(s2c, "WINDOW_UPDATE") + due
      BY <1>5, <3>1
    <3>3. Bytes(s2c', "MSG") = Bytes(s2c, "MSG")
      BY <1>4, <1>5, <3>1
    <3> QED
      BY <1>8, <2>1, <2>2, <2>6, <2>8, <3>2, <3>3
  <2> QED
    BY <1>2, <1>10, <2>7, <2>8
<1>11. CASE f.kind = "WINDOW_UPDATE"
  <2>1. /\ pPending' = pPending /\ s2c' = s2c /\ pWindow' = pWindow + f.n
    BY <1>1, <1>2, <1>11
  <2>2. /\ Bytes(Pipe, "WINDOW_UPDATE") = f.n + Bytes(Pipe', "WINDOW_UPDATE")
        /\ Bytes(Pipe, "MSG") = Bytes(Pipe', "MSG")
    <3>1. Bytes(Pipe, "MSG") = 0 + Bytes(Pipe', "MSG")
      BY <1>7, <1>11
    <3> QED
      BY <1>7, <1>9, <1>11, <3>1
  <2>3. PICK m \in Int : m = f.n
    BY <1>5
  <2>4. pWindow + Bytes(s2c, "MSG") + bufferedBytes + pendingCredit
          + (m + Bytes(Pipe', "WINDOW_UPDATE")) = Window
    BY <1>8, <2>2, <2>3
  <2>5. (pWindow + m) + Bytes(s2c, "MSG") + bufferedBytes + pendingCredit
          + Bytes(Pipe', "WINDOW_UPDATE") = Window
    BY SMTT(20), <1>4, <1>9, <2>4
  <2> QED
    BY <1>8, <2>1, <2>2, <2>3, <2>5
<1>12. CASE f.kind \notin {"MSG", "WINDOW_UPDATE"}
  <2>1. /\ pPending' = pPending /\ s2c' = s2c /\ pWindow' = pWindow
    BY <1>1, <1>2, <1>12
  <2>2. /\ Bytes(Pipe, "WINDOW_UPDATE") = 0 + Bytes(Pipe', "WINDOW_UPDATE")
        /\ Bytes(Pipe, "MSG") = 0 + Bytes(Pipe', "MSG")
    BY <1>7, <1>12
  <2>3. /\ Bytes(Pipe, "WINDOW_UPDATE") = Bytes(Pipe', "WINDOW_UPDATE")
        /\ Bytes(Pipe, "MSG") = Bytes(Pipe', "MSG")
    BY <1>9, <2>2
  <2> QED
    BY <1>8, <2>1, <2>3
<1> QED
  BY <1>10, <1>11, <1>12

LEMMA AccountsPeerSend ==
  ASSUME IInv, Accounts, NEW n \in Sizes, peerSend(n)
  PROVE  Accounts'
<1> DEFINE f == Frame("MSG", n, Len(pSent), End(pSent))
<1>1. /\ pWindow' = pWindow - n /\ s2c' = Append(s2c, f)
      /\ UNCHANGED <<conn, sendBuffer, c2s, sendWindow, finished, bufferedBytes, pendingCredit,
                     pPending, pEnded>>
  BY DEF peerSend
<1>2. f \in Frames /\ f.kind = "MSG" /\ f.n = n /\ n \in Int
  <2>1. Len(pSent) \in Nat /\ End(pSent) \in Nat /\ n \in Nat /\ "MSG" \in Kinds
    BY EndNat DEF IInv, TypeOK, Kinds
  <2> QED
    BY SMTT(20), <2>1, Frames0
<1> HIDE DEF f
<1>3. /\ pWindow \in Int /\ bufferedBytes \in Int /\ pendingCredit \in Int /\ s2c \in Seq(Frames)
      /\ Bytes(s2c, "MSG") \in Int /\ Bytes(s2c, "WINDOW_UPDATE") \in Int
      /\ Bytes(Pipe, "WINDOW_UPDATE") \in Int
  BY AccountInts DEF IInv
<1>4. ASSUME NEW kind
      PROVE  Bytes(s2c', kind) = Bytes(s2c, kind) + (IF f.kind = kind THEN f.n ELSE 0)
  <2>1. s2c \in Seq(Frames) /\ f \in Frames /\ s2c' = Append(s2c, f)
    BY SMTT(20), <1>1, <1>2, <1>3
  <2>2. /\ Bytes(s2c \o <<f>>, kind) = Bytes(s2c, kind) + (IF f.kind = kind THEN f.n ELSE 0)
        /\ Append(s2c, f) = s2c \o <<f>>
    BY SMTT(20), <2>1, FrameLengths, BytesAppend
  <2> QED
    BY <2>1, <2>2
<1>5. /\ Bytes(s2c', "MSG") = Bytes(s2c, "MSG") + n
      /\ Bytes(s2c', "WINDOW_UPDATE") = Bytes(s2c, "WINDOW_UPDATE")
  BY <1>2, <1>3, <1>4
<1>6. Pipe' = Pipe
  BY <1>1 DEF Pipe
<1>7. ASSUME NEW w \in Int, NEW s \in Int, NEW b \in Int, NEW c \in Int, NEW u \in Int, NEW m \in Int,
             w + s + b + c + u = Window
      PROVE  (w - m) + (s + m) + b + c + u = Window
  BY <1>7
<1>8. ASSUME pWindow + Bytes(s2c, "MSG") + bufferedBytes + pendingCredit
               + Bytes(Pipe, "WINDOW_UPDATE") = Window
      PROVE  (pWindow - n) + (Bytes(s2c, "MSG") + n) + bufferedBytes + pendingCredit
               + Bytes(Pipe, "WINDOW_UPDATE") = Window
  BY <1>2, <1>3, <1>7, <1>8
<1> QED
  BY SMTT(20), <1>1, <1>5, <1>6, <1>8 DEF Accounts

LEMMA AccountsNext ==
  ASSUME IInv, Accounts, [Next]_vars
  PROVE  Accounts'
<1>1. CASE onopen
  <2>1. Pipe' = Pipe
    BY SMTT(20), <1>1 DEF onopen, IInv, TypeOK, Pipe
  <2> QED
    BY SMTT(20), <1>1, <2>1, AccountsKeep DEF onopen
<1>2. CASE onTransportDrop \/ routeOverflow \/ routeEnd \/ cancel \/ abort \/ full
  BY <1>2 DEF onTransportDrop, routeOverflow, routeEnd, cancel, abort, terminate, full, sendFull,
     closeSendFull, terminateFull, writeFull, Accounts
<1>3. CASE routeDetached
  BY <1>3 DEF routeDetached, Detached, Accounts
<1>4. CASE routeMsg
  BY <1>4, AccountsRouteMsg
<1>5. CASE routeWindowUpdate
  BY <1>5, AccountsRouteWindowUpdate
<1>6. CASE \E n \in Sizes : send(n)
  BY <1>6, AccountsSend
<1>7. CASE \E n \in Sizes : peerSend(n)
  BY <1>7, AccountsPeerSend
<1>8. CASE closeSend
  BY <1>8, AccountsCloseSend
<1>9. CASE recv
  <2>1. Pipe' = Pipe
    BY <1>9 DEF recv, Pipe
  <2> QED
    BY <1>9, <2>1, AccountsKeep DEF recv
<1>10. CASE recvContinue
  BY <1>10, AccountsRecvContinue
<1>11. CASE peerRead
  BY <1>11, AccountsPeerRead
<1>12. CASE \E status \in {0, 1} : peerEnd(status)
  BY <1>12 DEF peerEnd, Accounts
<1>13. CASE UNCHANGED vars
  <2>1. Pipe' = Pipe
    BY <1>13 DEF vars, Pipe
  <2> QED
    BY <1>13, <2>1, AccountsKeep DEF vars
<1> QED
  BY SMTT(20), <1>1, <1>2, <1>3, <1>4, <1>5, <1>6, <1>7, <1>8, <1>9, <1>10, <1>11, <1>12, <1>13 DEF Next, socket

\* StreamImpl neither loses nor invents a byte of either window: while both ends
\* hold the stream, what the pump spent is in a frame, in the server's pending
\* credit or on its way back, and what the server spent is in a frame, in the
\* queue, in recv()'s pending credit or on its way back.
THEOREM CreditIsConserved == Spec => []CreditConserved
<1>1. Init => Accounts
  <2> SUFFICES ASSUME Init PROVE Accounts
    OBVIOUS
  <2>1. Pipe = <<>> /\ s2c = <<>>
    BY DEF Init, Pipe
  <2>2. Bytes(<<>>, "MSG") = 0 /\ Bytes(<<>>, "WINDOW_UPDATE") = 0
    BY BytesNone
  <2> QED
    BY <2>1, <2>2 DEF Init, Accounts
<1>2. IInv /\ Accounts => CreditConserved
  <2> SUFFICES ASSUME IInv, Accounts PROVE CreditConserved
    OBVIOUS
  <2>1. sendBuffer \o c2s = Pipe
    <3>1. sendBuffer \in Seq(Frames) /\ c2s \in Seq(Frames)
      BY DEF IInv, TypeOK
    <3>2. CASE conn = "handshake"
      BY <3>1, <3>2 DEF IInv, EndInv, Pipe
    <3>3. CASE conn # "handshake"
      BY <3>1, <3>3 DEF IInv, EndInv, Pipe
    <3> QED
      BY <3>2, <3>3
  <2> QED
    BY <2>1 DEF Accounts, CreditConserved
<1>3. IInv /\ Accounts /\ [Next]_vars => Accounts'
  BY AccountsNext
<1> QED
  BY <1>1, <1>2, <1>3, Invariance, PTL DEF Spec

=============================================================================
