----------------------------- MODULE SumProofs ------------------------------
(***************************************************************************)
(* What the sum of a sequence is, for every sequence of integers.  The     *)
(* induction is over a set of naturals: the provers have no use for an     *)
(* induction principle over a predicate, but a set that is closed under    *)
(* successor can be compared with Nat.                                     *)
(***************************************************************************)
EXTENDS Sums, WellFoundedInduction, TLAPS

\* The least-number principle.
LEMMA Least ==
  ASSUME NEW T \in SUBSET Nat, T # {}
  PROVE  \E x \in T : \A y \in T : x <= y
<1> DEFINE R == {p \in Nat \X Nat : p[1] < p[2]}
<1>1. IsWellFoundedOn(R, Nat)
  BY NatLessThanWellFounded DEF OpToRel
<1> HIDE DEF R
<1>2. PICK x \in T : \A y \in T : ~ (<<y, x>> \in R)
  BY <1>1, WFMin
<1>3. ASSUME NEW y \in T PROVE x <= y
  <2>1. x \in Nat /\ y \in Nat
    OBVIOUS
  <2>2. <<y, x>> \in Nat \X Nat /\ <<y, x>>[1] = y /\ <<y, x>>[2] = x
    BY <2>1
  <2>3. ~(y < x)
    BY <1>2, <2>2 DEF R
  <2> QED
    BY <2>1, <2>3
<1> QED
  BY <1>3

LEMMA SetInduction ==
  ASSUME NEW S \in SUBSET Nat, 0 \in S, \A n \in S : n + 1 \in S
  PROVE  S = Nat
<1>1. SUFFICES ASSUME Nat \ S # {} PROVE FALSE
  OBVIOUS
<1>2. PICK x \in Nat \ S : \A y \in Nat \ S : x <= y
  BY <1>1, Least
<1>3. x - 1 \in S
  BY <1>2
<1> QED
  BY <1>2, <1>3

-----------------------------------------------------------------------------

\* f holds the sums of the first 0, 1 .. n elements of s.
Partial(f, s, n) == f = [i \in 0..n |-> IF i = 0 THEN 0 ELSE f[i - 1] + s[i]]

\* The recursion in Sum defines a function.
LEMMA PartialExists ==
  ASSUME NEW s, NEW m \in Nat
  PROVE  \E f : Partial(f, s, m)
<1> DEFINE S == {n \in Nat : \E f : Partial(f, s, n)}
<1>1. 0 \in S
  <2> DEFINE f == [i \in 0..0 |-> 0]
  <2>1. Partial(f, s, 0)
    BY DEF Partial
  <2> QED
    BY <2>1
<1>2. ASSUME NEW n \in S PROVE n + 1 \in S
  <2>1. n \in Nat
    OBVIOUS
  <2>2. PICK f : Partial(f, s, n)
    OBVIOUS
  <2> DEFINE g == [i \in 0..(n + 1) |-> IF i = 0 THEN 0 ELSE f[i - 1] + s[i]]
  <2> HIDE DEF S
  <2>3. \A i \in 0..n : f[i] = IF i = 0 THEN 0 ELSE f[i - 1] + s[i]
    BY <2>2, Zenon DEF Partial
  <2>4. \A i \in 0..n : g[i] = f[i]
    BY <2>1, <2>3
  <2> HIDE DEF g
  <2>5. ASSUME NEW i \in 0..(n + 1), i # 0 PROVE f[i - 1] = g[i - 1]
    <3>1. i - 1 \in 0..n
      BY <2>1, <2>5
    <3> QED
      BY <2>4, <3>1
  <2>6. g = [i \in 0..(n + 1) |-> IF i = 0 THEN 0 ELSE g[i - 1] + s[i]]
    BY <2>5 DEF g
  <2>7. Partial(g, s, n + 1)
    BY <2>6, Zenon DEF Partial
  <2> QED
    BY <2>1, <2>7 DEF S
<1>3. S = Nat
  <2> S \in SUBSET Nat
    OBVIOUS
  <2> HIDE DEF S
  <2> QED
    BY <1>1, <1>2, SetInduction
<1> QED
  BY <1>3

\* A sum over a chain of offsets, each at the end of the one before it, is the
\* distance from the first to the last.
LEMMA Telescopes ==
  ASSUME NEW s \in Seq(Int), NEW o,
         \A i \in 1..(Len(s) + 1) : o[i] \in Int,
         \A i \in 1..Len(s) : o[i + 1] = o[i] + s[i]
  PROVE  Sum(s) = o[Len(s) + 1] - o[1]
<1> DEFINE f == CHOOSE g : g = [i \in 0..Len(s) |-> IF i = 0 THEN 0 ELSE g[i - 1] + s[i]]
<1>1. Sum(s) = f[Len(s)]
  BY DEF Sum
<1>2. Partial(f, s, Len(s))
  <2>1. Len(s) \in Nat
    OBVIOUS
  <2>2. \E g : Partial(g, s, Len(s))
    BY <2>1, PartialExists
  <2>3. \E g : g = [i \in 0..Len(s) |-> IF i = 0 THEN 0 ELSE g[i - 1] + s[i]]
    BY <2>2, Zenon DEF Partial
  <2>4. f = [i \in 0..Len(s) |-> IF i = 0 THEN 0 ELSE f[i - 1] + s[i]]
    BY <2>3, Zenon
  <2> QED
    BY <2>4, Zenon DEF Partial
<1> HIDE DEF f
<1> DEFINE S == {n \in Nat : n <= Len(s) => f[n] = o[n + 1] - o[1]}
<1>3. 0 \in S
  BY <1>2 DEF Partial
<1>4. ASSUME NEW n \in S PROVE n + 1 \in S
  <2> SUFFICES ASSUME n + 1 <= Len(s) PROVE f[n + 1] = o[n + 2] - o[1]
    OBVIOUS
  <2>1. f[n + 1] = f[n] + s[n + 1]
    BY <1>2 DEF Partial
  <2>2. f[n] = o[n + 1] - o[1] /\ o[n + 2] = o[n + 1] + s[n + 1]
    OBVIOUS
  <2>3. o[n + 1] \in Int /\ o[1] \in Int /\ s[n + 1] \in Int
    OBVIOUS
  <2> QED
    BY <2>1, <2>2, <2>3
<1>5. S = Nat
  <2> S \in SUBSET Nat
    OBVIOUS
  <2> HIDE DEF S
  <2> QED
    BY <1>3, <1>4, SetInduction
<1> QED
  BY <1>1, <1>5

\* The offsets of the elements of a sequence, the first one at 0.
LEMMA Offsets ==
  ASSUME NEW s \in Seq(Int)
  PROVE  \E o : /\ o[1] = 0 /\ o[Len(s) + 1] = Sum(s)
                /\ \A i \in 1..(Len(s) + 1) : o[i] \in Int
                /\ \A i \in 1..Len(s) : o[i + 1] = o[i] + s[i]
<1> Len(s) \in Nat
  OBVIOUS
<1>1. PICK f : Partial(f, s, Len(s))
  BY PartialExists
<1>2. \A i \in 0..Len(s) : f[i] = IF i = 0 THEN 0 ELSE f[i - 1] + s[i]
  BY <1>1, Zenon DEF Partial
<1> DEFINE S == {n \in Nat : n <= Len(s) => f[n] \in Int}
<1>3. 0 \in S
  BY <1>2
<1>4. ASSUME NEW n \in S PROVE n + 1 \in S
  <2> SUFFICES ASSUME n + 1 <= Len(s) PROVE f[n + 1] \in Int
    OBVIOUS
  <2>1. f[n + 1] = f[n] + s[n + 1] /\ f[n] \in Int /\ s[n + 1] \in Int
    BY <1>2
  <2> QED
    BY <2>1
<1>5. S = Nat
  <2> S \in SUBSET Nat
    OBVIOUS
  <2> HIDE DEF S
  <2> QED
    BY <1>3, <1>4, SetInduction
<1> DEFINE o == [i \in 1..(Len(s) + 1) |-> f[i - 1]]
<1>6. \A i \in 1..(Len(s) + 1) : o[i] \in Int
  BY <1>5
<1>7. \A i \in 1..Len(s) : o[i + 1] = o[i] + s[i]
  BY <1>2
<1>8. o[1] = 0
  BY <1>2
<1> HIDE DEF o
<1>9. Sum(s) = o[Len(s) + 1] - o[1]
  BY <1>6, <1>7, Telescopes
<1>10. o[Len(s) + 1] \in Int
  BY <1>6
<1> QED
  BY <1>6, <1>7, <1>8, <1>9, <1>10

LEMMA SumEmpty == Sum(<<>>) = 0
<1>1. <<>> \in Seq(Int) /\ Len(<<>>) = 0
  OBVIOUS
<1>2. PICK o : o[1] = 0 /\ o[Len(<<>>) + 1] = Sum(<<>>)
  BY <1>1, Offsets
<1> QED
  BY <1>1, <1>2

LEMMA SumAppend ==
  ASSUME NEW s \in Seq(Int), NEW x \in Int
  PROVE  Sum(Append(s, x)) = Sum(s) + x /\ Sum(s) \in Int
<1>1. PICK o : /\ o[1] = 0 /\ o[Len(s) + 1] = Sum(s)
               /\ \A i \in 1..(Len(s) + 1) : o[i] \in Int
               /\ \A i \in 1..Len(s) : o[i + 1] = o[i] + s[i]
  BY Offsets
<1> DEFINE t == Append(s, x)
           p == [i \in 1..(Len(s) + 2) |-> IF i = Len(s) + 2 THEN Sum(s) + x ELSE o[i]]
<1>2. t \in Seq(Int) /\ Len(t) = Len(s) + 1 /\ t[Len(s) + 1] = x
      /\ \A i \in 1..Len(s) : t[i] = s[i]
  OBVIOUS
<1>3. Sum(s) \in Int
  BY <1>1
<1>4. \A i \in 1..(Len(t) + 1) : p[i] \in Int
  BY <1>1, <1>2, <1>3
<1>5. \A i \in 1..Len(t) : p[i + 1] = p[i] + t[i]
  BY <1>1, <1>2
<1>6. p[Len(t) + 1] = Sum(s) + x /\ p[1] = 0
  BY <1>1, <1>2
<1> HIDE DEF p, t
<1>7. Sum(t) = p[Len(t) + 1] - p[1]
  BY <1>2, <1>4, <1>5, Telescopes
<1> QED
  BY <1>3, <1>6, <1>7 DEF t

LEMMA SumTail ==
  ASSUME NEW s \in Seq(Int), s # <<>>
  PROVE  Sum(s) = s[1] + Sum(Tail(s)) /\ Sum(Tail(s)) \in Int
<1>1. PICK o : /\ o[1] = 0 /\ o[Len(s) + 1] = Sum(s)
               /\ \A i \in 1..(Len(s) + 1) : o[i] \in Int
               /\ \A i \in 1..Len(s) : o[i + 1] = o[i] + s[i]
  BY Offsets
<1> DEFINE t == Tail(s)
           p == [i \in 1..Len(s) |-> o[i + 1]]
<1>2. t \in Seq(Int) /\ Len(t) = Len(s) - 1 /\ Len(s) \in Nat \ {0}
      /\ \A i \in 1..Len(t) : t[i] = s[i + 1]
  OBVIOUS
<1>3. \A i \in 1..(Len(t) + 1) : p[i] \in Int
  BY <1>1, <1>2
<1>4. \A i \in 1..Len(t) : p[i + 1] = p[i] + t[i]
  BY <1>1, <1>2
<1>5. p[Len(t) + 1] = Sum(s) /\ p[1] = s[1]
  BY <1>1, <1>2
<1> HIDE DEF p, t
<1>6. Sum(t) = p[Len(t) + 1] - p[1]
  BY <1>2, <1>3, <1>4, Telescopes
<1>7. Sum(s) \in Int /\ s[1] \in Int
  BY <1>1, <1>2
<1> QED
  BY <1>5, <1>6, <1>7 DEF t

LEMMA SumConcat ==
  ASSUME NEW s \in Seq(Int), NEW r \in Seq(Int)
  PROVE  Sum(s \o r) = Sum(s) + Sum(r) /\ Sum(s) \in Int /\ Sum(r) \in Int
<1>1. PICK o : /\ o[1] = 0 /\ o[Len(s) + 1] = Sum(s)
               /\ \A i \in 1..(Len(s) + 1) : o[i] \in Int
               /\ \A i \in 1..Len(s) : o[i + 1] = o[i] + s[i]
  BY Offsets
<1>2. PICK u : /\ u[1] = 0 /\ u[Len(r) + 1] = Sum(r)
               /\ \A i \in 1..(Len(r) + 1) : u[i] \in Int
               /\ \A i \in 1..Len(r) : u[i + 1] = u[i] + r[i]
  BY Offsets
<1> DEFINE t == s \o r
           n == Len(s)
           p == [i \in 1..(Len(t) + 1) |-> IF i <= n THEN o[i] ELSE Sum(s) + u[i - n]]
<1>3. /\ t \in Seq(Int) /\ Len(t) = n + Len(r) /\ n \in Nat /\ Len(r) \in Nat
      /\ \A i \in 1..Len(t) : t[i] = IF i <= n THEN s[i] ELSE r[i - n]
  OBVIOUS
<1>4. Sum(s) \in Int /\ Sum(r) \in Int
  BY <1>1, <1>2
<1> HIDE DEF t, n
<1>10. \A i \in 1..(Len(t) + 1) : /\ i <= n => p[i] = o[i]
                                  /\ i > n => p[i] = Sum(s) + u[i - n]
  BY <1>3
<1> HIDE DEF p
<1>5. ASSUME NEW i \in 1..(Len(t) + 1) PROVE p[i] \in Int
  <2>1. CASE i <= n
    <3>1. i \in 1..(Len(s) + 1)
      BY <1>3, <2>1 DEF n
    <3> QED
      BY <1>1, <1>10, <2>1, <3>1
  <2>2. CASE i > n
    <3>1. i - n \in 1..(Len(r) + 1)
      BY <1>3, <2>2
    <3>2. u[i - n] \in Int
      BY <1>2, <3>1
    <3> QED
      BY <1>4, <1>10, <2>2, <3>2
  <2> QED
    BY <1>3, <2>1, <2>2
<1>6. ASSUME NEW i \in 1..Len(t) PROVE p[i + 1] = p[i] + t[i]
  <2>1. CASE i < n
    <3>1. p[i] = o[i] /\ p[i + 1] = o[i + 1] /\ t[i] = s[i]
      BY <1>3, <1>10, <2>1
    <3>2. i \in 1..Len(s)
      BY <1>3, <2>1 DEF n
    <3> QED
      BY <1>1, <3>1, <3>2
  <2>2. CASE i = n
    <3>1. p[i] = o[n] /\ p[i + 1] = Sum(s) + u[1] /\ t[i] = s[n]
      BY <1>3, <1>10, <2>2
    <3>2. o[n + 1] = o[n] + s[n] /\ o[n + 1] = Sum(s)
      BY <1>1, <1>3, <2>2 DEF n
    <3> QED
      BY <1>2, <1>4, <3>1, <3>2
  <2>3. CASE i > n
    <3>1. i - n \in 1..Len(r) /\ (i + 1) - n = (i - n) + 1
      BY <1>3, <2>3
    <3>2. p[i] = Sum(s) + u[i - n] /\ p[i + 1] = Sum(s) + u[(i - n) + 1] /\ t[i] = r[i - n]
      BY <1>3, <1>10, <2>3, <3>1
    <3>3. u[(i - n) + 1] = u[i - n] + r[i - n] /\ u[i - n] \in Int /\ r[i - n] \in Int
      BY <1>2, <1>3, <3>1
    <3> QED
      BY <1>4, <3>2, <3>3
  <2> QED
    BY <1>3, <2>1, <2>2, <2>3
<1>7. p[1] = 0
  <2>1. CASE n = 0
    <3>1. p[1] = Sum(s) + u[1]
      BY <1>3, <1>10, <2>1
    <3>2. Sum(s) = 0
      BY <1>1, <2>1 DEF n
    <3> QED
      BY <1>2, <3>1, <3>2
  <2>2. CASE n # 0
    BY <1>1, <1>3, <1>10, <2>2
  <2> QED
    BY <2>1, <2>2
<1>8. p[Len(t) + 1] = Sum(s) + Sum(r)
  BY <1>2, <1>3, <1>10
<1>9. Sum(t) = p[Len(t) + 1] - p[1]
  BY <1>3, <1>5, <1>6, Telescopes
<1> QED
  BY <1>4, <1>7, <1>8, <1>9 DEF t

-----------------------------------------------------------------------------
(* Queues of frames.                                                       *)

LEMMA SameSequence ==
  ASSUME NEW S, NEW a \in Seq(S), NEW p \in Seq(S), Len(a) = Len(p),
         \A i \in 1..Len(a) : a[i] = p[i]
  PROVE  a = p
OBVIOUS

LEMMA ConcatAt ==
  ASSUME NEW S, NEW a \in Seq(S), NEW b \in Seq(S)
  PROVE  /\ a \o b \in Seq(S) /\ Len(a \o b) = Len(a) + Len(b)
         /\ Len(a) \in Nat /\ Len(b) \in Nat
         /\ \A i \in 1..(Len(a) + Len(b)) :
              (a \o b)[i] = IF i <= Len(a) THEN a[i] ELSE b[i - Len(a)]
OBVIOUS

LEMMA TailAt ==
  ASSUME NEW S, NEW q \in Seq(S), q # <<>>
  PROVE  /\ Tail(q) \in Seq(S) /\ Len(q) \in Nat \ {0} /\ Len(Tail(q)) = Len(q) - 1
         /\ Head(q) = q[1] /\ \A i \in 1..(Len(q) - 1) : Tail(q)[i] = q[i + 1]
OBVIOUS

LEMMA Counts ==
  ASSUME NEW S, \A f \in S : f.n \in Int, NEW q \in Seq(S), NEW kind
  PROVE  /\ Counted(q, kind) \in Seq(Int) /\ Len(Counted(q, kind)) = Len(q)
         /\ \A i \in 1..Len(q) :
              Counted(q, kind)[i] = IF q[i].kind = kind THEN q[i].n ELSE 0
<1>1. \A i \in 1..Len(q) : q[i].n \in Int
  OBVIOUS
<1> QED
  BY <1>1 DEF Counted

LEMMA BytesInt ==
  ASSUME NEW S, \A f \in S : f.n \in Int, NEW q \in Seq(S), NEW kind
  PROVE  Bytes(q, kind) \in Int
<1>1. Counted(q, kind) \in Seq(Int) /\ <<>> \in Seq(Int)
  BY Counts
<1> QED
  BY <1>1, SumConcat DEF Bytes

LEMMA BytesNone ==
  ASSUME NEW kind
  PROVE  Bytes(<<>>, kind) = 0
<1>1. Counted(<<>>, kind) = <<>>
  BY DEF Counted
<1> QED
  BY <1>1, SumEmpty DEF Bytes

LEMMA BytesHead ==
  ASSUME NEW S, \A f \in S : f.n \in Int, NEW q \in Seq(S), q # <<>>, NEW kind
  PROVE  Bytes(q, kind) = (IF Head(q).kind = kind THEN Head(q).n ELSE 0) + Bytes(Tail(q), kind)
<1>1. /\ Tail(q) \in Seq(S) /\ Len(q) \in Nat \ {0} /\ Len(Tail(q)) = Len(q) - 1
      /\ Head(q) = q[1] /\ \A i \in 1..(Len(q) - 1) : Tail(q)[i] = q[i + 1]
  BY TailAt
<1> DEFINE t == Tail(q)
           c == Counted(q, kind)
           d == Counted(t, kind)
<1>2. /\ c \in Seq(Int) /\ Len(c) = Len(q)
      /\ \A i \in 1..Len(q) : c[i] = IF q[i].kind = kind THEN q[i].n ELSE 0
  BY Counts
<1> HIDE DEF t, c
<1>3. /\ d \in Seq(Int) /\ Len(d) = Len(t)
      /\ \A i \in 1..Len(t) : d[i] = IF t[i].kind = kind THEN t[i].n ELSE 0
  <2>1. t \in Seq(S)
    BY <1>1 DEF t
  <2> QED
    BY <2>1, Counts
<1> HIDE DEF d
<1>4. c # <<>>
  BY <1>1, <1>2
<1>5. /\ Tail(c) \in Seq(Int) /\ Len(Tail(c)) = Len(c) - 1
      /\ \A i \in 1..(Len(c) - 1) : Tail(c)[i] = c[i + 1]
  BY <1>2, <1>4, TailAt
<1>6. ASSUME NEW i \in 1..(Len(q) - 1) PROVE Tail(c)[i] = d[i]
  <2>1. i + 1 \in 1..Len(q) /\ t[i] = q[i + 1] /\ i \in 1..Len(t)
    BY <1>1 DEF t
  <2>2. Tail(c)[i] = c[i + 1]
    BY <1>2, <1>5
  <2> QED
    BY <1>2, <1>3, <2>1, <2>2
<1>7. Tail(c) = d
  <2>1. Len(Tail(c)) = Len(q) - 1 /\ Len(d) = Len(q) - 1
    BY <1>1, <1>2, <1>3, <1>5 DEF t
  <2>2. \A i \in 1..Len(Tail(c)) : Tail(c)[i] = d[i]
    BY <1>6, <2>1
  <2> QED
    BY <1>3, <1>5, <2>1, <2>2, SameSequence
<1>8. c[1] = IF q[1].kind = kind THEN q[1].n ELSE 0
  BY <1>1, <1>2
<1>9. Sum(c) = c[1] + Sum(Tail(c))
  BY <1>2, <1>4, SumTail
<1> QED
  BY <1>1, <1>7, <1>8, <1>9 DEF Bytes, t, c, d

LEMMA BytesConcat ==
  ASSUME NEW S, \A f \in S : f.n \in Int, NEW q \in Seq(S), NEW r \in Seq(S), NEW kind
  PROVE  Bytes(q \o r, kind) = Bytes(q, kind) + Bytes(r, kind)
<1> DEFINE t == q \o r
           c == Counted(q, kind)
           d == Counted(r, kind)
           b == Counted(t, kind)
<1>1. /\ t \in Seq(S) /\ Len(t) = Len(q) + Len(r)
      /\ Len(q) \in Nat /\ Len(r) \in Nat
      /\ \A i \in 1..(Len(q) + Len(r)) : t[i] = IF i <= Len(q) THEN q[i] ELSE r[i - Len(q)]
  BY ConcatAt
<1> HIDE DEF t
<1>2. /\ c \in Seq(Int) /\ Len(c) = Len(q)
      /\ \A i \in 1..Len(q) : c[i] = IF q[i].kind = kind THEN q[i].n ELSE 0
  BY Counts
<1>3. /\ d \in Seq(Int) /\ Len(d) = Len(r)
      /\ \A i \in 1..Len(r) : d[i] = IF r[i].kind = kind THEN r[i].n ELSE 0
  BY Counts
<1>4. /\ b \in Seq(Int) /\ Len(b) = Len(t)
      /\ \A i \in 1..Len(t) : b[i] = IF t[i].kind = kind THEN t[i].n ELSE 0
  BY <1>1, Counts
<1> HIDE DEF b, c, d
<1>5. /\ c \o d \in Seq(Int) /\ Len(c \o d) = Len(c) + Len(d)
      /\ \A i \in 1..(Len(c) + Len(d)) : (c \o d)[i] = IF i <= Len(c) THEN c[i] ELSE d[i - Len(c)]
  <2>1. c \in Seq(Int) /\ d \in Seq(Int)
    BY <1>2, <1>3
  <2> QED
    BY <2>1, ConcatAt
<1> DEFINE e == c \o d
<1> HIDE DEF e
<1>6. ASSUME NEW i \in 1..(Len(q) + Len(r)) PROVE b[i] = e[i]
  <2>1. i \in 1..Len(t) /\ i \in 1..(Len(c) + Len(d))
    BY <1>1, <1>2, <1>3
  <2>2. CASE i <= Len(q)
    <3>1. t[i] = q[i] /\ e[i] = c[i] /\ i \in 1..Len(q)
      BY <1>1, <1>2, <1>5, <2>1, <2>2 DEF e
    <3> QED
      BY <1>2, <1>4, <2>1, <3>1
  <2>3. CASE i > Len(q)
    <3>1. i - Len(q) \in 1..Len(r) /\ ~(i <= Len(q))
      BY <1>1, <2>3
    <3>2. t[i] = r[i - Len(q)] /\ e[i] = d[i - Len(q)]
      BY <1>1, <1>2, <1>5, <2>1, <3>1 DEF e
    <3> QED
      BY <1>3, <1>4, <2>1, <3>1, <3>2
  <2> QED
    BY <1>1, <2>2, <2>3
<1>7. b = e
  <2>1. e \in Seq(Int) /\ Len(e) = Len(q) + Len(r) /\ Len(b) = Len(q) + Len(r)
    BY <1>1, <1>2, <1>3, <1>4, <1>5 DEF e
  <2> QED
    BY <1>4, <1>6, <2>1, SameSequence
<1>8. Sum(e) = Sum(c) + Sum(d)
  BY <1>2, <1>3, SumConcat DEF e
<1> QED
  BY <1>7, <1>8 DEF Bytes, t, b, c, d

LEMMA BytesAppend ==
  ASSUME NEW S, \A f \in S : f.n \in Int, NEW q \in Seq(S), NEW f \in S, NEW kind
  PROVE  /\ Bytes(q \o <<f>>, kind) = Bytes(q, kind) + (IF f.kind = kind THEN f.n ELSE 0)
         /\ Append(q, f) = q \o <<f>>
<1>1. <<f>> \in Seq(S) /\ <<f>> # <<>> /\ Head(<<f>>) = f /\ Tail(<<f>>) = <<>>
  OBVIOUS
<1>2. Bytes(<<f>>, kind) = (IF f.kind = kind THEN f.n ELSE 0) + 0
  <2>1. Bytes(<<f>>, kind)
          = (IF Head(<<f>>).kind = kind THEN Head(<<f>>).n ELSE 0) + Bytes(Tail(<<f>>), kind)
    BY <1>1, BytesHead
  <2>2. Bytes(<<>>, kind) = 0
    BY BytesNone
  <2> QED
    BY <1>1, <2>1, <2>2
<1>3. Append(q, f) = q \o <<f>>
  OBVIOUS
<1>4. f.n \in Int
  OBVIOUS
<1>5. Bytes(q \o <<f>>, kind) = Bytes(q, kind) + Bytes(<<f>>, kind)
  BY <1>1, BytesConcat
<1> QED
  BY <1>2, <1>3, <1>4, <1>5

=============================================================================
