-------------------------------- MODULE Sums --------------------------------
(* The sum of a sequence of numbers: bytes on their way in a queue.        *)
EXTENDS Integers, Sequences

Sum(s) ==
    LET sum[i \in 0..Len(s)] == IF i = 0 THEN 0 ELSE sum[i - 1] + s[i]
    IN  sum[Len(s)]

\* Of a queue of frames, the bytes of those of a kind.
Counted(q, kind) == [i \in 1..Len(q) |-> IF q[i].kind = kind THEN q[i].n ELSE 0]
Bytes(q, kind) == Sum(Counted(q, kind))

=============================================================================
