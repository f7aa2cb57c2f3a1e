------------------------------ MODULE ByteQueue ------------------------------
(***************************************************************************)
(* What Buffer promises: each buffer is a queue of bytes.  Bytes go in at  *)
(* the end or at the front, come out at the front, and can be taken back   *)
(* at either end; storage, indices and moves do not show.                  *)
(***************************************************************************)
EXTENDS Naturals, Sequences

CONSTANTS Buffers,
          Texts       \* what is written at once: sequences of bytes

VARIABLES queue,     \* the unread bytes of each buffer
          taken      \* what the last operation read from each, if it was a read

Drop(s, n) == SubSeq(s, n + 1, Len(s))
Front(s, n) == SubSeq(s, 1, n)

\* Any operation but a read forgets what was read.
Becomes(b, s) == queue' = [queue EXCEPT ![b] = s] /\ taken' = [taken EXCEPT ![b] = <<>>]

PutBack(b) == \E s \in Texts : Becomes(b, queue[b] \o s)
PutFront(b) == \E s \in Texts : Becomes(b, s \o queue[b])
Keep(b) == \E n \in 0..Len(queue[b]) : Becomes(b, Front(queue[b], n))
Take(b) ==
  \E n \in 0..Len(queue[b]) :
    /\ queue' = [queue EXCEPT ![b] = Drop(queue[b], n)]
    /\ taken' = [taken EXCEPT ![b] = Front(queue[b], n)]
Untake(b) ==
  \E n \in 0..Len(taken[b]) : Becomes(b, Drop(taken[b], Len(taken[b]) - n) \o queue[b])
Exchange(b, c) ==
  /\ queue' = [queue EXCEPT ![b] = queue[c], ![c] = queue[b]]
  /\ taken' = [taken EXCEPT ![b] = <<>>, ![c] = <<>>]

Init == queue = [b \in Buffers |-> <<>>] /\ taken = [b \in Buffers |-> <<>>]

Next ==
  \/ \E b \in Buffers : PutBack(b) \/ PutFront(b) \/ Keep(b) \/ Take(b) \/ Untake(b)
  \/ \E b, c \in Buffers : Exchange(b, c)

Spec == Init /\ [][Next]_<<queue, taken>>
=============================================================================
