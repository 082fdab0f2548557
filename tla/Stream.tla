------------------------------- MODULE Stream -------------------------------
(***************************************************************************)
(* What the two ends of a fifo count on: each direction is a queue of bytes *)
(* of limited length.  A writer adds the bytes of its message in their       *)
(* order, a short message in one piece and a long one in pieces between      *)
(* which others may come; a reader is handed the bytes at the front.  Pipe    *)
(* implements this with ring buffers.                                       *)
(***************************************************************************)
EXTENDS Naturals, Sequences

CONSTANTS Proc, End, Lengths, Capacity, Short

VARIABLES
  q,      \* the bytes under way in each direction
  todo,   \* what is left of the message of a writer
  out     \* the bytes the last step handed to a reader

streamVars == <<q, todo, out>>

\* Bytes i to n of a message of n bytes.
Part(i, n) == [k \in 1..(n + 1 - i) |-> <<i + k - 1, n>>]

StreamInit ==
  /\ q = [e \in End |-> <<>>]
  /\ todo = [p \in Proc |-> <<>>]
  /\ out = <<>>

\* A writer starts or goes on with bytes i to n, and the next m of them are
\* accepted; the rest waits or is given up.
Put(p, e, i, n, m) ==
  /\ todo[p] \in {<<>>, Part(i, n)} /\ todo[p] = <<>> => i = 1
  /\ n <= Short => m \in {0, n}
  /\ Len(q[e]) + m <= Capacity
  /\ q' = [q EXCEPT ![e] = @ \o SubSeq(Part(i, n), 1, m)]
  /\ todo' \in {[todo EXCEPT ![p] = Part(i + m, n)], [todo EXCEPT ![p] = <<>>]}
  /\ out' = <<>>

GiveUp(p) ==
  /\ out' = <<>>
  /\ todo' = [todo EXCEPT ![p] = <<>>]
  /\ UNCHANGED q

Get(e, m) ==
  /\ out' = SubSeq(q[e], 1, m)
  /\ q' = [q EXCEPT ![e] = SubSeq(@, m + 1, Len(@))]
  /\ UNCHANGED todo

Flush(E) ==
  /\ q' = [e \in End |-> IF e \in E THEN <<>> ELSE q[e]]
  /\ out' = <<>>
  /\ UNCHANGED todo

StreamNext ==
  \/ \E p \in Proc : GiveUp(p)
  \/ \E e \in End : \E m \in 0..Len(q[e]) : Get(e, m)
  \/ \E E \in SUBSET End : Flush(E)
  \/ \E p \in Proc, n \in Lengths : \E i \in 1..n : \E m \in 0..(n + 1 - i), e \in End :
       Put(p, e, i, n, m)

StreamSpec == StreamInit /\ [][StreamNext]_streamVars
=============================================================================
