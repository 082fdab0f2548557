------------------------------ MODULE TcpProofs ------------------------------
(***************************************************************************)
(* What TLAPS proves about Tcp.  The inductive invariant TInv says of each     *)
(* host what its two queues look like, which timer runs, and what the sleeping *)
(* programs may rely on; and of each direction how the two blocks and the       *)
(* segments under way agree: on what has been acknowledged, on where each byte  *)
(* belongs, and on where the stream ends.                                     *)
(***************************************************************************)
EXTENDS TcpInv, TLAPS, NaturalsInduction, WellFoundedInduction, SequenceTheorems, FiniteSetTheorems

-----------------------------------------------------------------------------
(* Numbers, queues and walks.                                              *)

\* A set of natural numbers that is not empty has a least element.
LEMMA LeastNat ==
  ASSUME NEW T \in SUBSET Nat, NEW n \in T
  PROVE  \E m \in T : \A k \in T : m <= k
<1>1. PICK m \in T : \A y \in T : ~(<<y, m>> \in OpToRel(<, Nat))
  BY WFMin, NatLessThanWellFounded, Zenon
<1>2. \A y \in T : ~(y < m)
  BY <1>1 DEF OpToRel
<1> QED
  BY <1>2

\* The sizes.
LEMMA Params ==
  /\ SegMax \in Nat /\ SegMax > 0 /\ SndMax \in Nat /\ SndMax > 0 /\ RcvMax \in Nat /\ RcvMax > 0
  /\ DupThresh \in Nat /\ DupThresh > 0 /\ MaxRetry \in Nat /\ MaxNet \in Nat
  /\ Mss \in Nat /\ Mss >= SegMax
  /\ \A h \in Host : Isn[h] \in Nat /\ Isn[h] > 0 /\ Writes[h] \in Seq(Nat \ {0})
BY TcpAssumption DEF Mss

\* The window that is advertised.
LEMMA RcvwndInt ==
  ASSUME NEW t, IsBlock(t)
  PROVE  Rcvwnd(t) \in Int /\ Edge(t) \in Int /\ Space(t) \in Int /\ Promised(t) \in Int
<1>1. Space(t) \in Int
  BY Params DEF Space, IsBlock
<1>2. Promised(t) \in Int
  BY <1>1 DEF Promised, IsBlock
<1>3. Rcvwnd(t) \in Int
  BY <1>1, <1>2 DEF Rcvwnd, Most
<1> QED
  BY <1>1, <1>2, <1>3 DEF Edge, IsBlock

\* What Acking() does to each field.
LEMMA AckingFields ==
  ASSUME NEW t, IsBlock(t), NEW seq \in Int, NEW flags \in SUBSET {"SYN", "FIN", "ACK", "RST"},
         NEW data \in Seq(Int)
  PROVE  LET u == Acking(t, seq, flags, data)
         IN  /\ IsBlock(u) /\ Unmoved(t, u)
             /\ u.sndq = t.sndq /\ u.nxt = t.nxt /\ u.max = t.max /\ u.fatal = t.fatal
             /\ u.out = Append(t.out, Seg(seq, t.rnxt, flags, Rcvwnd(t), data))
<1>1. Rcvwnd(t) \in Int /\ Edge(t) \in Int
  BY RcvwndInt
<1>2. Seg(seq, t.rnxt, flags, Rcvwnd(t), data) \in Segment
  BY <1>1 DEF Seg, Segment, IsBlock
<1> HIDE DEF Rcvwnd, Edge
<1> QED
  BY <1>1, <1>2 DEF Acking, IsBlock, Fields, Unmoved, Untouched

\* Step after step.
LEMMA UnmovedTrans ==
  ASSUME NEW t, NEW u, NEW v, Unmoved(t, u), Unmoved(u, v)
  PROVE  Unmoved(t, v)
BY DEF Unmoved, Untouched

LEMMA UntouchedTrans ==
  ASSUME NEW t, NEW u, NEW v, Untouched(t, u), Untouched(u, v)
  PROVE  Untouched(t, v)
BY DEF Untouched

\* The bytes of a segment of the send queue.
LEMMA BytesAre ==
  ASSUME NEW b \in Item, NEW offs \in Int, NEW len \in Nat
  PROVE  /\ Bytes(b, offs, len) \in Seq(Int) /\ Len(Bytes(b, offs, len)) = len
         /\ \A i \in 1..len : Bytes(b, offs, len)[i] = b.seq + One(b.syn) + offs + i - 1
BY DEF Bytes, Item, One

\* A segment of the send queue has the types of its fields.
LEMMA ItemIs ==
  ASSUME NEW t, IsBlock(t), NEW i \in 1..Len(t.sndq)
  PROVE  /\ t.sndq[i] \in Item /\ t.sndq[i].seq \in Int /\ t.sndq[i].len \in Nat
         /\ t.sndq[i].syn \in BOOLEAN /\ t.sndq[i].fin \in BOOLEAN /\ t.sndq[i].ack \in BOOLEAN
         /\ t.sndq[i].room \in Nat /\ EndOf(t.sndq[i]) \in Int
         /\ t.sndq[i].seq + t.sndq[i].len <= EndOf(t.sndq[i])
         /\ EndOf(t.sndq[i]) = t.sndq[i].seq + t.sndq[i].len + One(t.sndq[i].syn) + One(t.sndq[i].fin)
<1>1. t.sndq[i] \in Item
  BY DEF IsBlock
<1> QED
  BY <1>1 DEF Item, EndOf, One

\* Nothing in the send queue lies beyond the last byte, and a FIN is its last segment.
LEMMA ItemEnds ==
  ASSUME NEW h \in Host, NEW t, IsBlock(t), SndOK(h, t), NEW i \in 1..Len(t.sndq)
  PROVE  /\ EndOf(t.sndq[i]) - One(t.sndq[i].fin) <= LastByte(t) /\ EndOf(t.sndq[i]) <= t.write
         /\ t.sndq[i].fin => i = Len(t.sndq) /\ FinSent(t) /\ EndOf(t.sndq[i]) = t.write
         /\ i < Len(t.sndq) => /\ t.sndq[i + 1].seq = EndOf(t.sndq[i])
                               /\ ~t.sndq[i].fin /\ ~t.sndq[i + 1].syn
<1>1a. PICK n : n = Len(t.sndq)
  OBVIOUS
<1>1b. n \in Nat /\ i \in Nat /\ i <= n /\ 1 <= i
  BY <1>1a DEF IsBlock
<1>0. n \in Nat /\ n \in 1..Len(t.sndq) /\ t.sndq # <<>> /\ i \in Nat /\ i <= n /\ n = Len(t.sndq)
  BY <1>1a, <1>1b
<1>1. i < n => /\ t.sndq[i + 1].seq = EndOf(t.sndq[i]) /\ ~t.sndq[i].fin /\ ~t.sndq[i + 1].syn
               /\ EndOf(t.sndq[i]) <= t.sndq[n].seq
  BY <1>0 DEF SndOK, Chain
<1>2. EndOf(t.sndq[n]) = t.write /\ (t.sndq[n].fin <=> FinSent(t))
  BY <1>0 DEF SndOK
<1>3. t.sndq[n].seq \in Int /\ t.sndq[n].len \in Nat /\ t.write \in Int /\ EndOf(t.sndq[i]) \in Int
      /\ EndOf(t.sndq[n]) = t.sndq[n].seq + t.sndq[n].len + One(t.sndq[n].syn) + One(t.sndq[n].fin)
  BY <1>0, ItemIs DEF IsBlock
<1>4. CASE i = n
  BY <1>0, <1>2, <1>4, <1>3 DEF LastByte, One
<1>5. CASE i < n
  <2>1. One(t.sndq[i].fin) = 0 /\ ~t.sndq[i].fin
    BY <1>1, <1>5 DEF One
  <2>2. (FinSent(t) => One(t.sndq[n].fin) = 1) /\ (~FinSent(t) => One(t.sndq[n].fin) = 0)
    BY <1>2 DEF One
  <2>3. EndOf(t.sndq[i]) <= EndOf(t.sndq[n]) - One(t.sndq[n].fin)
    <3>1. One(t.sndq[n].syn) \in Nat /\ One(t.sndq[n].fin) \in Nat
      BY DEF One
    <3> HIDE DEF One
    <3> QED
      BY <1>1, <1>3, <1>5, <3>1, SMTT(20)
  <2>4. EndOf(t.sndq[i]) <= LastByte(t) /\ EndOf(t.sndq[i]) <= t.write
    BY <1>2, <1>3, <2>2, <2>3 DEF LastByte
  <2> QED
    BY <1>0, <1>1, <1>3, <1>5, <2>1, <2>4
<1> QED
  BY <1>0, <1>4, <1>5

\* The extra bytes come from the next segment.
LEMMA ExtraIs ==
  ASSUME NEW h \in Host, NEW t, IsBlock(t), SndOK(h, t), NEW i \in 1..Len(t.sndq), NEW n \in Nat,
         NEW flags \in SUBSET {"SYN", "FIN", "ACK", "RST"}
  PROVE  /\ Extra(t, i, n, flags) \in Nat
         /\ Extra(t, i, n, flags) > 0 =>
              /\ i < Len(t.sndq) /\ i + 1 \in 1..Len(t.sndq) /\ ~t.sndq[i].fin /\ ~t.sndq[i + 1].syn
              /\ t.sndq[i + 1].seq = EndOf(t.sndq[i])
              /\ t.sndq[i + 1].seq + Extra(t, i, n, flags) <= LastByte(t)
              /\ t.sndq[i + 1].seq + Extra(t, i, n, flags) <= t.write
         /\ Extra(t, i, 0, flags) = 0
<1>1. i \in Nat /\ Len(t.sndq) \in Nat /\ i <= Len(t.sndq)
  BY DEF IsBlock
<1>2. CASE i = Len(t.sndq)
  BY <1>1, <1>2 DEF Extra
<1>3. CASE i < Len(t.sndq)
  <2>1. PICK j : j = i + 1
    OBVIOUS
  <2>2. j \in 1..Len(t.sndq)
    BY <1>1, <1>3, <2>1
  <2>3. PICK b : b = t.sndq[j]
    OBVIOUS
  <2>4. /\ b.seq \in Int /\ b.len \in Nat /\ b.fin \in BOOLEAN /\ EndOf(b) \in Int
        /\ EndOf(b) = b.seq + b.len + One(b.syn) + One(b.fin) /\ b.syn \in BOOLEAN
    BY <2>2, <2>3, ItemIs
  <2>5. EndOf(b) - One(b.fin) <= LastByte(t) /\ EndOf(b) <= t.write
    BY <2>2, <2>3, ItemEnds
  <2>6. LastByte(t) \in Int /\ t.write \in Int
    BY DEF LastByte, IsBlock
  <2>7. One(b.syn) \in Nat /\ One(b.fin) \in Nat
    BY DEF One
  <2>8. b.seq + b.len <= LastByte(t) /\ b.seq + b.len <= t.write
    BY <2>4, <2>5, <2>6, <2>7
  <2>9. b.seq = EndOf(t.sndq[i]) /\ ~t.sndq[i].fin /\ ~b.syn
    BY <1>3, <2>1, <2>3, ItemEnds
  <2>10. PICK m : m = Extra(t, i, n, flags)
    OBVIOUS
  <2>11. m \in Nat /\ m <= b.len
    BY <1>3, <2>1, <2>3, <2>4, <2>10 DEF Extra, Least
  <2>12. Extra(t, i, 0, flags) = 0
    BY <1>3, <2>1, <2>3, <2>4 DEF Extra, Least
  <2> QED
    BY <1>3, <2>1, <2>2, <2>3, <2>4, <2>6, <2>8, <2>9, <2>10, <2>11, <2>12, SMTT(20)
<1> QED
  BY <1>1, <1>2, <1>3

\* Bytes after bytes.
LEMMA Cat ==
  ASSUME NEW S, NEW p \in Seq(S), NEW q \in Seq(S)
  PROVE  /\ p \o q \in Seq(S) /\ Len(p \o q) = Len(p) + Len(q)
         /\ \A j \in 1..Len(p) : (p \o q)[j] = p[j]
         /\ \A j \in 1..Len(q) : (p \o q)[Len(p) + j] = q[j]
  BY ConcatProperties

LEMMA SegDataIs ==
  ASSUME NEW t, IsBlock(t), NEW i \in 1..Len(t.sndq), NEW offs \in Int, NEW len \in Nat,
         NEW more \in Nat, Joined(t, i, offs, len, more),
         NEW d, d = SegData(t, i, offs, len, more)
  PROVE  /\ d \in Seq(Int) /\ Len(d) = len + more
         /\ \A j \in 1..Len(d) : d[j] = t.sndq[i].seq + One(t.sndq[i].syn) + offs + j - 1
<1>1. PICK b : b = t.sndq[i]
  OBVIOUS
<1>2. b \in Item /\ b.seq \in Int /\ One(b.syn) \in Int
  BY <1>1, ItemIs DEF One
<1>3. PICK p : p = Bytes(b, offs, len)
  OBVIOUS
<1>4. p \in Seq(Int) /\ Len(p) = len /\ \A j \in 1..len : p[j] = b.seq + One(b.syn) + offs + j - 1
  BY <1>2, <1>3, BytesAre
<1>5. CASE more = 0
  BY <1>1, <1>3, <1>4, <1>5 DEF SegData
<1>6. CASE more > 0
  <2>1. PICK c : c = t.sndq[i + 1]
    OBVIOUS
  <2>2. c \in Item /\ c.seq \in Int /\ One(c.syn) = 0 /\ c.seq = b.seq + One(b.syn) + offs + len
    BY <1>1, <1>6, <2>1, ItemIs DEF One, Joined
  <2>3. PICK q : q = Bytes(c, 0, more)
    OBVIOUS
  <2>4. q \in Seq(Int) /\ Len(q) = more /\ \A j \in 1..more : q[j] = c.seq + j - 1
    <3>1. q \in Seq(Int) /\ Len(q) = more /\ \A j \in 1..more : q[j] = c.seq + One(c.syn) + 0 + j - 1
      BY <2>2, <2>3, BytesAre
    <3> QED
      BY <2>2, <3>1
  <2>5. d = p \o q
    <3>1. more # 0
      BY <1>6
    <3> QED
      BY <1>1, <1>3, <2>1, <2>3, <3>1, Zenon DEF SegData
  <2>6. /\ d \in Seq(Int) /\ Len(d) = Len(p) + Len(q)
        /\ \A j \in 1..Len(p) : d[j] = p[j]
        /\ \A j \in 1..Len(q) : d[Len(p) + j] = q[j]
    <3>1. p \in Seq(Int) /\ q \in Seq(Int)
      BY <1>4, <2>4
    <3>2. /\ p \o q \in Seq(Int) /\ Len(p \o q) = Len(p) + Len(q)
          /\ \A j \in 1..Len(p) : (p \o q)[j] = p[j]
          /\ \A j \in 1..Len(q) : (p \o q)[Len(p) + j] = q[j]
      BY <3>1, Cat
    <3> QED
      BY <2>5, <3>2, Zenon
  <2>7. ASSUME NEW j \in 1..(len + more) PROVE d[j] = b.seq + One(b.syn) + offs + j - 1
    <3>1. CASE j <= len
      BY <3>1, <1>4, <2>6
    <3>2. CASE j > len
      <4>1. PICK k : k = j - len
        OBVIOUS
      <4>2. k \in 1..more /\ j = len + k
        BY <3>2, <4>1
      <4>3. d[j] = c.seq + k - 1
        BY <1>4, <2>4, <2>6, <4>2
      <4> QED
        BY <1>2, <2>2, <4>2, <4>3
    <3> QED
      BY <3>1, <3>2
  <2> QED
    BY <1>1, <1>4, <2>4, <2>6, <2>7
<1> QED
  BY <1>5, <1>6

\* Where the part of segment b between w1 and w2 begins and ends.
LEMMA Between ==
  ASSUME NEW b \in Item, NEW w1 \in Int, NEW w2 \in Int
  PROVE  /\ b.seq \in Int /\ b.len \in Nat /\ EndOf(b) \in Int
         /\ Offset(b, w1) \in Nat /\ Beyond(b, w2) \in Nat
  BY DEF One, Item, EndOf, Offset, Beyond

\* How far it reaches: not beyond the last byte, and its FIN is there.
LEMMA Reaches ==
  ASSUME NEW h \in Host, NEW t, IsBlock(t), SndOK(h, t), NEW i \in 1..Len(t.sndq), NEW n \in Nat,
         NEW w1 \in Int, NEW w2 \in Int, SegLenOf(t.sndq[i], w1, w2) >= 0
  PROVE  \E bs \in Int, offs \in Nat, sy \in Nat, len \in Nat, more \in Nat, last \in Int :
           Reach(t, i, n, w1, w2, bs, offs, sy, len, more, last)
<1>1. PICK b \in Item : b = t.sndq[i]
  BY ItemIs
<1>2. PICK bs \in Int : bs = b.seq
  BY Between
<1>3. PICK bl \in Nat : bl = b.len
  BY Between
<1>4. PICK sy \in Nat : sy = One(b.syn) /\ sy <= 1
  BY DEF One
<1>5. PICK fi \in Nat : fi = One(b.fin) /\ fi <= 1
  BY DEF One
<1>6. PICK e \in Int : e = EndOf(b)
  BY Between
<1>7. e = bs + bl + sy + fi
  BY <1>2, <1>3, <1>4, <1>5, <1>6 DEF EndOf
<1>8. PICK offs \in Nat : offs = Offset(b, w1)
  BY Between
<1>9. PICK bey \in Nat : bey = Beyond(b, w2)
  BY Between
<1>10. (w2 >= e => bey = 0) /\ (bs >= w1 => offs = 0) /\ (bs < w1 => offs = w1 - (bs + sy))
  <2>1. (bs >= w1 => offs = 0) /\ (bs < w1 => offs = w1 - (bs + sy))
    BY <1>2, <1>4, <1>8 DEF Offset
  <2>2. w2 >= e => bey = 0
    BY <1>6, <1>9 DEF Beyond
  <2> QED
    BY <2>1, <2>2
<1>11. PICK len \in Nat : len = bl - offs - bey
  BY <1>1, <1>3, <1>8, <1>9 DEF SegLenOf
<1>12. len = SegLenOf(t.sndq[i], w1, w2)
  BY <1>1, <1>3, <1>8, <1>9, <1>11 DEF SegLenOf
<1>14. PICK last \in Int : last = LastByte(t)
  BY SMTT(20) DEF LastByte, IsBlock
<1>15. e - fi <= last
  BY <1>1, <1>5, <1>6, <1>14, ItemEnds
<1>16. PICK flags : flags = SegFlags(b, w1, w2)
  OBVIOUS
<1>17. flags \in SUBSET {"SYN", "FIN", "ACK", "RST"}
  BY <1>16 DEF SegFlags
<1>18. PICK x \in Nat : x = Extra(t, i, n, flags)
  BY <1>17, ExtraIs
<1>19. PICK more \in Nat : more = IF w2 < e THEN 0 ELSE x
  OBVIOUS
<1>20. more = SegMore(t, i, n, w1, w2)
  BY <1>1, <1>6, <1>16, <1>18, <1>19 DEF SegMore
<1>21. x > 0 => /\ i + 1 \in 1..Len(t.sndq) /\ ~t.sndq[i + 1].syn /\ fi = 0
                /\ t.sndq[i + 1].seq = e /\ e + x <= last
  BY <1>1, <1>17, <1>18, ExtraIs, <1>5, <1>6, <1>14 DEF One
<1>22. more > 0 => more = x /\ bey = 0
  BY <1>10, <1>19
<1>23. more > 0 => /\ i + 1 \in 1..Len(t.sndq) /\ ~t.sndq[i + 1].syn
                   /\ t.sndq[i + 1].seq = bs + sy + offs + len
  BY <1>7, <1>11, <1>21, <1>22
<1>24. bs + sy + offs + len + more <= last
  BY <1>7, <1>11, <1>15, <1>21, <1>22
<1>25. ASSUME b.fin, w2 >= e PROVE bs + sy + offs + len + more = last /\ FinSent(t)
  <2>1. FinSent(t) /\ EndOf(b) = t.write /\ fi = 1
    BY <1>1, <1>5, <1>25, ItemEnds DEF One
  <2>2. last = e - 1
    BY <1>6, <1>14, <2>1 DEF LastByte
  <2>3. more = 0
    BY <1>21, <2>1, <1>19
  <2>4. bs + sy + offs + len + more = last
    BY <1>7, <1>10, <1>11, <1>25, <2>1, <2>2, <2>3
  <2> QED
    BY <2>1, <2>4
<1>26. bs < w1 => bs + sy + offs = w1
  BY <1>10
<1>27. bs = t.sndq[i].seq /\ sy = One(t.sndq[i].syn) /\ offs = Offset(t.sndq[i], w1)
  BY <1>1, <1>2, <1>4, <1>8
<1>28. t.sndq[i].fin /\ w2 >= EndOf(t.sndq[i]) => /\ bs + sy + offs + len + more = last
                                                  /\ FinSent(t)
  BY <1>1, <1>6, <1>25
<1> WITNESS bs \in Int, offs \in Nat, sy \in Nat, len \in Nat, more \in Nat, last \in Int
<1> QED
  BY <1>10, <1>12, <1>14, <1>20, <1>23, <1>24, <1>26, <1>27, <1>28 DEF Reach

\* It is a segment that the block may send.
LEMMA SegIsOut ==
  ASSUME NEW h \in Host, NEW t, IsBlock(t), SndOK(h, t), NEW i \in 1..Len(t.sndq), NEW n \in Nat,
         NEW w1 \in Int, NEW w2 \in Int, SegLenOf(t.sndq[i], w1, w2) >= 0
  PROVE  SegOf(t, i, n, w1, w2) \in Segment /\ OutSeg(h, t, SegOf(t, i, n, w1, w2))
<1>1. PICK b \in Item : b = t.sndq[i]
  BY ItemIs
<1>2. PICK bs \in Int, offs \in Nat, sy \in Nat, len \in Nat, more \in Nat, last \in Int :
           Reach(t, i, n, w1, w2, bs, offs, sy, len, more, last)
  BY Reaches, Zenon
<1>2a.
           /\ bs = t.sndq[i].seq /\ sy = One(t.sndq[i].syn) /\ offs = Offset(t.sndq[i], w1)
           /\ len = SegLenOf(t.sndq[i], w1, w2) /\ more = SegMore(t, i, n, w1, w2)
           /\ last = LastByte(t)
           /\ more > 0 => /\ i + 1 \in 1..Len(t.sndq) /\ ~t.sndq[i + 1].syn
                          /\ t.sndq[i + 1].seq = bs + sy + offs + len
           /\ bs + sy + offs + len + more <= last
           /\ t.sndq[i].fin /\ w2 >= EndOf(t.sndq[i]) => /\ bs + sy + offs + len + more = last
                                                         /\ FinSent(t)
           /\ bs >= w1 => offs = 0
           /\ bs < w1 => bs + sy + offs = w1
  BY <1>2 DEF Reach
<1>3. PICK d \in Seq(Int) :
        /\ d = SegData(t, i, offs, len, more) /\ Len(d) = len + more
        /\ \A j \in 1..Len(d) : d[j] = bs + sy + offs + j - 1
  <2>1. PICK d : d = SegData(t, i, offs, len, more)
    OBVIOUS
  <2>2. /\ d \in Seq(Int) /\ Len(d) = len + more
        /\ \A j \in 1..Len(d) : d[j] = t.sndq[i].seq + One(t.sndq[i].syn) + offs + j - 1
    <3>1. Joined(t, i, offs, len, more)
      BY <1>2a DEF Joined
    <3>2. offs \in Int
      OBVIOUS
    <3> QED
      BY <2>1, <3>1, <3>2, SegDataIs, SMTT(20)
  <2> QED
    BY <1>2a, <2>1, <2>2
<1>4. PICK flags \in SUBSET {"SYN", "FIN", "ACK", "RST"} : flags = SegFlags(b, w1, w2)
  BY DEF SegFlags
<1>5. /\ "RST" \notin flags
      /\ ("SYN" \in flags <=> b.syn /\ bs >= w1)
      /\ ("FIN" \in flags <=> b.fin /\ w2 >= EndOf(b)) /\ ("ACK" \in flags <=> b.ack)
  BY <1>1, <1>2a, <1>4 DEF SegFlags
<1>6. PICK w \in Int : w = Rcvwnd(t)
  BY RcvwndInt
<1>7. PICK r \in Int : r = t.rnxt
  BY DEF IsBlock
<1>8. PICK seq \in Int : seq = Most(bs, w1)
  BY DEF Most
<1>9. (bs < w1 => seq = w1) /\ (bs >= w1 => seq = bs)
  BY <1>8 DEF Most
<1>10. PICK s \in Segment : s = [seq |-> seq, ack |-> r, flags |-> flags, wnd |-> w, data |-> d]
  BY DEF Segment
<1>11. s = SegOf(t, i, n, w1, w2)
  BY <1>1, <1>2a, <1>3, <1>4, <1>6, <1>7, <1>8, <1>10 DEF SegOf, Seg
<1>12. s.seq = seq /\ s.ack = r /\ s.flags = flags /\ s.data = d
  BY <1>10
<1>13. PICK hs \in Nat : hs = One(Has(s, "SYN"))
  BY DEF One
<1>14. seq + hs = bs + sy + offs
  <2>1. CASE bs < w1
    <3>1. hs = 0
      BY <1>5, <1>12, <1>13, <2>1 DEF Has, One
    <3> QED
      BY <1>2a, <1>9, <2>1, <3>1
  <2>2. CASE bs >= w1
    <3>1. hs = sy
      <4>1. Has(s, "SYN") <=> b.syn
        BY <1>5, <1>12, <2>2 DEF Has
      <4> QED
        BY <1>1, <1>2a, <1>13, <4>1 DEF One
    <3> QED
      BY <1>2a, <1>9, <2>2, <3>1, SMTT(30)
  <2> QED
    BY <2>1, <2>2
<1>15. AtPlace(s)
  BY <1>3, <1>14, <1>12, <1>13 DEF AtPlace
<1>16. PICK e \in Int : e = bs + sy + offs + len + more
  OBVIOUS
<1>17. EndsAt(s) = e
  BY <1>12, <1>13, <1>3, <1>14, <1>16 DEF EndsAt
<1>18. e <= last
  BY <1>2a, <1>16
<1>19. Has(s, "FIN") => e = last /\ FinSent(t)
  BY <1>1, <1>2a, <1>5, <1>12, <1>16 DEF Has
<1>20. Has(s, "SYN") => s.seq = Isn[h] /\ s.flags = (IF h = "cl" THEN {"SYN"} ELSE {"SYN", "ACK"})
  BY <1>12, <1>5, <1>1, <1>2a, <1>9, ZenonT(40) DEF Has, SndOK, Host
<1>21. s.ack <= t.rnxt
  BY <1>7, <1>12
<1> QED
  BY <1>2a, <1>11, <1>15, <1>17, <1>18, <1>19, <1>20, <1>21 DEF OutSeg

\* One more segment that may be sent.
LEMMA OutsMore ==
  ASSUME NEW h, NEW b, NEW t, NEW u, t.out \in Seq(Segment), NEW s \in Segment,
         u.out = Append(t.out, s), OutSeg(h, b, s), Outs(h, b, t)
  PROVE  Outs(h, b, u)
  BY DEF Outs

\* tcp_sndseg()
LEMMA SndSegIs ==
  ASSUME NEW h \in Host, NEW t, IsBlock(t), SndOK(h, t), NEW i \in 1..Len(t.sndq), NEW n \in Nat,
         NEW w1 \in Int, NEW w2 \in Int, NEW u, u = SndSeg(t, i, n, w1, w2)
  PROVE  /\ IsBlock(u) /\ Unmoved(t, u) /\ u.sndq = t.sndq /\ u.nxt = t.nxt
         /\ t.max <= u.max /\ u.max <= t.write /\ (n = 0 => u.max = t.max)
         /\ Outs(h, t, t) => Outs(h, t, u)
<1>1. PICK b \in Item : b = t.sndq[i]
  BY ItemIs
<1>2. PICK len \in Int : len = SegLenOf(b, w1, w2)
  <2>1. b.len \in Nat /\ Offset(b, w1) \in Nat /\ Beyond(b, w2) \in Nat
    BY Between, Zenon
  <2> QED
    BY <2>1 DEF SegLenOf
<1>3. PICK seq \in Int : seq = Most(b.seq, w1)
  BY Between DEF Most
<1>4. PICK flags \in SUBSET {"SYN", "FIN", "ACK", "RST"} : flags = SegFlags(b, w1, w2)
  BY DEF SegFlags
<1>5. PICK more : more = SegMore(t, i, n, w1, w2)
  OBVIOUS
<1>6. PICK data : data = SegData(t, i, Offset(b, w1), len, more)
  OBVIOUS
<1>7. PICK top : top = IF more = 0 THEN t.max ELSE Most(t.max, t.sndq[i + 1].seq + more)
  OBVIOUS
<1>8a. PICK x : x = [t EXCEPT !.fatal = TRUE]
  OBVIOUS
<1>8b. PICK y : y = [Acking(t, seq, flags, <<>>) EXCEPT !.out = t.out]
  OBVIOUS
<1>8c. PICK z : z = [Acking(t, seq, flags, data) EXCEPT !.max = top]
  OBVIOUS
<1>8d. u = CASE len < 0 /\ b.seq < w1 -> x [] len < 0 /\ b.seq >= w1 -> y [] OTHER -> z
  BY <1>1, <1>2, <1>3, <1>4, <1>5, <1>6, <1>7, <1>8a, <1>8b, <1>8c, ZenonT(40)
     DEF SndSeg, SegLenOf, SegFlags, SegMore, SegData
<1>8e. PICK bs \in Int : bs = b.seq
  BY DEF Item
<1>8f. u = CASE len < 0 /\ bs < w1 -> x [] len < 0 /\ bs >= w1 -> y [] OTHER -> z
  BY <1>8d, <1>8e
<1>8. /\ len < 0 /\ b.seq < w1 => u = x
      /\ len < 0 /\ ~(b.seq < w1) => u = y
      /\ ~(len < 0) => u = z
  BY <1>8e, <1>8f
<1>9. t.max \in Int /\ t.write \in Int /\ t.max <= t.write
  BY DEF IsBlock, SndOK
<1>10. CASE len < 0 /\ b.seq < w1
  <2>1. u = [t EXCEPT !.fatal = TRUE]
    BY <1>8, <1>8a, <1>10
  <2> QED
    BY <1>9, <2>1 DEF IsBlock, Fields, Unmoved, Untouched, Outs
<1>11. CASE len < 0 /\ ~(b.seq < w1)
  <2>1. PICK v : v = Acking(t, seq, flags, <<>>)
    OBVIOUS
  <2>2. u = [v EXCEPT !.out = t.out]
    BY <1>8, <1>8b, <1>11, <2>1
  <2>3. <<>> \in Seq(Int)
    OBVIOUS
  <2>4. IsBlock(v) /\ Unmoved(t, v) /\ v.sndq = t.sndq /\ v.nxt = t.nxt /\ v.max = t.max
    BY <2>1, <2>3, AckingFields
  <2>5. /\ IsBlock(u) /\ Unmoved(t, u) /\ u.sndq = t.sndq /\ u.nxt = t.nxt /\ u.max = t.max
        /\ u.out = t.out
    BY <2>2, <2>4, UnmovedTrans DEF IsBlock, Fields, Unmoved, Untouched
  <2> QED
    BY <1>9, <2>5 DEF Outs
<1>12. CASE ~(len < 0)
  <2>1. len >= 0
    BY <1>12
  <2>2. SegLenOf(t.sndq[i], w1, w2) >= 0
    BY <1>1, <1>2, <2>1
  <2>3. PICK s : s = SegOf(t, i, n, w1, w2)
    OBVIOUS
  <2>4. s \in Segment /\ OutSeg(h, t, s)
    BY <2>2, <2>3, SegIsOut
  <2>5. PICK v : v = Acking(t, seq, flags, data)
    OBVIOUS
  <2>6. u = [v EXCEPT !.max = top]
    BY <1>8, <1>8c, <1>12, <2>5
  <2>7. s = Seg(seq, t.rnxt, flags, Rcvwnd(t), data)
    BY <1>1, <1>2, <1>3, <1>4, <1>5, <1>6, <2>3 DEF SegOf
  <2>8. data \in Seq(Int)
    BY <2>4, <2>7 DEF Seg, Segment
  <2>9. /\ IsBlock(v) /\ Unmoved(t, v) /\ v.sndq = t.sndq /\ v.nxt = t.nxt /\ v.max = t.max
        /\ v.out = Append(t.out, s)
    BY <2>5, <2>7, <2>8, AckingFields, ZenonT(40)
  <2>10. top \in Int /\ t.max <= top /\ top <= t.write /\ (n = 0 => top = t.max)
    <3>1. CASE more = 0
      BY <1>7, <1>9, <3>1
    <3>2. CASE more # 0
      <4>1. ~(w2 < EndOf(t.sndq[i])) /\ more = Extra(t, i, n, flags)
        BY <1>1, <1>4, <1>5, <3>2 DEF SegMore
      <4>2. /\ Extra(t, i, n, flags) \in Nat /\ Extra(t, i, 0, flags) = 0
            /\ Extra(t, i, n, flags) > 0 => /\ i + 1 \in 1..Len(t.sndq)
                                            /\ t.sndq[i + 1].seq + Extra(t, i, n, flags) <= t.write
        BY ExtraIs
      <4>3. PICK m \in Nat : m = more
        BY <4>1, <4>2
      <4>4. m > 0 /\ i + 1 \in 1..Len(t.sndq) /\ t.sndq[i + 1].seq + m <= t.write /\ n # 0
        BY <3>2, <4>1, <4>2, <4>3
      <4>5. PICK sq \in Int : sq = t.sndq[i + 1].seq
        BY <4>4, ItemIs
      <4>6. top = Most(t.max, sq + m)
        BY <1>7, <3>2, <4>3, <4>5
      <4> QED
        BY <1>9, <4>4, <4>5, <4>6, SMTT(20) DEF Most
    <3> QED
      BY <3>1, <3>2
  <2>11. /\ IsBlock(u) /\ Unmoved(t, u) /\ u.sndq = t.sndq /\ u.nxt = t.nxt /\ u.max = top
         /\ u.out = Append(t.out, s)
    <3>1. IsBlock(u) /\ Unmoved(v, u) /\ u.sndq = v.sndq /\ u.nxt = v.nxt /\ u.max = top
          /\ u.out = v.out
      <4>1. IsBlock(v) /\ top \in Int
        BY <2>9, <2>10
      <4> QED
        BY <2>6, <4>1 DEF IsBlock, Fields, Unmoved, Untouched
    <3> QED
      BY <2>9, <3>1, UnmovedTrans
  <2>12. Outs(h, t, t) => Outs(h, t, u)
    BY <2>4, <2>11, OutsMore DEF IsBlock
  <2> QED
    BY <1>9, <2>10, <2>11, <2>12
<1> QED
  BY <1>10, <1>11, <1>12

-----------------------------------------------------------------------------
(* Walks along the send queue, and what they let go.                        *)

\* A walk stops somewhere: at the first segment that it may not pass.
LEMMA PassedIs ==
  ASSUME NEW s \in Seq(Int), NEW x \in Int
  PROVE  /\ Passed(s, x) \in 0..Len(s)
         /\ \A j \in 1..Passed(s, x) : s[j] <= x
         /\ Passed(s, x) < Len(s) => x < s[Passed(s, x) + 1]
<1>1. PICK n \in Nat : n = Len(s)
  OBVIOUS
<1>2. PICK T : T = {j \in 1..n : x < s[j]}
  OBVIOUS
<1>3. \E k \in 0..n : (\A j \in 1..k : s[j] <= x) /\ (k < n => x < s[k + 1])
  <2>1. CASE T = {}
    BY <1>1, <1>2, <2>1
  <2>2. CASE T # {}
    <3>1. PICK m \in T : \A k \in T : m <= k
      <4>1. T \in SUBSET Nat
        BY <1>2
      <4>2. PICK z : z \in T
        BY <2>2
      <4> QED
        BY <4>1, <4>2, LeastNat
    <3>2. m \in 1..n /\ x < s[m]
      BY <1>2
    <3>3. \A j \in 1..(m - 1) : s[j] <= x
      BY <3>2, <3>1, <1>1, <1>2
    <3>4. m - 1 \in 0..n /\ (m - 1) + 1 = m
      BY <3>2
    <3> QED
      BY <3>2, <3>3, <3>4
  <2> QED
    BY <2>1, <2>2
<1>4. \E k \in 0..Len(s) : (\A j \in 1..k : s[j] <= x) /\ (k < Len(s) => x < s[k + 1])
  BY <1>1, <1>3
<1> QED
  BY <1>4 DEF Passed

\* The ends of the segments of a queue.
LEMMA EndsAre ==
  ASSUME NEW q \in Seq(Item)
  PROVE  /\ Ends(q) \in Seq(Int) /\ Len(Ends(q)) = Len(q)
         /\ \A i \in 1..Len(q) : Ends(q)[i] = EndOf(q[i]) /\ EndOf(q[i]) \in Int
<1>1. \A i \in 1..Len(q) : EndOf(q[i]) \in Int
  <2> SUFFICES ASSUME NEW i \in 1..Len(q) PROVE EndOf(q[i]) \in Int
    OBVIOUS
  <2>1. PICK b \in Item : b = q[i]
    OBVIOUS
  <2>2. EndOf(b) \in Int
    BY Between
  <2> QED
    BY <2>1, <2>2
<1> QED
  BY <1>1 DEF Ends

\* Where the first segment is that is not sent whole.
LEMMA FirstUnsentIs ==
  ASSUME NEW t, IsBlock(t)
  PROVE  FirstUnsent(t) \in Nat /\ 1 <= FirstUnsent(t) /\ FirstUnsent(t) <= Len(t.sndq) + 1
<1>1. t.sndq \in Seq(Item) /\ t.nxt \in Int /\ Len(t.sndq) \in Nat
  BY DEF IsBlock
<1>2. Ends(t.sndq) \in Seq(Int) /\ Len(Ends(t.sndq)) = Len(t.sndq)
  BY <1>1, EndsAre
<1>3. Passed(Ends(t.sndq), t.nxt) \in 0..Len(t.sndq)
  BY <1>1, <1>2, PassedIs
<1> QED
  BY <1>1, <1>3 DEF FirstUnsent

\* Nothing sent, and more sent.
LEMMA SendsRefl ==
  ASSUME NEW h, NEW t, IsBlock(t), SndOK(h, t)
  PROVE  Sends(h, t, t)
BY DEF Sends, Unmoved, Untouched, Alike, IsBlock

LEMMA OutsSame ==
  ASSUME NEW h, NEW t, NEW u, NEW v, Untouched(t, u), u.una = t.una
  PROVE  Outs(h, t, v) <=> Outs(h, u, v)
  BY DEF Untouched, LastByte, FinSent, OutSeg, Outs

LEMMA AlikeTrans ==
  ASSUME NEW p, NEW q, NEW r, Alike(p, q), Alike(q, r)
  PROVE  Alike(p, r)
BY DEF Alike

LEMMA SendsTrans ==
  ASSUME NEW h, NEW t, NEW u, NEW v, IsBlock(t), Sends(h, t, u), Sends(h, u, v)
  PROVE  Sends(h, t, v)
<1>1. Unmoved(t, v)
  BY UnmovedTrans DEF Sends
<1>2. Alike(t.sndq, v.sndq)
  BY AlikeTrans DEF Sends
<1>3. t.max <= v.max
  BY DEF Sends, IsBlock
<1>4. Outs(h, t, t) => Outs(h, t, v)
  BY OutsSame DEF Sends, Unmoved
<1> QED
  BY <1>1, <1>2, <1>3, <1>4 DEF Sends

\* A queue that is alike is as good.
LEMMA AlikeOK ==
  ASSUME NEW h, NEW t, IsBlock(t), SndOK(h, t), NEW u, IsBlock(u), Alike(t.sndq, u.sndq),
         u.una = t.una, u.write = t.write, u.state = t.state, u.nxt <= u.max, t.una <= u.max,
         u.max <= t.write
  PROVE  SndOK(h, u)
<1>1. PICK p \in Seq(Item) : p = t.sndq
  BY DEF IsBlock
<1>2. PICK q \in Seq(Item) : q = u.sndq
  BY DEF IsBlock
<1>3. PICK n \in Nat : n = Len(p) /\ n = Len(q)
  BY <1>1, <1>2 DEF Alike
<1>4. \A i \in 1..n : /\ q[i].seq = p[i].seq /\ q[i].len = p[i].len /\ q[i].syn = p[i].syn
                      /\ q[i].fin = p[i].fin /\ q[i].ack = p[i].ack
  BY <1>1, <1>2, <1>3 DEF Alike
<1>5. \A i \in 1..n : EndOf(q[i]) = EndOf(p[i])
  BY <1>4 DEF EndOf
<1>6. Chain(p) /\ (p = <<>> => t.write <= t.una)
      /\ (p # <<>> => (p[n].fin <=> FinSent(t)) /\ EndOf(p[n]) = t.write)
      /\ \A i \in 1..n : p[i].syn => /\ p[i].seq = Isn[h] /\ p[i].len = 0 /\ ~p[i].fin
                                     /\ (p[i].ack <=> h = "sv")
  BY <1>1, <1>3 DEF SndOK
<1>7. Chain(q)
  <2>1. /\ \A i \in 1..(n - 1) : p[i + 1].seq = EndOf(p[i]) /\ ~p[i].fin /\ ~p[i + 1].syn
        /\ \A i, j \in 1..n : i < j => EndOf(p[i]) <= p[j].seq
    BY <1>3, <1>6 DEF Chain
  <2>2. ASSUME NEW i \in 1..(n - 1) PROVE q[i + 1].seq = EndOf(q[i]) /\ ~q[i].fin /\ ~q[i + 1].syn
    <3>1. i \in 1..n /\ i + 1 \in 1..n
      OBVIOUS
    <3> QED
      BY <1>4, <1>5, <2>1, <3>1
  <2>3. ASSUME NEW i \in 1..n, NEW j \in 1..n, i < j PROVE EndOf(q[i]) <= q[j].seq
    BY <1>4, <1>5, <2>1, <2>3
  <2> QED
    BY <1>3, <2>2, <2>3 DEF Chain
<1>8. (p = <<>> <=> q = <<>>) /\ (p # <<>> => n \in 1..n)
  <2>1. p = <<>> <=> n = 0
    BY <1>3, EmptySeq
  <2>2. q = <<>> <=> n = 0
    BY <1>3, EmptySeq
  <2> QED
    BY <2>1, <2>2
<1>9. /\ q = <<>> => u.write <= u.una
      /\ q # <<>> => (q[n].fin <=> FinSent(u)) /\ EndOf(q[n]) = u.write
  BY <1>4, <1>5, <1>6, <1>8 DEF FinSent
<1>10. \A i \in 1..n : q[i].syn => /\ q[i].seq = Isn[h] /\ q[i].len = 0 /\ ~q[i].fin
                                   /\ (q[i].ack <=> h = "sv")
  BY <1>4, <1>6
<1> QED
  BY <1>2, <1>3, <1>7, <1>9, <1>10 DEF SndOK

\* One turn of tcp_sndhead()
LEMMA SendOneIs ==
  ASSUME NEW h \in Host, NEW t, IsBlock(t), SndOK(h, t), NEW i \in Nat, 1 <= i, NEW w \in Int
  PROVE  /\ Sends(h, t, SendOne(t, i, w))
         /\ Goes(t, i, w) => t.sndq[i].seq < SendOne(t, i, w).max \/ EndOf(t.sndq[i]) <= t.sndq[i].seq
<1>1. CASE ~Goes(t, i, w)
  BY <1>1, SendsRefl DEF SendOne
<1>2. CASE Goes(t, i, w)
  <2>1. i \in 1..Len(t.sndq) /\ t.sndq[i].seq < w
    BY <1>2 DEF Goes, IsBlock
  <2>2. PICK e \in Int : e = Least(EndOf(t.sndq[i]), w)
    BY <2>1, ItemIs DEF Least
  <2>3. PICK v : v = SndSeg(t, i, 0, t.nxt, w)
    OBVIOUS
  <2>4. /\ IsBlock(v) /\ Unmoved(t, v) /\ v.sndq = t.sndq /\ v.nxt = t.nxt /\ v.max = t.max
        /\ Outs(h, t, t) => Outs(h, t, v)
    <3>1. t.nxt \in Int /\ 0 \in Nat
      BY DEF IsBlock
    <3> QED
      BY <2>1, <2>3, <3>1, SndSegIs
  <2>5. PICK u : u = SendOne(t, i, w)
    OBVIOUS
  <2>6. u = [v EXCEPT !.nxt = e, !.max = Most(@, e), !.sndq[i].room = SegMax]
    BY <1>2, <2>2, <2>3, <2>5, Zenon DEF SendOne
  <2>7. PICK top \in Int : top = Most(t.max, e)
    BY DEF Most, IsBlock
  <2>8. PICK q : q = [t.sndq EXCEPT ![i].room = SegMax]
    OBVIOUS
  <2>9. u = [v EXCEPT !.nxt = e, !.max = top, !.sndq = q]
    BY <2>4, <2>6, <2>7, <2>8
  <2>10. q \in Seq(Item) /\ Alike(t.sndq, q)
    <3>1. t.sndq \in Seq(Item) /\ SegMax \in Nat
      BY Params DEF IsBlock
    <3>2. t.sndq[i] \in Item
      BY <2>1, <3>1
    <3>3. [t.sndq[i] EXCEPT !.room = SegMax] \in Item
      BY <3>1, <3>2 DEF Item
    <3>4. q = [t.sndq EXCEPT ![i] = [t.sndq[i] EXCEPT !.room = SegMax]]
      BY <2>8
    <3>5. q \in Seq(Item)
      BY <2>1, <3>1, <3>3, <3>4
    <3>6. Len(q) = Len(t.sndq)
      BY <2>1, <3>1, <3>4
    <3>7. ASSUME NEW j \in 1..Len(t.sndq)
          PROVE  /\ q[j].seq = t.sndq[j].seq /\ q[j].len = t.sndq[j].len /\ q[j].syn = t.sndq[j].syn
                 /\ q[j].fin = t.sndq[j].fin /\ q[j].ack = t.sndq[j].ack
      <4>1. q[j] = IF j = i THEN [t.sndq[i] EXCEPT !.room = SegMax] ELSE t.sndq[j]
        BY <2>1, <3>1, <3>4
      <4> QED
        BY <3>2, <4>1 DEF Item
    <3> QED
      BY <3>5, <3>6, <3>7 DEF Alike
  <2>11. /\ IsBlock(u) /\ Unmoved(v, u) /\ u.out = v.out /\ u.sndq = q /\ u.nxt = e
         /\ u.max = top
    BY <2>4, <2>9, <2>10 DEF IsBlock, Fields, Unmoved, Untouched
  <2>12. Unmoved(t, u)
    BY <2>4, <2>11, UnmovedTrans
  <2>13. PICK ed \in Int : ed = EndOf(t.sndq[i])
    BY <2>1, ItemIs
  <2>14. t.max <= top /\ e <= top /\ top <= t.write /\ e <= ed
    <3>1. PICK mx \in Int : mx = t.max
      BY DEF IsBlock
    <3>2. PICK wr \in Int : wr = t.write
      BY DEF IsBlock
    <3>3. ed <= wr
      BY <2>1, <2>13, <3>2, ItemEnds
    <3>4. mx <= wr
      BY <3>1, <3>2 DEF SndOK
    <3>5. e = (IF ed < w THEN ed ELSE w) /\ top = (IF mx < e THEN e ELSE mx)
      BY <2>2, <2>7, <2>13, <3>1 DEF Least, Most
    <3>6. mx <= top /\ e <= top /\ top <= wr /\ e <= ed
      BY <3>3, <3>4, <3>5
    <3> QED
      BY <3>1, <3>2, <3>6
  <2>15. SndOK(h, u)
    <3>1. u.una = t.una /\ u.write = t.write /\ u.state = t.state
      BY <2>12 DEF Unmoved, Untouched
    <3>2. t.una <= top
      BY <2>14 DEF SndOK, IsBlock
    <3> QED
      BY <2>10, <2>11, <2>14, <3>1, <3>2, AlikeOK
  <2>16. Outs(h, t, t) => Outs(h, t, u)
    BY <2>4, <2>11 DEF Outs
  <2>17. t.sndq[i].seq < u.max \/ EndOf(t.sndq[i]) <= t.sndq[i].seq
    BY <2>1, ItemIs, <2>2, <2>13, <2>14, <2>11 DEF Least
  <2> QED
    BY <2>5, <2>10, <2>11, <2>12, <2>14, <2>15, <2>16, <2>17 DEF Sends
<1> QED
  BY <1>1, <1>2

LEMMA TurnsExist ==
  ASSUME NEW t, NEW w, NEW n \in Nat
  PROVE  \E f : Turns(t, w, n, f)
<1>1. PICK T : T = {m \in Nat : ~\E f : Turns(t, w, m, f)}
  OBVIOUS
<1>2. T = {}
  <2> SUFFICES ASSUME T # {} PROVE FALSE
    OBVIOUS
  <2>1. T \in SUBSET Nat /\ \E z : z \in T
    BY <1>1
  <2>2. PICK m \in T : \A k \in T : m <= k
    BY <2>1, LeastNat
  <2>3. m \in Nat /\ ~\E f : Turns(t, w, m, f)
    BY <1>1
  <2>4. CASE m = 0
    <3>1. PICK f : f = [k \in 0..m |-> t]
      OBVIOUS
    <3>2. f = [k \in 0..m |-> IF k = 0 THEN t ELSE SendOne(f[k - 1], FirstUnsent(f[k - 1]), w)]
      BY <2>4, <3>1
    <3> QED
      BY <2>3, <3>2 DEF Turns
  <2>5. CASE m > 0
    <3>1. m - 1 \in Nat /\ ~(m <= m - 1)
      BY <2>3, <2>5
    <3>2. m - 1 \notin T
      BY <2>2, <3>1
    <3>3. PICK f : Turns(t, w, m - 1, f)
      BY <1>1, <3>1, <3>2
    <3>4. PICK c : c = SendOne(f[m - 1], FirstUnsent(f[m - 1]), w)
      OBVIOUS
    <3>5. PICK g : g = [k \in 0..m |-> IF k = m THEN c ELSE f[k]]
      OBVIOUS
    <3>6. \A k \in 0..(m - 1) :
            f[k] = IF k = 0 THEN t ELSE SendOne(f[k - 1], FirstUnsent(f[k - 1]), w)
      BY <3>3 DEF Turns
    <3>7. ASSUME NEW k \in 0..m
          PROVE  g[k] = IF k = 0 THEN t ELSE SendOne(g[k - 1], FirstUnsent(g[k - 1]), w)
      BY <2>3, <2>5, <3>5, <3>4, <3>6
    <3>8. g = [k \in 0..m |-> IF k = 0 THEN t ELSE SendOne(g[k - 1], FirstUnsent(g[k - 1]), w)]
      BY <3>5, <3>7
    <3> QED
      BY <2>3, <3>8 DEF Turns
  <2> QED
    BY <2>3, <2>4, <2>5
<1> QED
  BY <1>1, <1>2

\* All the turns of tcp_sndhead().
LEMMA SendFromIs ==
  ASSUME NEW h \in Host, NEW t, IsBlock(t), SndOK(h, t), NEW w \in Int
  PROVE  /\ Sends(h, t, SendFrom(t, w))
         /\ Len(t.sndq) = 1 => SendFrom(t, w) = SendOne(t, FirstUnsent(t), w)
<1>1. PICK n \in Nat : n = Len(t.sndq)
  BY DEF IsBlock
<1>2. PICK f : f = CHOOSE g : Turns(t, w, n, g)
  OBVIOUS
<1>3. Turns(t, w, n, f)
  BY <1>2, TurnsExist, Zenon
<1>4. SendFrom(t, w) = f[n]
  BY <1>1, <1>2 DEF SendFrom, Turns
<1>5. \A k \in 0..n : f[k] = IF k = 0 THEN t ELSE SendOne(f[k - 1], FirstUnsent(f[k - 1]), w)
  BY <1>3 DEF Turns
<1>6. PICK T : T = {k \in 0..n : ~Sends(h, t, f[k])}
  OBVIOUS
<1>7. T = {}
  <2> SUFFICES ASSUME T # {} PROVE FALSE
    OBVIOUS
  <2>1. T \in SUBSET Nat /\ \E z : z \in T
    BY <1>6
  <2>2. PICK m \in T : \A k \in T : m <= k
    BY <2>1, LeastNat
  <2>3. m \in 0..n /\ ~Sends(h, t, f[m])
    BY <1>6
  <2>4. CASE m = 0
    BY <1>5, <2>3, <2>4, SendsRefl
  <2>5. CASE m # 0
    <3>1. m - 1 \in 0..n /\ ~(m <= m - 1)
      BY <2>3, <2>5
    <3>2. m - 1 \notin T
      BY <2>2, <3>1
    <3>3. PICK v : v = f[m - 1]
      OBVIOUS
    <3>4. Sends(h, t, v)
      BY <1>6, <3>1, <3>2, <3>3
    <3>5. f[m] = SendOne(v, FirstUnsent(v), w)
      BY <1>5, <2>3, <2>5, <3>3
    <3>6. IsBlock(v) /\ SndOK(h, v)
      BY <3>4 DEF Sends
    <3>7. FirstUnsent(v) \in Nat /\ 1 <= FirstUnsent(v)
      BY <3>6, FirstUnsentIs
    <3>8. Sends(h, v, f[m])
      BY <3>5, <3>6, <3>7, SendOneIs
    <3> QED
      BY <2>3, <3>4, <3>8, SendsTrans
  <2> QED
    BY <2>4, <2>5
<1>8. Sends(h, t, f[n])
  BY <1>6, <1>7
<1>9. ASSUME Len(t.sndq) = 1 PROVE f[n] = SendOne(t, FirstUnsent(t), w)
  BY <1>1, <1>9, <1>5
<1> QED
  BY <1>4, <1>8, <1>9

\* tcp_sndhead()
LEMMA SndHeadIs ==
  ASSUME NEW h \in Host, NEW t, IsBlock(t), SndOK(h, t), NEW cwnd \in Int
  PROVE  Sends(h, t, SndHead(t, cwnd))
<1>1. CASE t.nxt >= t.write
  BY <1>1, SendsRefl DEF SndHead
<1>2. CASE ~(t.nxt >= t.write)
  <2>1. PICK last : last = t.sndq[Len(t.sndq)]
    OBVIOUS
  <2>2. PICK nagle : nagle = (last.room > 0 /\ (t.una < t.nxt \/ Len(t.sndq) > 1))
    OBVIOUS
  <2>3. PICK r : r = IF nagle THEN Least(last.seq - t.wndack, cwnd) ELSE cwnd
    OBVIOUS
  <2>4. PICK w : w = t.wndack + Least(t.wnd, r)
    OBVIOUS
  <2>5. SndHead(t, cwnd) = SendFrom(t, w)
    BY <1>2, <2>1, <2>2, <2>3, <2>4, Zenon DEF SndHead
  <2>6. CASE t.sndq = <<>>
    <3>1. Len(t.sndq) = 0
      BY <2>6
    <3>2. PICK f : f = CHOOSE g : Turns(t, w, 0, g)
      OBVIOUS
    <3>3. Turns(t, w, 0, f)
      BY <3>2, TurnsExist, Zenon
    <3>4. f[0] = t
      BY <3>3 DEF Turns
    <3>5. SendFrom(t, w) = f[0]
      BY <3>1, <3>2 DEF SendFrom, Turns
    <3> QED
      BY <2>5, <3>4, <3>5, SendsRefl
  <2>7. CASE t.sndq # <<>>
    <3>1. Len(t.sndq) \in 1..Len(t.sndq)
      BY <2>7, EmptySeq DEF IsBlock
    <3>2. PICK ls \in Int : ls = last.seq
      BY <2>1, <3>1, ItemIs
    <3>3. PICK wa \in Int : wa = t.wndack
      BY DEF IsBlock
    <3>4. PICK wn \in Int : wn = t.wnd
      BY DEF IsBlock
    <3>5. r \in Int
      BY <2>3, <3>2, <3>3 DEF Least
    <3>6. w \in Int
      BY <2>4, <3>3, <3>4, <3>5 DEF Least
    <3> QED
      BY <2>5, <3>6, SendFromIs
  <2> QED
    BY <2>6, <2>7
<1> QED
  BY <1>1, <1>2

LEMMA SumsExist ==
  ASSUME NEW s, NEW n \in Nat
  PROVE  \E f : Sums(s, n, f)
<1>1. PICK T : T = {m \in Nat : ~\E f : Sums(s, m, f)}
  OBVIOUS
<1>2. T = {}
  <2> SUFFICES ASSUME T # {} PROVE FALSE
    OBVIOUS
  <2>1. T \in SUBSET Nat /\ \E z : z \in T
    BY <1>1
  <2>2. PICK m \in T : \A k \in T : m <= k
    BY <2>1, LeastNat
  <2>3. m \in Nat /\ ~\E f : Sums(s, m, f)
    BY <1>1
  <2>4. CASE m = 0
    <3>1. PICK f : f = [k \in 0..m |-> 0]
      OBVIOUS
    <3>2. f = [k \in 0..m |-> IF k = 0 THEN 0 ELSE f[k - 1] + s[k]]
      BY <2>4, <3>1
    <3> QED
      BY <2>3, <3>2 DEF Sums
  <2>5. CASE m > 0
    <3>1. m - 1 \in Nat /\ ~(m <= m - 1)
      BY <2>3, <2>5
    <3>2. m - 1 \notin T
      BY <2>2, <3>1
    <3>3. PICK f : Sums(s, m - 1, f)
      BY <1>1, <3>1, <3>2
    <3>4. PICK c : c = f[m - 1] + s[m]
      OBVIOUS
    <3>5. PICK g : g = [k \in 0..m |-> IF k = m THEN c ELSE f[k]]
      OBVIOUS
    <3>6. \A k \in 0..(m - 1) : f[k] = IF k = 0 THEN 0 ELSE f[k - 1] + s[k]
      BY <3>3 DEF Sums
    <3>7. ASSUME NEW k \in 0..m PROVE g[k] = IF k = 0 THEN 0 ELSE g[k - 1] + s[k]
      BY <2>3, <2>5, <3>5, <3>4, <3>6
    <3>8. g = [k \in 0..m |-> IF k = 0 THEN 0 ELSE g[k - 1] + s[k]]
      BY <3>5, <3>7
    <3> QED
      BY <2>3, <3>8 DEF Sums
  <2> QED
    BY <2>3, <2>4, <2>5
<1> QED
  BY <1>1, <1>2

LEMMA UsedIs ==
  ASSUME NEW t, t.sndq \in Seq(Item), Chain(t.sndq)
  PROVE  /\ Used(t) \in Int
         /\ t.sndq = <<>> => Used(t) = 0
         /\ t.sndq # <<>> =>
              Used(t) = EndOf(t.sndq[Len(t.sndq)]) - One(t.sndq[Len(t.sndq)].fin)
                          - t.sndq[1].seq - One(t.sndq[1].syn)
<1>1. PICK q \in Seq(Item) : q = t.sndq
  OBVIOUS
<1>2. PICK n \in Nat : n = Len(q)
  OBVIOUS
<1>3. PICK s : s = [i \in 1..n |-> q[i].len]
  OBVIOUS
<1>4. s \in Seq(Nat) /\ Len(s) = n /\ \A i \in 1..n : s[i] = q[i].len
  <2>1. ASSUME NEW i \in 1..n PROVE q[i].len \in Nat
    <3>1. q[i] \in Item
      BY <1>2
    <3> QED
      BY <3>1 DEF Item
  <2> QED
    BY <1>3, <2>1
<1>5. PICK f : f = CHOOSE g : Sums(s, n, g)
  OBVIOUS
<1>6. Sums(s, n, f)
  BY <1>5, SumsExist, Zenon
<1>7. Used(t) = f[n]
  <2>1. Used(t) = Total(s)
    BY <1>1, <1>2, <1>3 DEF Used
  <2>2. Total(s) = (CHOOSE g : Sums(s, Len(s), g))[Len(s)]
    BY DEF Total, Sums
  <2> QED
    BY <1>4, <1>5, <2>1, <2>2
<1>8. \A k \in 0..n : f[k] = IF k = 0 THEN 0 ELSE f[k - 1] + s[k]
  BY <1>6 DEF Sums
<1>9. f[0] = 0
  BY <1>8
<1>10. CASE n = 0
  <2>1. t.sndq = <<>>
    BY <1>1, <1>2, <1>10, EmptySeq
  <2> QED
    BY <1>7, <1>9, <1>10, <2>1
<1>11. CASE n > 0
  <2>1. q[1] \in Item /\ 1 \in 1..n
    BY <1>2, <1>11
  <2>2. PICK a \in Int : a = q[1].seq
    BY <2>1 DEF Item
  <2>3. PICK y \in Nat : y = One(q[1].syn)
    BY DEF One
  <2>4. PICK T : T = {k \in 1..n : f[k] # EndOf(q[k]) - One(q[k].fin) - a - y}
    OBVIOUS
  <2>5. T = {}
    <3> SUFFICES ASSUME T # {} PROVE FALSE
      OBVIOUS
    <3>1. T \in SUBSET Nat /\ \E z : z \in T
      BY <2>4
    <3>2. PICK m \in T : \A k \in T : m <= k
      BY <3>1, LeastNat
    <3>3. m \in 1..n /\ f[m] # EndOf(q[m]) - One(q[m].fin) - a - y
      BY <2>4
    <3>4. q[m] \in Item /\ f[m] = f[m - 1] + s[m] /\ s[m] = q[m].len
      BY <1>2, <1>4, <1>8, <3>3
    <3>5. PICK l \in Nat : l = q[m].len
      BY <3>4 DEF Item
    <3>6. PICK sq \in Int : sq = q[m].seq
      BY <3>4 DEF Item
    <3>7. PICK yy \in Nat : yy = One(q[m].syn)
      BY DEF One
    <3>8. PICK ff \in Nat : ff = One(q[m].fin)
      BY DEF One
    <3>9. PICK e \in Int : e = sq + l + yy + ff
      OBVIOUS
    <3>10. e = EndOf(q[m])
      BY <3>5, <3>6, <3>7, <3>8, <3>9 DEF EndOf
    <3>11. f[m] # e - ff - a - y
      BY <3>3, <3>8, <3>10
    <3>12. CASE m = 1
      <4>1. f[m] = l
        BY <1>9, <3>4, <3>5, <3>12
      <4>2. a = sq /\ y = yy
        BY <2>2, <2>3, <3>6, <3>7, <3>12
      <4> QED
        BY <3>9, <3>11, <4>1, <4>2
    <3>13. CASE m > 1
      <4>1. PICK p \in 1..n : p = m - 1
        BY <3>3, <3>13
      <4>2. ~(m <= p)
        BY <3>3, <4>1
      <4>3. p \notin T
        BY <3>2, <4>2
      <4>4. f[p] = EndOf(q[p]) - One(q[p].fin) - a - y
        BY <2>4, <4>3
      <4>5. q[p + 1].seq = EndOf(q[p]) /\ ~q[p].fin /\ ~q[p + 1].syn
        BY <1>1, <1>2, <3>3, <4>1 DEF Chain
      <4>6. p + 1 = m
        BY <3>3, <4>1
      <4>7. EndOf(q[p]) = sq /\ One(q[p].fin) = 0 /\ yy = 0
        BY <3>6, <3>7, <4>5, <4>6 DEF One
      <4>8. f[p] = sq - a - y
        BY <4>4, <4>7
      <4>9. f[m] = (sq - a - y) + l
        BY <3>4, <3>5, <4>1, <4>8
      <4> QED
        BY <3>9, <3>11, <4>7, <4>9
    <3> QED
      BY <3>3, <3>12, <3>13
  <2>6. f[n] = EndOf(q[n]) - One(q[n].fin) - a - y /\ n \in 1..n
    BY <1>11, <2>4, <2>5
  <2>7. PICK e \in Int : e = EndOf(q[n])
    BY <1>2, <2>6, Between
  <2>8. PICK ff \in Nat : ff = One(q[n].fin)
    BY DEF One
  <2>9. f[n] = e - ff - a - y
    BY <2>6, <2>7, <2>8
  <2>10. Used(t) \in Int
    BY <1>7, <2>9
  <2>11. t.sndq # <<>>
    BY <1>1, <1>2, <1>11
  <2> QED
    BY <1>1, <1>2, <1>7, <2>2, <2>3, <2>6, <2>10, <2>11
<1> QED
  BY <1>10, <1>11

LEMMA CanwriteSame ==
  ASSUME NEW t, NEW u, IsBlock(t), IsBlock(u), Untouched(t, u), Alike(t.sndq, u.sndq)
  PROVE  Canwrite(u) = Canwrite(t)
<1>1. PICK p \in Seq(Item) : p = t.sndq
  BY DEF IsBlock
<1>2. PICK q \in Seq(Item) : q = u.sndq
  BY DEF IsBlock
<1>3. PICK n \in Nat : n = Len(p) /\ n = Len(q)
  BY <1>1, <1>2 DEF Alike
<1>4. \A i \in 1..n : q[i].len = p[i].len
  BY <1>1, <1>2, <1>3 DEF Alike
<1>5. [i \in 1..n |-> q[i].len] = [i \in 1..n |-> p[i].len]
  BY <1>4
<1>6. Used(t) = Total([i \in 1..n |-> p[i].len]) /\ Used(u) = Total([i \in 1..n |-> q[i].len])
  BY <1>1, <1>2, <1>3, Zenon DEF Used
<1>7. Used(u) = Used(t)
  BY <1>5, <1>6
<1>8. u.state = t.state
  BY DEF Untouched
<1> HIDE DEF Used
<1> QED
  BY <1>7, <1>8, Zenon DEF Canwrite, Connected

LEMMA StepsOfSends ==
  ASSUME NEW h, NEW t, NEW u, IsBlock(t), Sends(h, t, u)
  PROVE  Steps(h, t, u)
<1>1. Canwrite(u) = Canwrite(t)
  BY CanwriteSame DEF Sends, Unmoved
<1>2. WakeOK(t, u)
  BY <1>1 DEF WakeOK, Sends, Unmoved
<1>3. ASSUME SynGone(t) PROVE SynGone(u)
  <2> SUFFICES ASSUME NEW i \in 1..Len(u.sndq), u.sndq[i].syn PROVE u.sndq[i].seq < u.max
    BY DEF SynGone
  <2>1. i \in 1..Len(t.sndq) /\ t.sndq[i].syn /\ u.sndq[i].seq = t.sndq[i].seq
    BY DEF Sends, Alike
  <2>2. PICK sq \in Int : sq = t.sndq[i].seq
    BY <2>1, ItemIs
  <2>3. sq < t.max
    BY <1>3, <2>1, <2>2 DEF SynGone
  <2>4. t.max <= u.max /\ t.max \in Int /\ u.max \in Int
    BY DEF Sends, IsBlock
  <2> QED
    BY <2>1, <2>2, <2>3, <2>4
<1> QED
  BY <1>2, <1>3 DEF Steps, Sends, Unmoved

LEMMA StepsOfQuiet ==
  ASSUME NEW h, NEW t, NEW u, IsBlock(t), IsBlock(u), SndOK(h, t), Quiet(t, u)
  PROVE  Steps(h, t, u)
<1>1. Alike(t.sndq, u.sndq)
  BY DEF Alike, Quiet
<1>2. Canwrite(u) = Canwrite(t)
  BY <1>1, CanwriteSame DEF Quiet
<1>3. SndOK(h, u)
  BY <1>1, AlikeOK DEF Quiet, Untouched, SndOK
<1>4. t.max <= u.max
  BY DEF Quiet, IsBlock
<1> QED
  BY <1>2, <1>3, <1>4 DEF Steps, Quiet, WakeOK, SynGone, Outs

LEMMA StepsTrans ==
  ASSUME NEW h, NEW t, NEW u, NEW v, IsBlock(t), IsBlock(u), Steps(h, t, u), Steps(h, u, v)
  PROVE  Steps(h, t, v)
<1>1. Untouched(t, v) /\ v.una = t.una
  BY UntouchedTrans DEF Steps
<1>2. t.max <= v.max
  BY DEF Steps, IsBlock
<1>3. WakeOK(t, v)
  BY DEF Steps, Untouched, WakeOK
<1>4. Outs(h, t, t) => Outs(h, t, v)
  BY OutsSame DEF Steps
<1> QED
  BY <1>1, <1>2, <1>3, <1>4 DEF Steps

LEMMA StepsRefl ==
  ASSUME NEW h, NEW t, IsBlock(t), SndOK(h, t)
  PROVE  Steps(h, t, t)
BY SendsRefl, StepsOfSends

LEMMA HeadSteps ==
  ASSUME NEW h \in Host, NEW t, IsBlock(t), SndOK(h, t), NEW cwnd \in Int
  PROVE  /\ Steps(h, t, SndHead(t, cwnd)) /\ SndHead(t, cwnd).ostate = t.ostate
         /\ SndHead(t, cwnd).timer = t.timer
BY SndHeadIs, StepsOfSends DEF Sends, Unmoved

LEMMA SegSteps ==
  ASSUME NEW h \in Host, NEW t, IsBlock(t), SndOK(h, t), NEW i \in 1..Len(t.sndq), NEW n \in Nat,
         NEW w1 \in Int, NEW w2 \in Int
  PROVE  /\ Steps(h, t, SndSeg(t, i, n, w1, w2)) /\ SndSeg(t, i, n, w1, w2).ostate = t.ostate
         /\ SndSeg(t, i, n, w1, w2).timer = t.timer
<1>1. PICK u : u = SndSeg(t, i, n, w1, w2)
  OBVIOUS
<1>2. /\ IsBlock(u) /\ Unmoved(t, u) /\ u.sndq = t.sndq /\ u.nxt = t.nxt
      /\ t.max <= u.max /\ u.max <= t.write
      /\ Outs(h, t, t) => Outs(h, t, u)
  BY <1>1, SndSegIs
<1>3. Alike(t.sndq, u.sndq)
  BY <1>2 DEF Alike
<1>4. u.una = t.una /\ u.write = t.write /\ u.state = t.state
  BY <1>2 DEF Unmoved, Untouched
<1>5. t.una \in Int /\ t.nxt \in Int /\ t.max \in Int /\ u.max \in Int /\ t.una <= t.max /\ t.nxt <= t.max
  BY <1>2 DEF IsBlock, SndOK
<1>6. u.nxt <= u.max /\ t.una <= u.max
  BY <1>2, <1>5
<1>7. SndOK(h, u)
  BY <1>2, <1>3, <1>4, <1>6, AlikeOK
<1>8. Sends(h, t, u)
  BY <1>2, <1>3, <1>7 DEF Sends
<1> QED
  BY <1>1, <1>2, <1>8, StepsOfSends DEF Unmoved

\* The fields of the state machine.
LEMMA SetsIs ==
  ASSUME NEW t, IsBlock(t), NEW o \in Ostates
  PROVE  /\ IsBlock(Start(t)) /\ Quiet(t, Start(t)) /\ Start(t).timer /\ Start(t).ostate = t.ostate
         /\ IsBlock(Restart(t)) /\ Quiet(t, Restart(t)) /\ Restart(t).timer = t.timer
         /\ Restart(t).ostate = t.ostate
         /\ IsBlock(Ostate(t, o)) /\ Quiet(t, Ostate(t, o)) /\ Ostate(t, o).timer = t.timer
         /\ Ostate(t, o).ostate = o
         /\ IsBlock(Done(t)) /\ Quiet(t, Done(t)) /\ ~Done(t).timer /\ Done(t).ostate = "IDLE"
  BY DEF Start, IsBlock, Fields, Quiet, Untouched, Restart, Ostate, Done, Ostates

\* Their steps.
LEMMA SetsSteps ==
  ASSUME NEW h, NEW t, IsBlock(t), SndOK(h, t), NEW o \in Ostates
  PROVE  /\ Steps(h, t, Start(t)) /\ Start(t).timer /\ Start(t).ostate = t.ostate
         /\ Steps(h, t, Restart(t)) /\ Restart(t).timer = t.timer /\ Restart(t).ostate = t.ostate
         /\ Steps(h, t, Ostate(t, o)) /\ Ostate(t, o).timer = t.timer /\ Ostate(t, o).ostate = o
         /\ Steps(h, t, Done(t)) /\ ~Done(t).timer /\ Done(t).ostate = "IDLE"
BY SetsIs, StepsOfQuiet

\* Those that leave the state of the machine, or end it.
LEMMA TimerSteps ==
  ASSUME NEW h, NEW t, IsBlock(t), SndOK(h, t)
  PROVE  /\ Steps(h, t, Start(t)) /\ Start(t).timer /\ Start(t).ostate = t.ostate
         /\ Steps(h, t, Restart(t)) /\ Restart(t).timer = t.timer /\ Restart(t).ostate = t.ostate
         /\ Steps(h, t, Done(t)) /\ ~Done(t).timer /\ Done(t).ostate = "IDLE"
  BY SetsSteps DEF Ostates

\* The window is no concern of the queue.
LEMMA CanretransIs ==
  ASSUME NEW t, Canretrans(t)
  PROVE  t.sndq # <<>>
BY DEF Canretrans

\* tcp_dropdata()
LEMMA DropSteps ==
  ASSUME NEW h \in Host, NEW t, IsBlock(t), SndOK(h, t)
  PROVE  /\ Steps(h, t, Dropdata(t)) /\ Dropdata(t).ostate = t.ostate
         /\ Dropdata(t).timer = t.timer
<1>1. PICK q \in Seq(Item) : q = t.sndq
  BY DEF IsBlock
<1>2. PICK n \in Nat : n = Len(q)
  OBVIOUS
<1>3. Ends(q) \in Seq(Int) /\ Len(Ends(q)) = n /\ t.una \in Int
      /\ \A i \in 1..n : Ends(q)[i] = EndOf(q[i]) /\ EndOf(q[i]) \in Int
  BY <1>2, EndsAre DEF IsBlock
<1>4. PICK k \in Nat : k = Passed(Ends(q), t.una)
  BY <1>3, PassedIs, SMTT(20)
<1>5. k <= n /\ (\A j \in 1..k : EndOf(q[j]) <= t.una)
  <2>1. k \in 0..n /\ \A j \in 1..k : Ends(q)[j] <= t.una
    BY <1>3, <1>4, PassedIs
  <2> QED
    BY <1>3, <2>1
<1>6. PICK r : r = Rest(q, k)
  OBVIOUS
<1>7. r \in Seq(Item) /\ Len(r) = n - k /\ \A i \in 1..(n - k) : r[i] = q[k + i]
  BY <1>2, <1>5, <1>6 DEF Rest
<1>8. PICK u : u = [t EXCEPT !.sndq = r]
  OBVIOUS
<1>9. PICK v : v = Dropdata(t)
  OBVIOUS
<1>10. v = IF r = t.sndq THEN t
           ELSE [u EXCEPT !.nretrans = 0, !.wake = @ \/ (t.sock /\ Canwrite(u) > 0)]
  BY <1>1, <1>4, <1>6, <1>8, <1>9, Zenon DEF Dropdata
<1>11. CASE r = t.sndq
  BY <1>9, <1>10, <1>11, StepsRefl
<1>12. CASE r # t.sndq
  <2>1. IsBlock(u) /\ Untouched(t, u) /\ u.una = t.una /\ u.nxt = t.nxt /\ u.max = t.max
        /\ u.sndq = r /\ u.out = t.out /\ u.wake = t.wake /\ u.ostate = t.ostate /\ u.timer = t.timer
    BY <1>7, <1>8 DEF IsBlock, Fields, Untouched
  <2>2. PICK w \in BOOLEAN : w = (t.wake \/ (t.sock /\ Canwrite(u) > 0))
    OBVIOUS
  <2>3. v = [u EXCEPT !.nretrans = 0, !.wake = w]
    BY <1>10, <1>12, <2>1, <2>2
  <2>4. /\ IsBlock(v) /\ Untouched(u, v) /\ v.una = u.una /\ v.nxt = u.nxt /\ v.max = u.max
        /\ v.sndq = u.sndq /\ v.out = u.out /\ v.wake = w /\ v.ostate = u.ostate /\ v.timer = u.timer
    BY <2>1, <2>3 DEF IsBlock, Fields, Untouched
  <2>5. Untouched(t, v)
    BY <2>1, <2>4, UntouchedTrans
  <2>6. Chain(q) /\ (q # <<>> => (q[n].fin <=> FinSent(t)) /\ EndOf(q[n]) = t.write)
        /\ \A i \in 1..n : q[i].syn => /\ q[i].seq = Isn[h] /\ q[i].len = 0 /\ ~q[i].fin
                                       /\ (q[i].ack <=> h = "sv")
    BY <1>1, <1>2 DEF SndOK
  <2>7. Chain(r)
    <3>1. /\ \A i \in 1..(n - 1) : q[i + 1].seq = EndOf(q[i]) /\ ~q[i].fin /\ ~q[i + 1].syn
          /\ \A i, j \in 1..n : i < j => EndOf(q[i]) <= q[j].seq
      BY <1>2, <2>6 DEF Chain
    <3>2. ASSUME NEW i \in 1..(n - k - 1)
          PROVE  r[i + 1].seq = EndOf(r[i]) /\ ~r[i].fin /\ ~r[i + 1].syn
      <4>1. k + i \in 1..(n - 1) /\ i \in 1..(n - k) /\ i + 1 \in 1..(n - k)
            /\ k + (i + 1) = (k + i) + 1
        BY <1>5
      <4>2. PICK a \in 1..(n - 1) : a = k + i /\ k + (i + 1) = a + 1
        BY <4>1
      <4>3. r[i] = q[a]
        BY <1>7, <4>1, <4>2
      <4>4. r[i + 1] = q[a + 1]
        BY <1>7, <4>1, <4>2
      <4> QED
        BY <3>1, <4>3, <4>4
    <3>3. ASSUME NEW i \in 1..(n - k), NEW j \in 1..(n - k), i < j PROVE EndOf(r[i]) <= r[j].seq
      <4>1. k + i \in 1..n /\ k + j \in 1..n /\ k + i < k + j
        BY <1>5, <3>3
      <4> QED
        BY <1>7, <3>1, <4>1
    <3> QED
      BY <1>7, <3>2, <3>3 DEF Chain
  <2>8. r = <<>> => t.write <= t.una
    BY <1>5, <1>7, <1>1, <1>2, EmptySeq, <2>6 DEF SndOK
  <2>9. r # <<>> => /\ Len(r) \in 1..Len(r) /\ r[Len(r)] = q[n] /\ q # <<>>
    BY <1>5, <1>7, EmptySeq, <1>2
  <2>10. \A i \in 1..Len(r) : \E j \in 1..n : r[i] = q[j]
    BY <1>5, <1>7
  <2>11. SndOK(h, v)
    <3>1. v.sndq = r /\ v.una = t.una /\ v.nxt = t.nxt /\ v.max = t.max /\ v.write = t.write
          /\ (FinSent(v) <=> FinSent(t))
      BY <2>1, <2>4, <2>5 DEF Untouched, FinSent
    <3>2. t.una <= t.max /\ t.nxt <= t.max /\ t.max <= t.write
      BY DEF SndOK
    <3>3. \A i \in 1..Len(r) : r[i].syn => /\ r[i].seq = Isn[h] /\ r[i].len = 0 /\ ~r[i].fin
                                           /\ (r[i].ack <=> h = "sv")
      BY <2>6, <2>10
    <3>4. r # <<>> => (r[Len(r)].fin <=> FinSent(t)) /\ EndOf(r[Len(r)]) = t.write
      BY <2>6, <2>9
    <3> QED
      BY <2>7, <2>8, <3>1, <3>2, <3>3, <3>4 DEF SndOK
  <2>12. SynGone(t) => SynGone(v)
    BY <1>1, <1>2, <2>1, <2>4, <2>10 DEF SynGone
  <2>13. WakeOK(t, v)
    <3>1. Canwrite(v) = Canwrite(u)
      BY <2>4, <2>1, CanwriteSame DEF Alike
    <3>2. Canwrite(u) \in Int /\ Canwrite(u) >= 0
      BY <1>7, <2>1, <2>7, UsedIs, Params DEF Canwrite, Most
    <3>3. t.sock => Canwrite(v) = 0 \/ v.wake
      <4>1. Canwrite(u) = 0 \/ Canwrite(u) > 0
        BY <3>2
      <4> QED
        BY <2>2, <2>4, <3>1, <4>1, Zenon
    <3> QED
      BY <2>2, <2>4, <3>3 DEF WakeOK
  <2>14. Outs(h, t, t) => Outs(h, t, v)
    BY <2>1, <2>4 DEF Outs
  <2>15. t.max <= v.max
    BY <2>1, <2>4 DEF IsBlock
  <2> QED
    BY <1>9, <2>1, <2>4, <2>5, <2>11, <2>12, <2>13, <2>14, <2>15 DEF Steps
<1> QED
  BY <1>11, <1>12

\* What each event does.
LEMMA EventIs ==
  ASSUME NEW t, NEW cwnd, NEW g, t.ostate \in Ostates
  PROVE  /\ t.ostate = "IDLE" => Event(t, "SEND", cwnd, g) = IdleSend(t, cwnd)
         /\ t.ostate = "XMIT" => Event(t, "SEND", cwnd, g) = SndHead(t, cwnd)
         /\ t.ostate \notin {"IDLE", "XMIT"} => Event(t, "SEND", cwnd, g) = t
         /\ t.ostate = "XMIT" => Event(t, "WNDOPEN", cwnd, g) = XmitWnd(SndHead(t, cwnd))
         /\ t.ostate = "PERSIST" => Event(t, "WNDOPEN", cwnd, g) = PersistOpen(t, cwnd)
         /\ t.ostate \notin {"XMIT", "PERSIST"} => Event(t, "WNDOPEN", cwnd, g) = t
         /\ t.ostate \in {"XMIT", "RETRANS"} => Event(t, "WNDCLOSE", cwnd, g) = XmitWnd(t)
         /\ t.ostate \notin {"XMIT", "RETRANS"} => Event(t, "WNDCLOSE", cwnd, g) = t
         /\ t.ostate = "RETRANS" => Event(t, "DUPACK", cwnd, g) = RetransDup(t)
         /\ t.ostate # "RETRANS" => Event(t, "DUPACK", cwnd, g) = t
         /\ Event(t, "NONE", cwnd, g) = t
         /\ t.ostate = "XMIT" => Event(t, "ACKRCVD", cwnd, g) = XmitAck(t)
         /\ t.ostate = "RETRANS" => Event(t, "ACKRCVD", cwnd, g) = RetransAck(t, cwnd)
         /\ t.ostate = "PERSIST" => Event(t, "ACKRCVD", cwnd, g) = PersistAck(t)
         /\ t.ostate = "XMIT" => Event(t, "TIMEOUT", cwnd, g) = XmitTimeout(t)
         /\ t.ostate = "RETRANS" => Event(t, "TIMEOUT", cwnd, g) = Retrans(t)
         /\ t.ostate = "PERSIST" => Event(t, "TIMEOUT", cwnd, g) = PersistTimeout(t, cwnd, g)
  BY DEF Ostates, Event

LEMMA XmitWndSteps ==
  ASSUME NEW h \in Host, NEW t, IsBlock(t), SndOK(h, t), t.ostate # "IDLE"
  PROVE  Steps(h, t, XmitWnd(t)) /\ XmitWnd(t).ostate # "IDLE" /\ XmitWnd(t).timer = t.timer
BY SetsSteps, StepsRefl DEF XmitWnd, Ostates

\* New data
LEMMA SendEvent ==
  ASSUME NEW h \in Host, NEW t, IsBlock(t), SndOK(h, t), t.timer <=> t.ostate # "IDLE",
         t.nxt < t.write, NEW cwnd \in Int, NEW g, NEW u, u = Event(t, "SEND", cwnd, g)
  PROVE  Steps(h, t, u) /\ Busy(u)
<1>1. t.ostate \in Ostates
  BY DEF IsBlock
<1>2. CASE t.ostate = "IDLE"
  <2>1. u = IdleSend(t, cwnd)
    BY <1>1, <1>2, EventIs
  <2>2. PICK v : v = SndHead(t, cwnd)
    OBVIOUS
  <2>3. Steps(h, t, v)
    BY <2>2, HeadSteps
  <2>4. PICK o : o = IF Canretrans(v) THEN "XMIT" ELSE "PERSIST"
    OBVIOUS
  <2>5. o \in Ostates /\ o # "IDLE"
    BY <2>4 DEF Ostates
  <2>6. PICK w : w = Ostate(v, o)
    OBVIOUS
  <2>7. ~(t.nxt >= t.write)
    <3>1. t.nxt \in Int /\ t.write \in Int
      BY DEF IsBlock
    <3> QED
      BY <3>1
  <2>8. u = Start(w)
    BY <2>1, <2>2, <2>4, <2>6, <2>7, Zenon DEF IdleSend
  <2>9. IsBlock(v) /\ SndOK(h, v)
    BY <2>3 DEF Steps
  <2>10. Steps(h, v, w) /\ w.ostate = o
    BY <2>5, <2>6, <2>9, SetsSteps
  <2>11. IsBlock(w) /\ SndOK(h, w)
    BY <2>10 DEF Steps
  <2>12. Steps(h, w, u) /\ u.timer /\ u.ostate = o
    BY <2>5, <2>8, <2>10, <2>11, SetsSteps
  <2> QED
    BY <2>3, <2>5, <2>9, <2>10, <2>11, <2>12, StepsTrans DEF Busy
<1>3. CASE t.ostate = "XMIT"
  BY <1>1, <1>3, EventIs, HeadSteps DEF Busy
<1>4. CASE t.ostate \notin {"IDLE", "XMIT"}
  BY <1>1, <1>4, EventIs, StepsRefl DEF Busy
<1> QED
  BY <1>2, <1>3, <1>4

\* A change of the window, a duplicate
LEMMA WndEvents ==
  ASSUME NEW h \in Host, NEW t, IsBlock(t), SndOK(h, t), NEW cwnd \in Int, NEW g,
         NEW e \in {"WNDOPEN", "WNDCLOSE", "DUPACK", "NONE"}, NEW u, u = Event(t, e, cwnd, g)
  PROVE  Steps(h, t, u) /\ u.timer = t.timer /\ (u.ostate = "IDLE" <=> t.ostate = "IDLE")
<1>1. t.ostate \in Ostates
  BY DEF IsBlock
<1>2. CASE u = t
  BY <1>2, StepsRefl
<1>3. CASE t.ostate \in {"XMIT", "RETRANS"} /\ u = XmitWnd(t)
  BY <1>3, XmitWndSteps
<1>4. CASE t.ostate = "XMIT" /\ u = XmitWnd(SndHead(t, cwnd))
  <2>1. PICK v : v = SndHead(t, cwnd)
    OBVIOUS
  <2>2. Steps(h, t, v) /\ v.ostate = t.ostate /\ v.timer = t.timer
    BY <2>1, HeadSteps
  <2>3. IsBlock(v) /\ SndOK(h, v)
    BY <2>2 DEF Steps
  <2>4. Steps(h, v, u) /\ u.ostate # "IDLE" /\ u.timer = v.timer
    BY <1>4, <2>1, <2>2, <2>3, XmitWndSteps
  <2> QED
    BY <1>4, <2>2, <2>3, <2>4, StepsTrans
<1>5. CASE t.ostate = "PERSIST" /\ u = PersistOpen(t, cwnd)
  <2>1. PICK v : v = SndHead(t, cwnd)
    OBVIOUS
  <2>2. Steps(h, t, v) /\ v.ostate = t.ostate /\ v.timer = t.timer
    BY <2>1, HeadSteps
  <2>3. IsBlock(v) /\ SndOK(h, v)
    BY <2>2 DEF Steps
  <2>4. CASE Canretrans(v)
    <3>1. PICK w : w = Ostate(v, "XMIT")
      OBVIOUS
    <3>2. u = Restart(w)
      BY <1>5, <2>1, <2>4, <3>1 DEF PersistOpen
    <3>3. "XMIT" \in Ostates
      BY DEF Ostates
    <3>4. Steps(h, v, w) /\ w.ostate = "XMIT" /\ w.timer = v.timer
      BY <2>3, <3>1, <3>3, SetsSteps
    <3>5. IsBlock(w) /\ SndOK(h, w)
      BY <3>4 DEF Steps
    <3>6. Steps(h, w, u) /\ u.timer = w.timer /\ u.ostate = w.ostate
      BY <3>2, <3>3, <3>5, SetsSteps
    <3> QED
      BY <1>5, <2>2, <2>3, <3>4, <3>5, <3>6, StepsTrans
  <2>5. CASE ~Canretrans(v)
    BY <1>5, <2>1, <2>2, <2>5 DEF PersistOpen
  <2> QED
    BY <2>4, <2>5
<1>6. CASE t.ostate = "RETRANS" /\ u = RetransDup(t)
  <2>1. PICK i : i = t.dupacks - DupThresh + 1
    OBVIOUS
  <2>2. CASE i \in 1..Len(t.sndq) /\ Canretrans(t) /\ EndOf(t.sndq[i]) <= t.nxt
    <3>1. PICK n \in Nat : n = IF i = 1 THEN t.nretrans ELSE 0
      BY DEF IsBlock
    <3>2. u = SndSeg(t, i, n, t.una, t.nxt)
      BY <1>6, <2>1, <2>2, <3>1 DEF RetransDup
    <3>3. t.una \in Int /\ t.nxt \in Int
      BY DEF IsBlock
    <3> QED
      BY <2>2, <3>2, <3>3, SegSteps
  <2>3. CASE ~(i \in 1..Len(t.sndq) /\ Canretrans(t) /\ EndOf(t.sndq[i]) <= t.nxt)
    BY <1>6, <2>1, <2>3, StepsRefl DEF RetransDup
  <2> QED
    BY <2>2, <2>3
<1> QED
  BY <1>1, <1>2, <1>3, <1>4, <1>5, <1>6, EventIs

\* A timer runs as long as something is not acknowledged, or there is none.
LEMMA DoneOrBusy ==
  ASSUME NEW h \in Host, NEW t, IsBlock(t), SndOK(h, t), t.ostate # "IDLE", t.timer
  PROVE  /\ t.una >= t.write => Steps(h, t, Done(t)) /\ TimerOK(Done(t))
         /\ ~(t.una >= t.write) => Steps(h, t, Restart(t)) /\ TimerOK(Restart(t)) /\ TimerOK(t)
<1>1. PICK a \in Int : a = t.una
  BY DEF IsBlock
<1>2. PICK b \in Int : b = t.write
  BY DEF IsBlock
<1>3. (t.una >= t.write <=> b <= a) /\ (~(t.una >= t.write) <=> a < b)
  BY <1>1, <1>2
<1>5. /\ Steps(h, t, Restart(t)) /\ Restart(t).timer = t.timer /\ Restart(t).ostate = t.ostate
      /\ Steps(h, t, Done(t)) /\ ~Done(t).timer /\ Done(t).ostate = "IDLE"
  BY TimerSteps, ZenonT(40)
<1>6. Restart(t).una = a /\ Restart(t).write = b /\ Done(t).una = a /\ Done(t).write = b
  BY <1>1, <1>2, <1>5 DEF Steps, Untouched
<1>7. ASSUME b <= a PROVE TimerOK(Done(t))
  BY <1>5, <1>6, <1>7 DEF TimerOK
<1>8. ASSUME a < b PROVE TimerOK(Restart(t)) /\ TimerOK(t)
  BY <1>8, <1>1, <1>2, <1>5, <1>6 DEF TimerOK
<1> QED
  BY <1>3, <1>5, <1>7, <1>8

\* An acknowledgement
LEMMA AckEvent ==
  ASSUME NEW h \in Host, NEW t, IsBlock(t), SndOK(h, t), Busy(t), NEW cwnd \in Int, NEW g,
         NEW u, u = Event(t, "ACKRCVD", cwnd, g)
  PROVE  Steps(h, t, u) /\ TimerOK(u)
<1>1. t.ostate \in Ostates /\ t.ostate # "IDLE" /\ t.timer
  BY DEF IsBlock, Busy
<1>2. PICK v : v = Dropdata(t)
  OBVIOUS
<1>3. Steps(h, t, v) /\ v.ostate = t.ostate /\ v.timer = t.timer
  BY <1>2, DropSteps
<1>4. IsBlock(v) /\ SndOK(h, v) /\ v.ostate # "IDLE" /\ v.timer
  BY <1>1, <1>3 DEF Steps
<1>5. /\ v.una >= v.write => Steps(h, v, Done(v)) /\ TimerOK(Done(v))
      /\ ~(v.una >= v.write) => Steps(h, v, Restart(v)) /\ TimerOK(Restart(v)) /\ TimerOK(v)
  BY <1>4, DoneOrBusy
<1>6. CASE t.ostate = "XMIT"
  BY <1>1, <1>2, <1>6, EventIs, <1>3, <1>4, <1>5, StepsTrans DEF XmitAck
<1>7. CASE t.ostate = "PERSIST"
  BY <1>1, <1>2, <1>7, EventIs, <1>3, <1>4, <1>5, StepsTrans DEF PersistAck
<1>8. CASE t.ostate = "RETRANS"
  <2>1. PICK x : x = SndHead(v, cwnd)
    OBVIOUS
  <2>2. PICK y : y = Ostate(x, "XMIT")
    OBVIOUS
  <2>3. u = IF v.una >= v.write THEN Done(v)
            ELSE IF v.una >= v.nxt THEN Restart(y) ELSE Restart(v)
    BY <1>1, <1>2, <1>8, <2>1, <2>2, EventIs DEF RetransAck
  <2>4. CASE ~(v.una >= v.write) /\ v.una >= v.nxt
    <3>1. u = Restart(y)
      BY <2>3, <2>4
    <3>2. Steps(h, v, x) /\ x.ostate = v.ostate /\ x.timer = v.timer
      BY <1>4, <2>1, HeadSteps
    <3>3. IsBlock(x) /\ SndOK(h, x)
      BY <3>2 DEF Steps
    <3>4. "XMIT" \in Ostates
      BY DEF Ostates
    <3>5. Steps(h, x, y) /\ y.ostate = "XMIT" /\ y.timer = x.timer
      BY <2>2, <3>3, <3>4, SetsSteps
    <3>6. IsBlock(y) /\ SndOK(h, y)
      BY <3>5 DEF Steps
    <3>7. y.timer /\ y.ostate # "IDLE"
      BY <1>4, <3>2, <3>5
    <3>8. y.una = v.una /\ y.write = v.write
      BY <3>2, <3>5 DEF Steps, Untouched
    <3>9. Steps(h, y, u) /\ TimerOK(u)
      BY <2>4, <3>1, <3>6, <3>7, <3>8, DoneOrBusy
    <3> QED
      BY <1>3, <1>4, <3>2, <3>3, <3>5, <3>6, <3>9, StepsTrans
  <2>5. CASE ~(~(v.una >= v.write) /\ v.una >= v.nxt)
    BY <2>3, <2>5, <1>3, <1>4, <1>5, StepsTrans
  <2> QED
    BY <2>4, <2>5
<1> QED
  BY <1>1, <1>6, <1>7, <1>8 DEF Ostates

\* The fields that a timeout sets before it sends.
LEMMA CountsSteps ==
  ASSUME NEW h, NEW t, IsBlock(t), SndOK(h, t), NEW r \in Nat, NEW d \in Int, NEW w \in Int
  PROVE  /\ Steps(h, t, [t EXCEPT !.nretrans = r])
         /\ [t EXCEPT !.nretrans = r].ostate = t.ostate
         /\ Steps(h, t, [t EXCEPT !.dupacks = d]) /\ [t EXCEPT !.dupacks = d].ostate = t.ostate
         /\ Steps(h, t, [t EXCEPT !.wndmax = w]) /\ [t EXCEPT !.wndmax = w].ostate = t.ostate
  BY StepsOfQuiet DEF IsBlock, Fields, Quiet, Untouched

\* tcp_probe() sends a byte that is not of the stream.
LEMMA ProbeSteps ==
  ASSUME NEW h \in Host, NEW t, IsBlock(t), SndOK(h, t), t.una < t.write, NEW g,
         t.ostate # "IDLE", NEW u, u = Probe(t, g)
  PROVE  (Steps(h, t, u) /\ u.timer /\ u.ostate # "IDLE") \/ u = Abort(t)
<1>1. CASE g
  BY <1>1 DEF Probe
<1>2. CASE ~g
  <2>1. PICK w \in Int : w = Rcvwnd(t)
    BY RcvwndInt
  <2>2. PICK a \in Int : a = t.una
    BY DEF IsBlock
  <2>3. PICK r \in Int : r = t.rnxt
    BY DEF IsBlock
  <2>4. PICK d \in Seq(Int) : d = <<Bogus>>
    <3>1. Bogus \in Int
      BY DEF Bogus
    <3>2. <<Bogus>> \in Seq(Int)
      BY <3>1
    <3> QED
      BY <3>2, Zenon
  <2>5. Len(d) = 1
    BY <2>4
  <2>6. PICK s : s = [seq |-> a - 2, ack |-> r, flags |-> {"ACK"}, wnd |-> w, data |-> d]
    OBVIOUS
  <2>7. s \in Segment
    BY <2>6 DEF Segment
  <2>8. s.seq = a - 2 /\ s.ack = r /\ s.flags = {"ACK"} /\ s.data = d
    BY <2>6
  <2>9. PICK v : v = [t EXCEPT !.out = Append(@, s)]
    OBVIOUS
  <2>10. u = Start(v)
    BY <1>2, <2>1, <2>2, <2>3, <2>4, <2>6, <2>9 DEF Probe, Seg
  <2>11. PICK q \in Seq(Segment) : q = Append(t.out, s)
    <3>1. t.out \in Seq(Segment)
      BY DEF IsBlock
    <3>2. Append(t.out, s) \in Seq(Segment)
      BY <2>7, <3>1
    <3> QED
      BY <3>2, Zenon
  <2>12. v = [t EXCEPT !.out = q]
    BY <2>9, <2>11
  <2>13. /\ IsBlock(v) /\ Untouched(t, v) /\ v.una = t.una /\ v.nxt = t.nxt /\ v.max = t.max
         /\ v.sndq = t.sndq /\ v.out = Append(t.out, s) /\ v.wake = t.wake /\ v.ostate = t.ostate
    BY <2>11, <2>12 DEF IsBlock, Fields, Untouched
  <2>14. Alike(t.sndq, v.sndq)
    BY <2>13 DEF Alike
  <2>15. SndOK(h, v)
    <3>1. v.write = t.write /\ v.state = t.state
      BY <2>13 DEF Untouched
    <3> QED
      <4>1. v.nxt <= v.max /\ t.una <= v.max /\ v.max <= t.write
        BY <2>13 DEF SndOK
      <4> QED
        BY <2>13, <2>14, <3>1, <4>1, AlikeOK
  <2>16. OutSeg(h, t, s)
    <3>1. ~Has(s, "SYN") /\ ~Has(s, "FIN")
      BY <2>8 DEF Has
    <3>2. EndsAt(s) = a - 1
      <4>1. One(Has(s, "SYN")) = 0
        BY <3>1 DEF One
      <4>2. Len(s.data) = 1 /\ s.seq = a - 2
        BY <2>5, <2>8
      <4>3. EndsAt(s) = (a - 2) + 0 + 1
        BY <4>1, <4>2 DEF EndsAt
      <4> QED
        BY <4>3
    <3>3. a - 1 <= LastByte(t)
      <4>1. PICK b \in Int : b = t.write
        BY DEF IsBlock
      <4>2. LastByte(t) = b \/ LastByte(t) = b - 1
        BY <4>1 DEF LastByte
      <4>3. a < b
        BY <2>2, <4>1
      <4> QED
        BY <4>2, <4>3
    <3>4. s.ack <= t.rnxt /\ s.seq + 2 <= t.una
      BY <2>2, <2>3, <2>8
    <3>5. EndsAt(s) <= LastByte(t)
      BY <3>2, <3>3
    <3> QED
      BY <2>5, <2>8, <3>1, <3>4, <3>5 DEF OutSeg
  <2>17. Outs(h, t, t) => Outs(h, t, v)
    BY <2>7, <2>13, <2>16, OutsMore DEF IsBlock
  <2>18. WakeOK(t, v)
    BY <2>13, <2>14, CanwriteSame DEF WakeOK
  <2>19. Steps(h, t, v)
    BY <2>13, <2>15, <2>17, <2>18 DEF IsBlock, SynGone, Steps
  <2>20. v.ostate \in Ostates
    BY <2>13 DEF IsBlock
  <2>21. Steps(h, v, u) /\ u.timer /\ u.ostate = v.ostate
    BY <2>10, <2>13, <2>15, <2>20, SetsSteps
  <2> QED
    BY <2>13, <2>19, <2>21, StepsTrans
<1> QED
  BY <1>1, <1>2

\* tcp_retrans()
LEMMA RetransSteps ==
  ASSUME NEW h \in Host, NEW t, IsBlock(t), SndOK(h, t), t.una < t.write, t.ostate # "IDLE",
         NEW u, u = Retrans(t)
  PROVE  (Steps(h, t, u) /\ u.timer /\ u.ostate # "IDLE") \/ u = Abort(t)
<1>1. PICK r \in Nat : r = t.nretrans + 1
  BY DEF IsBlock
<1>2. PICK v : v = [t EXCEPT !.nretrans = r]
  OBVIOUS
<1>3. Steps(h, t, v) /\ v.ostate = t.ostate
  <2>1. 0 \in Int
    OBVIOUS
  <2> QED
    BY <1>2, <2>1, CountsSteps
<1>4. IsBlock(v) /\ SndOK(h, v)
  BY <1>3 DEF Steps
<1>5. v.nretrans = r /\ v.sndq = t.sndq
  BY <1>2 DEF IsBlock, Fields
<1>6. t.sndq # <<>>
  BY DEF IsBlock, SndOK
<1>7. PICK w : w = SndSeg(v, 1, r, t.una, t.nxt)
  OBVIOUS
<1>8. u = IF r > MaxRetry THEN Abort(t) ELSE Start(w)
  BY <1>1, <1>2, <1>5, <1>6, <1>7 DEF Retrans, Counted
<1>9. 1 \in 1..Len(v.sndq) /\ t.una \in Int /\ t.nxt \in Int
  BY <1>5, <1>6, EmptySeq DEF IsBlock
<1>10. Steps(h, v, w) /\ w.ostate = v.ostate
  BY <1>4, <1>7, <1>9, SegSteps
<1>11. IsBlock(w) /\ SndOK(h, w) /\ w.ostate \in Ostates
  BY <1>10 DEF Steps, IsBlock
<1>12. Steps(h, w, Start(w)) /\ Start(w).timer /\ Start(w).ostate = w.ostate
  BY <1>11, SetsSteps
<1>13. Steps(h, t, Start(w))
  BY <1>3, <1>4, <1>10, <1>11, <1>12, StepsTrans
<1> QED
  BY <1>3, <1>8, <1>10, <1>12, <1>13

\* The timer has run out.
LEMMA TimeoutEvent ==
  ASSUME NEW h \in Host, NEW t, IsBlock(t), SndOK(h, t), t.una < t.write, t.ostate # "IDLE",
         NEW cwnd \in Int, NEW g, NEW u, u = Event(t, "TIMEOUT", cwnd, g)
  PROVE  \/ Steps(h, t, u) /\ u.timer /\ u.ostate # "IDLE"
         \/ \E v : Steps(h, t, v) /\ u = Abort(v)
<1>1. t.ostate \in Ostates
  BY DEF IsBlock
<1>2. CASE t.ostate = "RETRANS"
  BY <1>1, <1>2, EventIs, RetransSteps, StepsRefl
<1>3. CASE t.ostate = "XMIT"
  <2>1. PICK v : v = Ostate(t, "RETRANS")
    OBVIOUS
  <2>2. "RETRANS" \in Ostates
    BY DEF Ostates
  <2>3. Steps(h, t, v) /\ v.ostate = "RETRANS"
    BY <2>1, <2>2, SetsSteps
  <2>4. IsBlock(v) /\ SndOK(h, v)
    BY <2>3 DEF Steps
  <2>5. PICK d \in Int : d = Least(v.dupacks, DupThresh - 1)
    BY <2>4, Params DEF Least, IsBlock
  <2>6. PICK w : w = [v EXCEPT !.dupacks = d]
    OBVIOUS
  <2>7. u = Retrans(w)
    <3>1. w = [v EXCEPT !.dupacks = Least(@, DupThresh - 1)]
      BY <2>5, <2>6
    <3> QED
      BY <1>1, <1>3, <2>1, <3>1, EventIs DEF XmitTimeout
  <2>8. Steps(h, v, w) /\ w.ostate = v.ostate
    BY <2>4, <2>6, CountsSteps
  <2>9. IsBlock(w) /\ SndOK(h, w)
    BY <2>8 DEF Steps
  <2>10. w.una = t.una /\ w.write = t.write
    BY <2>3, <2>8 DEF Steps, Untouched
  <2>11. (Steps(h, w, u) /\ u.timer /\ u.ostate # "IDLE") \/ u = Abort(w)
    BY <2>3, <2>7, <2>8, <2>9, <2>10, RetransSteps
  <2>12. Steps(h, t, w)
    BY <2>3, <2>4, <2>8, StepsTrans
  <2> QED
    BY <2>9, <2>11, <2>12, StepsTrans
<1>4. CASE t.ostate = "PERSIST"
  <2>1. PICK v : v = [t EXCEPT !.wndmax = t.wnd]
    OBVIOUS
  <2>2. Steps(h, t, v) /\ v.ostate = t.ostate
    <3>1. 0 \in Nat /\ 0 \in Int /\ t.wnd \in Int
      BY DEF IsBlock
    <3> QED
      BY <2>1, <3>1, CountsSteps
  <2>3. IsBlock(v) /\ SndOK(h, v)
    BY <2>2 DEF Steps
  <2>4. PICK w : w = SndHead(v, cwnd)
    OBVIOUS
  <2>5. Steps(h, v, w) /\ w.ostate = v.ostate
    BY <2>3, <2>4, HeadSteps
  <2>6. IsBlock(w) /\ SndOK(h, w) /\ w.una = t.una /\ w.write = t.write
    BY <2>2, <2>5 DEF Steps, Untouched
  <2>7. Steps(h, t, w)
    BY <2>2, <2>3, <2>5, StepsTrans
  <2>8. PICK x : x = Ostate(w, "XMIT")
    OBVIOUS
  <2>9. u = IF t.wnd = 0 THEN Probe(t, g) ELSE IF Canretrans(w) THEN Start(x) ELSE Probe(w, g)
    BY <1>1, <1>4, <2>1, <2>4, <2>8, EventIs DEF PersistTimeout
  <2>10. CASE u = Probe(t, g)
    BY <2>10, ProbeSteps, StepsRefl
  <2>11. CASE u = Probe(w, g)
    BY <2>2, <2>5, <2>6, <2>11, ProbeSteps, <2>7, StepsTrans
  <2>12. CASE u = Start(x)
    <3>1. "XMIT" \in Ostates
      BY DEF Ostates
    <3>2. Steps(h, w, x) /\ x.ostate = "XMIT"
      BY <2>6, <2>8, <3>1, SetsSteps
    <3>3. IsBlock(x) /\ SndOK(h, x)
      BY <3>2 DEF Steps
    <3>4. Steps(h, x, u) /\ u.timer /\ u.ostate = "XMIT"
      BY <2>12, <3>1, <3>2, <3>3, SetsSteps
    <3> QED
      BY <2>6, <2>7, <3>2, <3>3, <3>4, StepsTrans
  <2> QED
    BY <2>9, <2>10, <2>11, <2>12
<1> QED
  BY <1>1, <1>2, <1>3, <1>4 DEF Ostates

\* The blocks that are no more.
LEMMA ResetIs ==
  ASSUME NEW t, IsBlock(t)
  PROVE  LET u == [Reset(t) EXCEPT !.state = "CLOSED"]
         IN  /\ IsBlock(u) /\ u.state = "CLOSED" /\ ~u.timer /\ ~u.del /\ ~u.delack /\ u.err
             /\ u.rcvq = <<>> /\ u.sndq = <<>> /\ u.out = t.out /\ u.sock = t.sock /\ u.una = t.una
             /\ u.read = t.read /\ (t.sock => u.wake) /\ u.fatal = t.fatal /\ u.ostate = "IDLE"
<1>1. <<>> \in Seq(Item) /\ <<>> \in Seq(Chunk) /\ "IDLE" \in Ostates /\ "CLOSED" \in States
      /\ 0 \in Int
  BY DEF Ostates, States
<1>2. PICK w \in BOOLEAN : w = (t.wake \/ t.sock)
  OBVIOUS
<1>3. PICK u : u = [Reset(t) EXCEPT !.state = "CLOSED"]
  OBVIOUS
<1>4. u = [t EXCEPT !.ostate = "IDLE", !.timer = FALSE, !.del = FALSE, !.delack = FALSE,
            !.err = TRUE, !.sndq = <<>>, !.rcvq = <<>>, !.cur = 0, !.wake = w, !.state = "CLOSED"]
  BY <1>2, <1>3 DEF Reset, IsBlock, Fields
<1>5. /\ IsBlock(u) /\ u.state = "CLOSED" /\ ~u.timer /\ ~u.del /\ ~u.delack /\ u.err
      /\ u.rcvq = <<>> /\ u.sndq = <<>> /\ u.out = t.out /\ u.sock = t.sock /\ u.una = t.una
      /\ u.read = t.read /\ u.wake = w /\ u.fatal = t.fatal /\ u.ostate = "IDLE"
  BY <1>1, <1>4, ZenonT(40) DEF IsBlock, Fields
<1> QED
  BY <1>2, <1>3, <1>5

\* A block that was never one, and what is left of a deleted one.
LEMMA NoTcbIs ==
  ASSUME NEW out \in Seq(Segment), NEW f \in BOOLEAN
  PROVE  LET u == [NoTcb EXCEPT !.out = out, !.fatal = f]
         IN  /\ IsBlock(u) /\ u.state = "none" /\ u.out = out /\ ~u.timer /\ ~u.sock /\ ~u.del
             /\ ~u.delack /\ u.rcvq = <<>> /\ u.una = 0 /\ u.sndq = <<>> /\ ~u.err /\ ~u.disc
             /\ ~u.wake
  BY Params DEF Ostates, States, NoTcb, Block, NoFin, IsBlock, Fields

\* A block that is not there satisfies its invariant.
LEMMA DeadOK ==
  ASSUME NEW h, NEW u, IsBlock(u), u.rcvq = <<>>, ~u.timer, ~u.del,
         u.state = "CLOSED" \/ (u.state = "none" /\ u.una = 0 /\ ~u.delack),
         u.sock <=> u.state = "CLOSED"
  PROVE  BlockOK(h, u)
  BY DEF Live, Synced, FinSent, Placed, Staggered, RcvOK, StateOK, BlockOK

LEMMA AbortIs ==
  ASSUME NEW h, NEW t, IsBlock(t)
  PROVE  Gone(h, t, Abort(t)) /\ Abort(t).rcvq = <<>> /\ (t.sock => Abort(t).wake)
<1>1. PICK v : v = [Reset(t) EXCEPT !.state = "CLOSED"]
  OBVIOUS
<1>2. /\ IsBlock(v) /\ v.state = "CLOSED" /\ ~v.timer /\ ~v.del /\ ~v.delack /\ v.err
      /\ v.rcvq = <<>> /\ v.sndq = <<>> /\ v.out = t.out /\ v.sock = t.sock /\ v.una = t.una
      /\ v.read = t.read /\ (t.sock => v.wake) /\ v.fatal = t.fatal /\ v.ostate = "IDLE"
  BY <1>1, ResetIs
<1>3. Abort(t) = Delete(v)
  BY <1>1 DEF Abort
<1>4. CASE t.sock
  <2>1. PICK u : u = [v EXCEPT !.state = "CLOSED"]
    OBVIOUS
  <2>2. Abort(t) = u
    BY <1>2, <1>3, <1>4, <2>1 DEF Delete
  <2>3. /\ IsBlock(u) /\ u.state = "CLOSED" /\ ~u.timer /\ ~u.del /\ u.rcvq = <<>> /\ u.out = t.out
        /\ u.sock = t.sock /\ u.una = t.una /\ u.wake
    BY <1>2, <1>4, <2>1 DEF States, IsBlock, Fields
  <2>4. BlockOK(h, u)
    BY <1>4, <2>3, DeadOK
  <2> QED
    BY <2>2, <2>3, <2>4 DEF Gone
<1>5. CASE ~t.sock
  <2>1. Abort(t) = [NoTcb EXCEPT !.out = v.out, !.fatal = v.fatal]
    BY <1>2, <1>3, <1>5 DEF Delete
  <2>2. PICK o \in Seq(Segment) : o = v.out
    BY <1>2 DEF IsBlock
  <2>2a. PICK f \in BOOLEAN : f = v.fatal
    BY <1>2 DEF IsBlock
  <2>3. PICK u : u = [NoTcb EXCEPT !.out = o, !.fatal = f]
    OBVIOUS
  <2>3a. u = Abort(t)
    BY <2>1, <2>2, <2>2a, <2>3, Zenon
  <2>4. /\ IsBlock(u) /\ u.state = "none" /\ u.out = v.out /\ ~u.timer /\ ~u.sock /\ ~u.del
        /\ ~u.delack /\ u.rcvq = <<>> /\ u.una = 0
    BY <2>2, <2>3, NoTcbIs
  <2>5. BlockOK(h, u)
    BY <2>4, DeadOK
  <2>6. u.sock = t.sock
    BY <1>5, <2>4 DEF IsBlock
  <2> QED
    BY <1>2, <1>5, <2>3a, <2>4, <2>5, <2>6 DEF Gone
<1> QED
  BY <1>4, <1>5 DEF IsBlock

LEMMA DeleteIs ==
  ASSUME NEW h, NEW t, IsBlock(t), ~t.timer, Placed(t.rcvq), Staggered(t.rcvq)
  PROVE  /\ Gone(h, t, Delete(t))
         /\ Delete(t).rcvq # <<>> => Delete(t).rcvq = t.rcvq /\ Delete(t).read = t.read
         /\ t.sock => /\ Delete(t).rcvq = t.rcvq /\ Delete(t).read = t.read /\ Delete(t).err = t.err
                      /\ Delete(t).state = "CLOSED"
<1>1. PICK u : u = Delete(t)
  OBVIOUS
<1>2. CASE t.sock
  BY <1>1, <1>2 DEF Delete, States, IsBlock, Fields, Live, Synced, FinSent, RcvOK, StateOK, BlockOK,
     Gone
<1>3. CASE ~t.sock
  <2>1. u = [NoTcb EXCEPT !.out = t.out, !.fatal = t.fatal]
    BY <1>1, <1>3 DEF Delete
  <2>2. t.out \in Seq(Segment) /\ t.fatal \in BOOLEAN
    BY DEF IsBlock
  <2>3. /\ IsBlock(u) /\ u.state = "none" /\ u.out = t.out /\ ~u.timer /\ ~u.sock /\ ~u.del
        /\ ~u.delack /\ u.rcvq = <<>> /\ u.una = 0
    BY <2>1, <2>2, NoTcbIs
  <2>4. BlockOK(h, u)
    BY <2>3, DeadOK
  <2>5. u.sock = t.sock
    BY <1>3, <2>3 DEF IsBlock
  <2> QED
    BY <1>1, <1>3, <2>3, <2>4, <2>5 DEF Gone
<1> QED
  BY <1>2, <1>3 DEF IsBlock

\* Such a step
LEMMA GoneTurn ==
  ASSUME NEW h, NEW t, NEW x, NEW v, NEW u, Gone(h, v, u), v.sock = t.sock, v.una \in {t.una, x},
         u.rcvq # <<>> => u.rcvq = t.rcvq /\ u.read = t.read,
         Sleep(t, u),
         NEW b, IsBlock(b), FinSent(b) <=> FinSent(t), LastByte(b) = LastByte(t), b.una \in {t.una, x},
         AllRst(v) \/ (Live(t) /\ Outs(h, b, v))
  PROVE  Turn(h, t, u, x)
  BY DEF Gone, Live, Synced, Speaks, AllRst, Said, Outs, Turn

\* A segment has the types of its fields.
LEMMA SegIs ==
  ASSUME NEW s \in Segment
  PROVE  /\ s.seq \in Int /\ s.ack \in Int /\ s.wnd \in Int /\ s.data \in Seq(Int)
         /\ s.flags \in SUBSET {"SYN", "FIN", "ACK", "RST"} /\ Len(s.data) \in Nat
         /\ SegLen(s) \in Nat /\ EndsAt(s) \in Int /\ LastOf(s) \in Int
         /\ SegLen(s) = Len(s.data) + One(Has(s, "SYN")) + One(Has(s, "FIN"))
         /\ EndsAt(s) = s.seq + One(Has(s, "SYN")) + Len(s.data)
<1>1. /\ s.seq \in Int /\ s.ack \in Int /\ s.wnd \in Int /\ s.data \in Seq(Int)
      /\ s.flags \in SUBSET {"SYN", "FIN", "ACK", "RST"}
  BY DEF Segment
<1>2. PICK n \in Nat : n = Len(s.data)
  BY <1>1
<1>3. PICK y \in Nat : y = One(Has(s, "SYN"))
  BY DEF One
<1>4. PICK f \in Nat : f = One(Has(s, "FIN"))
  BY DEF One
<1>5. PICK a \in Int : a = s.seq
  BY <1>1
<1>6. SegLen(s) = n + y + f /\ EndsAt(s) = a + y + n
  BY <1>2, <1>3, <1>4, <1>5 DEF SegLen, EndsAt
<1>7. PICK l \in Nat : l = SegLen(s)
  BY <1>6
<1>8. LastOf(s) = a + l - 1 \/ LastOf(s) = a + l
  BY <1>5, <1>7 DEF LastOf, One
<1>9. LastOf(s) \in Int
  BY <1>8
<1>10. SegLen(s) \in Nat /\ EndsAt(s) \in Int /\ Len(s.data) \in Nat
  BY <1>2, <1>6
<1>11. SegLen(s) = Len(s.data) + One(Has(s, "SYN")) + One(Has(s, "FIN"))
  BY Zenon DEF SegLen
<1>12. EndsAt(s) = s.seq + One(Has(s, "SYN")) + Len(s.data)
  BY Zenon DEF EndsAt
<1> QED
  BY <1>1, <1>9, <1>10, <1>11, <1>12

\* tcp_sndrst()
LEMMA SndRstIs ==
  ASSUME NEW t, IsBlock(t), NEW s \in Segment, NEW u, u = SndRst(t, s)
  PROVE  /\ IsBlock(u) /\ Unmoved(t, u) /\ u.sndq = t.sndq /\ u.nxt = t.nxt /\ u.max = t.max
         /\ u.delack = t.delack
         /\ AllRst(t) => AllRst(u)
         /\ \A h, b : Outs(h, b, t) => Outs(h, b, u)
<1>1. CASE u = t
  BY <1>1 DEF Unmoved, Untouched
<1>2. CASE u # t
  <2>1. PICK q \in Int : q = IF Has(s, "ACK") THEN s.ack ELSE 0
    BY DEF Segment
  <2>2. PICK f : f = IF Has(s, "ACK") THEN {"RST"} ELSE {"RST", "ACK"}
    OBVIOUS
  <2>3. PICK a \in Int : a = s.seq + SegLen(s)
    BY SegIs
  <2>4. PICK d \in Seq(Int) : d = <<>>
    <3>1. <<>> \in Seq(Int)
      OBVIOUS
    <3> QED
      BY <3>1, Zenon
  <2>5. PICK r : r = Seg(q, a, f, 0, d)
    OBVIOUS
  <2>6. r \in Segment /\ Has(r, "RST")
    BY <2>2, <2>5 DEF Seg, Segment, Has
  <2>7. u = [t EXCEPT !.out = Append(@, r)]
    BY <1>2, <2>1, <2>2, <2>3, <2>4, <2>5 DEF SndRst
  <2>8. PICK o \in Seq(Segment) : o = t.out
    BY DEF IsBlock
  <2>9. PICK p \in Seq(Segment) : p = Append(o, r)
    <3>1. Append(o, r) \in Seq(Segment)
      BY <2>6
    <3> QED
      BY <3>1, Zenon
  <2>10. Len(p) = Len(o) + 1 /\ (\A i \in 1..Len(o) : p[i] = o[i]) /\ p[Len(o) + 1] = r
    BY <2>6, <2>9
  <2>11. u = [t EXCEPT !.out = p]
    BY <2>7, <2>8, <2>9
  <2>12. /\ IsBlock(u) /\ Unmoved(t, u) /\ u.sndq = t.sndq /\ u.nxt = t.nxt /\ u.max = t.max
         /\ u.delack = t.delack /\ u.out = p
    BY <2>11 DEF IsBlock, Fields, Unmoved, Untouched
  <2>13. \A i \in 1..Len(p) : i \in 1..Len(o) \/ p[i] = r
    BY <2>10
  <2>14. AllRst(t) => AllRst(u)
    BY <2>6, <2>8, <2>10, <2>12, <2>13 DEF AllRst
  <2>15. ASSUME NEW h, NEW b, Outs(h, b, t) PROVE Outs(h, b, u)
    <3> SUFFICES ASSUME NEW i \in 1..Len(p) PROVE OutSeg(h, b, p[i])
      BY <2>12 DEF Outs
    <3>1. CASE i \in 1..Len(o)
      BY <2>8, <2>10, <2>15, <3>1 DEF Outs
    <3>2. CASE p[i] = r
      BY <2>6, <3>2 DEF OutSeg
    <3> QED
      BY <2>13, <3>1, <3>2
  <2> QED
    BY <2>12, <2>14, <2>15
<1> QED
  BY <1>1, <1>2

\* An acknowledgement without data
LEMMA PlainIs ==
  ASSUME NEW h, NEW t, IsBlock(t), NEW seq \in Int, NEW u, u = Acking(t, seq, {"ACK"}, <<>>)
  PROVE  /\ IsBlock(u) /\ Unmoved(t, u) /\ u.sndq = t.sndq /\ u.nxt = t.nxt /\ u.max = t.max
         /\ u.fatal = t.fatal /\ Len(u.out) = Len(t.out) + 1 /\ ~u.delack
         /\ \A i \in 1..Len(t.out) : u.out[i] = t.out[i]
         /\ u.out[Len(t.out) + 1].data = <<>> /\ u.out[Len(t.out) + 1].flags = {"ACK"}
         /\ OutSeg(h, t, u.out[Len(t.out) + 1])
         /\ Outs(h, t, t) => Outs(h, t, u)
<1>1. PICK f \in SUBSET {"SYN", "FIN", "ACK", "RST"} : f = {"ACK"}
  OBVIOUS
<1>2. PICK d \in Seq(Int) : d = <<>>
  <2>1. <<>> \in Seq(Int)
    OBVIOUS
  <2> QED
    BY <2>1, Zenon
<1>3. u = Acking(t, seq, f, d)
  BY <1>1, <1>2
<1>4. /\ IsBlock(u) /\ Unmoved(t, u)
      /\ u.sndq = t.sndq /\ u.nxt = t.nxt /\ u.max = t.max /\ u.fatal = t.fatal
      /\ u.out = Append(t.out, Seg(seq, t.rnxt, f, Rcvwnd(t), d))
  <2>1. /\ IsBlock(Acking(t, seq, f, d)) /\ Unmoved(t, Acking(t, seq, f, d))
        /\ Acking(t, seq, f, d).sndq = t.sndq /\ Acking(t, seq, f, d).nxt = t.nxt
        /\ Acking(t, seq, f, d).max = t.max /\ Acking(t, seq, f, d).fatal = t.fatal
        /\ Acking(t, seq, f, d).out = Append(t.out, Seg(seq, t.rnxt, f, Rcvwnd(t), d))
    BY AckingFields
  <2> QED
    BY <1>3, <2>1, Zenon
<1>5. PICK r : r = Seg(seq, t.rnxt, f, Rcvwnd(t), d)
  OBVIOUS
<1>6. PICK o \in Seq(Segment) : o = t.out
  BY DEF IsBlock
<1>7. PICK w \in Int : w = Rcvwnd(t)
  BY RcvwndInt
<1>8. PICK a \in Int : a = t.rnxt
  BY DEF IsBlock
<1>9. r = [seq |-> seq, ack |-> a, flags |-> f, wnd |-> w, data |-> d]
  BY <1>5, <1>7, <1>8 DEF Seg
<1>10. r \in Segment /\ r.ack = a /\ r.flags = f /\ r.data = d
  BY <1>9 DEF Segment
<1>11. OutSeg(h, t, r)
  BY <1>1, <1>2, <1>10, <1>8 DEF AtPlace, Has, OutSeg
<1>12. u.out = Append(o, r)
  BY <1>4, <1>5, <1>6
<1>13. /\ Len(u.out) = Len(o) + 1 /\ (\A i \in 1..Len(o) : u.out[i] = o[i])
       /\ u.out[Len(o) + 1] = r
  BY <1>10, <1>12, SMTT(20)
<1>14. ASSUME Outs(h, t, t) PROVE Outs(h, t, u)
  <2> SUFFICES ASSUME NEW i \in 1..Len(u.out) PROVE OutSeg(h, t, u.out[i])
    BY DEF Outs
  <2>1. CASE i \in 1..Len(o)
    BY <1>6, <1>13, <1>14, <2>1 DEF Outs
  <2>2. CASE i = Len(o) + 1
    BY <1>11, <1>13, <2>2
  <2> QED
    BY <1>13, <2>1, <2>2
<1>15. ~u.delack
  BY <1>3 DEF Acking, IsBlock, Fields
<1> QED
  BY <1>1, <1>2, <1>4, <1>6, <1>10, <1>11, <1>13, <1>14, <1>15

\* Nothing of the queue goes out.
LEMMA SameSends ==
  ASSUME NEW h, NEW t, IsBlock(t), SndOK(h, t), NEW u, IsBlock(u), Unmoved(t, u), u.sndq = t.sndq,
         u.nxt = t.nxt, u.max = t.max, Outs(h, t, t) => Outs(h, t, u)
  PROVE  Sends(h, t, u)
<1>1. Alike(t.sndq, u.sndq)
  BY DEF Alike
<1>2. u.una = t.una /\ u.write = t.write /\ u.state = t.state
  BY DEF Unmoved, Untouched
<1>3. u.nxt <= u.max /\ t.una <= u.max /\ u.max <= t.write /\ t.max <= u.max
  BY DEF SndOK, IsBlock
<1>4. SndOK(h, u)
  BY <1>1, <1>2, <1>3, AlikeOK
<1> QED
  BY <1>1, <1>3, <1>4 DEF Sends

\* An acknowledgement changes nothing of what there is to send.
LEMMA PlainSteps ==
  ASSUME NEW h, NEW t, IsBlock(t), SndOK(h, t), NEW seq \in Int
  PROVE  /\ Steps(h, t, Acking(t, seq, {"ACK"}, <<>>))
         /\ Acking(t, seq, {"ACK"}, <<>>).ostate = t.ostate
         /\ Acking(t, seq, {"ACK"}, <<>>).timer = t.timer
<1>1. PICK u : u = Acking(t, seq, {"ACK"}, <<>>)
  OBVIOUS
<1>2. /\ IsBlock(u) /\ Unmoved(t, u) /\ u.sndq = t.sndq /\ u.nxt = t.nxt /\ u.max = t.max
      /\ Outs(h, t, t) => Outs(h, t, u)
  BY <1>1, PlainIs, ZenonT(40)
<1>3. Sends(h, t, u)
  BY <1>2, SameSends
<1> QED
  BY <1>1, <1>2, <1>3, StepsOfSends DEF Unmoved

LEMMA AckOnlySteps ==
  ASSUME NEW h, NEW t, IsBlock(t), SndOK(h, t)
  PROVE  /\ Steps(h, t, SndAckOnly(t)) /\ SndAckOnly(t).ostate = t.ostate
         /\ SndAckOnly(t).timer = t.timer
  BY PlainSteps DEF IsBlock, SndAckOnly

LEMMA SndAckSteps ==
  ASSUME NEW h, NEW t, IsBlock(t), SndOK(h, t), NEW s
  PROVE  Steps(h, t, SndAck(t, s)) /\ SndAck(t, s).ostate = t.ostate /\ SndAck(t, s).timer = t.timer
<1>1. PICK a \in Int : a = Least(t.nxt, t.wndack + t.wnd - One(t.wnd > 0))
  <2>1. PICK n \in Int : n = t.nxt
    BY DEF IsBlock
  <2>2. PICK m \in Int : m = t.wndack + t.wnd - One(t.wnd > 0)
    <3>1. PICK o \in Int : o = One(t.wnd > 0)
      BY DEF One
    <3>2. PICK p \in Int : p = t.wndack
      BY DEF IsBlock
    <3>3. PICK q \in Int : q = t.wnd
      BY DEF IsBlock
    <3> QED
      BY <3>1, <3>2, <3>3
  <2>3. Least(n, m) \in Int
    BY DEF Least
  <2> QED
    BY <2>1, <2>2, <2>3, Zenon
<1>2. CASE Has(s, "RST")
  BY <1>2, StepsRefl DEF SndAck
<1>3. CASE ~Has(s, "RST")
  BY <1>1, <1>3, PlainSteps DEF SndAck
<1> QED
  BY <1>2, <1>3

LEMMA SndRstSteps ==
  ASSUME NEW h, NEW t, IsBlock(t), SndOK(h, t), NEW s \in Segment
  PROVE  Steps(h, t, SndRst(t, s)) /\ SndRst(t, s).ostate = t.ostate /\ SndRst(t, s).timer = t.timer
  BY SndRstIs, SameSends, StepsOfSends DEF Unmoved

\* What a reader may read depends on the receive queue only.
LEMMA ReadableSame ==
  ASSUME NEW t, NEW u, u.rcvq = t.rcvq, u.read = t.read
  PROVE  Readable(u) = Readable(t)
  BY DEF NotRead, Readable

\* The invariant of a block whose own side has made a step.
LEMMA StepsOK ==
  ASSUME NEW h, NEW t, NEW u, BlockOK(h, t), Live(t), Steps(h, t, u), TimerOK(u)
  PROVE  BlockOK(h, u)
  BY DEF Steps, Untouched, BlockOK, RcvOK, Synced, Kept, StateOK, Live, FinSent, Finished

LEMMA StepsTurn ==
  ASSUME NEW h, NEW t, NEW u, NEW x, BlockOK(h, t), Live(t), t.out = <<>>, Steps(h, t, u), TimerOK(u)
  PROVE  /\ Turn(h, t, u, x)
         /\ \A G, z : RcvEnd(t, G, z) => RcvEnd(u, G, z)
<1>1. /\ IsBlock(u) /\ SndOK(h, u) /\ u.una = t.una /\ u.state = t.state /\ u.write = t.write
      /\ u.rnxt = t.rnxt /\ u.read = t.read /\ u.fin = t.fin /\ u.rcvq = t.rcvq /\ u.sock = t.sock
      /\ u.err = t.err
  BY DEF Steps, Untouched
<1>2. BlockOK(h, u)
  BY StepsOK
<1>3. Outs(h, t, u)
  BY DEF Steps, Outs
<1>4. Speaks(t, u, x, t)
  <2>1. t.rnxt \in Int /\ IsBlock(t)
    BY DEF BlockOK, IsBlock
  <2>2. u.state = "SYNSENT" => t.rnxt = 0
    BY <1>1 DEF BlockOK, StateOK
  <2> QED
    BY <1>1, <2>1, <2>2 DEF Speaks
<1>5. Said(h, t, u, x)
  BY <1>3, <1>4 DEF Said, Live
<1>6. Sleep(t, u)
  BY <1>1, ReadableSame DEF Sleep, Steps, WakeOK
<1>7. Turn(h, t, u, x)
  <2>1. t.rnxt <= u.rnxt
    BY <1>1 DEF BlockOK, IsBlock
  <2>2. (Live(u) <=> Live(t)) /\ (FinSent(u) <=> FinSent(t)) /\ (Synced(u) <=> Synced(t))
    BY <1>1 DEF Live, FinSent, Synced
  <2> QED
    BY <1>1, <1>2, <1>5, <1>6, <2>1, <2>2 DEF Turn
<1>8. ASSUME NEW G, NEW z, RcvEnd(t, G, z) PROVE RcvEnd(u, G, z)
  BY <1>1, <1>8 DEF RcvEnd, Synced, FinSeen
<1> QED
  BY <1>7, <1>8

\* The numbers of a segment of the send queue.
LEMMA ItemBound ==
  ASSUME NEW b \in Item
  PROVE  /\ b.seq \in Int /\ b.len \in Nat /\ b.room \in Nat /\ EndOf(b) \in Int /\ b.seq <= EndOf(b)
         /\ b.syn \in BOOLEAN /\ b.fin \in BOOLEAN /\ b.ack \in BOOLEAN
         /\ ~b.syn /\ ~b.fin => EndOf(b) = b.seq + b.len
  BY DEF One, Item, EndOf

\* The queue p, and what r adds at its end.
LEMMA ChainJoin ==
  ASSUME NEW p \in Seq(Item), NEW r \in Seq(Item), Chain(p), Chain(r),
         p # <<>> /\ r # <<>> =>
           r[1].seq = EndOf(p[Len(p)]) /\ ~p[Len(p)].fin /\ ~r[1].syn
  PROVE  Chain(p \o r)
<1>1. PICK n \in Nat : n = Len(p)
  OBVIOUS
<1>2. PICK m \in Nat : m = Len(r)
  OBVIOUS
<1>3. PICK q \in Seq(Item) : q = p \o r
  <2>1. p \o r \in Seq(Item)
    OBVIOUS
  <2> QED
    BY <2>1, Zenon
<1>4. /\ Len(q) = n + m /\ (\A i \in 1..n : q[i] = p[i])
      /\ \A i \in (n + 1)..(n + m) : q[i] = r[i - n]
  BY <1>1, <1>2, <1>3
<1>5. /\ \A i \in 1..(n - 1) : p[i + 1].seq = EndOf(p[i]) /\ ~p[i].fin /\ ~p[i + 1].syn
      /\ \A i, j \in 1..n : i < j => EndOf(p[i]) <= p[j].seq
  BY <1>1 DEF Chain
<1>6. /\ \A i \in 1..(m - 1) : r[i + 1].seq = EndOf(r[i]) /\ ~r[i].fin /\ ~r[i + 1].syn
      /\ \A i, j \in 1..m : i < j => EndOf(r[i]) <= r[j].seq
  BY <1>2 DEF Chain
<1>7. n > 0 /\ m > 0 => r[1].seq = EndOf(p[n]) /\ ~p[n].fin /\ ~r[1].syn
  BY <1>1, <1>2, EmptySeq
<1>8. \A b \in Item : b.seq \in Int /\ EndOf(b) \in Int /\ b.seq <= EndOf(b)
  BY ItemBound
<1>9. ASSUME NEW i \in 1..(n + m - 1)
      PROVE  q[i + 1].seq = EndOf(q[i]) /\ ~q[i].fin /\ ~q[i + 1].syn
  <2>1. CASE i < n
    <3>1. q[i] = p[i] /\ q[i + 1] = p[i + 1] /\ i \in 1..(n - 1)
      BY <1>4, <2>1
    <3> QED
      BY <1>5, <3>1
  <2>2. CASE i = n
    BY <1>4, <2>2, <1>7
  <2>3. CASE i > n
    <3>1. PICK k \in 1..(m - 1) : k = i - n
      BY <2>3
    <3>2. q[i] = r[k] /\ q[i + 1] = r[k + 1]
      BY <1>4, <2>3, <3>1
    <3> QED
      BY <1>6, <3>2
  <2> QED
    BY <2>1, <2>2, <2>3
<1>10. ASSUME NEW i \in 1..(n + m), NEW j \in 1..(n + m), i < j
       PROVE  EndOf(q[i]) <= q[j].seq
  <2>1. CASE j <= n
    <3>1. q[i] = p[i] /\ q[j] = p[j] /\ i \in 1..n /\ j \in 1..n
      BY <1>4, <1>10, <2>1
    <3> QED
      BY <1>5, <1>10, <3>1
  <2>2. CASE i > n
    <3>1. PICK k \in 1..m : k = i - n
      BY <2>2
    <3>2. PICK l \in 1..m : l = j - n
      BY <1>10, <2>2
    <3>3. q[i] = r[k] /\ q[j] = r[l] /\ k < l
      BY <1>4, <1>10, <2>2, <3>1, <3>2
    <3> QED
      BY <1>6, <3>3
  <2>3. CASE i <= n /\ j > n
    <3>1. PICK l \in 1..m : l = j - n
      BY <2>3
    <3>2. q[i] = p[i] /\ q[j] = r[l] /\ i \in 1..n /\ n > 0 /\ m > 0
      BY <1>4, <2>3, <3>1
    <3>3. n \in 1..n /\ 1 \in 1..m /\ p[n] \in Item /\ r[1] \in Item /\ p[i] \in Item /\ r[l] \in Item
      BY <1>1, <1>2, <3>2
    <3>4. PICK a \in Int : a = EndOf(p[i])
      BY <1>8, <3>3
    <3>5. PICK b \in Int : b = EndOf(p[n])
      BY <1>8, <3>3
    <3>6. PICK c \in Int : c = r[l].seq
      BY <1>8, <3>3
    <3>7. a <= b
      <4>1. CASE i = n
        BY <3>4, <3>5, <4>1
      <4>2. CASE i < n
        <5>1. PICK d \in Int : d = p[n].seq
          BY <1>8, <3>3
        <5>2. a <= d
          BY <1>5, <3>2, <3>3, <3>4, <4>2, <5>1
        <5>3. d <= b
          BY <1>8, <3>3, <3>5, <5>1
        <5> QED
          BY <5>2, <5>3
      <4> QED
        BY <2>3, <4>1, <4>2
    <3>8. b <= c
      <4>1. r[1].seq = b
        BY <1>7, <3>2, <3>5
      <4>2. CASE l = 1
        BY <3>6, <4>1, <4>2
      <4>3. CASE l > 1
        <5>1. PICK d \in Int : d = EndOf(r[1])
          BY <1>8, <3>3
        <5>2. d <= c
          BY <1>6, <3>3, <3>6, <4>3, <5>1
        <5>3. b <= d
          BY <1>8, <3>3, <4>1, <5>1
        <5> QED
          BY <5>2, <5>3
      <4> QED
        BY <4>2, <4>3
    <3> QED
      BY <3>2, <3>4, <3>6, <3>7, <3>8
  <2> QED
    BY <2>1, <2>2, <2>3
<1> QED
  BY <1>3, <1>4, <1>9, <1>10, SMTT(20) DEF Chain

\* How many segments hold L bytes.
LEMMA PartsAre ==
  ASSUME NEW L \in Nat
  PROVE  /\ Parts(L) \in Nat /\ (Parts(L) = 0 <=> L = 0)
         /\ L > 0 => (Parts(L) - 1) * SegMax < L /\ L <= Parts(L) * SegMax
  BY Params DEF Parts

LEMMA NewSegsAre ==
  ASSUME NEW w \in Int, NEW c \in Nat, NEW len \in Nat, c <= len
  PROVE  LET r == NewSegs(w, c, len)
         IN  /\ r \in Seq(Item) /\ Chain(r) /\ (r = <<>> <=> c = len)
             /\ \A i \in 1..Len(r) : ~r[i].syn /\ ~r[i].fin
             /\ r # <<>> => r[1].seq = w + c /\ EndOf(r[Len(r)]) = w + len
<1>0. PICK r : r = NewSegs(w, c, len)
  OBVIOUS
<1>1. PICK s \in Nat : s = SegMax /\ s > 0
  BY Params
<1>2. PICK L \in Nat : L = len - c
  OBVIOUS
<1>3. PICK p \in Nat : p = Parts(L)
  BY PartsAre
<1>4. (p = 0 <=> L = 0) /\ (L > 0 => (p - 1) * s < L /\ L <= p * s)
  BY <1>1, <1>3, PartsAre
<1>5. r = [i \in 1..p |->
             LET done == c + (i - 1) * s IN Queued(w + done, Least(s, len - done), FALSE, TRUE)]
  BY <1>0, <1>1, <1>2, <1>3 DEF NewSegs
<1>6. ASSUME NEW i \in 1..p
      PROVE  Piece(r[i], w + c, L, s, p, i)
  <2>1. PICK a \in Nat : a = (i - 1) * s
    BY <1>1
  <2>2. a + s = i * s
    BY <1>1, <2>1
  <2>3. PICK b \in Int : b = p * s
    BY <1>1
  <2>4. (p - 1) * s = b - s
    BY <1>1, <2>3
  <2>5. L > 0 /\ b - s < L /\ L <= b
    BY <1>4, <2>3, <2>4
  <2>6. i < p => a + s <= b - s
    BY <1>1, <2>2, <2>3, <2>4
  <2>7. i = p => a + s = b
    BY <2>2, <2>3
  <2>8. a <= L
    BY <1>1, <2>5, <2>6, <2>7
  <2>9. PICK l \in Nat : l = Least(s, L - a)
    BY <1>1, <2>8 DEF Least
  <2>10. l <= s
    BY <1>1, <2>9 DEF Least
  <2>11. PICK m \in Nat : m = s - l
    BY <1>1, <2>10
  <2>12. r[i] = Queued(w + (c + (i - 1) * s), Least(s, len - (c + (i - 1) * s)), FALSE, TRUE)
    BY <1>5
  <2>13. w + (c + a) = w + c + a /\ len - (c + a) = L - a
    BY <1>2
  <2>14. r[i] = Queued(w + c + a, l, FALSE, TRUE)
    BY <2>1, <2>9, <2>12, <2>13
  <2>15. i < p => l = s
    BY <1>1, <2>5, <2>6, <2>9 DEF Least
  <2>16. i = p => l = L - a
    BY <1>1, <2>5, <2>7, <2>8, <2>9 DEF Least
  <2>17. r[i] = [seq |-> w + c + a, len |-> l, syn |-> FALSE, fin |-> FALSE, ack |-> TRUE,
                 room |-> m]
    BY <1>1, <2>11, <2>14 DEF Queued
  <2> QED
    BY <2>1, <2>2, <2>15, <2>16, <2>17 DEF Piece
<1>7. ASSUME NEW i \in 1..p PROVE r[i] \in Item /\ ~r[i].syn /\ ~r[i].fin
  <2>1. PICK a \in Nat, l \in Nat, m \in Nat :
          /\ a = (i - 1) * s
          /\ a + s = i * s
          /\ i < p => l = s
          /\ i = p => l = L - a
          /\ r[i] = [seq |-> w + c + a, len |-> l, syn |-> FALSE, fin |-> FALSE, ack |-> TRUE,
                     room |-> m]
    BY <1>6, Zenon DEF Piece
  <2>2. PICK q \in Int : q = w + c + a
    OBVIOUS
  <2> QED
    BY <2>1, <2>2 DEF Item
<1>8. r \in Seq(Item) /\ Len(r) = p
  <2>1. r \in [1..p -> Item]
    BY <1>5, <1>7
  <2> QED
    BY <2>1
<1>9. ASSUME NEW i \in 1..p PROVE r[i].seq = w + c + (i - 1) * s
  <2>1. PICK a \in Nat, l \in Nat, m \in Nat :
          /\ a = (i - 1) * s
          /\ a + s = i * s
          /\ i < p => l = s
          /\ i = p => l = L - a
          /\ r[i] = [seq |-> w + c + a, len |-> l, syn |-> FALSE, fin |-> FALSE, ack |-> TRUE,
                     room |-> m]
    BY <1>6, Zenon DEF Piece
  <2>2. r[i].seq = w + c + a
    BY <2>1
  <2> QED
    BY <2>1, <2>2, Zenon
<1>10. ASSUME NEW i \in 1..p, i < p PROVE EndOf(r[i]) = w + c + i * s
  <2>1. PICK a \in Nat, l \in Nat, m \in Nat :
          /\ a = (i - 1) * s
          /\ a + s = i * s
          /\ i < p => l = s
          /\ i = p => l = L - a
          /\ r[i] = [seq |-> w + c + a, len |-> l, syn |-> FALSE, fin |-> FALSE, ack |-> TRUE,
                     room |-> m]
    BY <1>6, Zenon DEF Piece
  <2>2. EndOf(r[i]) = w + c + a + l
    BY <2>1 DEF EndOf, One
  <2>3. l = s
    BY <1>10, <2>1
  <2>4. PICK x \in Int : x = i * s
    BY <1>1
  <2>5. a + s = x
    BY <2>1, <2>4
  <2>6. EndOf(r[i]) = w + c + x
    BY <1>1, <2>2, <2>3, <2>5
  <2> QED
    BY <2>4, <2>6
<1>11. p > 0 => EndOf(r[p]) = w + len
  <2> SUFFICES ASSUME p > 0 PROVE EndOf(r[p]) = w + len
    OBVIOUS
  <2>1. p \in 1..p
    OBVIOUS
  <2>2. PICK a \in Nat, l \in Nat, m \in Nat :
          /\ a = (p - 1) * s
          /\ a + s = p * s
          /\ p < p => l = s
          /\ p = p => l = L - a
          /\ r[p] = [seq |-> w + c + a, len |-> l, syn |-> FALSE, fin |-> FALSE, ack |-> TRUE,
                     room |-> m]
    BY <1>6, <2>1, Zenon DEF Piece
  <2>3. EndOf(r[p]) = w + c + a + l
    BY <2>2 DEF EndOf, One
  <2> QED
    BY <1>2, <2>2, <2>3
<1>12. p > 0 => r[1].seq = w + c
  BY <1>1, <1>9
<1>13. ASSUME NEW i \in 1..p, NEW j \in 1..p, i < j PROVE EndOf(r[i]) <= r[j].seq
  BY <1>1, <1>13, <1>9, <1>10
<1>14. ASSUME NEW i \in 1..(p - 1) PROVE r[i + 1].seq = EndOf(r[i])
  BY <1>9, <1>10
<1>15. Chain(r)
  BY <1>7, <1>8, <1>13, <1>14 DEF Chain
<1>16. r = <<>> <=> c = len
  BY <1>2, <1>4, <1>8, EmptySeq
<1>17. r # <<>> => p > 0
  BY <1>8, EmptySeq
<1> QED
  BY <1>0, <1>7, <1>8, <1>11, <1>12, <1>15, <1>16, <1>17

\* What may go into the last segment, which is then no SYN.
LEMMA CombinableIs ==
  ASSUME NEW t, IsBlock(t), SynGone(t)
  PROVE  /\ Combinable(t) \in Nat
         /\ Combinable(t) > 0 => /\ t.sndq # <<>> /\ Len(t.sndq) \in 1..Len(t.sndq)
                                 /\ Combinable(t) = t.sndq[Len(t.sndq)].room
                                 /\ ~t.sndq[Len(t.sndq)].syn
<1>1. CASE t.sndq # <<>> /\ t.max <= t.sndq[Len(t.sndq)].seq
  <2>1. Combinable(t) = t.sndq[Len(t.sndq)].room
    BY <1>1 DEF Combinable
  <2>2. Len(t.sndq) \in 1..Len(t.sndq)
    BY <1>1, EmptySeq DEF IsBlock
  <2>3. t.sndq[Len(t.sndq)] \in Item
    BY <2>2, ItemIs
  <2>4. ~t.sndq[Len(t.sndq)].syn
    <3>1. PICK a \in Int : a = t.max
      BY DEF IsBlock
    <3>2. PICK b \in Int : b = t.sndq[Len(t.sndq)].seq
      BY <2>3, ItemBound
    <3>3. ~(b < a)
      BY <1>1, <3>1, <3>2
    <3> QED
      BY <2>2, <3>1, <3>2, <3>3 DEF SynGone
  <2> QED
    BY <1>1, <2>1, <2>2, <2>3, <2>4, ItemBound
<1>2. CASE ~(t.sndq # <<>> /\ t.max <= t.sndq[Len(t.sndq)].seq)
  BY <1>2 DEF Combinable
<1> QED
  BY <1>1, <1>2

\* The last segment has c bytes more.
LEMMA OldSegsAre ==
  ASSUME NEW t, IsBlock(t), SynGone(t), Chain(t.sndq), NEW c \in Nat, c <= Combinable(t),
         NEW p, p = OldSegs(t, c)
  PROVE  /\ p \in Seq(Item) /\ Len(p) = Len(t.sndq) /\ Chain(p)
         /\ \A i \in 1..Len(p) : /\ p[i].seq = t.sndq[i].seq /\ p[i].syn = t.sndq[i].syn
                                 /\ p[i].fin = t.sndq[i].fin /\ p[i].ack = t.sndq[i].ack
                                 /\ i < Len(p) \/ c = 0 => p[i] = t.sndq[i]
                                 /\ p[i].syn => p[i].len = t.sndq[i].len
         /\ p # <<>> => EndOf(p[Len(p)]) = EndOf(t.sndq[Len(p)]) + c
         /\ p = <<>> => c = 0 /\ t.sndq = <<>>
<1>1. PICK q \in Seq(Item) : q = t.sndq
  BY DEF IsBlock
<1>2. PICK n \in Nat : n = Len(q)
  OBVIOUS
<1>3. CASE c = 0
  BY <1>1, <1>3, <1>2, EmptySeq, ItemBound DEF OldSegs
<1>4. CASE c > 0
  <2>1. /\ t.sndq # <<>> /\ Len(t.sndq) \in 1..Len(t.sndq)
        /\ Combinable(t) = t.sndq[Len(t.sndq)].room /\ Combinable(t) \in Nat
        /\ ~t.sndq[Len(t.sndq)].syn
    BY CombinableIs, <1>4
  <2>2. n \in 1..n /\ q[n] \in Item /\ ~q[n].syn /\ c <= q[n].room
    BY <1>1, <1>2, <2>1
  <2>3. PICK b \in Item : b = q[n]
    BY <2>2
  <2>4. PICK l \in Nat : l = b.len + c
    BY ItemBound
  <2>5. PICK r \in Nat : r = b.room - c
    BY ItemBound, <2>2, <2>3
  <2>6. PICK d : d = [b EXCEPT !.len = l, !.room = r]
    OBVIOUS
  <2>7. d \in Item /\ d.seq = b.seq /\ d.syn = b.syn /\ d.fin = b.fin /\ d.ack = b.ack /\ d.len = l
    BY <2>6 DEF Item
  <2>8. p = [q EXCEPT ![n] = d]
    <3>1. p = [q EXCEPT ![n].len = @ + c, ![n].room = @ - c]
      BY <1>1, <1>2, <1>4 DEF OldSegs
    <3>2. p = [q EXCEPT ![n] = [[q[n] EXCEPT !.len = q[n].len + c] EXCEPT !.room = q[n].room - c]]
      BY <1>2, <2>2, <3>1 DEF Item
    <3>3. [[q[n] EXCEPT !.len = q[n].len + c] EXCEPT !.room = q[n].room - c] = d
      BY <2>3, <2>4, <2>5, <2>6
    <3> QED
      BY <3>2, <3>3
  <2>9. p \in Seq(Item) /\ Len(p) = n /\ p[n] = d /\ \A i \in 1..(n - 1) : p[i] = q[i]
    BY <1>2, <2>2, <2>7, <2>8
  <2>10. EndOf(d) = EndOf(b) + c
    <3>1. One(d.syn) = One(b.syn) /\ One(d.fin) = One(b.fin)
      BY <2>7
    <3>2. PICK s \in Int : s = b.seq
      BY ItemBound
    <3>3. PICK y \in Nat : y = One(b.syn)
      BY DEF One
    <3>4. PICK f \in Nat : f = One(b.fin)
      BY DEF One
    <3>5. PICK k \in Nat : k = b.len
      BY ItemBound
    <3>6. EndOf(d) = s + l + y + f
      BY <2>7, <3>1, <3>2, <3>3, <3>4 DEF EndOf
    <3>7. EndOf(b) = s + k + y + f
      BY <3>2, <3>3, <3>4, <3>5 DEF EndOf
    <3>8. l = k + c
      BY <2>4, <3>5
    <3>9. PICK x : x = EndOf(d)
      OBVIOUS
    <3>10. PICK z : z = EndOf(b)
      OBVIOUS
    <3>11. x = z + c
      BY <3>6, <3>7, <3>8, <3>9, <3>10
    <3> QED
      BY <3>9, <3>10, <3>11, Zenon
  <2>11. \A i \in 1..n : i \in 1..(n - 1) \/ i = n
    OBVIOUS
  <2>12. ASSUME NEW i \in 1..n
         PROVE  /\ p[i].seq = q[i].seq /\ p[i].syn = q[i].syn /\ p[i].fin = q[i].fin
                /\ p[i].ack = q[i].ack
                /\ i < n => p[i] = q[i]
                /\ p[i].syn => p[i].len = q[i].len
    BY <2>9, <2>2, <2>3, <2>7, <2>11
  <2>13. Chain(p)
    <3>1. /\ \A i \in 1..(n - 1) : q[i + 1].seq = EndOf(q[i]) /\ ~q[i].fin /\ ~q[i + 1].syn
          /\ \A i, j \in 1..n : i < j => EndOf(q[i]) <= q[j].seq
      BY <1>1, <1>2 DEF Chain
    <3>2. ASSUME NEW i \in 1..(n - 1)
          PROVE  p[i + 1].seq = EndOf(p[i]) /\ ~p[i].fin /\ ~p[i + 1].syn
      <4>1. p[i] = q[i]
        BY <2>9
      <4>2. PICK j \in 1..n : j = i + 1
        OBVIOUS
      <4>3. q[j].seq = EndOf(q[i]) /\ ~q[i].fin /\ ~q[j].syn
        BY <3>1, <4>2
      <4> QED
        BY <2>12, <4>1, <4>2, <4>3
    <3>3. ASSUME NEW i \in 1..n, NEW j \in 1..n, i < j PROVE EndOf(p[i]) <= p[j].seq
      BY <2>12, <3>3, <3>1
    <3> QED
      BY <2>9, <3>2, <3>3 DEF Chain
  <2>14. p # <<>>
    BY <2>2, <2>9
  <2> QED
    BY <1>1, <1>2, <1>4, <2>3, <2>9, <2>10, <2>12, <2>13, <2>14
<1> QED
  BY <1>3, <1>4

\* A block with more to send
LEMMA GrownOK ==
  ASSUME NEW h, NEW t, IsBlock(t), t.una <= t.max, t.nxt <= t.max, t.max <= t.write,
         NEW p \in Seq(Item), p # <<>>, Chain(p), NEW w \in Int, t.write <= w,
         EndOf(p[Len(p)]) = w, p[Len(p)].fin <=> FinSent(t),
         \A i \in 1..Len(p) : p[i].syn => /\ p[i].seq = Isn[h] /\ p[i].len = 0 /\ ~p[i].fin
                                          /\ (p[i].ack <=> h = "sv"),
         NEW u, IsBlock(u), Longer(t, u), u.write = w, u.sndq = p
  PROVE  SndOK(h, u)
  BY DEF Longer, FinSent, IsBlock, SndOK

\* tcp_output() of data, before it sends
LEMMA EnqueueIs ==
  ASSUME NEW h \in Host, NEW t, IsBlock(t), SndOK(h, t), SynGone(t), ~FinSent(t),
         NEW len \in Nat, len > 0, NEW u, u = Enqueue(t, len)
  PROVE  /\ IsBlock(u) /\ SndOK(h, u) /\ SynGone(u) /\ Longer(t, u) /\ u.write = t.write + len
         /\ Used(u) = Used(t) + len
<1>1. PICK q \in Seq(Item) : q = t.sndq
  BY DEF IsBlock
<1>2. PICK n \in Nat : n = Len(q)
  OBVIOUS
<1>3. PICK w \in Int : w = t.write
  BY DEF IsBlock
<1>4. PICK c \in Nat : c = Least(len, Combinable(t))
  BY CombinableIs DEF Least
<1>5. c <= len /\ c <= Combinable(t)
  BY CombinableIs, <1>4 DEF Least
<1>6. PICK p : p = OldSegs(t, c)
  OBVIOUS
<1>7. PICK r : r = NewSegs(w, c, len)
  OBVIOUS
<1>8. Chain(q)
  BY <1>1 DEF SndOK
<1>9. /\ p \in Seq(Item) /\ Len(p) = n /\ Chain(p)
      /\ \A i \in 1..n : /\ p[i].seq = q[i].seq /\ p[i].syn = q[i].syn
                         /\ p[i].fin = q[i].fin /\ p[i].ack = q[i].ack
                         /\ p[i].syn => p[i].len = q[i].len
      /\ p # <<>> => EndOf(p[n]) = EndOf(q[n]) + c
      /\ p = <<>> => c = 0 /\ q = <<>>
  BY <1>1, <1>2, <1>5, <1>6, <1>8, OldSegsAre
<1>10. /\ r \in Seq(Item) /\ Chain(r) /\ (r = <<>> <=> c = len)
       /\ \A i \in 1..Len(r) : ~r[i].syn /\ ~r[i].fin
       /\ r # <<>> => r[1].seq = w + c /\ EndOf(r[Len(r)]) = w + len
  BY <1>5, <1>7, NewSegsAre, ZenonT(40)
<1>11. PICK m \in Nat : m = Len(r)
  BY <1>10
<1>12. PICK s \in Seq(Item) : s = p \o r
  BY <1>9, <1>10, Cat
<1>13. /\ Len(s) = n + m /\ (\A i \in 1..n : s[i] = p[i]) /\ \A i \in 1..m : s[n + i] = r[i]
  <2>1. p \in Seq(Item) /\ r \in Seq(Item) /\ Len(p) = n /\ Len(r) = m
    BY <1>9, <1>10, <1>11
  <2>2. Len(p \o r) = Len(p) + Len(r)
    BY <2>1, Cat
  <2>3. \A i \in 1..Len(p) : (p \o r)[i] = p[i]
    BY <2>1, Cat
  <2>4. \A i \in 1..Len(r) : (p \o r)[Len(p) + i] = r[i]
    BY <2>1, Cat
  <2> QED
    BY <1>12, <2>1, <2>2, <2>3, <2>4, Zenon
<1>14. u = [t EXCEPT !.sndq = s, !.write = w + len]
  BY <1>3, <1>4, <1>6, <1>7, <1>12 DEF Enqueue, OldSegs, NewSegs
<1>15. q # <<>> => EndOf(q[n]) = w /\ ~q[n].fin /\ n > 0 /\ q[n] \in Item
  BY <1>2, EmptySeq, <1>1, <1>3 DEF SndOK
<1>16. n > 0 => q # <<>> /\ p # <<>>
  BY <1>2, <1>9
<1>17. m > 0 <=> r # <<>>
  BY <1>10, <1>11, EmptySeq
<1>18. p # <<>> => q # <<>> /\ EndOf(p[n]) = w + c /\ ~p[n].fin /\ n > 0
  BY <1>9, EmptySeq, <1>16, <1>15
<1>19. Chain(s)
  <2>1. p # <<>> /\ r # <<>> => r[1].seq = EndOf(p[Len(p)]) /\ ~p[Len(p)].fin /\ ~r[1].syn
    BY <1>11, <1>17, <1>9, <1>10, <1>18
  <2> QED
    BY <1>9, <1>10, <1>12, <2>1, ChainJoin
<1>20. /\ n + m > 0 /\ n + m \in 1..(n + m) /\ s # <<>>
       /\ EndOf(s[n + m]) = w + len /\ ~s[n + m].fin
  <2>1. CASE m > 0
    BY <1>11, <1>13, <1>17, <2>1, <1>10
  <2>2. CASE m = 0
    BY <1>10, <1>11, <1>17, <2>2, <1>9, <1>13, <1>18
  <2> QED
    BY <2>1, <2>2
<1>21. \A i \in 1..(n + m) : \/ i \in 1..n /\ s[i] = p[i]
                             \/ ~s[i].syn
  <2> SUFFICES ASSUME NEW i \in 1..(n + m), i > n PROVE ~s[i].syn
    BY <1>13
  <2>1. PICK j \in 1..m : j = i - n
    OBVIOUS
  <2>2. s[i] = r[j]
    BY <1>13, <2>1
  <2> QED
    BY <1>10, <1>11, <2>2
<1>22. \A i \in 1..Len(s) : s[i].syn => /\ s[i].seq = Isn[h] /\ s[i].len = 0 /\ ~s[i].fin
                                        /\ (s[i].ack <=> h = "sv")
  <2>1. \A i \in 1..n : q[i].syn => /\ q[i].seq = Isn[h] /\ q[i].len = 0 /\ ~q[i].fin
                                    /\ (q[i].ack <=> h = "sv")
    BY <1>1, <1>2 DEF SndOK
  <2>2. \A i \in 1..n : p[i].syn => /\ p[i].seq = Isn[h] /\ p[i].len = 0 /\ ~p[i].fin
                                    /\ (p[i].ack <=> h = "sv")
    BY <1>9, <2>1, ZenonT(40)
  <2> QED
    BY <1>13, <1>21, <2>2
<1>23. t.una <= t.max /\ t.nxt <= t.max /\ t.max <= t.write
  BY DEF SndOK
<1>24. IsBlock(u) /\ SndOK(h, u) /\ Longer(t, u) /\ u.write = w + len /\ u.sndq = s
  <2>1. PICK x \in Int : x = w + len
    OBVIOUS
  <2>2. t.write <= x
    BY <1>3, <2>1
  <2>3. Len(s) = n + m
    BY <1>13
  <2>4. EndOf(s[Len(s)]) = x /\ (s[Len(s)].fin <=> FinSent(t))
    BY <1>20, <2>1, <2>3
  <2>5. u = [t EXCEPT !.sndq = s, !.write = x]
    BY <1>14, <2>1
  <2>6. s # <<>>
    BY <1>20
  <2>7. IsBlock(u) /\ Longer(t, u) /\ u.write = x /\ u.sndq = s
    BY <2>5 DEF IsBlock, Fields, Longer
  <2>8. SndOK(h, u)
    BY <1>19, <1>22, <1>23, <2>2, <2>4, <2>6, <2>7, GrownOK
  <2> QED
    BY <2>1, <2>7, <2>8
<1>25. SynGone(u)
  BY <1>24, <1>9, <1>13, <1>21, <1>1, <1>2 DEF SynGone, Longer
<1>26. Used(u) = Used(t) + len
  <2>1. u.sndq \in Seq(Item) /\ Chain(u.sndq) /\ u.sndq # <<>>
    BY <1>19, <1>20, <1>24
  <2>2. Used(u) = EndOf(s[n + m]) - One(s[n + m].fin) - s[1].seq - One(s[1].syn)
    BY <1>13, <1>24, <2>1, UsedIs
  <2>3. One(s[n + m].fin) = 0
    BY <1>20 DEF One
  <2>4. CASE n > 0
    <3>1. s[1].seq = q[1].seq /\ s[1].syn = q[1].syn /\ q[1] \in Item
      BY <2>4, <1>2, <1>9, <1>13
    <3>2. Used(t) = EndOf(q[n]) - One(q[n].fin) - q[1].seq - One(q[1].syn)
      BY <1>1, <1>2, <1>8, <1>16, <2>4, UsedIs
    <3>3. EndOf(q[n]) = w /\ One(q[n].fin) = 0
      BY <1>15, <1>16, <2>4 DEF One
    <3>4. PICK a \in Int : a = q[1].seq
      BY <3>1, ItemBound
    <3>5. PICK y \in Nat : y = One(q[1].syn)
      BY DEF One
    <3>6. Used(u) = (w + len) - 0 - a - y
      BY <1>20, <2>2, <2>3, <3>1, <3>4, <3>5
    <3>7. Used(t) = w - 0 - a - y
      BY <3>2, <3>3, <3>4, <3>5
    <3> QED
      BY <3>6, <3>7
  <2>5. CASE n = 0
    BY <1>2, <1>9, <2>5, EmptySeq, <1>1, <1>8, UsedIs, <1>20, <1>13, <1>10, <1>11, <1>17, <2>2, <2>3
       DEF One
  <2> QED
    BY <2>4, <2>5
<1> QED
  BY <1>3, <1>24, <1>25, <1>26

\* A block that has more to send
LEMMA SendMore ==
  ASSUME NEW h \in Host, NEW e, IsBlock(e), SndOK(h, e), e.timer <=> e.ostate # "IDLE",
         e.una < e.write, e.nxt < e.write, NEW cwnd \in Int, NEW u, u = Event(e, "SEND", cwnd, FALSE)
  PROVE  Steps(h, e, u) /\ TimerOK(u)
<1>1. Steps(h, e, u) /\ Busy(u)
  BY SendEvent
<1>2. u.una = e.una /\ u.write = e.write /\ IsBlock(u)
  BY <1>1 DEF Steps, Untouched
<1>3. ~(u.write <= u.una) /\ u.una < u.write
  <2>1. PICK a \in Int : a = e.una
    BY DEF IsBlock
  <2>2. PICK w \in Int : w = e.write
    BY DEF IsBlock
  <2>3. a < w /\ ~(w <= a)
    BY <2>1, <2>2
  <2>4. u.una = a /\ u.write = w
    BY <1>2, <2>1, <2>2, Zenon
  <2> QED
    BY <2>3, <2>4, Zenon
<1> QED
  BY <1>1, <1>3 DEF Busy, TimerOK

\* A block that is longer than one that is right
LEMMA LongerIs ==
  ASSUME NEW h, NEW t, IsBlock(t), SndOK(h, t), TimerOK(t), NEW e, IsBlock(e), Longer(t, e),
         t.write < e.write
  PROVE  (e.timer <=> e.ostate # "IDLE") /\ e.una < e.write /\ e.nxt < e.write
<1>1. PICK a \in Int : a = t.una
  BY DEF IsBlock
<1>2. PICK n \in Int : n = t.nxt
  BY DEF IsBlock
<1>3. PICK m \in Int : m = t.max
  BY DEF IsBlock
<1>4. PICK w \in Int : w = t.write
  BY DEF IsBlock
<1>5. PICK z \in Int : z = e.write
  BY DEF IsBlock
<1>6. a <= m /\ n <= m /\ m <= w
  BY <1>1, <1>2, <1>3, <1>4 DEF SndOK
<1>7. w < z
  BY <1>4, <1>5
<1>8. e.una = a /\ e.nxt = n /\ e.timer = t.timer /\ e.ostate = t.ostate
  BY <1>1, <1>2 DEF Longer
<1>9. a < z /\ n < z
  BY <1>6, <1>7
<1>10. t.timer <=> t.ostate # "IDLE"
  BY <1>1, <1>4 DEF TimerOK
<1> QED
  BY <1>5, <1>8, <1>9, <1>10

\* A full write leaves no room.
LEMMA NoRoom ==
  ASSUME NEW h, NEW t, IsBlock(t), NEW e, Longer(t, e), Chain(t.sndq), NEW len \in Nat, len > 0,
         Used(e) = Used(t) + len, len = Canwrite(t)
  PROVE  Canwrite(e) = 0
<1>1. PICK c \in Int : c = Used(t)
  BY UsedIs DEF IsBlock
<1>2. Used(e) = c + len
  BY <1>1
<1>3. len = IF ~Connected(t) \/ (SndMax - c < Mss /\ 2 * Mss <= SndMax) THEN 0
            ELSE Most(SndMax - c, 0)
  BY <1>1 DEF Canwrite
<1>4. SndMax - c = len
  BY <1>3, Params DEF Most
<1>5. Connected(e) <=> Connected(t)
  BY DEF Connected, Longer
<1>6. SndMax - (c + len) = 0
  BY <1>4, Params
<1>7. Canwrite(e) = IF ~Connected(e) \/ (SndMax - (c + len) < Mss /\ 2 * Mss <= SndMax) THEN 0
                    ELSE Most(SndMax - (c + len), 0)
  BY <1>2 DEF Canwrite
<1> QED
  BY <1>6, <1>7 DEF Most

\* tcp_output() of data
LEMMA OutputDataIs ==
  ASSUME NEW h \in Host, NEW t, IsBlock(t), SndOK(h, t), SynGone(t), TimerOK(t), ~FinSent(t),
         NEW len \in Nat, len > 0, NEW cwnd \in Int, NEW u, u = OutputData(t, len, cwnd)
  PROVE  \E e : /\ IsBlock(e) /\ Longer(t, e) /\ e.write = t.write + len /\ SynGone(e)
                /\ len = Canwrite(t) => Canwrite(e) = 0
                /\ Steps(h, e, u) /\ TimerOK(u)
<1>1. PICK e : e = Enqueue(t, len)
  OBVIOUS
<1>2. /\ IsBlock(e) /\ SndOK(h, e) /\ SynGone(e) /\ Longer(t, e) /\ e.write = t.write + len
      /\ Used(e) = Used(t) + len
  BY <1>1, EnqueueIs
<1>3. t.write < e.write
  BY <1>2 DEF IsBlock
<1>4. (e.timer <=> e.ostate # "IDLE") /\ e.una < e.write /\ e.nxt < e.write
  BY <1>2, <1>3, LongerIs
<1>5. u = Event(e, "SEND", cwnd, FALSE)
  BY <1>1, Zenon DEF OutputData
<1>6. Steps(h, e, u) /\ TimerOK(u)
  BY <1>2, <1>4, <1>5, SendMore
<1>7. Chain(t.sndq)
  BY DEF SndOK
<1>8. len = Canwrite(t) => Canwrite(e) = 0
  BY <1>2, <1>7, NoRoom
<1> QED
  BY <1>2, <1>6, <1>8, Zenon

LEMMA ChainLast ==
  ASSUME NEW q \in Seq(Item), NEW n \in Nat, n = Len(q), n > 0, Chain(q), NEW d \in Item,
         d.seq = q[n].seq, d.syn = q[n].syn
  PROVE  Replaced(q, n, d, [q EXCEPT ![n] = d])
<1>0. PICK p : p = [q EXCEPT ![n] = d]
  OBVIOUS
<1>1. n \in 1..n /\ q[n] \in Item
  OBVIOUS
<1>2. p \in Seq(Item) /\ Len(p) = n /\ p[n] = d /\ \A i \in 1..(n - 1) : p[i] = q[i]
  BY <1>0, <1>1
<1>3. /\ \A i \in 1..(n - 1) : q[i + 1].seq = EndOf(q[i]) /\ ~q[i].fin /\ ~q[i + 1].syn
      /\ \A i, j \in 1..n : i < j => EndOf(q[i]) <= q[j].seq
  BY DEF Chain
<1>4. \A j \in 1..n : p[j].seq = q[j].seq /\ p[j].syn = q[j].syn
  BY <1>2
<1>5. ASSUME NEW i \in 1..(n - 1)
      PROVE  p[i + 1].seq = EndOf(p[i]) /\ ~p[i].fin /\ ~p[i + 1].syn
  BY <1>2, <1>3, <1>4
<1>6. ASSUME NEW i \in 1..n, NEW j \in 1..n, i < j PROVE EndOf(p[i]) <= p[j].seq
  BY <1>6, <1>2, <1>3, <1>4
<1>7. p # <<>>
  BY <1>1, <1>2
<1>8. Chain(p)
  BY <1>2, <1>5, <1>6 DEF Chain
<1> QED
  BY <1>0, <1>2, <1>7, <1>8, Zenon DEF Replaced

LEMMA QueuedIs ==
  ASSUME NEW w \in Int, NEW syn \in BOOLEAN, NEW ack \in BOOLEAN
  PROVE  LET b == Queued(w, 0, syn, ack)
         IN  /\ b \in Item /\ b.seq = w /\ b.len = 0 /\ b.syn = syn /\ b.ack = ack /\ ~b.fin
             /\ EndOf(b) = w + One(syn)
  BY Params DEF Queued, Item, EndOf, One

LEMMA FinQueueIs ==
  ASSUME NEW h, NEW t, IsBlock(t), SndOK(h, t), SynGone(t), ~FinSent(t), NEW q, q = FinQueue(t)
  PROVE  /\ q \in Seq(Item) /\ Len(q) > 0 /\ Chain(q) /\ EndOf(q[Len(q)]) = t.write
         /\ ~q[Len(q)].fin /\ ~q[Len(q)].syn
         /\ \A i \in 1..(Len(q) - 1) : i \in 1..Len(t.sndq) /\ q[i] = t.sndq[i]
<1>1. PICK p \in Seq(Item) : p = t.sndq
  BY DEF IsBlock
<1>2. PICK n \in Nat : n = Len(p)
  OBVIOUS
<1>3. PICK w \in Int : w = t.write
  BY DEF IsBlock
<1>4. Chain(p) /\ (p # <<>> => EndOf(p[n]) = w /\ ~p[n].fin)
  BY <1>1, <1>2, <1>3 DEF SndOK
<1>5. CASE Combinable(t) > 0
  BY <1>1, <1>5, <1>2, CombinableIs, <1>3, <1>4 DEF FinQueue
<1>6. CASE ~(Combinable(t) > 0)
  <2>1. PICK b \in Item : /\ b = Queued(w, 0, FALSE, TRUE) /\ b.seq = w /\ ~b.syn /\ ~b.fin
                          /\ EndOf(b) = w
    <3>1. PICK x \in Item : /\ x = Queued(w, 0, FALSE, TRUE) /\ x.seq = w /\ x.syn = FALSE /\ ~x.fin
                            /\ EndOf(x) = w + One(FALSE)
      BY QueuedIs
    <3>2. w + One(FALSE) = w
      BY DEF One
    <3> QED
      BY <3>1, <3>2
  <2>2. q = Append(p, b)
    BY <1>1, <1>3, <1>6, <2>1 DEF FinQueue
  <2>3. PICK r : r = <<b>>
    OBVIOUS
  <2>4. r \in Seq(Item) /\ Len(r) = 1 /\ r[1] = b /\ r # <<>>
    BY <2>3
  <2>5. Chain(r)
    BY <2>4 DEF Chain
  <2>6. q = p \o r
    BY <2>2, <2>3
  <2>7. q \in Seq(Item) /\ Len(q) = n + 1 /\ q[n + 1] = b /\ \A i \in 1..n : q[i] = p[i]
    BY <1>2, <2>2
  <2>8. Chain(q)
    BY <1>2, <1>4, <2>1, <2>4, <2>5, <2>6, ChainJoin
  <2>9. Len(q) > 0 /\ q[Len(q)] = b /\ 1..(Len(q) - 1) = 1..n
    BY <2>7
  <2>10. EndOf(q[Len(q)]) = t.write /\ ~q[Len(q)].fin /\ ~q[Len(q)].syn
    BY <1>3, <2>1, <2>9
  <2>11. \A i \in 1..(Len(q) - 1) : i \in 1..Len(t.sndq) /\ q[i] = t.sndq[i]
    BY <1>1, <1>2, <2>7, <2>9
  <2> QED
    BY <2>7, <2>8, <2>9, <2>10, <2>11
<1> QED
  BY <1>5, <1>6

LEMMA FinEndIs ==
  ASSUME NEW q \in Seq(Item), NEW n \in Nat, n = Len(q), n > 0, Chain(q), ~q[n].fin, ~q[n].syn,
         NEW w \in Int, EndOf(q[n]) = w, NEW p, p = FinEnd(q)
  PROVE  /\ p \in Seq(Item) /\ Len(p) = n /\ p # <<>> /\ Chain(p) /\ EndOf(p[n]) = w + 1
         /\ p[n].fin /\ ~p[n].syn
         /\ \A i \in 1..(n - 1) : p[i] = q[i]
<1>1. PICK b \in Item : b = q[n]
  OBVIOUS
<1>2. PICK d : d = [b EXCEPT !.fin = TRUE, !.room = 0]
  OBVIOUS
<1>3. d \in Item /\ d.seq = b.seq /\ d.syn = b.syn /\ d.len = b.len /\ d.fin
  BY <1>2 DEF Item
<1>4. p = [q EXCEPT ![n] = d]
  BY <1>1, <1>2 DEF FinEnd, Item
<1>5. EndOf(d) = w + 1
  BY ItemBound, <1>1, <1>3 DEF EndOf, One
<1>6. /\ p \in Seq(Item) /\ Len(p) = n /\ p # <<>> /\ p[n] = d /\ Chain(p)
      /\ \A i \in 1..(n - 1) : p[i] = q[i]
  <2>1. d.seq = q[n].seq /\ d.syn = q[n].syn
    BY <1>1, <1>3
  <2>2. Replaced(q, n, d, [q EXCEPT ![n] = d])
    BY <1>3, <2>1, ChainLast
  <2> QED
    BY <1>4, <2>2, Zenon DEF Replaced
<1>7. d.fin /\ ~d.syn
  BY <1>1, <1>3
<1> QED
  BY <1>5, <1>6, <1>7

\* tcp_output() of a FIN, when the state says that it was sent
LEMMA OutputFinIs ==
  ASSUME NEW h \in Host, NEW v, IsBlock(v), SndOK(h, v), SynGone(v), TimerOK(v), ~FinSent(v),
         NEW s \in {"FINWAIT1", "LASTACK"}, NEW cwnd \in Int,
         NEW t, t = [v EXCEPT !.state = s], NEW u, u = OutputFin(t, cwnd)
  PROVE  \E e : /\ IsBlock(e) /\ Longer(t, e) /\ e.write = v.write + 1 /\ SynGone(e)
                /\ Steps(h, e, u) /\ TimerOK(u)
<1>1. IsBlock(t) /\ t.sndq = v.sndq /\ t.max = v.max /\ t.write = v.write /\ t.una = v.una
      /\ t.nxt = v.nxt /\ FinSent(t) /\ t.timer = v.timer /\ t.ostate = v.ostate
  BY DEF IsBlock, Fields, States, FinSent
<1>2. PICK q : q = FinQueue(v)
  OBVIOUS
<1>3. FinQueue(t) = q
  BY <1>1, <1>2 DEF Combinable, FinQueue
<1>4. /\ q \in Seq(Item) /\ Len(q) > 0 /\ Chain(q) /\ EndOf(q[Len(q)]) = v.write
      /\ ~q[Len(q)].fin /\ ~q[Len(q)].syn
      /\ \A i \in 1..(Len(q) - 1) : i \in 1..Len(v.sndq) /\ q[i] = v.sndq[i]
  BY <1>2, FinQueueIs
<1>5. PICK n \in Nat : n = Len(q)
  BY <1>4
<1>6. PICK w \in Int : w = v.write
  BY DEF IsBlock
<1>7. PICK p : p = FinEnd(q)
  OBVIOUS
<1>8. /\ p \in Seq(Item) /\ Len(p) = n /\ p # <<>> /\ Chain(p) /\ EndOf(p[n]) = w + 1
      /\ p[n].fin /\ ~p[n].syn
      /\ \A i \in 1..(n - 1) : p[i] = q[i]
  <2>1. n > 0 /\ ~q[n].fin /\ ~q[n].syn /\ EndOf(q[n]) = w
    BY <1>4, <1>5, <1>6
  <2> QED
    BY <1>4, <1>5, <1>7, <2>1, FinEndIs
<1>9. PICK x : x = IF Combinable(t) > 0 THEN t
                   ELSE [t EXCEPT !.sndq = Append(@, Queued(t.write, 0, FALSE, TRUE))]
  OBVIOUS
<1>10. IsBlock(x) /\ Longer(t, x) /\ x.write = w /\ x.sndq = q
  <2>1. CASE Combinable(t) > 0
    BY <1>3, <1>9, <2>1, <1>1, <1>6 DEF FinQueue, Longer
  <2>2. CASE ~(Combinable(t) > 0)
    <3>1. x = [t EXCEPT !.sndq = q]
      <4>1. q = Append(t.sndq, Queued(t.write, 0, FALSE, TRUE))
        BY <1>3, <2>2, Zenon DEF FinQueue
      <4>2. x = [t EXCEPT !.sndq = Append(t.sndq, Queued(t.write, 0, FALSE, TRUE))]
        BY <1>9, <2>2, Zenon
      <4> QED
        BY <4>1, <4>2, Zenon
    <3> QED
      BY <1>1, <1>4, <1>6, <3>1 DEF IsBlock, Fields, Longer
  <2> QED
    BY <2>1, <2>2
<1>11. PICK e : e = [x EXCEPT !.sndq[Len(x.sndq)].fin = TRUE, !.sndq[Len(x.sndq)].room = 0,
                              !.write = @ + 1]
  OBVIOUS
<1>12. u = Event(e, "SEND", cwnd, FALSE)
  BY <1>9, <1>11 DEF OutputFin
<1>13. PICK z \in Int : z = w + 1
  OBVIOUS
<1>14. e = [x EXCEPT !.sndq = p, !.write = z]
  <2>1. e = [x EXCEPT !.sndq = FinEnd(x.sndq), !.write = x.write + 1]
    BY <1>10, <1>11, ZenonT(40) DEF FinEnd, IsBlock, Fields
  <2> QED
    BY <1>7, <1>10, <1>13, <2>1, Zenon
<1>15. IsBlock(e) /\ Longer(x, e) /\ e.write = z /\ e.sndq = p
  BY <1>8, <1>10, <1>14 DEF IsBlock, Fields, Longer
<1>16. Longer(t, e)
  BY <1>10, <1>15 DEF Longer
<1>17. \A i \in 1..n : p[i].syn => i \in 1..Len(v.sndq) /\ p[i] = v.sndq[i]
  BY <1>8, <1>4, <1>5
<1>18. \A i \in 1..n : p[i].syn => /\ p[i].seq = Isn[h] /\ p[i].len = 0 /\ ~p[i].fin
                                   /\ (p[i].ack <=> h = "sv")
  BY <1>17 DEF SndOK
<1>19. t.una <= t.max /\ t.nxt <= t.max /\ t.max <= t.write
  BY <1>1 DEF SndOK
<1>20. t.write <= z
  BY <1>1, <1>6, <1>13
<1>21. SndOK(h, e)
  <2>1. EndOf(p[Len(p)]) = z /\ (p[Len(p)].fin <=> FinSent(t))
    BY <1>1, <1>8, <1>13
  <2>2. \A i \in 1..Len(p) : p[i].syn => /\ p[i].seq = Isn[h] /\ p[i].len = 0 /\ ~p[i].fin
                                          /\ (p[i].ack <=> h = "sv")
    BY <1>8, <1>18
  <2> QED
    BY <1>1, <1>8, <1>13, <1>15, <1>16, <1>19, <1>20, <2>1, <2>2, GrownOK, ZenonT(60)
<1>22. SynGone(e)
  BY <1>17, <1>1, <1>16, <1>8, <1>15, SMTT(20) DEF SynGone, Longer
<1>23. (e.timer <=> e.ostate # "IDLE") /\ e.una < e.write /\ e.nxt < e.write
  <2>1. v.write < e.write
    BY <1>6, <1>13, <1>15
  <2>2. PICK y : y = [v EXCEPT !.sndq = p, !.write = z]
    OBVIOUS
  <2>3. IsBlock(y) /\ Longer(v, y) /\ y.write = e.write
    BY <1>8, <1>15, <2>2 DEF IsBlock, Fields, Longer
  <2>4. (y.timer <=> y.ostate # "IDLE") /\ y.una < y.write /\ y.nxt < y.write
    BY <2>1, <2>3, LongerIs
  <2>5. y.timer = e.timer /\ y.ostate = e.ostate /\ y.una = e.una /\ y.nxt = e.nxt
    BY <1>1, <1>16, <2>3 DEF Longer
  <2> QED
    BY <2>3, <2>4, <2>5
<1>24. Steps(h, e, u) /\ TimerOK(u)
  BY <1>12, <1>15, <1>21, <1>23, SendMore
<1>25. e.write = v.write + 1
  BY <1>6, <1>13, <1>15
<1> QED
  BY <1>15, <1>16, <1>22, <1>24, <1>25, Zenon

\* The first segment of a connection, alone in the queue, is sent at once.
LEMMA SynGoes ==
  ASSUME NEW h \in Host, NEW e, IsBlock(e), SndOK(h, e), NEW n \in Nat, e.una = n, e.nxt = n,
         e.write = n + 1, e.wndack = n, e.wnd = Mss, NEW b \in Item, e.sndq = <<b>>, b.seq = n, b.len = 0,
         b.syn, ~b.fin, b.room > 0, NEW cwnd \in Int, Mss <= cwnd
  PROVE  SndHead(e, cwnd).max > n
<1>1. PICK m \in Nat : m = Mss
  BY Params
<1>2. m >= 1 /\ m <= cwnd
  BY <1>1, Params
<1>3. PICK w \in Int : w = n + m
  OBVIOUS
<1>4. Len(e.sndq) = 1 /\ e.sndq[1] = b
  OBVIOUS
<1>5. SndHead(e, cwnd) = SendFrom(e, w)
  BY <1>4, <1>1, <1>2, <1>3 DEF Least, SndHead
<1>6. SendFrom(e, w) = SendOne(e, FirstUnsent(e), w)
  BY <1>4, SendFromIs
<1>7. EndOf(b) = n + 1
  BY DEF EndOf, One
<1>8. FirstUnsent(e) = 1
  <2>1. e.sndq \in Seq(Item) /\ e.nxt \in Int
    BY DEF IsBlock
  <2>10. /\ Ends(e.sndq) \in Seq(Int) /\ Len(Ends(e.sndq)) = Len(e.sndq)
         /\ \A i \in 1..Len(e.sndq) : Ends(e.sndq)[i] = EndOf(e.sndq[i]) /\ EndOf(e.sndq[i]) \in Int
    BY <2>1, EndsAre
  <2>2. PICK s \in Seq(Int) : s = Ends(e.sndq)
    BY <2>10
  <2>3. Len(s) = 1 /\ s[1] = n + 1 /\ n \in Int
    BY <1>4, <1>7, <2>2, <2>10
  <2>4. PICK k \in 0..1 : k = Passed(s, n)
    BY <2>3, PassedIs
  <2>5. \A j \in 1..k : s[j] <= n
    BY <2>4, PassedIs
  <2>6. k = 0
    BY <2>5, <2>3
  <2> QED
    BY <2>2, <2>4, <2>6 DEF FirstUnsent
<1>9. Goes(e, 1, w)
  BY <1>2, <1>3, <1>4, <1>7 DEF Goes
<1>10. PICK v : v = SendOne(e, 1, w)
  OBVIOUS
<1>11. e.sndq[1].seq < v.max \/ EndOf(e.sndq[1]) <= e.sndq[1].seq
  BY <1>9, <1>10, SendOneIs
<1>12. n < v.max
  BY <1>4, <1>7, <1>11
<1>13. v = SndHead(e, cwnd)
  BY <1>5, <1>6, <1>8, <1>10, Zenon
<1>14. IsBlock(v)
  BY <1>13, SndHeadIs DEF Sends
<1>15. v.max > n
  BY <1>12, <1>14 DEF IsBlock
<1> QED
  BY <1>13, <1>15, Zenon

\* tcp_output() of a SYN
LEMMA OutputSynIs ==
  ASSUME NEW h \in Host, NEW t, IsBlock(t), NEW n \in Nat, n = Isn[h], t.sndq = <<>>, t.una = n,
         t.nxt = n, t.max = n, t.write = n, t.wndack = n, t.wnd = Mss, t.ostate = "IDLE", ~t.timer,
         ~FinSent(t), NEW ack \in BOOLEAN, ack <=> h = "sv", NEW cwnd \in Int, Mss <= cwnd,
         NEW u, u = OutputSyn(t, ack, cwnd)
  PROVE  \E e : /\ IsBlock(e) /\ Longer(t, e) /\ e.write = n + 1
                /\ Steps(h, e, u) /\ TimerOK(u) /\ SynGone(u)
<1>1. PICK b \in Item : /\ b = Queued(n, 0, TRUE, ack) /\ b.seq = n /\ b.len = 0 /\ b.syn = TRUE
                        /\ b.ack = ack /\ ~b.fin /\ EndOf(b) = n + One(TRUE)
  <2>1. PICK x : x = Queued(n, 0, TRUE, ack)
    OBVIOUS
  <2>2. /\ x \in Item /\ x.seq = n /\ x.len = 0 /\ x.syn = TRUE
        /\ x.ack = ack /\ ~x.fin /\ EndOf(x) = n + One(TRUE)
    <3>1. n \in Int /\ TRUE \in BOOLEAN
      OBVIOUS
    <3> QED
      BY <2>1, <3>1, QueuedIs, Zenon
  <2> QED
    BY <2>1, <2>2, Zenon
<1>2. EndOf(b) = n + 1
  BY <1>1 DEF One
<1>3. b.room > 0
  BY Params, <1>1 DEF Queued
<1>4. PICK z \in Int : z = n + 1
  OBVIOUS
<1>5. PICK p : p = <<b>>
  OBVIOUS
<1>6. p \in Seq(Item) /\ Len(p) = 1 /\ p[1] = b /\ p # <<>>
  BY <1>5
<1>7. PICK e : e = [t EXCEPT !.sndq = p, !.write = z]
  OBVIOUS
<1>8. u = Event(e, "SEND", cwnd, FALSE)
  BY <1>1, <1>5, <1>4, <1>7 DEF OutputSyn
<1>9. IsBlock(e) /\ Longer(t, e) /\ e.write = z /\ e.sndq = p
  BY <1>6, <1>7 DEF IsBlock, Fields, Longer
<1>10. Chain(p)
  BY <1>6 DEF Chain
<1>11. SndOK(h, e)
  <2>1. t.una <= t.max /\ t.nxt <= t.max /\ t.max <= t.write /\ t.write <= z
    BY <1>4
  <2>2. EndOf(p[Len(p)]) = z /\ (p[Len(p)].fin <=> FinSent(t))
    BY <1>1, <1>2, <1>4, <1>6
  <2>3. \A i \in 1..Len(p) : p[i].syn => /\ p[i].seq = Isn[h] /\ p[i].len = 0 /\ ~p[i].fin
                                         /\ (p[i].ack <=> h = "sv")
    <3>1. b.ack <=> h = "sv"
      BY <1>1, Zenon
    <3>2. b.seq = Isn[h] /\ b.len = 0 /\ ~b.fin
      BY <1>1
    <3>3. \A i \in 1..Len(p) : p[i] = b
      BY <1>6
    <3> QED
      BY <3>1, <3>2, <3>3, Zenon
  <2> QED
    BY <1>4, <1>6, <1>9, <1>10, <2>1, <2>2, <2>3, GrownOK, Zenon
<1>12. (e.timer <=> e.ostate # "IDLE") /\ e.una < e.write /\ e.nxt < e.write
  BY <1>4, <1>9 DEF Longer
<1>13. Steps(h, e, u) /\ TimerOK(u)
  BY <1>8, <1>9, <1>11, <1>12, SendMore
<1>14. PICK v : v = SndHead(e, cwnd)
  OBVIOUS
<1>15. v.max > n
  BY <1>4, <1>5, <1>9, <1>1, <1>3, <1>11, SynGoes, <1>14 DEF Longer
<1>16. u.max = v.max
  <2>1. e.ostate = "IDLE" /\ e.ostate \in Ostates
    BY <1>9 DEF Longer, Ostates
  <2>2. u = IdleSend(e, cwnd)
    <3>1. ASSUME NEW g PROVE Event(e, "SEND", cwnd, g) = IdleSend(e, cwnd)
      BY <2>1, EventIs
    <3> QED
      BY <1>8, <3>1, Zenon
  <2>3. ~(e.nxt >= e.write)
    BY <1>4, <1>9 DEF Longer
  <2>4. u = Start(Ostate(v, IF Canretrans(v) THEN "XMIT" ELSE "PERSIST"))
    BY <1>14, <2>2, <2>3, Zenon DEF IdleSend
  <2> QED
    BY <2>4 DEF Start, Ostate
<1>17. SynGone(u)
  <2>1. IsBlock(u) /\ SndOK(h, u) /\ u.max > n
    BY <1>13, <1>15, <1>16 DEF Steps
  <2> SUFFICES ASSUME NEW i \in 1..Len(u.sndq), u.sndq[i].syn PROVE u.sndq[i].seq < u.max
    BY DEF SynGone
  <2>2. u.sndq[i].seq = n
    BY <2>1 DEF SndOK
  <2> QED
    BY <2>1, <2>2 DEF IsBlock
<1> QED
  BY <1>4, <1>9, <1>13, <1>17, Zenon

\* tcp_sndwnd()
LEMMA WindowedSteps ==
  ASSUME NEW h, NEW t, IsBlock(t), SndOK(h, t), NEW s \in Segment, NEW v, v = Windowed(t, s)
  PROVE  Steps(h, t, v) /\ v.timer = t.timer /\ v.ostate = t.ostate /\ v.out = t.out
<1>1. s.ack \in Int /\ s.wnd \in Int /\ s.seq \in Int
  BY SegIs
<1>2. PICK n \in Int : n = t.nxt
  BY DEF IsBlock
<1>3. PICK m \in Int : m = t.max
  BY DEF IsBlock
<1>4. PICK x \in Int : /\ x = IF s.ack + s.wnd < t.wndack + t.wnd THEN Least(n, s.ack + s.wnd) ELSE n
                       /\ x <= n
  BY <1>1 DEF Least
<1>5. PICK z \in Int : z = Most(t.wndmax, s.wnd)
  BY <1>1 DEF IsBlock, Most
<1>6. v = [t EXCEPT !.nxt = x, !.wnd = s.wnd, !.wndseq = s.seq, !.wndack = s.ack, !.wndmax = z]
  BY <1>2, <1>4, <1>5 DEF Windowed
<1>7. IsBlock(v) /\ Untouched(t, v) /\ v.una = t.una /\ v.max = t.max /\ v.sndq = t.sndq
      /\ v.out = t.out /\ v.wake = t.wake /\ v.timer = t.timer /\ v.ostate = t.ostate /\ v.nxt = x
  BY <1>1, <1>6 DEF IsBlock, Fields, Untouched
<1>8. x <= t.max
  BY <1>2, <1>3, <1>4 DEF SndOK
<1>9. SndOK(h, v)
  BY <1>7, <1>8 DEF Untouched, FinSent, SndOK
<1>10. SynGone(t) => SynGone(v)
  BY <1>7 DEF SynGone
<1>11. Canwrite(v) = Canwrite(t)
  BY <1>7 DEF Untouched, Canwrite, Connected, Used
<1>12. WakeOK(t, v)
  BY <1>7, <1>11 DEF WakeOK
<1>13. t.max <= v.max
  BY <1>3, <1>7
<1>14. Outs(h, t, t) => Outs(h, t, v)
  BY <1>7 DEF Outs
<1> QED
  BY <1>7, <1>9, <1>10, <1>12, <1>13, <1>14 DEF Steps

LEMMA TimerSame ==
  ASSUME NEW t, NEW u, TimerOK(t), u.una = t.una, u.write = t.write, u.timer = t.timer,
         u.ostate = "IDLE" <=> t.ostate = "IDLE"
  PROVE  TimerOK(u)
BY DEF TimerOK

LEMMA OutsSelf ==
  ASSUME NEW h, NEW t, NEW u, Steps(h, t, u), Outs(h, t, t)
  PROVE  Outs(h, u, u)
  BY OutsSame DEF Steps

\* A step that leaves una
LEMMA AckOfSteps ==
  ASSUME NEW h, NEW t, NEW s, NEW u, SynGone(t), Outs(h, t, t), Steps(h, t, u), TimerOK(u)
  PROVE  AckOf(h, t, s, u)
<1>1. Outs(h, u, u)
  BY OutsSelf
<1>2. t.una <= u.una
  BY DEF Steps, IsBlock
<1> QED
  BY <1>1, <1>2 DEF AckOf, Steps

LEMMA AckNew ==
  ASSUME NEW h \in Host, NEW t, IsBlock(t), SndOK(h, t), SynGone(t), TimerOK(t), t.out = <<>>,
         NEW a \in Int, t.una < a, a <= t.max, NEW cwnd \in Int,
         NEW u, u = AckNews(t, a, cwnd)
  PROVE  \E x : /\ IsBlock(x) /\ Untouched(t, x) /\ x.una = a /\ x.out = <<>> /\ SynGone(x)
                /\ WakeOK(t, x) /\ Steps(h, x, u) /\ TimerOK(u)
<1>1. PICK x : x = [t EXCEPT !.una = a]
  OBVIOUS
<1>2. IsBlock(x) /\ Untouched(t, x) /\ x.una = a /\ x.out = <<>> /\ x.sndq = t.sndq /\ x.max = t.max
      /\ x.nxt = t.nxt /\ x.wake = t.wake /\ x.timer = t.timer /\ x.ostate = t.ostate
  BY <1>1 DEF IsBlock, Fields, Untouched
<1>3. PICK n \in Int : n = t.una
  BY DEF IsBlock
<1>4. PICK w \in Int : w = t.write
  BY DEF IsBlock
<1>5. PICK m \in Int : m = t.max
  BY DEF IsBlock
<1>6. n < a /\ a <= m /\ m <= w
  BY <1>3, <1>4, <1>5 DEF SndOK
<1>7. t.sndq # <<>>
  BY <1>3, <1>4, <1>6 DEF SndOK
<1>8. SndOK(h, x)
  BY <1>2, <1>7 DEF Untouched, FinSent, SndOK
<1>9. SynGone(x)
  BY <1>2 DEF SynGone
<1>10. Canwrite(x) = Canwrite(t)
  BY <1>2 DEF Untouched, Canwrite, Connected, Used
<1>11. WakeOK(t, x)
  BY <1>2, <1>10 DEF WakeOK
<1>12. Busy(x)
  BY <1>6, <1>3, <1>4, <1>2 DEF TimerOK, Busy
<1>13. PICK y : y = Event(x, "ACKRCVD", cwnd, FALSE)
  OBVIOUS
<1>14. Steps(h, x, y) /\ TimerOK(y)
  BY <1>2, <1>8, <1>12, <1>13, AckEvent
<1>15. u = [y EXCEPT !.dupacks = 0]
  BY <1>1, <1>13, Zenon DEF AckNews
<1>16. IsBlock(y) /\ SndOK(h, y)
  BY <1>14 DEF Steps
<1>17. Steps(h, y, u) /\ u.timer = y.timer /\ u.ostate = y.ostate
  <2>1. PICK z : z = [y EXCEPT !.dupacks = 0]
    OBVIOUS
  <2>2. IsBlock(y)
    BY <1>16
  <2>3. IsBlock(z) /\ Quiet(y, z) /\ z.timer = y.timer /\ z.ostate = y.ostate
    BY <2>1, <2>2 DEF IsBlock, Fields, Quiet, Untouched
  <2>4. Steps(h, y, z)
    BY <1>16, <2>3, StepsOfQuiet
  <2> QED
    BY <1>15, <2>1, <2>3, <2>4, Zenon
<1>18. Steps(h, x, u)
  BY <1>2, <1>14, <1>16, <1>17, StepsTrans
<1>19. TimerOK(u)
  BY <1>17, <1>14, TimerSame DEF Steps, Untouched
<1> QED
  BY <1>2, <1>9, <1>11, <1>18, <1>19, Zenon

LEMMA AckOfNew ==
  ASSUME NEW h, NEW t, NEW s, NEW x, NEW u, IsBlock(x), Untouched(t, x), x.una = s.ack,
         t.una <= x.una, x.out = <<>>,
         SynGone(x), WakeOK(t, x), Steps(h, x, u), TimerOK(u)
  PROVE  AckOf(h, t, s, u) /\ u.una = s.ack
  BY OutsSelf, UntouchedTrans DEF Outs, Steps, Untouched, WakeOK, AckOf

LEMMA AckedSame ==
  ASSUME NEW h, NEW t, IsBlock(t), SynGone(t), t.out = <<>>, NEW s, ~(t.una < s.ack /\ s.ack <= t.max),
         NEW u, Steps(h, t, u), TimerOK(u)
  PROVE  AckedTo(h, t, s, u)
<1>1. Untouched(t, t) /\ WakeOK(t, t) /\ t.una <= t.una
  BY DEF Untouched, WakeOK, IsBlock
<1> QED
  BY <1>1, Zenon DEF AckedTo

\* A duplicate
LEMMA DupSteps ==
  ASSUME NEW h \in Host, NEW t, IsBlock(t), SndOK(h, t), NEW cwnd \in Int, NEW g,
         NEW u, u = Event(t, "DUPACK", cwnd, g)
  PROVE  Steps(h, t, u) /\ u.timer = t.timer /\ (u.ostate = "IDLE" <=> t.ostate = "IDLE")
  BY WndEvents

LEMMA DupIs ==
  ASSUME NEW h \in Host, NEW t, IsBlock(t), SndOK(h, t), TimerOK(t), NEW cwnd \in Int, NEW u,
         u = DupNews(t, cwnd)
  PROVE  Steps(h, t, u) /\ TimerOK(u)
<1>1. PICK d \in Int : d = Least(t.dupacks + 1, DupThresh + Len(t.sndq))
  BY Params DEF IsBlock, Least
<1>2. PICK x : x = [t EXCEPT !.dupacks = d]
  OBVIOUS
<1>3. u = Event(x, "DUPACK", cwnd, FALSE)
  BY <1>1, <1>2, Zenon DEF DupNews, Duplicate
<1>4. IsBlock(x) /\ Quiet(t, x) /\ x.timer = t.timer /\ x.ostate = t.ostate
  BY <1>2 DEF IsBlock, Fields, Quiet, Untouched
<1>5. Steps(h, t, x)
  BY <1>4, StepsOfQuiet
<1>6. SndOK(h, x)
  BY <1>5 DEF Steps
<1>7. Steps(h, x, u) /\ u.timer = x.timer /\ (u.ostate = "IDLE" <=> x.ostate = "IDLE")
  <2>1. SndOK(h, x) /\ IsBlock(x) /\ "DUPACK" \in {"WNDOPEN", "WNDCLOSE", "DUPACK", "NONE"}
    BY <1>4, <1>6
  <2>2. PICK g : g = FALSE
    OBVIOUS
  <2>3. u = Event(x, "DUPACK", cwnd, g)
    BY <1>3, <2>2, Zenon
  <2> QED
    BY <2>1, <2>3, DupSteps
<1>8. Steps(h, t, u)
  BY <1>4, <1>5, <1>7, StepsTrans
<1>9. u.una = t.una /\ u.write = t.write
  BY <1>8 DEF Steps, Untouched
<1> QED
  BY <1>4, <1>7, <1>8, <1>9, TimerSame

\* The cases of tcp_ack()
LEMMA AckedCases ==
  ASSUME NEW t, NEW s, NEW wnd, NEW cwnd, s.ack \in Int, t.una \in Int, t.max \in Int,
         t.una <= t.max
  PROVE  LET u == Acked(t, s, wnd, cwnd)
         IN  /\ s.ack > t.max => u = SndRst(t, s) \/ u = SndAck(t, s)
             /\ ~(s.ack > t.max) /\ t.una < s.ack /\ s.ack <= t.max => u = AckNews(t, s.ack, cwnd)
             /\ ~(s.ack > t.max) /\ ~(t.una < s.ack /\ s.ack <= t.max) => u = DupNews(t, cwnd) \/ u = t
<1>1. Acked(t, s, wnd, cwnd) =
        CASE s.ack > t.max -> IF t.state = "SYNRCVD" THEN SndRst(t, s) ELSE SndAck(t, s)
          [] t.una < s.ack /\ s.ack <= t.max -> AckNews(t, s.ack, cwnd)
          [] s.ack = t.una /\ wnd = s.wnd /\ SegLen(s) = 0 -> DupNews(t, cwnd)
          [] OTHER -> t
  BY Zenon DEF Acked, AckNews, DupNews, Duplicate
<1> QED
  BY <1>1

LEMMA AckedIs ==
  ASSUME NEW h \in Host, NEW t, IsBlock(t), SndOK(h, t), SynGone(t), TimerOK(t), t.out = <<>>,
         NEW s \in Segment, NEW wnd, NEW cwnd \in Int, NEW u, u = Acked(t, s, wnd, cwnd)
  PROVE  AckedTo(h, t, s, u)
<1>0. t.una <= t.max
  BY DEF SndOK
<1>1. PICK a \in Int : a = s.ack
  BY SegIs
<1>2. PICK m \in Int : m = t.max
  BY DEF IsBlock
<1>3. PICK n \in Int : n = t.una
  BY DEF IsBlock
<1>4. CASE a > m
  <2>0. s.ack > t.max
    BY <1>1, <1>2, <1>4
  <2>1. u = SndRst(t, s) \/ u = SndAck(t, s)
    BY <1>0, <1>1, <1>2, <1>3, <2>0, AckedCases
  <2>2. Steps(h, t, u) /\ u.ostate = t.ostate /\ u.timer = t.timer
    BY <2>1, SndRstSteps, SndAckSteps
  <2>3. u.una = t.una /\ u.write = t.write
    BY <2>2 DEF Steps, Untouched
  <2>4. TimerOK(u)
    BY <2>2, <2>3, TimerSame
  <2>5. ~(s.ack <= t.max)
    BY <1>1, <1>2, <1>4
  <2> QED
    BY <2>2, <2>4, <2>5, AckedSame
<1>5. CASE n < a /\ a <= m
  BY <1>1, <1>2, <1>3, <1>5, <1>0, AckedCases, AckNew DEF AckedTo
<1>6. CASE ~(a > m) /\ ~(n < a /\ a <= m)
  BY <1>1, <1>2, <1>3, <1>6, <1>0, AckedCases, DupIs, StepsRefl, AckedSame
<1> QED
  BY <1>4, <1>5, <1>6

\* tcp_ack()
LEMMA AckIs ==
  ASSUME NEW h \in Host, NEW t, IsBlock(t), SndOK(h, t), SynGone(t), TimerOK(t), t.out = <<>>,
         NEW s \in Segment, NEW update, NEW cwnd \in Int, NEW u, u = Ack(t, s, update, cwnd)
  PROVE  /\ AckOf(h, t, s, u)
         /\ Has(s, "ACK") /\ t.una < s.ack /\ s.ack <= t.max => u.una = s.ack
         /\ ~Has(s, "ACK") => u = t
<1>1. CASE ~Has(s, "ACK")
  BY <1>1, StepsRefl, AckOfSteps DEF Ack, Outs
<1>2. CASE Has(s, "ACK")
  <2>1. PICK new : new = News(t, s, update)
    OBVIOUS
  <2>2. PICK v : v = IF new THEN Windowed(t, s) ELSE t
    OBVIOUS
  <2>3. Steps(h, t, v) /\ v.timer = t.timer /\ v.ostate = t.ostate /\ v.out = t.out
    BY <2>2, WindowedSteps, StepsRefl
  <2>4. IsBlock(v) /\ SndOK(h, v) /\ SynGone(v) /\ v.out = <<>> /\ v.una = t.una /\ v.write = t.write
        /\ Untouched(t, v) /\ WakeOK(t, v) /\ t.max <= v.max
    BY <2>3 DEF Steps, Untouched
  <2>5. TimerOK(v)
    BY <2>3, <2>4, TimerSame
  <2>6. PICK y : y = Acked(v, s, t.wnd, cwnd)
    OBVIOUS
  <2>7. AckedTo(h, v, s, y)
    BY <2>4, <2>5, <2>6, AckedIs
  <2>8. PICK x : /\ IsBlock(x) /\ Untouched(v, x) /\ x.out = <<>> /\ SynGone(x) /\ WakeOK(v, x)
                 /\ Steps(h, x, y) /\ TimerOK(y)
                 /\ x.una = v.una \/ x.una = s.ack
                 /\ v.una <= x.una
                 /\ v.una < s.ack /\ s.ack <= v.max => x.una = s.ack
    BY <2>7, Zenon DEF AckedTo
  <2>9. IsBlock(y) /\ SndOK(h, y)
    BY <2>8 DEF Steps
  <2>10. PICK e : e = IF new THEN WndEvent(t, s) ELSE "NONE"
    OBVIOUS
  <2>11. e \in {"WNDOPEN", "WNDCLOSE", "DUPACK", "NONE"}
    BY <2>10 DEF WndEvent
  <2>12. u = Event(y, e, cwnd, FALSE)
    BY <1>2, <2>1, <2>2, <2>6, <2>10, Zenon DEF Ack
  <2>13. Steps(h, y, u) /\ u.timer = y.timer /\ (u.ostate = "IDLE" <=> y.ostate = "IDLE")
    <3>1. PICK g : g = FALSE
      OBVIOUS
    <3>2. u = Event(y, e, cwnd, g)
      BY <2>12, <3>1, Zenon
    <3> QED
      BY <2>9, <2>11, <3>2, WndEvents
  <2>14. Steps(h, x, u)
    BY <2>8, <2>9, <2>13, StepsTrans
  <2>15. TimerOK(u)
    BY <2>13, <2>8, TimerSame DEF Steps, Untouched
  <2>16. Untouched(t, x)
    BY <2>4, <2>8, UntouchedTrans
  <2>17. WakeOK(t, x)
    BY <2>4, <2>8 DEF Untouched, WakeOK
  <2>17a. t.una <= x.una
    BY <2>4, <2>8
  <2>18. CASE x.una = s.ack
    BY <1>2, <2>8, <2>14, <2>15, <2>16, <2>17, <2>17a, <2>18, AckOfNew
  <2>19. CASE x.una # s.ack
    <3>1. x.una = t.una
      BY <2>4, <2>8, <2>19
    <3>2. ~(t.una < s.ack /\ s.ack <= t.max)
      <4> SUFFICES ASSUME t.una < s.ack, s.ack <= t.max PROVE FALSE
        OBVIOUS
      <4>1. PICK a \in Int : a = s.ack
        BY SegIs
      <4>2. PICK m \in Int : m = t.max
        BY DEF IsBlock
      <4>3. PICK k \in Int : k = v.max
        BY <2>4 DEF IsBlock
      <4>4. a <= m /\ m <= k
        BY <2>4, <4>1, <4>2, <4>3
      <4>5. a <= k
        BY <4>4
      <4>6. v.una < s.ack /\ s.ack <= v.max
        BY <2>4, <4>1, <4>3, <4>5
      <4> QED
        BY <2>8, <2>19, <4>6
    <3>3. Outs(h, x, x)
      BY <2>8 DEF Outs
    <3>4. Outs(h, u, u)
      BY <2>14, <3>3, OutsSelf
    <3>5. Untouched(t, u) /\ u.una = t.una
      BY <2>14, <2>16, <3>1, UntouchedTrans DEF Steps
    <3>6. WakeOK(t, u)
      BY <2>14, <2>16, <2>17 DEF Untouched, Steps, WakeOK
    <3>6a. t.una <= u.una
      BY <3>5 DEF IsBlock
    <3>7. AckOf(h, t, s, u)
      BY <2>8, <2>14, <2>15, <3>4, <3>5, <3>6, <3>6a DEF AckOf, Steps
    <3> QED
      BY <1>2, <3>2, <3>7
  <2> QED
    BY <2>18, <2>19
<1> QED
  BY <1>1, <1>2

-----------------------------------------------------------------------------
(* The receive queue.                                                       *)

\* A segment of the receive queue.
LEMMA ChunkIs ==
  ASSUME NEW q \in Seq(Chunk), NEW i \in 1..Len(q)
  PROVE  /\ q[i] \in Chunk /\ q[i].seq \in Int /\ q[i].data \in Seq(Int) /\ NxtOf(q[i]) \in Int
         /\ NxtOf(q[i]) = q[i].seq + Len(q[i].data) /\ Len(q[i].data) \in Nat
<1>1. PICK b \in Chunk : b = q[i]
  OBVIOUS
<1>2. b.seq \in Int /\ b.data \in Seq(Int)
  BY DEF Chunk
<1>3. Len(b.data) \in Nat
  BY <1>2
<1>4. NxtOf(b) \in Int /\ NxtOf(b) = b.seq + Len(b.data)
  BY <1>2, <1>3 DEF NxtOf
<1> QED
  BY <1>1, <1>2, <1>3, <1>4

LEMMA WalkExists ==
  ASSUME NEW q \in Seq(Chunk), NEW nxt \in Int
  PROVE  \E k : Walk(q, nxt, k)
<1>1. PICK n \in Nat : n = Len(q)
  OBVIOUS
<1>2. \A k \in 0..n : Reached(q, nxt, k) \in Int
  BY <1>1, ChunkIs DEF Reached
<1>3. PICK T : T = {k \in 1..n : Reached(q, nxt, k - 1) < q[k].seq}
  OBVIOUS
<1>4. \A j \in 1..n : j \notin T => q[j].seq <= Reached(q, nxt, j - 1)
  <2> SUFFICES ASSUME NEW j \in 1..n, j \notin T PROVE q[j].seq <= Reached(q, nxt, j - 1)
    OBVIOUS
  <2>1. PICK a \in Int : a = Reached(q, nxt, j - 1)
    BY <1>2
  <2>2. PICK b \in Int : b = q[j].seq
    BY <1>1, ChunkIs
  <2>3. ~(a < b)
    BY <1>3, <2>1, <2>2
  <2> QED
    BY <2>1, <2>2, <2>3
<1>5. CASE T = {}
  BY <1>1, <1>4, <1>5 DEF Walk
<1>6. CASE T # {}
  <2>1. T \in SUBSET Nat
    BY <1>3
  <2>2. PICK m \in T : \A y \in T : m <= y
    BY <1>6, <2>1, LeastNat
  <2>3. m \in 1..n /\ Reached(q, nxt, m - 1) < q[m].seq
    BY <1>3
  <2>4. PICK k \in 0..n : k = m - 1
    BY <2>3
  <2>5. k < n /\ k + 1 = m
    BY <2>3, <2>4
  <2>6. \A j \in 1..k : q[j].seq <= Reached(q, nxt, j - 1)
    BY <2>3, <2>4, <1>4, <2>2
  <2>7. Reached(q, nxt, k) < q[k + 1].seq
    BY <2>3, <2>4, <2>5
  <2>8. Walk(q, nxt, k)
    BY <1>1, <2>6, <2>7 DEF Walk
  <2> QED
    BY <2>8
<1> QED
  BY <1>5, <1>6

LEMMA ContigWalk ==
  ASSUME NEW q \in Seq(Chunk), NEW nxt \in Int
  PROVE  \E k : Walk(q, nxt, k) /\ Contiguous(q, nxt) = Reached(q, nxt, k)
  BY WalkExists DEF Walk, Contiguous

\* What the walk finds: the queue has all from nxt up to where it ends, and not that.
LEMMA ContigIs ==
  ASSUME NEW q \in Seq(Chunk), Staggered(q), NEW nxt \in Int
  PROVE  /\ Contiguous(q, nxt) \in Int
         /\ ~Holds(q, Contiguous(q, nxt))
         /\ \A x \in Int : nxt <= x /\ x < Contiguous(q, nxt) => Holds(q, x)
         /\ \/ Contiguous(q, nxt) = nxt /\ \A j \in 1..Len(q) : nxt < q[j].seq
            \/ /\ Len(q) > 0 /\ NxtOf(q[1]) <= Contiguous(q, nxt) /\ q[1].seq <= nxt
               /\ \E j \in 1..Len(q) : Contiguous(q, nxt) = NxtOf(q[j])
<1>1. PICK n \in Nat : n = Len(q)
  OBVIOUS
<1>2. PICK k : Walk(q, nxt, k) /\ Contiguous(q, nxt) = Reached(q, nxt, k)
  BY ContigWalk, Zenon
<1>3. k \in 0..n /\ (\A j \in 1..k : q[j].seq <= Reached(q, nxt, j - 1))
      /\ (k < n => Reached(q, nxt, k) < q[k + 1].seq)
  BY <1>1, <1>2 DEF Walk
<1>4. \A j \in 1..n : q[j].seq \in Int /\ NxtOf(q[j]) \in Int
  BY <1>1, ChunkIs
<1>5. /\ \A i \in 1..n : q[i].seq < NxtOf(q[i])
      /\ \A i, j \in 1..n : i < j => q[i].seq < q[j].seq /\ NxtOf(q[i]) < NxtOf(q[j])
  BY <1>1 DEF Staggered
<1>6. CASE k = 0
  BY <1>2, <1>6, <1>3, <1>4, <1>5, <1>1 DEF Reached, Holds
<1>7. CASE k > 0
  <2>1. PICK r \in Int : r = NxtOf(q[k])
    BY <1>3, <1>4, <1>7
  <2>2. Contiguous(q, nxt) = r
    BY <1>2, <1>7, <2>1 DEF Reached
  <2>3. k \in 1..n
    BY <1>3, <1>7
  <2>4. \A j \in 1..n : j <= k => NxtOf(q[j]) <= r
    BY <2>1, <1>4, <1>5, <2>3
  <2>5. \A j \in 1..n : k < j => r < q[j].seq
    BY <2>3, <1>3, <1>7, <2>1, <1>4, <1>5 DEF Reached
  <2>6. ~Holds(q, r)
    BY <1>1, <2>3, <1>4, <2>4, <2>5 DEF Holds
  <2>7. ASSUME NEW x \in Int, nxt <= x, x < r PROVE Holds(q, x)
    <3>1. PICK T : T = {j \in 1..n : x < NxtOf(q[j])}
      OBVIOUS
    <3>2. T \in SUBSET Nat /\ k \in T
      BY <2>1, <2>3, <2>7, <3>1
    <3>3. PICK m \in T : \A y \in T : m <= y
      BY <3>2, LeastNat
    <3>4. m \in 1..n /\ x < NxtOf(q[m]) /\ m <= k
      BY <3>1, <3>2, <3>3
    <3>5. q[m].seq <= x
      <4>1. q[m].seq <= Reached(q, nxt, m - 1)
        BY <1>3, <3>4
      <4>2. CASE m = 1
        BY <4>1, <4>2, <1>4, <2>7, <3>4 DEF Reached
      <4>3. CASE m > 1
        BY <3>4, <4>3, <3>3, <1>4, <3>1, <4>1 DEF Reached
      <4> QED
        BY <3>4, <4>2, <4>3
    <3> QED
      BY <1>1, <3>4, <3>5 DEF Holds
  <2>8. q[1].seq <= nxt
    BY <1>3, <2>3 DEF Reached
  <2>9. NxtOf(q[1]) <= r
    BY <2>3, <2>4
  <2> QED
    BY <1>1, <2>1, <2>2, <2>3, <2>6, <2>7, <2>8, <2>9
<1> QED
  BY <1>3, <1>6, <1>7

\* tcp_addseg(): the place of a segment
LEMMA PlaceIs ==
  ASSUME NEW q \in Seq(Chunk), NEW b \in Chunk, NEW i, i = Place(q, b)
  PROVE  /\ i \in 0..(Len(q) + 1)
         /\ i > 1 => NxtOf(q[i - 1]) < NxtOf(b)
         /\ i > 0 /\ i <= Len(q) => b.seq < q[i].seq
<1>1. PICK n \in Nat : n = Len(q)
  OBVIOUS
<1>2. PICK H : H = {j \in 2..n : /\ NxtOf(q[j - 1]) < q[j].seq /\ b.seq < q[j].seq
                                 /\ NxtOf(q[j - 1]) < NxtOf(b)}
  OBVIOUS
<1>3. i = IF n = 0 \/ NxtOf(q[n]) < NxtOf(b) THEN n + 1
          ELSE IF b.seq < q[1].seq THEN 1
          ELSE IF H = {} THEN 0 ELSE CHOOSE j \in H : \A k \in H : k <= j
  BY <1>1, <1>2 DEF Place
<1>4. CASE n = 0 \/ NxtOf(q[n]) < NxtOf(b)
  BY <1>3, <1>4, <1>1
<1>5. CASE ~(n = 0 \/ NxtOf(q[n]) < NxtOf(b)) /\ b.seq < q[1].seq
  BY <1>3, <1>5, <1>1
<1>6. CASE ~(n = 0 \/ NxtOf(q[n]) < NxtOf(b)) /\ ~(b.seq < q[1].seq) /\ H = {}
  BY <1>3, <1>6, <1>1
<1>7. CASE ~(n = 0 \/ NxtOf(q[n]) < NxtOf(b)) /\ ~(b.seq < q[1].seq) /\ H # {}
  <2>1. \E j \in H : \A k \in H : k <= j
    <3>1. PICK T : T = {m \in 0..n : n - m \in H}
      OBVIOUS
    <3>2. T \in SUBSET Nat
      BY <3>1
    <3>3. PICK h \in H : TRUE
      BY <1>7
    <3>4. h \in 2..n
      BY <1>2
    <3>5. PICK m \in Nat : m = n - h
      BY <3>4
    <3>6. m \in T
      BY <3>1, <3>4, <3>5
    <3>7. PICK c \in T : \A y \in T : c <= y
      BY <3>2, <3>6, LeastNat
    <3>8. c \in 0..n /\ n - c \in H
      BY <3>1
    <3>9. ASSUME NEW k \in H PROVE k <= n - c
      <4>1. k \in 2..n
        BY <1>2
      <4>2. PICK y \in Nat : y = n - k
        BY <4>1
      <4>3. y \in T
        BY <3>1, <4>1, <4>2
      <4>4. c <= y
        BY <3>7, <4>3
      <4> QED
        BY <3>8, <4>1, <4>2, <4>4
    <3> QED
      BY <3>8, <3>9
  <2>2. i = CHOOSE j \in H : \A k \in H : k <= j
    BY <1>3, <1>7
  <2>3. i \in H
    BY <2>1, <2>2
  <2>4. i \in 2..n /\ b.seq < q[i].seq /\ NxtOf(q[i - 1]) < NxtOf(b)
    BY <1>2, <2>3
  <2> QED
    BY <1>1, <2>4
<1> QED
  BY <1>4, <1>5, <1>6, <1>7

\* What stays before it
LEMMA BeforeIs ==
  ASSUME NEW q \in Seq(Chunk), NEW b \in Chunk, NEW i \in 1..(Len(q) + 1)
  PROVE  \E k \in 0..(i - 1) : /\ Before(q, b, i) = SubSeq(q, 1, k)
                               /\ \A j \in (k + 1)..(i - 1) : b.seq <= q[j].seq
                               /\ k > 0 => q[k].seq < b.seq
<1>1. PICK s \in Int : s = b.seq
  BY DEF Chunk
<1>2. \A j \in 1..(i - 1) : q[j].seq \in Int
  BY ChunkIs
<1>3. PICK T : T = {k \in 0..(i - 1) : \A j \in (k + 1)..(i - 1) : s <= q[j].seq}
  OBVIOUS
<1>4. T \in SUBSET Nat /\ (i - 1) \in T
  BY <1>3
<1>5. PICK k \in T : \A y \in T : k <= y
  BY <1>4, LeastNat
<1>6. k \in 0..(i - 1) /\ \A j \in (k + 1)..(i - 1) : s <= q[j].seq
  BY <1>3
<1>7. k > 0 => q[k].seq < s
  <2> SUFFICES ASSUME k > 0, ~(q[k].seq < s) PROVE FALSE
    OBVIOUS
  <2>1. s <= q[k].seq
    BY <1>2, <1>6
  <2>2. PICK m \in 0..(i - 1) : m = k - 1
    BY <1>6
  <2>3. \A j \in (m + 1)..(i - 1) : s <= q[j].seq
    BY <1>6, <2>2, <2>1
  <2>4. m \in T /\ ~(k <= m)
    BY <1>3, <1>6, <2>2, <2>3
  <2> QED
    BY <1>5, <2>4
<1>8. \E c \in 0..(i - 1) : /\ \A j \in (c + 1)..(i - 1) : b.seq <= q[j].seq
                            /\ c > 0 => q[c].seq < b.seq
  BY <1>1, <1>6, <1>7
<1>9. PICK d : d = CHOOSE c \in 0..(i - 1) : /\ \A j \in (c + 1)..(i - 1) : b.seq <= q[j].seq
                                             /\ c > 0 => q[c].seq < b.seq
  OBVIOUS
<1>10. d \in 0..(i - 1) /\ (\A j \in (d + 1)..(i - 1) : b.seq <= q[j].seq) /\ (d > 0 => q[d].seq < b.seq)
  BY <1>8, <1>9, Zenon
<1>11. Before(q, b, i) = SubSeq(q, 1, d)
  BY <1>9, Zenon DEF Before
<1> QED
  BY <1>10, <1>11

\* The ends of the segments
LEMMA NxtsAre ==
  ASSUME NEW q \in Seq(Chunk)
  PROVE  /\ Nxts(q) \in Seq(Int) /\ Len(Nxts(q)) = Len(q)
         /\ \A i \in 1..Len(q) : Nxts(q)[i] = NxtOf(q[i]) /\ NxtOf(q[i]) \in Int
  BY ChunkIs DEF Nxts

\* What is left of a queue
LEMMA RestIs ==
  ASSUME NEW q \in Seq(Chunk), NEW k \in 0..Len(q)
  PROVE  /\ Rest(q, k) \in Seq(Chunk) /\ Len(Rest(q, k)) = Len(q) - k
         /\ \A j \in 1..(Len(q) - k) : Rest(q, k)[j] = q[k + j]
BY DEF Rest

\* What stays behind it
LEMMA AfterIs ==
  ASSUME NEW q \in Seq(Chunk), NEW b \in Chunk, NEW i \in 1..(Len(q) + 1), NEW a, a = After(q, b, i)
  PROVE  \E l \in (i - 1)..Len(q) :
           /\ a \in Seq(Chunk) /\ Len(a) = Len(q) - l
           /\ \A j \in 1..(Len(q) - l) : a[j] = q[l + j]
           /\ \A j \in i..l : NxtOf(q[j]) <= NxtOf(b)
           /\ l < Len(q) => NxtOf(b) < NxtOf(q[l + 1])
<1>1. PICK n \in Nat : n = Len(q)
  OBVIOUS
<1>2. PICK c \in 0..n : c = i - 1
  BY <1>1
<1>3. PICK x \in Int : x = NxtOf(b)
  BY DEF NxtOf, Chunk
<1>4. PICK r : r = Rest(q, c)
  OBVIOUS
<1>5. r \in Seq(Chunk) /\ Len(r) = n - c /\ \A j \in 1..(n - c) : r[j] = q[c + j]
  BY <1>1, <1>4, RestIs
<1>6. PICK s : s = Nxts(r)
  OBVIOUS
<1>7. s \in Seq(Int) /\ Len(s) = n - c /\ \A j \in 1..(n - c) : s[j] = NxtOf(r[j])
  BY <1>5, <1>6, NxtsAre
<1>8. PICK m : m = Passed(s, x)
  OBVIOUS
<1>9. m \in 0..(n - c) /\ (\A j \in 1..m : s[j] <= x) /\ (m < n - c => x < s[m + 1])
  BY <1>7, <1>8, PassedIs
<1>10. a = Rest(r, m)
  BY <1>2, <1>4, <1>3, <1>6, <1>8 DEF After
<1>11. a \in Seq(Chunk) /\ Len(a) = (n - c) - m /\ \A j \in 1..((n - c) - m) : a[j] = r[m + j]
  <2>1. PICK y \in 0..Len(r) : y = m
    BY <1>5, <1>9
  <2>2. /\ Rest(r, y) \in Seq(Chunk) /\ Len(Rest(r, y)) = Len(r) - y
        /\ \A j \in 1..(Len(r) - y) : Rest(r, y)[j] = r[y + j]
    BY <1>5, RestIs
  <2> QED
    BY <1>5, <1>10, <2>1, <2>2
<1>12. PICK l \in c..n : l = c + m
  BY <1>9
<1>13. Len(a) = n - l
  BY <1>9, <1>11, <1>12
<1>14. ASSUME NEW j \in 1..(n - l) PROVE a[j] = q[l + j]
  BY <1>9, <1>12, <1>11, <1>5
<1>15. ASSUME NEW j \in i..l PROVE NxtOf(q[j]) <= x
  <2>1. PICK y \in 1..m : y = j - c
    BY <1>2, <1>9, <1>12
  <2>2. y \in 1..(n - c) /\ c + y = j
    BY <1>9, <2>1
  <2>3. s[y] = NxtOf(q[j])
    BY <1>5, <1>7, <2>2
  <2> QED
    BY <1>9, <2>1, <2>3
<1>16. ASSUME l < n PROVE x < NxtOf(q[l + 1])
  <2>1. PICK y \in 1..(n - c) : y = m + 1
    BY <1>9, <1>12, <1>16
  <2>2. c + y = l + 1 /\ m < n - c
    BY <1>9, <1>12, <1>16, <2>1
  <2>3. s[y] = NxtOf(q[l + 1])
    BY <1>5, <1>7, <2>2
  <2> QED
    BY <1>9, <2>1, <2>2, <2>3
<1> QED
  BY <1>1, <1>2, <1>3, <1>11, <1>12, <1>13, <1>14, <1>15, <1>16

LEMMA InsertElems ==
  ASSUME NEW q \in Seq(Chunk), NEW b, NEW k \in 0..Len(q), NEW l \in k..Len(q), NEW r,
         Inserted(q, b, k, l, r), NEW m \in 1..Len(r)
  PROVE  InsertElem(q, b, k, l, r, m)
<1> SUFFICES \/ m <= k /\ r[m] = q[m]
             \/ m = k + 1 /\ r[m] = b
             \/ m > k + 1 /\ m - (k + 1) + l \in (l + 1)..Len(q) /\ r[m] = q[m - (k + 1) + l]
  BY Zenon DEF InsertElem
<1>1. PICK n \in Nat : n = Len(q)
  OBVIOUS
<1>2. Len(r) = k + 1 + (n - l)
  BY <1>1 DEF Inserted
<1>3. CASE m <= k
  BY <1>3 DEF Inserted
<1>4. CASE m = k + 1
  BY <1>4 DEF Inserted
<1>5. CASE m > k + 1
  <2>1. PICK j \in 1..(n - l) : j = m - (k + 1)
    BY <1>1, <1>2, <1>5
  <2>2. r[k + 1 + j] = q[l + j]
    BY <1>1, <2>1 DEF Inserted
  <2>3. k + 1 + j = m /\ l + j = m - (k + 1) + l /\ l + j \in (l + 1)..n
    BY <1>1, <1>2, <1>5, <2>1
  <2> QED
    BY <1>1, <1>5, <2>2, <2>3
<1> QED
  BY <1>1, <1>2, <1>3, <1>4, <1>5

LEMMA InsertStag ==
  ASSUME NEW q \in Seq(Chunk), Staggered(q), NEW b \in Chunk, b.seq < NxtOf(b),
         NEW k \in 0..Len(q), NEW l \in k..Len(q), NEW r, Inserted(q, b, k, l, r),
         k > 0 => q[k].seq < b.seq /\ NxtOf(q[k]) < NxtOf(b),
         l < Len(q) => b.seq < q[l + 1].seq /\ NxtOf(b) < NxtOf(q[l + 1])
  PROVE  Staggered(r)
<1>1. PICK n \in Nat : n = Len(q)
  OBVIOUS
<1>2. PICK N \in Nat : N = Len(r)
  BY DEF Inserted
<1>3. N = k + 1 + (n - l)
  BY <1>1, <1>2 DEF Inserted
<1>4. \A j \in 1..n : q[j].seq \in Int /\ NxtOf(q[j]) \in Int
  BY <1>1, ChunkIs
<1>5. /\ \A i \in 1..n : q[i].seq < NxtOf(q[i])
      /\ \A i, j \in 1..n : i < j => q[i].seq < q[j].seq /\ NxtOf(q[i]) < NxtOf(q[j])
  BY <1>1 DEF Staggered
<1>6. PICK bs \in Int : bs = b.seq
  BY DEF Chunk
<1>7. PICK bn \in Int : bn = NxtOf(b)
  BY DEF Chunk, NxtOf
<1>8. \A j \in 1..k : q[j].seq < bs /\ NxtOf(q[j]) < bn
  <2> SUFFICES ASSUME NEW j \in 1..k PROVE q[j].seq < bs /\ NxtOf(q[j]) < bn
    OBVIOUS
  <2>1. k \in 1..n /\ j \in 1..n /\ q[k].seq < bs /\ NxtOf(q[k]) < bn
    BY <1>1, <1>6, <1>7
  <2>2. j = k \/ j < k
    OBVIOUS
  <2> QED
    BY <1>4, <1>5, <2>1, <2>2
<1>9. \A j \in (l + 1)..n : bs < q[j].seq /\ bn < NxtOf(q[j])
  <2> SUFFICES ASSUME NEW j \in (l + 1)..n PROVE bs < q[j].seq /\ bn < NxtOf(q[j])
    OBVIOUS
  <2>1. PICK m \in 1..n : m = l + 1
    BY <1>1
  <2>2. j \in 1..n /\ bs < q[m].seq /\ bn < NxtOf(q[m])
    BY <1>1, <1>6, <1>7, <2>1
  <2>3. j = m \/ m < j
    BY <2>1
  <2> QED
    BY <1>4, <1>5, <2>2, <2>3, SMTT(20)
<1>10. \A m \in 1..N : \/ m <= k /\ r[m] = q[m]
                       \/ m = k + 1 /\ r[m] = b
                       \/ m > k + 1 /\ m - (k + 1) + l \in (l + 1)..n /\ r[m] = q[m - (k + 1) + l]
  <2> SUFFICES ASSUME NEW m \in 1..N
               PROVE  \/ m <= k /\ r[m] = q[m]
                      \/ m = k + 1 /\ r[m] = b
                      \/ m > k + 1 /\ m - (k + 1) + l \in (l + 1)..n /\ r[m] = q[m - (k + 1) + l]
    BY Zenon
  <2>1. m \in 1..Len(r)
    BY <1>2
  <2>2. \/ m <= k /\ r[m] = q[m]
        \/ m = k + 1 /\ r[m] = b
        \/ m > k + 1 /\ m - (k + 1) + l \in (l + 1)..Len(q) /\ r[m] = q[m - (k + 1) + l]
    <3>1. InsertElem(q, b, k, l, r, m)
      BY <2>1, InsertElems
    <3> QED
      BY <3>1, Zenon DEF InsertElem
  <2> QED
    BY <1>1, <2>2, Zenon
<1>11. ASSUME NEW m \in 1..N PROVE r[m].seq < NxtOf(r[m])
  BY <1>1, <1>5, <1>10, SMTT(20)
<1>12. ASSUME NEW i \in 1..N, NEW j \in 1..N, i < j
       PROVE  r[i].seq < r[j].seq /\ NxtOf(r[i]) < NxtOf(r[j])
  <2>1. CASE j <= k
    BY <1>1, <1>10, <1>12, <2>1, <1>5
  <2>2. CASE j = k + 1
    BY <1>10, <1>12, <2>2, <1>6, <1>7, <1>8
  <2>3. CASE j > k + 1
    <3>1. PICK y \in (l + 1)..n : y = j - (k + 1) + l /\ r[j] = q[y]
      BY <1>10, <2>3
    <3>2. CASE i <= k
      <4>1. r[i] = q[i] /\ i \in 1..n /\ y \in 1..n /\ i < y
        BY <1>1, <1>10, <3>2
      <4> QED
        BY <1>5, <3>1, <4>1
    <3>3. CASE i = k + 1
      <4>1. r[i] = b
        BY <1>10, <3>3
      <4> QED
        BY <1>6, <1>7, <1>9, <3>1, <4>1
    <3>4. CASE i > k + 1
      <4>1. PICK x \in (l + 1)..n : x = i - (k + 1) + l /\ r[i] = q[x]
        BY <1>10, <3>4, SMTT(20)
      <4>2. x < y /\ x \in 1..n /\ y \in 1..n
        BY <1>1, <1>12, <3>1, <4>1, SMTT(20)
      <4> QED
        BY <1>5, <3>1, <4>1, <4>2
    <3> QED
      BY <3>2, <3>3, <3>4
  <2> QED
    BY <2>1, <2>2, <2>3
<1> QED
  BY <1>2, <1>11, <1>12 DEF Staggered

\* Nothing is lost.
LEMMA InsertHolds ==
  ASSUME NEW q \in Seq(Chunk), NEW b \in Chunk, NEW k \in 0..Len(q), NEW l \in k..Len(q),
         NEW r, Inserted(q, b, k, l, r),
         \A j \in (k + 1)..l : b.seq <= q[j].seq /\ NxtOf(q[j]) <= NxtOf(b),
         NEW x \in Int, Holds(q, x)
  PROVE  Holds(r, x)
<1>1. PICK n \in Nat : n = Len(q)
  OBVIOUS
<1>2. PICK j \in 1..n : q[j].seq <= x /\ x < NxtOf(q[j])
  BY <1>1 DEF Holds
<1>3. Len(r) = k + 1 + (n - l)
  BY <1>1 DEF Inserted
<1>4. CASE j <= k
  BY <1>1, <1>3, <1>4, <1>2 DEF Inserted, Holds
<1>5. CASE j \in (k + 1)..l
  <2>1. PICK m \in 1..Len(r) : m = k + 1
    BY <1>1, <1>3
  <2>2. r[m] = b
    BY <2>1 DEF Inserted
  <2>3. PICK bs \in Int : bs = b.seq
    BY DEF Chunk
  <2>4. PICK bn \in Int : bn = NxtOf(b)
    BY DEF Chunk, NxtOf
  <2>5. bs <= q[j].seq /\ NxtOf(q[j]) <= bn
    BY <1>5, <2>3, <2>4
  <2>6. q[j].seq \in Int /\ NxtOf(q[j]) \in Int
    BY <1>1, ChunkIs
  <2>7. bs <= x /\ x < bn
    BY <1>2, <2>5, <2>6
  <2> QED
    BY <2>2, <2>3, <2>4, <2>7 DEF Holds
<1>6. CASE l < j
  <2>1. PICK y \in 1..(n - l) : y = j - l
    BY <1>6
  <2>2. r[k + 1 + y] = q[l + y]
    BY <1>1 DEF Inserted
  <2>2a. l + y = j
    BY <2>1
  <2>3. PICK m \in 1..Len(r) : m = k + 1 + y
    BY <1>3, <2>1
  <2>4. r[m] = q[j]
    BY <2>2, <2>2a, <2>3
  <2> QED
    BY <1>2, <2>4 DEF Holds
<1> QED
  BY <1>4, <1>5, <1>6

\* What the queue holds, the tail from b on holds, or what is before it.
LEMMA InsertTail ==
  ASSUME NEW q \in Seq(Chunk), NEW b \in Chunk, NEW k \in 0..Len(q), NEW l \in k..Len(q),
         NEW r, Inserted(q, b, k, l, r), NEW s, Inserted(q, b, 0, l, s), NEW x \in Int
  PROVE  /\ Holds(r, x) => Holds(s, x) \/ \E j \in 1..k : q[j].seq <= x /\ x < NxtOf(q[j])
         /\ Holds(s, x) => Holds(r, x)
<1>1. PICK n \in Nat : n = Len(q)
  OBVIOUS
<1>2. Len(r) = k + 1 + (n - l) /\ Len(s) = 1 + (n - l)
  BY <1>1 DEF Inserted
<1>3. ASSUME NEW m \in 1..Len(r), r[m].seq <= x, x < NxtOf(r[m])
      PROVE  Holds(s, x) \/ \E j \in 1..k : q[j].seq <= x /\ x < NxtOf(q[j])
  <2>1. CASE m <= k /\ r[m] = q[m]
    BY <1>1, <1>2, <2>1, <1>3
  <2>2. CASE r[m] = b
    <3>1. s[1] = b /\ 1 \in 1..Len(s)
      BY <1>1, <1>2 DEF Inserted
    <3> QED
      BY <1>3, <2>2, <3>1 DEF Holds
  <2>3. CASE m > k + 1 /\ m - (k + 1) + l \in (l + 1)..n /\ r[m] = q[m - (k + 1) + l]
    <3>1. PICK j \in 1..(n - l) : j = m - (k + 1)
      BY <1>1, <1>2, <2>3
    <3>2. PICK y \in 1..Len(s) : y = 0 + 1 + j
      BY <1>1, <1>2, <3>1
    <3>3. s[0 + 1 + j] = q[l + j]
      BY <1>1 DEF Inserted
    <3>3a. l + j = m - (k + 1) + l
      BY <1>1, <1>2, <3>1
    <3>4. s[y] = r[m]
      BY <2>3, <3>2, <3>3, <3>3a
    <3> QED
      BY <1>3, <3>4 DEF Holds
  <2>4. \/ m <= k /\ r[m] = q[m]
        \/ m = k + 1 /\ r[m] = b
        \/ m > k + 1 /\ m - (k + 1) + l \in (l + 1)..Len(q) /\ r[m] = q[m - (k + 1) + l]
    <3>1. InsertElem(q, b, k, l, r, m)
      BY <1>3, InsertElems
    <3> QED
      BY <3>1, Zenon DEF InsertElem
  <2> QED
    BY <1>1, <2>1, <2>2, <2>3, <2>4, Zenon
<1>4. ASSUME NEW m \in 1..Len(s), s[m].seq <= x, x < NxtOf(s[m]) PROVE Holds(r, x)
  <2>1. CASE s[m] = b
    <3>1. PICK y \in 1..Len(r) : y = k + 1
      BY <1>1, <1>2
    <3>2. r[y] = b
      BY <3>1 DEF Inserted
    <3> QED
      BY <1>4, <2>1, <3>2 DEF Holds
  <2>2. CASE m > 1 /\ m - 1 + l \in (l + 1)..n /\ s[m] = q[m - 1 + l]
    <3>1. PICK j \in 1..(n - l) : j = m - 1
      BY <1>1, <1>2, <2>2
    <3>2. PICK y \in 1..Len(r) : y = k + 1 + j
      BY <1>1, <1>2, <3>1
    <3>3. r[k + 1 + j] = q[l + j]
      BY <1>1 DEF Inserted
    <3>3a. l + j = m - 1 + l
      BY <1>1, <1>2, <3>1
    <3>4. s[m] = r[y]
      BY <2>2, <3>2, <3>3, <3>3a
    <3> QED
      BY <1>4, <3>4 DEF Holds
  <2>3. \/ m <= 0 /\ s[m] = q[m]
        \/ m = 0 + 1 /\ s[m] = b
        \/ m > 0 + 1 /\ m - (0 + 1) + l \in (l + 1)..Len(q) /\ s[m] = q[m - (0 + 1) + l]
    <3>1. 0 \in 0..Len(q) /\ l \in 0..Len(q)
      BY <1>1
    <3>2. PICK z \in 0..Len(q) : z = 0
      BY <3>1
    <3>3. InsertElem(q, b, z, l, s, m)
      BY <1>4, <3>1, <3>2, InsertElems
    <3> QED
      BY <3>2, <3>3, Zenon DEF InsertElem
  <2>4. m \in Int /\ m >= 1 /\ m - (0 + 1) + l = m - 1 + l
    BY <1>2
  <2> QED
    BY <1>1, <2>1, <2>2, <2>3, <2>4
<1> QED
  BY <1>3, <1>4 DEF Holds

\* The bytes that are kept
LEMMA KeptIs ==
  ASSUME NEW t, t.rcvq \in Seq(Chunk), NEW x
  PROVE  Kept(t, x) <=> Holds(t.rcvq, x)
  BY DEF Kept, Holds

LEMMA PartIs ==
  ASSUME NEW q \in Seq(Chunk), NEW k \in 0..Len(q), NEW r, Part(q, k, r)
  PROVE  /\ Staggered(q) => Staggered(r)
         /\ Placed(q) => Placed(r)
         /\ \A x : Holds(r, x) => Holds(q, x)
         /\ \A i \in 1..Len(r) : \E j \in 1..Len(q) : r[i] = q[j]
         /\ \A j \in 1..Len(q) : j > k => \E i \in 1..Len(r) : r[i] = q[j]
<1>1. PICK n \in Nat : n = Len(q)
  OBVIOUS
<1>2. PICK N \in Nat : N = Len(r)
  BY DEF Part
<1>3. N = n - k /\ \A j \in 1..(n - k) : r[j] = q[k + j]
  BY <1>1, <1>2 DEF Part
<1>4. ASSUME NEW i \in 1..N PROVE \E j \in 1..n : j > k /\ j = k + i /\ r[i] = q[j]
  BY <1>1, <1>3
<1>5. ASSUME NEW j \in 1..n, j > k PROVE \E i \in 1..N : r[i] = q[j]
  <2>1. PICK i \in 1..N : j = k + i
    <3>1. j - k \in 1..N /\ j = k + (j - k)
      BY <1>1, <1>3, <1>5
    <3> QED
      BY <3>1
  <2> QED
    BY <1>3, <2>1
<1>6. Staggered(q) => Staggered(r)
  <2> SUFFICES ASSUME Staggered(q) PROVE Staggered(r)
    OBVIOUS
  <2>1. /\ \A i \in 1..n : q[i].seq < NxtOf(q[i])
        /\ \A i, j \in 1..n : i < j => q[i].seq < q[j].seq /\ NxtOf(q[i]) < NxtOf(q[j])
    BY <1>1 DEF Staggered
  <2>2. \A i \in 1..N : r[i].seq < NxtOf(r[i])
    BY <1>4, <2>1
  <2>3. ASSUME NEW i \in 1..N, NEW j \in 1..N, i < j
        PROVE  r[i].seq < r[j].seq /\ NxtOf(r[i]) < NxtOf(r[j])
    <3>1. PICK x \in 1..n : x = k + i /\ r[i] = q[x]
      BY <1>4
    <3>2. PICK y \in 1..n : y = k + j /\ r[j] = q[y]
      BY <1>4
    <3>3. x < y
      BY <2>3, <3>1, <3>2
    <3> QED
      BY <2>1, <3>1, <3>2, <3>3
  <2> QED
    BY <1>2, <2>2, <2>3 DEF Staggered
<1>7. Placed(q) => Placed(r)
  BY <1>1, <1>2, <1>4 DEF Placed
<1>8. \A x : Holds(r, x) => Holds(q, x)
  BY <1>1, <1>2, <1>4 DEF Holds
<1> QED
  BY <1>1, <1>2, <1>4, <1>5, <1>6, <1>7, <1>8

\* What tcp_recv() sees of the queue from read on
LEMMA NotReadIs ==
  ASSUME NEW t, t.rcvq \in Seq(Chunk), NEW x \in Int
  PROVE  \E k \in 0..Len(t.rcvq) :
           /\ Part(t.rcvq, k, NotRead(t, x))
           /\ \A j \in 1..k : NxtOf(t.rcvq[j]) <= x
           /\ k < Len(t.rcvq) => x < NxtOf(t.rcvq[k + 1])
<1>1. PICK q \in Seq(Chunk) : q = t.rcvq
  OBVIOUS
<1>2. PICK s \in Seq(Int) : s = Nxts(q)
  BY NxtsAre
<1>3. Len(s) = Len(q) /\ \A i \in 1..Len(q) : s[i] = NxtOf(q[i])
  BY <1>2, NxtsAre
<1>4. PICK n \in Nat : n = Len(q)
  OBVIOUS
<1>5. PICK k \in 0..n : k = Passed(s, x)
  BY <1>3, <1>4, PassedIs
<1>6. (\A j \in 1..k : s[j] <= x) /\ (k < n => x < s[k + 1])
  BY <1>3, <1>4, <1>5, PassedIs
<1>7. NotRead(t, x) = Rest(q, k)
  BY <1>1, <1>2, <1>5, Zenon DEF NotRead
<1>8. Part(q, k, Rest(q, k))
  BY <1>4, RestIs DEF Part
<1>9. \A j \in 1..k : NxtOf(q[j]) <= x
  BY <1>3, <1>4, <1>6
<1>10. k < n => x < NxtOf(q[k + 1])
  BY <1>3, <1>4, <1>6
<1> QED
  BY <1>1, <1>4, <1>7, <1>8, <1>9, <1>10, Zenon

LEMMA NotReadHolds ==
  ASSUME NEW t, t.rcvq \in Seq(Chunk), NEW x \in Int, NEW r, r = NotRead(t, x)
  PROVE  /\ r \in Seq(Chunk)
         /\ Staggered(t.rcvq) => Staggered(r)
         /\ Placed(t.rcvq) => Placed(r)
         /\ \A y : Holds(r, y) => Holds(t.rcvq, y)
         /\ \A y \in Int : x <= y /\ Holds(t.rcvq, y) => Holds(r, y)
         /\ \A i \in 1..Len(r) : \E j \in 1..Len(t.rcvq) : r[i] = t.rcvq[j]
         /\ Len(r) > 0 => x < NxtOf(r[1])
<1>1. PICK q \in Seq(Chunk) : q = t.rcvq
  OBVIOUS
<1>2. PICK k \in 0..Len(q) : /\ Part(q, k, r)
                             /\ \A j \in 1..k : NxtOf(q[j]) <= x
                             /\ k < Len(q) => x < NxtOf(q[k + 1])
  BY <1>1, NotReadIs, Zenon
<1>3. /\ Staggered(q) => Staggered(r)
      /\ Placed(q) => Placed(r)
      /\ \A y : Holds(r, y) => Holds(q, y)
      /\ \A i \in 1..Len(r) : \E j \in 1..Len(q) : r[i] = q[j]
      /\ \A j \in 1..Len(q) : j > k => \E i \in 1..Len(r) : r[i] = q[j]
  <2>1. Part(q, k, r)
    BY <1>2
  <2> QED
    <3>1. Staggered(q) => Staggered(r)
      BY <2>1, PartIs
    <3>2. Placed(q) => Placed(r)
      BY <2>1, PartIs
    <3>3. \A y : Holds(r, y) => Holds(q, y)
      BY <2>1, PartIs
    <3>4. \A i \in 1..Len(r) : \E j \in 1..Len(q) : r[i] = q[j]
      BY <2>1, PartIs
    <3>5. \A j \in 1..Len(q) : j > k => \E i \in 1..Len(r) : r[i] = q[j]
      BY <2>1, PartIs
    <3> QED
      BY <3>1, <3>2, <3>3, <3>4, <3>5, Zenon
<1>4. ASSUME NEW y \in Int, x <= y, Holds(q, y) PROVE Holds(r, y)
  <2>1. PICK j \in 1..Len(q) : q[j].seq <= y /\ y < NxtOf(q[j])
    BY <1>4 DEF Holds
  <2>2. j > k
    BY ChunkIs, <1>2, <1>4, <2>1
  <2> QED
    BY <1>3, <2>1, <2>2 DEF Holds
<1>5. Len(r) > 0 => x < NxtOf(r[1])
  BY <1>2 DEF Part
<1> QED
  BY <1>1, <1>2, <1>3, <1>4, <1>5 DEF Part

\* There is something to read exactly when the next byte is there.
LEMMA ReadableIs ==
  ASSUME NEW t, IsBlock(t), Staggered(t.rcvq)
  PROVE  /\ Readable(t) \in Nat
         /\ Readable(t) = 0 <=> ~Kept(t, t.read)
         /\ \A x \in Int : t.read <= x /\ x < t.read + Readable(t) => Kept(t, x)
<1>0. t.rcvq \in Seq(Chunk) /\ t.read \in Int
  BY DEF IsBlock
<1>1. PICK x \in Int : x = t.read
  BY <1>0
<1>2. PICK r \in Seq(Chunk) : r = NotRead(t, x)
  BY <1>0, NotReadHolds
<1>3. /\ Staggered(r)
      /\ \A y : Holds(r, y) => Holds(t.rcvq, y)
      /\ \A y \in Int : x <= y /\ Holds(t.rcvq, y) => Holds(r, y)
      /\ Len(r) > 0 => x < NxtOf(r[1])
  BY <1>0, <1>2, NotReadHolds
<1>4. PICK c \in Int : c = Contiguous(r, x)
  BY <1>3, ContigIs
<1>5. /\ ~Holds(r, c)
      /\ \A y \in Int : x <= y /\ y < c => Holds(r, y)
      /\ \/ c = x /\ \A j \in 1..Len(r) : x < r[j].seq
         \/ Len(r) > 0 /\ NxtOf(r[1]) <= c /\ r[1].seq <= x
  BY <1>3, <1>4, ContigIs
<1>6. Readable(t) = c - x
  BY <1>1, <1>2, <1>4 DEF Readable
<1>7. CASE c = x
  BY <1>5, <1>7, <1>0, <1>3, KeptIs, <1>6, <1>1
<1>8. CASE Len(r) > 0 /\ NxtOf(r[1]) <= c /\ r[1].seq <= x
  <2>1. 1 \in 1..Len(r) /\ NxtOf(r[1]) \in Int /\ r[1].seq \in Int
    BY <1>8, ChunkIs
  <2>2. x < NxtOf(r[1]) /\ x < c
    BY <1>3, <1>8, <2>1
  <2>3. Holds(r, x)
    BY <1>8, <2>1, <2>2 DEF Holds
  <2>4. Kept(t, x)
    BY <1>0, <1>3, <2>3, KeptIs
  <2>5. PICK n \in Nat : n = c - x
    BY <2>2
  <2>6. n # 0 /\ Readable(t) = n
    BY <1>6, <2>2, <2>5
  <2>7. ASSUME NEW y \in Int, x <= y, y < x + n PROVE Kept(t, y)
    BY <2>5, <2>7, <1>3, <1>5, <1>0, KeptIs
  <2> QED
    BY <1>1, <2>4, <2>6, <2>7
<1> QED
  BY <1>5, <1>7, <1>8

LEMMA AfterSome ==
  ASSUME NEW q \in Seq(Chunk), NEW b \in Chunk, NEW i \in 1..(Len(q) + 1)
  PROVE  \E l, a : a = After(q, b, i) /\ AfterAt(q, b, i, l, a)
  BY AfterIs DEF AfterAt

LEMMA FitsIs ==
  ASSUME NEW q \in Seq(Chunk), Staggered(q), NEW b \in Chunk, NEW i \in 1..(Len(q) + 1),
         i = Place(q, b)
  PROVE  \E k, l : /\ Fits(q, b, k, l)
                   /\ Before(q, b, i) = SubSeq(q, 1, k)
                   /\ Part(q, l, After(q, b, i))
<1>1. PICK n \in Nat : n = Len(q)
  OBVIOUS
<1>2. PICK bs \in Int : bs = b.seq
  BY DEF Chunk
<1>3. PICK bn \in Int : bn = NxtOf(b)
  BY DEF Chunk, NxtOf
<1>4. \A j \in 1..n : q[j].seq \in Int /\ NxtOf(q[j]) \in Int
  BY <1>1, ChunkIs
<1>5. \A x, y \in 1..n : x < y => q[x].seq < q[y].seq /\ NxtOf(q[x]) < NxtOf(q[y])
  BY <1>1 DEF Staggered
<1>6. (i > 1 => NxtOf(q[i - 1]) < bn) /\ (i <= n => bs < q[i].seq)
  BY <1>1, <1>2, <1>3, PlaceIs
<1>7. PICK k \in 0..(i - 1) : /\ Before(q, b, i) = SubSeq(q, 1, k)
                              /\ \A j \in (k + 1)..(i - 1) : b.seq <= q[j].seq
                              /\ k > 0 => q[k].seq < b.seq
  BY BeforeIs
<1>8a. PICK l, a : a = After(q, b, i) /\ AfterAt(q, b, i, l, a)
  BY AfterSome, Zenon
<1>8. /\ l \in (i - 1)..Len(q)
      /\ a \in Seq(Chunk) /\ Len(a) = Len(q) - l
      /\ \A j \in 1..(Len(q) - l) : a[j] = q[l + j]
      /\ \A j \in i..l : NxtOf(q[j]) <= NxtOf(b)
      /\ l < Len(q) => NxtOf(b) < NxtOf(q[l + 1])
  BY <1>8a, Zenon DEF AfterAt
<1>9. Part(q, l, After(q, b, i))
  BY <1>8, <1>8a, Zenon DEF Part
<1>10. k \in 0..n /\ l \in k..n /\ k <= i - 1 /\ i - 1 <= l /\ i \in 1..(n + 1)
  BY <1>1, <1>8
<1>11. i > 1 => \A j \in 1..(i - 1) : NxtOf(q[j]) < bn
  <2> SUFFICES ASSUME i > 1, NEW j \in 1..(i - 1) PROVE NxtOf(q[j]) < bn
    OBVIOUS
  <2>1. PICK p \in 1..n : p = i - 1
    BY <1>10
  <2>2. NxtOf(q[p]) < bn /\ j \in 1..n
    BY <1>6, <1>10, <2>1
  <2>3. j = p \/ j < p
    BY <2>1
  <2> QED
    BY <1>4, <1>5, <2>2, <2>3
<1>12. \A j \in i..n : bs < q[j].seq
  <2> SUFFICES ASSUME NEW j \in i..n PROVE bs < q[j].seq
    OBVIOUS
  <2>1. j = i \/ i < j
    BY <1>10
  <2>2. i \in 1..n /\ j \in 1..n /\ bs < q[i].seq
    BY <1>6, <1>10
  <2>3. i < j => q[i].seq < q[j].seq
    BY <1>5, <2>2
  <2>4. q[i].seq \in Int /\ q[j].seq \in Int
    BY <1>4, <2>2
  <2>5. CASE j = i
    BY <2>2, <2>5
  <2>6. CASE i < j
    BY <2>2, <2>3, <2>4, <2>6
  <2> QED
    BY <2>1, <2>5, <2>6
<1>13. k > 0 => q[k].seq < bs /\ NxtOf(q[k]) < bn
  BY <1>10, <1>2, <1>7, <1>11
<1>14. l < n => bs < q[l + 1].seq /\ bn < NxtOf(q[l + 1])
  <2> SUFFICES ASSUME l < n PROVE bs < q[l + 1].seq /\ bn < NxtOf(q[l + 1])
    OBVIOUS
  <2>1. l + 1 \in i..n
    BY <1>10
  <2> QED
    BY <1>1, <1>3, <1>8, <1>12, <2>1
<1>15. \A j \in (k + 1)..l : bs <= q[j].seq /\ NxtOf(q[j]) <= bn
  <2> SUFFICES ASSUME NEW j \in (k + 1)..l PROVE bs <= q[j].seq /\ NxtOf(q[j]) <= bn
    OBVIOUS
  <2>0. j \in 1..n /\ q[j].seq \in Int /\ NxtOf(q[j]) \in Int
    BY <1>4, <1>10, SMTT(20)
  <2>1. CASE j <= i - 1
    BY <1>10, <2>1, <1>2, <1>7, <1>11, <2>0
  <2>2. CASE j >= i
    <3>1. j \in i..l /\ j \in i..n
      BY <1>10, <2>2
    <3>2. NxtOf(q[j]) <= bn
      BY <1>3, <1>8, <3>1
    <3>3. bs < q[j].seq
      BY <1>12, <3>1
    <3> QED
      BY <2>0, <3>2, <3>3
  <2> QED
    BY <1>10, <2>0, <2>1, <2>2
<1>16. Fits(q, b, k, l)
  BY <1>1, <1>10, <1>2, <1>3, <1>14, <1>13, <1>15 DEF Fits
<1> QED
  BY <1>7, <1>9, <1>16, Zenon

\* The queue with the segment in it
LEMMA JoinedIs ==
  ASSUME NEW q \in Seq(Chunk), NEW b \in Chunk, NEW k \in 0..Len(q), NEW l \in k..Len(q),
         NEW a, Part(q, l, a), NEW s, s = <<b>> \o a, NEW r, r = SubSeq(q, 1, k) \o s
  PROVE  Inserted(q, b, 0, l, s) /\ Inserted(q, b, k, l, r)
<1>1. PICK n \in Nat : n = Len(q)
  OBVIOUS
<1>2. a \in Seq(Chunk) /\ Len(a) = n - l /\ \A j \in 1..(n - l) : a[j] = q[l + j]
  BY <1>1 DEF Part
<1>3. PICK o \in Seq(Chunk) : o = <<b>>
  <2>1. <<b>> \in Seq(Chunk)
    OBVIOUS
  <2> QED
    BY <2>1, Zenon
<1>3a. Len(o) = 1 /\ o[1] = b
  BY <1>3
<1>4. /\ s \in Seq(Chunk) /\ Len(s) = Len(o) + Len(a)
      /\ \A j \in 1..Len(o) : s[j] = o[j]
      /\ \A j \in 1..Len(a) : s[Len(o) + j] = a[j]
  <2>1. o \o a \in Seq(Chunk) /\ Len(o \o a) = Len(o) + Len(a)
    BY <1>2, Cat
  <2>2. \A j \in 1..Len(o) : (o \o a)[j] = o[j]
    BY <1>2, Cat
  <2>3. \A j \in 1..Len(a) : (o \o a)[Len(o) + j] = a[j]
    BY <1>2, Cat
  <2>4. s = o \o a
    BY <1>3
  <2> QED
    BY <2>1, <2>2, <2>3, <2>4, Zenon
<1>4a. Len(s) = 1 + (n - l)
  BY <1>2, <1>3a, <1>4
<1>5. s[1] = b
  BY <1>3a, <1>4
<1>6. ASSUME NEW j \in 1..(n - l) PROVE s[1 + j] = q[l + j]
  BY <1>2, <1>4, <1>3a
<1>7. PICK p \in Seq(Chunk) : p = SubSeq(q, 1, k)
  <2>1. SubSeq(q, 1, k) \in Seq(Chunk)
    BY <1>1
  <2> QED
    BY <2>1, Zenon
<1>8. Len(p) = k /\ \A j \in 1..k : p[j] = q[j]
  BY <1>1, <1>7
<1>9. /\ r \in Seq(Chunk) /\ Len(r) = Len(p) + Len(s)
      /\ \A j \in 1..Len(p) : r[j] = p[j]
      /\ \A j \in 1..Len(s) : r[Len(p) + j] = s[j]
  BY <1>4, Cat, <1>7
<1>10. Len(r) = k + 1 + (n - l) /\ \A j \in 1..k : r[j] = q[j]
  <2>0. Len(r) = k + Len(s)
    BY <1>8, <1>9, Zenon
  <2>1. Len(r) = k + 1 + (n - l)
    <3>0. k \in Int /\ l \in Int /\ 1 + (n - l) \in Int
      BY <1>1
    <3>1. PICK m \in Int : m = 1 + (n - l)
      BY <3>0, Zenon
    <3>2. k + m = k + 1 + (n - l)
      BY <1>1, <3>1
    <3> QED
      BY <1>4a, <2>0, <3>1, <3>2, Zenon
  <2>2. \A j \in 1..k : r[j] = q[j]
    BY <1>8, <1>9
  <2> QED
    BY <2>1, <2>2
<1>11. r[k + 1] = b
  BY <1>1, <1>4a, <1>5, <1>8, <1>9
<1>12. \A j \in 1..(n - l) : r[k + 1 + j] = q[l + j]
  <2> SUFFICES ASSUME NEW j \in 1..(n - l) PROVE r[k + 1 + j] = q[l + j]
    OBVIOUS
  <2>1. PICK y \in 1..Len(s) : y = 1 + j
    BY <1>1, <1>4a
  <2>2. r[k + y] = s[y]
    BY <1>8, <1>9
  <2>3. k + y = k + 1 + j
    BY <2>1
  <2>4. s[y] = q[l + j]
    BY <1>6, <2>1
  <2> QED
    BY <2>2, <2>3, <2>4
<1>13. Inserted(q, b, k, l, r)
  BY <1>1, <1>9, <1>10, <1>11, <1>12 DEF Inserted
<1>14. Inserted(q, b, 0, l, s)
  <2>1. Len(s) = 0 + 1 + (Len(q) - l)
    BY <1>1, <1>4a
  <2>2. s[0 + 1] = b /\ \A j \in 1..0 : s[j] = q[j]
    BY <1>5
  <2>3. ASSUME NEW j \in 1..(Len(q) - l) PROVE s[0 + 1 + j] = q[l + j]
    <3>1. s[1 + j] = q[l + j]
      BY <1>1, <1>6
    <3>2. 0 + 1 + j = 1 + j
      OBVIOUS
    <3> QED
      BY <3>1, <3>2, Zenon
  <2> QED
    BY <1>4, <2>1, <2>2, <2>3 DEF Inserted
<1> QED
  BY <1>13, <1>14

LEMMA InsertAdded ==
  ASSUME NEW q \in Seq(Chunk), Staggered(q), Placed(q), NEW b \in Chunk, b.seq < NxtOf(b),
         \A j \in 1..Len(b.data) : b.data[j] = b.seq + j - 1,
         NEW k, NEW l, Fits(q, b, k, l), NEW s, NEW r,
         Inserted(q, b, 0, l, s), Inserted(q, b, k, l, r)
  PROVE  Added(q, b, s, r)
<1>1. k \in 0..Len(q) /\ l \in k..Len(q)
  BY DEF Fits
<1>2. PICK n \in Nat : n = Len(q)
  OBVIOUS
<1>3. k \in Int /\ l \in Int /\ k <= l /\ l <= n /\ 0 <= k
  BY <1>1, <1>2
<1>4. l \in 0..Len(q) /\ 0 \in 0..Len(q)
  BY <1>2, <1>3
<1>5. PICK z \in 0..Len(q) : z = 0
  BY <1>4
<1>6. Inserted(q, b, z, l, s) /\ l \in z..Len(q)
  BY <1>4, <1>5
<1>7. Staggered(s)
  BY <1>5, <1>6, InsertStag DEF Fits
<1>8. Staggered(r)
  BY <1>1, InsertStag DEF Fits
<1>9. s \in Seq(Chunk) /\ r \in Seq(Chunk)
  BY DEF Inserted
<1>10. Len(s) > 0 /\ s[1] = b
  BY <1>2, <1>3 DEF Inserted
<1>11. ASSUME NEW m \in 1..Len(r) PROVE r[m] = b \/ \E j \in 1..Len(q) : r[m] = q[j]
  <2>1. InsertElem(q, b, k, l, r, m)
    BY <1>1, InsertElems
  <2>2. PICK y : y = m - (k + 1) + l
    OBVIOUS
  <2>3. \/ m <= k /\ r[m] = q[m]
        \/ m = k + 1 /\ r[m] = b
        \/ m > k + 1 /\ y \in (l + 1)..Len(q) /\ r[m] = q[y]
    BY <2>1, <2>2, Zenon DEF InsertElem
  <2>4. CASE m <= k /\ r[m] = q[m]
    BY <1>2, <1>3, <1>9, <2>4
  <2>5. CASE y \in (l + 1)..Len(q) /\ r[m] = q[y]
    BY <1>2, <1>3, <2>5
  <2> QED
    BY <2>3, <2>4, <2>5, Zenon
<1>12. Placed(r)
  BY <1>11 DEF Placed
<1>13. \A j \in (k + 1)..l : b.seq <= q[j].seq /\ NxtOf(q[j]) <= NxtOf(b)
  BY DEF Fits
<1>14. ASSUME NEW x \in Int PROVE Holds(q, x) => Holds(r, x)
  BY <1>1, <1>13, InsertHolds
<1>15. ASSUME NEW x \in Int
       PROVE  /\ Holds(s, x) => Holds(r, x)
              /\ Holds(r, x) => Holds(s, x) \/ \E j \in 1..k : q[j].seq <= x /\ x < NxtOf(q[j])
  BY <1>1, InsertTail
<1>16. ASSUME NEW x \in Int, NEW j \in 1..k, q[j].seq <= x, x < NxtOf(q[j])
       PROVE  Holds(q, x) /\ x < NxtOf(b)
  <2>1. j \in 1..n /\ k \in 1..n /\ k > 0
    BY <1>3
  <2>2. Holds(q, x)
    BY <1>2, <1>16, <2>1 DEF Holds
  <2>3. PICK bn \in Int : bn = NxtOf(b)
    BY DEF Chunk, NxtOf
  <2>4. NxtOf(q[k]) < bn
    BY <2>1, <2>3 DEF Fits
  <2>5. NxtOf(q[j]) \in Int /\ NxtOf(q[k]) \in Int
    BY <1>2, <2>1, ChunkIs
  <2>6. j < k => NxtOf(q[j]) < NxtOf(q[k])
    BY <1>2, <2>1 DEF Staggered
  <2>7. CASE j = k
    BY <1>16, <2>2, <2>3, <2>4, <2>5, <2>7
  <2>8. CASE j < k
    BY <1>16, <2>2, <2>3, <2>4, <2>5, <2>6, <2>8
  <2> QED
    BY <1>3, <2>7, <2>8
<1>17. ASSUME NEW x \in Int, Holds(r, x) PROVE Holds(s, x) \/ (Holds(q, x) /\ x < NxtOf(b))
  BY <1>15, <1>17, <1>16
<1> QED
  BY <1>7, <1>8, <1>9, <1>10, <1>11, <1>12, <1>14, <1>15, <1>17, Zenon DEF Added

LEMMA AddedIs ==
  ASSUME NEW q \in Seq(Chunk), Staggered(q), Placed(q), NEW b \in Chunk, b.seq < NxtOf(b),
         \A j \in 1..Len(b.data) : b.data[j] = b.seq + j - 1,
         NEW i \in 1..(Len(q) + 1), i = Place(q, b)
  PROVE  Added(q, b, <<b>> \o After(q, b, i), Before(q, b, i) \o (<<b>> \o After(q, b, i)))
<1>1. PICK k, l : /\ Fits(q, b, k, l) /\ Before(q, b, i) = SubSeq(q, 1, k)
                  /\ Part(q, l, After(q, b, i))
  BY FitsIs
<1>2. k \in 0..Len(q) /\ l \in k..Len(q)
  BY <1>1 DEF Fits
<1>3. PICK a : a = After(q, b, i)
  OBVIOUS
<1>4. Part(q, l, a)
  BY <1>1, <1>3
<1>5. PICK s : s = <<b>> \o a
  OBVIOUS
<1>6. PICK r : r = SubSeq(q, 1, k) \o s
  OBVIOUS
<1>7. Inserted(q, b, 0, l, s) /\ Inserted(q, b, k, l, r)
  BY <1>2, <1>4, <1>5, <1>6, JoinedIs, Zenon
<1>8. Added(q, b, s, r)
  BY <1>1, <1>7, InsertAdded, Zenon
<1> QED
  BY <1>1, <1>3, <1>5, <1>6, <1>8, Zenon

LEMMA RcvdataCases ==
  ASSUME NEW t, NEW s
  PROVE  LET u == RcvBlock(t, s)
         IN  Rcvdata(t, s) = u \/ Rcvdata(t, s) = Delack(u) \/ Rcvdata(t, s) = SndAckOnly(u)
<1> HIDE DEF Delack, SndAckOnly, Place, Contiguous, After, Before, CurAfter, One, Has, NxtOf
<1> QED
  BY Zenon DEF Rcvdata, RcvBlock, RcvChunk, RcvAt, RcvTail, RcvNxt, RcvFin, RcvQueue, RcvCur, RcvWake

\* The queue after it
LEMMA RcvQueueIs ==
  ASSUME NEW t, IsBlock(t), NEW s \in Segment, NEW o \in Int, o = t.rnxt + One(Has(s, "SYN")),
         Ready(t, o), NEW F \in Nat, Comes(s, o, F),
         \A i \in 1..Len(t.rcvq) : NxtOf(t.rcvq[i]) <= F,
         NEW r, r = RcvQueue(t, s), NEW n, n = RcvNxt(t, s)
  PROVE  /\ r \in Seq(Chunk) /\ Placed(r) /\ Staggered(r) /\ n \in Int /\ o <= n
         /\ ~Holds(r, n)
         /\ \A i \in 1..Len(r) : NxtOf(r[i]) <= F
         /\ \A x \in Int : Kept(t, x) => Holds(r, x)
         /\ \A x \in Int : o <= x /\ x < n => Holds(r, x)
         /\ RcvCur(t, s) \in Int
         /\ RcvAt(t, s) = 0 => r = t.rcvq /\ n = o
<1>1. PICK q \in Seq(Chunk) : q = t.rcvq
  BY DEF IsBlock
<1>2. PICK b : b = RcvChunk(s)
  OBVIOUS
<1>3. b \in Chunk /\ b.data = s.data /\ b.seq = s.seq + One(Has(s, "SYN"))
  <2>1. s.seq + One(Has(s, "SYN")) \in Int /\ s.data \in Seq(Int)
    <3>1. One(Has(s, "SYN")) \in Int
      BY DEF One
    <3>2. s.seq \in Int /\ s.data \in Seq(Int)
      BY SegIs
    <3> QED
      BY <3>1, <3>2
  <2> QED
    BY <1>2, <2>1 DEF RcvChunk, Chunk
<1>4. NxtOf(b) = EndsAt(s)
  BY <1>3 DEF NxtOf, EndsAt
<1>5. Placed(q) /\ Staggered(q) /\ ~Holds(q, o)
  BY <1>1, KeptIs DEF Ready
<1>6. \A x : Kept(t, x) <=> Holds(q, x)
  BY <1>1, KeptIs
<1>7. CASE RcvAt(t, s) = 0
  <2>1. r = q /\ n = o /\ RcvCur(t, s) = t.cur
    BY <1>1, <1>7, Zenon DEF RcvQueue, RcvNxt, RcvCur
  <2>2. t.cur \in Int
    BY DEF IsBlock
  <2>3. \A x \in Int : ~(o <= x /\ x < n)
    BY <2>1
  <2> QED
    BY <1>1, <1>5, <1>6, <2>1, <2>2, <2>3
<1>8. CASE RcvAt(t, s) # 0
  <2>1. s.data # <<>> /\ RcvAt(t, s) = Place(q, b)
    BY <1>1, <1>2, <1>8, Zenon DEF RcvAt
  <2>2. PICK i : i = Place(q, b)
    OBVIOUS
  <2>3. i \in 1..(Len(q) + 1)
    BY <1>3, <1>8, <2>1, <2>2, PlaceIs
  <2>4. PICK c : c = <<b>> \o After(q, b, i)
    OBVIOUS
  <2>5. r = Before(q, b, i) \o c /\ n = Contiguous(c, o) /\ RcvCur(t, s) = CurAfter(t, b, i)
    BY <1>1, <1>2, <1>8, <2>1, <2>2, <2>4, Zenon DEF RcvQueue, RcvNxt, RcvCur, RcvTail
  <2>6. b.seq < NxtOf(b)
    BY <1>3, <2>1, EmptySeq DEF Chunk, NxtOf
  <2>7. \A j \in 1..Len(b.data) : b.data[j] = b.seq + j - 1
    BY <1>3 DEF Comes, AtPlace
  <2>8. Added(q, b, c, r)
    BY <1>3, <1>5, <2>2, <2>3, <2>4, <2>5, <2>6, <2>7, AddedIs, Zenon
  <2>9. /\ c \in Seq(Chunk) /\ r \in Seq(Chunk) /\ Staggered(c) /\ Staggered(r) /\ Placed(r)
        /\ Len(c) > 0 /\ c[1] = b
    BY <2>8, Zenon DEF Added
  <2>10. /\ \A x \in Int : Holds(q, x) => Holds(r, x)
         /\ \A x \in Int : Holds(c, x) => Holds(r, x)
         /\ \A x \in Int : Holds(r, x) => Holds(c, x) \/ (Holds(q, x) /\ x < NxtOf(b))
         /\ \A m \in 1..Len(r) : r[m] = b \/ \E j \in 1..Len(q) : r[m] = q[j]
    BY <2>8, Zenon DEF Added
  <2>11. /\ n \in Int /\ ~Holds(c, n)
         /\ \A x \in Int : o <= x /\ x < n => Holds(c, x)
         /\ \/ n = o
            \/ NxtOf(c[1]) <= n
    <3>1. PICK z \in Int : z = Contiguous(c, o)
      BY <2>9, ContigIs, ZenonT(40)
    <3>0. c \in Seq(Chunk) /\ Staggered(c)
      BY <2>9
    <3>2. ~Holds(c, z)
      BY <3>0, <3>1, ContigIs
    <3>2a. \A x \in Int : o <= x /\ x < z => Holds(c, x)
      BY <3>0, <3>1, ContigIs, ZenonT(40)
    <3>3. z = o \/ NxtOf(c[1]) <= z
      BY <3>0, <3>1, ContigIs, ZenonT(40)
    <3> QED
      BY <2>5, <3>1, <3>2, <3>2a, <3>3, Zenon
  <2>12. PICK e \in Int : e = EndsAt(s)
    BY SegIs
  <2>13. o <= e /\ e <= F
    BY <2>1, <2>12 DEF Comes
  <2>14. n = o \/ e <= n
    BY <1>4, <2>9, <2>11, <2>12, Zenon
  <2>15. o <= n
    BY <2>11, <2>13, <2>14
  <2>16. ~Holds(r, n)
    BY <1>4, <2>10, <2>11, <2>12, <2>14, <1>5
  <2>17. ASSUME NEW m \in 1..Len(r) PROVE NxtOf(r[m]) <= F
    BY <1>1, <1>4, <2>10, <2>12, <2>13
  <2>18. CurAfter(t, b, i) \in Int
    <3>1. PICK k \in Nat : k = Len(q)
      OBVIOUS
    <3>2. NxtOf(b) \in Int /\ b.seq \in Int /\ Len(b.data) \in Int /\ t.cur \in Int
      BY <1>3 DEF Chunk, NxtOf, IsBlock
    <3>3. k > 0 => NxtOf(q[k]) \in Int /\ q[1].seq \in Int
      BY <3>1, ChunkIs
    <3>4. k = 0 => CurAfter(t, b, i) = Len(b.data)
      BY <1>1, <3>1 DEF CurAfter
    <3>5. k > 0 /\ i = k + 1 => CurAfter(t, b, i) = t.cur + NxtOf(b) - NxtOf(q[k])
      BY <1>1, <3>1 DEF CurAfter
    <3>6. k > 0 /\ i # k + 1 /\ i = 1 => CurAfter(t, b, i) = t.cur + q[1].seq - b.seq
      BY <1>1, <3>1 DEF CurAfter
    <3>7. k > 0 /\ i # k + 1 /\ i # 1 => CurAfter(t, b, i) = t.cur
      BY <1>1, <3>1 DEF CurAfter
    <3> QED
      BY <3>1, <3>2, <3>3, <3>4, <3>5, <3>6, <3>7
  <2>19. \A x \in Int : o <= x /\ x < n => Holds(r, x)
    BY <2>10, <2>11
  <2>20. \A x \in Int : Kept(t, x) => Holds(r, x)
    BY <1>6, <2>10
  <2> QED
    BY <1>8, <2>5, <2>9, <2>11, <2>15, <2>16, <2>17, <2>18, <2>19, <2>20, Zenon
<1> QED
  BY <1>7, <1>8, Zenon

\* What a block has said, it may say when it has received more.
LEMMA OutsGrow ==
  ASSUME NEW h, NEW t, NEW u, IsBlock(t), IsBlock(u), t.rnxt <= u.rnxt, t.una <= u.una,
         LastByte(u) = LastByte(t), FinSent(u) <=> FinSent(t), NEW v, IsBlock(v), Outs(h, t, v)
  PROVE  Outs(h, u, v)
<1> SUFFICES ASSUME NEW i \in 1..Len(v.out) PROVE OutSeg(h, u, v.out[i])
  BY DEF Outs
<1>1. PICK s \in Segment : s = v.out[i]
  <2>1. v.out[i] \in Segment
    BY DEF IsBlock
  <2> QED
    BY <2>1, Zenon
<1>2. OutSeg(h, t, s)
  BY <1>1 DEF Outs
<1>3. s.ack \in Int /\ s.seq \in Int /\ t.rnxt \in Int /\ u.rnxt \in Int /\ t.una \in Int /\ u.una \in Int
  BY SegIs DEF IsBlock
<1>4. s.ack <= t.rnxt => s.ack <= u.rnxt
  BY <1>3
<1>5. s.seq + 2 <= t.una => s.seq + 2 <= u.una
  BY <1>3
<1>6. OutSeg(h, u, s)
  BY <1>2, <1>4, <1>5, Zenon DEF OutSeg
<1> QED
  BY <1>1, <1>6, Zenon

LEMMA RcvFields ==
  ASSUME NEW t, IsBlock(t), NEW f \in Int, NEW n \in Int, NEW q \in Seq(Chunk), NEW c \in Int,
         NEW w \in BOOLEAN, NEW u, u = RcvSet(t, f, n, q, c, w)
  PROVE  /\ IsBlock(u) /\ SndSame(t, u) /\ u.fin = f /\ u.rnxt = n /\ u.rcvq = q /\ u.cur = c
         /\ u.wake = w /\ u.out = t.out /\ u.delack = t.delack
BY DEF IsBlock, Fields, SndSame, RcvSet

LEMMA RcvBlockIs ==
  ASSUME NEW t, IsBlock(t), NEW s \in Segment, NEW o \in Int, o = t.rnxt + One(Has(s, "SYN")),
         0 <= o, Ready(t, o), NEW F \in Nat, Comes(s, o, F), FinSeen(t) => t.fin = F,
         \A i \in 1..Len(t.rcvq) : NxtOf(t.rcvq[i]) <= F,
         NEW u, u = RcvBlock(t, s)
  PROVE  Rcvd(t, s, o, F, u) /\ u.out = t.out
<1>1. PICK n : n = RcvNxt(t, s)
  OBVIOUS
<1>2. PICK q : q = RcvQueue(t, s)
  OBVIOUS
<1>3. /\ q \in Seq(Chunk) /\ Placed(q) /\ Staggered(q) /\ n \in Int /\ o <= n
      /\ ~Holds(q, n)
      /\ \A i \in 1..Len(q) : NxtOf(q[i]) <= F
      /\ \A x \in Int : Kept(t, x) => Holds(q, x)
      /\ \A x \in Int : o <= x /\ x < n => Holds(q, x)
      /\ RcvCur(t, s) \in Int
      /\ RcvAt(t, s) = 0 => q = t.rcvq /\ n = o
  BY <1>1, <1>2, RcvQueueIs
<1>4. PICK f : f = RcvFin(t, s)
  OBVIOUS
<1>5. t.fin \in Int /\ t.read \in Int /\ t.sock \in BOOLEAN /\ t.wake \in BOOLEAN
  BY DEF IsBlock
<1>6. /\ f \in Int /\ (Has(s, "FIN") => f = F) /\ (~Has(s, "FIN") => f = t.fin)
  BY <1>4, <1>5 DEF NxtOf, RcvChunk, EndsAt, RcvFin, Comes
<1>7. f # NoFin => f = F /\ (FinSeen(t) \/ Has(s, "FIN"))
  BY <1>6 DEF FinSeen
<1>8. PICK m \in Int : m = n + One(f = n)
  BY <1>3 DEF One
<1>9. PICK w \in BOOLEAN : w = (t.wake \/ RcvWake(t, s))
  BY <1>5 DEF RcvWake
<1>10. PICK c \in Int : c = RcvCur(t, s)
  BY <1>3
<1>11. u = RcvSet(t, f, m, q, c, w)
  BY <1>1, <1>2, <1>4, <1>8, <1>9, <1>10, Zenon DEF RcvBlock, RcvSet
<1>12. /\ IsBlock(u) /\ SndSame(t, u) /\ u.fin = f /\ u.rnxt = m /\ u.rcvq = q /\ u.cur = c
       /\ u.wake = w /\ u.out = t.out /\ u.delack = t.delack
  BY <1>3, <1>6, <1>11, RcvFields
<1>13. \A x : Kept(u, x) <=> Holds(q, x)
  BY <1>3, <1>12, KeptIs
<1>14. u.read = t.read /\ u.sock = t.sock
  BY <1>12 DEF SndSame
<1>15. t.read <= o /\ (t.sock => 0 <= t.read /\ \A x \in t.read..(o - 1) : Kept(t, x) \/ x = t.fin)
  BY DEF Ready
<1>16. (f = n => m = n + 1) /\ (f # n => m = n)
  BY <1>3, <1>8 DEF One
<1>17. f = n => n = F
  BY <1>3, <1>7 DEF NoFin
<1>18. ~Kept(u, m)
  BY <1>3, ChunkIs, <1>16, <1>17, <1>13 DEF Holds
<1>19. o <= m
  BY <1>3, <1>16
<1>20. ASSUME t.sock, NEW x \in t.read..(m - 1) PROVE Kept(u, x) \/ x = f
  <2>0. x \in Int /\ t.read <= x /\ x < m /\ 0 <= t.read
    BY <1>5, <1>15, <1>20
  <2>1. CASE x < o
    <3>1. x \in t.read..(o - 1)
      BY <1>5, <2>0, <2>1
    <3>2. Kept(t, x) \/ x = t.fin
      BY <1>15, <1>20, <3>1
    <3>3. CASE Kept(t, x)
      BY <1>3, <1>13, <2>0, <3>3
    <3>4. CASE x = t.fin
      BY <1>5, <2>0, <3>4, <1>6 DEF FinSeen, NoFin
    <3> QED
      BY <3>2, <3>3, <3>4
  <2>2. CASE o <= x /\ x < n
    BY <1>3, <1>13, <2>0, <2>2
  <2>3. CASE n <= x
    BY <1>3, <1>16, <2>0, <2>3
  <2> QED
    BY <1>3, <2>0, <2>1, <2>2, <2>3
<1>21. Ready(u, u.rnxt)
  BY <1>3, <1>5, <1>15, <1>19, <1>20, <1>12, <1>14, <1>18 DEF Ready
<1>22. ASSUME t.sock, Readable(t) = 0 PROVE Readable(u) = 0 \/ u.wake
  <2>1. CASE RcvAt(t, s) = 0
    BY <1>3, <1>12, <1>14, <2>1, <1>22, ReadableSame
  <2>2. CASE RcvAt(t, s) # 0 /\ t.read < n
    BY <1>1, <1>9, <1>22, <2>2, <1>12 DEF RcvWake
  <2>3. CASE ~(t.read < n)
    BY <1>3, <1>5, <1>15, <2>3, <1>13, <1>14, <1>12, ReadableIs
  <2> QED
    BY <2>1, <2>2, <2>3
<1>23. t.wake => u.wake
  BY <1>9, <1>12
<1>24. FinSeen(u) => u.fin = F /\ (FinSeen(t) \/ Has(s, "FIN"))
  BY <1>7, <1>12 DEF FinSeen
<1>25. (\A i \in 1..Len(u.rcvq) : NxtOf(u.rcvq[i]) <= F) /\ o <= u.rnxt
  BY <1>3, <1>12, <1>19
<1> QED
  BY <1>12, <1>21, <1>22, <1>23, <1>24, <1>25, Zenon DEF Rcvd

LEMMA RcvdSame ==
  ASSUME NEW t, NEW s, NEW o, NEW F, NEW u, Rcvd(t, s, o, F, u), NEW v, IsBlock(v),
         Untouched(u, v), u.una = v.una, u.ostate = v.ostate, u.nxt = v.nxt, u.max = v.max,
         u.sndq = v.sndq, u.timer = v.timer, u.wake = v.wake
  PROVE  Rcvd(t, s, o, F, v)
  BY ReadableSame DEF Untouched, SndSame, Rcvd, Kept, Ready, FinSeen

LEMMA OutsAlong ==
  ASSUME NEW h, NEW u, NEW v, Untouched(u, v), v.una = u.una, Outs(h, u, v)
  PROVE  Outs(h, v, v)
BY OutsSame

LEMMA AckOnlyRcvd ==
  ASSUME NEW h, NEW t, NEW s, NEW o, NEW F, NEW u, Rcvd(t, s, o, F, u), Outs(h, u, u),
         NEW v, v = SndAckOnly(u)
  PROVE  Rcvd(t, s, o, F, v) /\ Outs(h, v, v)
<1>0. IsBlock(u)
  BY DEF Rcvd
<1>1. PICK n \in Int : n = u.nxt
  BY <1>0 DEF IsBlock
<1>2. v = Acking(u, n, {"ACK"}, <<>>)
  BY <1>1, Zenon DEF SndAckOnly
<1>3. /\ IsBlock(v) /\ Unmoved(u, v) /\ v.sndq = u.sndq /\ v.nxt = u.nxt /\ v.max = u.max
      /\ Outs(h, u, u) => Outs(h, u, v)
  BY <1>0, <1>2, PlainIs
<1>4. Untouched(u, v) /\ v.una = u.una /\ v.ostate = u.ostate /\ v.timer = u.timer /\ v.wake = u.wake
  BY <1>3 DEF Unmoved
<1>5. Rcvd(t, s, o, F, v)
  BY <1>3, <1>4, RcvdSame
<1>6. Outs(h, v, v)
  BY <1>3, <1>4, OutsAlong
<1> QED
  BY <1>5, <1>6

LEMMA DelackRcvd ==
  ASSUME NEW h, NEW t, NEW s, NEW o, NEW F, NEW u, Rcvd(t, s, o, F, u), Outs(h, u, u),
         NEW v, v = Delack(u)
  PROVE  Rcvd(t, s, o, F, v) /\ Outs(h, v, v)
<1>0. IsBlock(u)
  BY DEF Rcvd
<1>1. CASE u.delack
  BY <1>1, AckOnlyRcvd DEF Delack
<1>2. CASE ~u.delack
  BY <1>2, <1>0, RcvdSame, OutsAlong DEF Delack, IsBlock, Fields, Untouched, Outs
<1> QED
  BY <1>1, <1>2

\* tcp_rcvdata()
LEMMA RcvdataIs ==
  ASSUME NEW h, NEW t, IsBlock(t), NEW s \in Segment, NEW o \in Int,
         o = t.rnxt + One(Has(s, "SYN")), 0 <= o, Ready(t, o), NEW F \in Nat, Comes(s, o, F),
         FinSeen(t) => t.fin = F, \A i \in 1..Len(t.rcvq) : NxtOf(t.rcvq[i]) <= F,
         Outs(h, t, t), NEW v, v = Rcvdata(t, s)
  PROVE  Rcvd(t, s, o, F, v) /\ Outs(h, v, v)
<1>1. PICK u : u = RcvBlock(t, s)
  OBVIOUS
<1>2. Rcvd(t, s, o, F, u) /\ u.out = t.out
  BY <1>1, RcvBlockIs
<1>3. IsBlock(u) /\ SndSame(t, u) /\ o <= u.rnxt
  BY <1>2 DEF Rcvd
<1>4. Outs(h, u, u)
  <2>1. Outs(h, t, u)
    BY <1>2 DEF Outs
  <2>2. t.rnxt <= o
    BY DEF One, IsBlock
  <2>3. t.rnxt <= u.rnxt
    BY <1>3, <2>2 DEF IsBlock
  <2>4. u.una = t.una /\ u.write = t.write /\ u.state = t.state /\ t.una \in Int
    BY <1>3 DEF SndSame, IsBlock
  <2>5. t.una <= u.una /\ LastByte(u) = LastByte(t) /\ (FinSent(u) <=> FinSent(t))
    BY <2>4 DEF LastByte, FinSent
  <2> QED
    BY <1>3, <2>1, <2>3, <2>5, OutsGrow
<1>5. v = u \/ v = Delack(u) \/ v = SndAckOnly(u)
  BY <1>1, RcvdataCases
<1>6. CASE v = u
  BY <1>2, <1>4, <1>6
<1>7. CASE v = Delack(u)
  BY <1>2, <1>4, <1>7, DelackRcvd
<1>8. CASE v = SndAckOnly(u)
  BY <1>2, <1>4, <1>8, AckOnlyRcvd
<1> QED
  BY <1>5, <1>6, <1>7, <1>8

LEMMA TrimmedIs ==
  ASSUME NEW t, IsBlock(t), NEW s \in Segment
  PROVE  /\ Trim(s, Trimmed(t, s))
         /\ ~Synced(t) => Trimmed(t, s) = s
<1>1. PICK x : x = Trimmed(t, s)
  OBVIOUS
<1>2. PICK old \in BOOLEAN : old = (Has(s, "SYN") /\ s.seq < t.rnxt)
  OBVIOUS
<1>3. PICK late \in BOOLEAN : late = (Has(s, "FIN") /\ LastOf(s) >= t.rnxt + Rcvwnd(t))
  OBVIOUS
<1>4. /\ s.seq \in Int /\ s.ack \in Int /\ s.wnd \in Int /\ s.data \in Seq(Int)
      /\ s.flags \in SUBSET {"SYN", "FIN", "ACK", "RST"}
  BY SegIs
<1>5. CASE ~Synced(t) \/ Rcvwnd(t) = 0
  BY <1>1, <1>5 DEF Trimmed, Trim
<1>6. CASE Synced(t) /\ ~(Rcvwnd(t) = 0)
  <2>1. PICK cut : cut = (IF old THEN {"SYN"} ELSE {}) \cup (IF late THEN {"FIN"} ELSE {})
    OBVIOUS
  <2>2. PICK y : y = [s EXCEPT !.seq = s.seq + One(old), !.flags = s.flags \ cut]
    OBVIOUS
  <2>3. x = y
    BY <1>1, <1>2, <1>3, <1>6, <2>1, <2>2, Zenon DEF Trimmed
  <2>4. /\ y \in Segment /\ y.seq = s.seq + One(old) /\ y.flags = s.flags \ cut /\ y.ack = s.ack
        /\ y.wnd = s.wnd /\ y.data = s.data
    <3>1. s.seq + One(old) \in Int /\ s.flags \ cut \in SUBSET {"SYN", "FIN", "ACK", "RST"}
      BY <1>4 DEF One
    <3> QED
      BY <1>4, <2>2, <3>1 DEF Segment
  <2>5. /\ Has(y, "ACK") <=> Has(s, "ACK")
        /\ Has(y, "RST") <=> Has(s, "RST")
        /\ Has(y, "FIN") => Has(s, "FIN")
        /\ Has(y, "SYN") <=> Has(s, "SYN") /\ ~old
    BY <2>1, <2>4 DEF Has
  <2>6. y.seq + One(Has(y, "SYN")) = s.seq + One(Has(s, "SYN"))
    <3>1. CASE old
      <4>1. One(Has(y, "SYN")) = 0 /\ One(Has(s, "SYN")) = 1 /\ One(old) = 1
        BY <1>2, <2>5, <3>1 DEF One
      <4> QED
        BY <1>4, <2>4, <4>1
    <3>2. CASE ~old
      BY <2>5, <3>2, <1>4, <2>4 DEF One
    <3> QED
      BY <3>1, <3>2
  <2>7. Trim(s, y)
    BY <2>4, <2>5, <2>6, Zenon DEF Trim
  <2> QED
    BY <1>1, <1>6, <2>3, <2>7, Zenon
<1> QED
  BY <1>5, <1>6

\* What a connection gets of a segment that is valid
LEMMA ValidComes ==
  ASSUME NEW t, IsBlock(t), NEW s \in Segment, Synced(t), Valid(t, s), NEW x, Trim(s, x),
         ~Has(x, "RST"), ~Has(x, "SYN"), NEW F \in Nat, NetSeg(t.rnxt, s, F)
  PROVE  Comes(x, t.rnxt, F)
<1>1. PICK n \in Nat : n = Len(s.data)
  BY SegIs
<1>2. PICK q \in Int : q = s.seq
  BY SegIs
<1>3. PICK y \in Nat : y = One(Has(s, "SYN"))
  BY DEF One
<1>4. PICK f \in Nat : f = One(Has(s, "FIN"))
  BY DEF One
<1>5. PICK r \in Int : r = t.rnxt
  BY DEF IsBlock
<1>6. SegLen(s) = n + y + f
  BY <1>1, <1>3, <1>4 DEF SegLen
<1>7. (n + y + f > 0 => LastOf(s) = q + (n + y + f) - 1) /\ (n + y + f = 0 => LastOf(s) = q)
  BY <1>2, <1>6 DEF LastOf, One
<1>8. EndsAt(s) = q + y + n
  BY <1>1, <1>2, <1>3 DEF EndsAt
<1>9. \/ r <= LastOf(s)
      \/ n + y + f = 0
  BY <1>5, <1>6 DEF Valid
<1>10. (Has(s, "FIN") => f = 1) /\ (~Has(s, "FIN") => f = 0) /\ (s.data # <<>> => n > 0)
       /\ (Has(s, "SYN") => y = 1) /\ (~Has(s, "SYN") => y = 0)
  BY <1>1, <1>3, <1>4, SegIs, EmptySeq DEF One
<1>11. Has(s, "FIN") \/ s.data # <<>> => r <= EndsAt(s)
  BY <1>7, <1>8, <1>9, <1>10
<1>12. x.seq + 0 = q + y /\ x.seq \in Int /\ x.data = s.data /\ EndsAt(x) = EndsAt(s)
  BY SegIs, <1>2, <1>3, <1>1, <1>8 DEF One, Trim, EndsAt
<1>13. AtPlace(s)
  <2>1. ASSUME s.flags = {"ACK"}, Len(s.data) = 1, s.seq + 1 <= t.rnxt PROVE FALSE
    BY <1>1, <1>10, <2>1, <1>2, <1>5, <1>7, <1>9 DEF Has
  <2>2. ~Has(s, "RST")
    BY DEF Trim
  <2> QED
    BY <2>1, <2>2 DEF NetSeg
<1>14. AtPlace(x)
  BY <1>1, <1>2, <1>3, <1>13, <1>12 DEF One, AtPlace
<1>15. ~Has(s, "RST") /\ (Has(x, "FIN") => Has(s, "FIN"))
  BY DEF Trim
<1>16. (Has(s, "FIN") => EndsAt(s) = F) /\ (s.data # <<>> => EndsAt(s) <= F)
  BY <1>15 DEF NetSeg
<1> QED
  BY <1>5, <1>11, <1>12, <1>14, <1>15, <1>16 DEF Comes

LEMMA PreAck ==
  ASSUME NEW h, NEW t, NEW F, NEW z, Linked(h, t, F, z), NEW s \in Segment, NEW a, AckOf(h, t, s, a)
  PROVE  Pre(h, t, s.ack, F, z, a)
<1>1. /\ IsBlock(a) /\ SndOK(h, a) /\ SynGone(a) /\ TimerOK(a) /\ Outs(h, a, a)
      /\ a.una = t.una \/ a.una = s.ack
      /\ t.una <= a.una
  BY DEF AckOf
<1>2. /\ a.state = t.state /\ a.write = t.write /\ a.rnxt = t.rnxt /\ a.read = t.read /\ a.fin = t.fin
      /\ a.rcvq = t.rcvq /\ a.sock = t.sock /\ a.del = t.del /\ a.err = t.err
  BY DEF AckOf, Untouched
<1>3. FinSent(a) <=> FinSent(t)
  BY <1>2 DEF FinSent
<1>4. t.rnxt <= a.rnxt
  BY <1>2 DEF Linked, BlockOK, IsBlock
<1>5. RcvOK(t) /\ Synced(t)
  BY DEF Linked, BlockOK
<1>6. Ready(a, a.rnxt)
  BY <1>5, <1>2 DEF RcvOK, Ready, Linked, Kept
<1>7. /\ FinSeen(a) => a.fin = F /\ z
      /\ \A i \in 1..Len(a.rcvq) : NxtOf(a.rcvq[i]) <= F
  BY <1>2, <1>5 DEF Linked, RcvEnd, FinSeen
<1>8. t.sock => \/ a.wake
                \/ /\ a.state = t.state
                   /\ Readable(t) = 0 => Readable(a) = 0
                   /\ Canwrite(t) = 0 => Canwrite(a) = 0
  BY <1>2, ReadableSame DEF AckOf, WakeOK
<1> QED
  BY <1>1, <1>2, <1>3, <1>4, <1>6, <1>7, <1>8, Zenon DEF Pre

LEMMA SndSameOK ==
  ASSUME NEW h, NEW p, NEW v, SndSame(p, v), SndOK(h, p), SynGone(p), TimerOK(p)
  PROVE  SndOK(h, v) /\ SynGone(v) /\ TimerOK(v) /\ (FinSent(v) <=> FinSent(p)) /\ Canwrite(v) = Canwrite(p)
  BY DEF SndSame, FinSent, SndOK, SynGone, TimerOK, Used, Connected, Canwrite

LEMMA PreRcv ==
  ASSUME NEW h, NEW t, NEW k, NEW F \in Nat, NEW z, NEW p, Pre(h, t, k, F, z, p), t.rnxt \in Int,
         0 <= p.rnxt, NEW s \in Segment, ~Has(s, "SYN"), Has(s, "FIN") => z, Comes(s, p.rnxt, F),
         NEW v, v = Rcvdata(p, s)
  PROVE  Received(h, t, k, F, z, p, v)
<1>0. PICK o : o = p.rnxt
  OBVIOUS
<1>1. o \in Int /\ 0 <= o /\ IsBlock(p) /\ Ready(p, o) /\ Comes(s, o, F)
  BY <1>0 DEF Pre, IsBlock
<1>2. o = p.rnxt + One(Has(s, "SYN"))
  BY <1>0, <1>1 DEF One
<1>3. /\ FinSeen(p) => p.fin = F
      /\ \A i \in 1..Len(p.rcvq) : NxtOf(p.rcvq[i]) <= F
      /\ Outs(h, p, p)
  BY DEF Pre
<1>4. Rcvd(p, s, o, F, v) /\ Outs(h, v, v)
  BY <1>1, <1>2, <1>3, RcvdataIs
<1>5. /\ IsBlock(v) /\ SndSame(p, v) /\ o <= v.rnxt /\ Ready(v, v.rnxt)
      /\ \A i \in 1..Len(v.rcvq) : NxtOf(v.rcvq[i]) <= F
      /\ FinSeen(v) => v.fin = F /\ (FinSeen(p) \/ Has(s, "FIN"))
      /\ p.wake => v.wake
      /\ p.sock /\ Readable(p) = 0 => Readable(v) = 0 \/ v.wake
  BY <1>4 DEF Rcvd
<1>6. SndOK(h, v) /\ SynGone(v) /\ TimerOK(v) /\ (FinSent(v) <=> FinSent(p)) /\ Canwrite(v) = Canwrite(p)
  BY <1>5, SndSameOK DEF Pre
<1>7. /\ v.state = p.state /\ v.una = p.una /\ v.write = p.write /\ v.read = p.read /\ v.sock = p.sock
      /\ v.del = p.del /\ v.err = p.err
  BY <1>5 DEF SndSame
<1>8. FinSeen(v) => v.fin = F /\ z
  BY <1>5 DEF Pre
<1>9. t.rnxt <= v.rnxt
  <2>1. t.rnxt <= o /\ v.rnxt \in Int
    BY <1>0, <1>5 DEF Pre, IsBlock
  <2> QED
    BY <1>1, <1>5, <2>1
<1>10. t.sock => \/ v.wake
                 \/ /\ v.state = t.state
                    /\ Readable(t) = 0 => Readable(v) = 0
                    /\ Canwrite(t) = 0 => Canwrite(v) = 0
  BY <1>5, <1>6, <1>7, Zenon DEF Pre
<1>11. /\ v.write = t.write /\ (v.una = t.una \/ v.una = k) /\ t.una <= v.una
       /\ FinSent(v) <=> FinSent(t)
       /\ v.sock = t.sock /\ v.err = t.err /\ v.read = t.read /\ v.del = t.del
  BY <1>6, <1>7, Zenon DEF Pre
<1> QED
  BY <1>4, <1>5, <1>6, <1>7, <1>8, <1>9, <1>10, <1>11, Zenon DEF Pre, Received

\* The segment that completes the opening
LEMMA OpenedIs ==
  ASSUME NEW p, IsBlock(p), NEW s \in Segment, NEW u, u = Opened(p, s)
  PROVE  /\ IsBlock(u) /\ u.state = "ESTABLISHED" /\ u.wake
         /\ u.ostate = p.ostate /\ u.una = p.una /\ u.nxt = p.nxt /\ u.max = p.max
         /\ u.write = p.write /\ u.sndq = p.sndq /\ u.timer = p.timer
         /\ u.sock = p.sock /\ u.err = p.err /\ u.read = p.read /\ u.del = p.del /\ u.rnxt = p.rnxt
         /\ u.rcvq = p.rcvq /\ u.fin = p.fin /\ u.out = p.out /\ u.fatal = p.fatal
  BY SegIs DEF States, Opened, IsBlock, Fields

LEMMA SndSameState ==
  ASSUME NEW h, NEW p, NEW u, SndOK(h, p), SynGone(p), TimerOK(p), FinSent(u) <=> FinSent(p),
         u.ostate = p.ostate, u.una = p.una, u.nxt = p.nxt, u.max = p.max,
         u.write = p.write, u.sndq = p.sndq, u.timer = p.timer
  PROVE  SndOK(h, u) /\ SynGone(u) /\ TimerOK(u)
  BY DEF SndOK, SynGone, TimerOK

LEMMA PreOpened ==
  ASSUME NEW h, NEW t, NEW k, NEW F, NEW z, NEW p, Pre(h, t, k, F, z, p), ~FinSent(p),
         NEW s \in Segment, NEW u, u = Opened(p, s)
  PROVE  Pre(h, t, k, F, z, u) /\ u.state = "ESTABLISHED" /\ u.wake /\ u.una = p.una
<1>0. IsBlock(p)
  BY DEF Pre
<1>1. /\ IsBlock(u) /\ u.state = "ESTABLISHED" /\ u.wake
      /\ u.ostate = p.ostate /\ u.una = p.una /\ u.nxt = p.nxt /\ u.max = p.max
      /\ u.write = p.write /\ u.sndq = p.sndq /\ u.timer = p.timer
      /\ u.sock = p.sock /\ u.err = p.err /\ u.read = p.read /\ u.del = p.del /\ u.rnxt = p.rnxt
      /\ u.rcvq = p.rcvq /\ u.fin = p.fin /\ u.out = p.out
  BY <1>0, OpenedIs
<1>2. FinSent(u) <=> FinSent(p)
  BY <1>1 DEF FinSent
<1>3. SndOK(h, u) /\ SynGone(u) /\ TimerOK(u)
  BY <1>1, <1>2, SndSameState DEF Pre
<1>4. Outs(h, u, u)
  <2>0. Outs(h, p, p)
    BY DEF Pre
  <2>1. Outs(h, p, u)
    BY <1>1, <2>0, Zenon DEF Outs
  <2>2. p.rnxt <= u.rnxt /\ p.una <= u.una
    <3>1. p.rnxt \in Int /\ p.una \in Int
      BY <1>0 DEF IsBlock
    <3> QED
      BY <1>1, <3>1
  <2>3. LastByte(u) = LastByte(p)
    BY <1>1, <1>2 DEF LastByte
  <2> QED
    BY <1>0, <1>1, <1>2, <2>1, <2>2, <2>3, OutsGrow
<1>5. Ready(u, u.rnxt)
  BY <1>1 DEF Pre, Ready, Kept
<1>6. /\ FinSeen(u) => u.fin = F /\ z
      /\ \A i \in 1..Len(u.rcvq) : NxtOf(u.rcvq[i]) <= F
  BY <1>1 DEF Pre, FinSeen
<1>7. /\ u.write = t.write /\ (u.una = t.una \/ u.una = k) /\ t.una <= u.una
      /\ FinSent(u) <=> FinSent(t)
      /\ u.sock = t.sock /\ u.err = t.err /\ u.read = t.read /\ u.del = t.del
      /\ t.rnxt <= u.rnxt
  BY <1>1, <1>2, Zenon DEF Pre
<1> QED
  BY <1>1, <1>3, <1>4, <1>5, <1>6, <1>7, Zenon DEF Pre

LEMMA SettleOK ==
  ASSUME NEW h, NEW t, NEW k, NEW F, NEW z, NEW p, Pre(h, t, k, F, z, p), 0 <= p.rnxt,
         NEW u, Moved(p, u), StateOK(h, u), u.sock => u.read <= F
  PROVE  BlockOK(h, u) /\ RcvEnd(u, F, z)
  BY SndSameState DEF Moved, Pre, RcvOK, Ready, Kept, RcvEnd, FinSeen, BlockOK

LEMMA SettleTurn ==
  ASSUME NEW h, NEW t, NEW F, NEW z, Linked(h, t, F, z), NEW k, NEW p, Pre(h, t, k, F, z, p),
         NEW u, Moved(p, u), StateOK(h, u), Synced(u), u.state # "SYNRCVD"
  PROVE  Turn(h, t, u, k) /\ RcvEnd(u, F, z)
<1>1. /\ IsBlock(u)
      /\ u.una = p.una /\ u.write = p.write /\ u.sndq = p.sndq
      /\ u.sock = p.sock /\ u.err = p.err /\ u.read = p.read /\ u.rnxt = p.rnxt
      /\ u.rcvq = p.rcvq /\ u.out = p.out
      /\ p.wake => u.wake
      /\ FinSent(u) <=> FinSent(p)
      /\ u.state = p.state \/ u.wake \/ FinSent(u)
  BY DEF Moved
<1>2. /\ IsBlock(p) /\ Outs(h, p, p)
      /\ p.write = t.write /\ (p.una = t.una \/ p.una = k)
      /\ FinSent(p) <=> FinSent(t)
      /\ p.sock = t.sock /\ p.err = t.err /\ p.read = t.read /\ t.rnxt <= p.rnxt
      /\ t.sock => \/ p.wake
                   \/ /\ p.state = t.state
                      /\ Readable(t) = 0 => Readable(p) = 0
                      /\ Canwrite(t) = 0 => Canwrite(p) = 0
  BY DEF Pre
<1>3. IsBlock(t) /\ Synced(t) /\ Live(t) /\ RcvOK(t) /\ RcvEnd(t, F, z)
  BY DEF Linked, BlockOK, Synced, Live
<1>4. 0 <= p.rnxt
  BY <1>2, <1>3 DEF RcvOK, IsBlock
<1>5. BlockOK(h, u) /\ RcvEnd(u, F, z)
  BY <1>1, <1>2, <1>3, <1>4, SettleOK DEF RcvEnd
<1>6. Sleep(t, u)
  BY <1>1, ReadableSame, <1>2 DEF Canwrite, Used, Connected, FinSent, Sleep
<1>7. Said(h, t, u, k)
  <2>1. Outs(h, p, u)
    BY <1>1, <1>2 DEF Outs
  <2>2. LastByte(p) = LastByte(t)
    BY <1>2 DEF LastByte
  <2>3. p.rnxt <= u.rnxt
    BY <1>1, <1>2 DEF IsBlock
  <2>4. Speaks(t, u, k, p)
    BY <1>2, <2>2, <2>3 DEF Speaks, Synced
  <2>5. t.state # "none"
    BY <1>3 DEF Live
  <2> QED
    BY <1>3, <2>1, <2>4, <2>5, Zenon DEF Said
<1>8. Live(u) => Live(t) /\ u.write = t.write /\ (FinSent(u) <=> FinSent(t))
  BY <1>1, <1>2, <1>3
<1>9. u.state \notin {"SYNRCVD", "SYNSENT"}
  BY DEF Synced
<1>10. t.rnxt <= u.rnxt /\ u.read = t.read /\ u.sock = t.sock /\ u.una \in {0, t.una, k}
  BY <1>1, <1>2
<1> QED
  BY <1>3, <1>5, <1>6, <1>7, <1>8, <1>9, <1>10, Zenon DEF Turn

LEMMA StateSet ==
  ASSUME NEW p, IsBlock(p), NEW st \in States, NEW w \in BOOLEAN,
         NEW u, u = Ended(p, st, w)
  PROVE  /\ Restated(p, u) /\ u.state = st /\ u.timer = p.timer /\ u.del = p.del
         /\ p.wake \/ w => u.wake
BY DEF Ended, IsBlock, Fields, Restated

LEMMA StateOnly ==
  ASSUME NEW p, IsBlock(p), NEW st \in States, NEW u, u = [p EXCEPT !.state = st]
  PROVE  Restated(p, u) /\ u.state = st /\ u.wake = p.wake /\ u.timer = p.timer /\ u.del = p.del
BY DEF IsBlock, Fields, Restated

LEMMA WaitFinIs ==
  ASSUME NEW p, IsBlock(p), NEW u, u = WaitFin(p)
  PROVE  Restated(p, u) /\ u.state = "FINWAIT2" /\ u.wake = p.wake /\ u.timer = p.timer /\ u.del
  BY DEF States, IsBlock, Fields, Restated, WaitFin

LEMMA TimeWaitIs ==
  ASSUME NEW p, IsBlock(p), NEW u, u = TimeWait(p)
  PROVE  Restated(p, u) /\ u.state = "TIMEWAIT" /\ u.wake = p.wake /\ ~u.timer /\ u.del
  BY DEF States, IsBlock, Fields, Restated, TimeWait

LEMMA MovedIs ==
  ASSUME NEW p, NEW u, Restated(p, u), u.timer = p.timer, p.wake => u.wake,
         FinSent(u) <=> FinSent(p), u.state = p.state \/ u.wake \/ FinSent(u)
  PROVE  Moved(p, u)
BY DEF Moved, Restated

LEMMA MovedRefl ==
  ASSUME NEW p, IsBlock(p)
  PROVE  Moved(p, p)
BY DEF Moved

\* All the sent data is acknowledged: no timer runs.
LEMMA TimeWaitMoved ==
  ASSUME NEW h, NEW p, IsBlock(p), TimerOK(p), p.write <= p.una, FinSent(p), NEW u, u = TimeWait(p)
  PROVE  Moved(p, u) /\ StateOK(h, u) /\ Synced(u) /\ u.state # "SYNRCVD"
<1>1. Restated(p, u) /\ u.state = "TIMEWAIT" /\ u.wake = p.wake /\ ~u.timer /\ u.del
  BY TimeWaitIs
<1>2. p.write \in Int /\ p.una \in Int /\ p.timer \in BOOLEAN
  BY DEF IsBlock
<1>3. u.timer = p.timer
  <2>1. ~p.timer
    BY <1>2 DEF TimerOK
  <2>2. u.timer \in BOOLEAN
    BY <1>1 DEF Restated, IsBlock
  <2> QED
    BY <1>1, <1>2, <2>1, <2>2
<1>4. FinSent(u)
  BY <1>1 DEF FinSent
<1>5. Moved(p, u)
  BY <1>1, <1>3, <1>4, MovedIs
<1>6. u.write <= u.una
  BY <1>1 DEF Restated
<1> QED
  BY <1>1, <1>4, <1>5, <1>6 DEF StateOK, Synced, Live

\* The FIN of the other side, in ESTABLISHED
LEMMA EndingIs ==
  ASSUME NEW h, NEW p, IsBlock(p), p.state = "ESTABLISHED", p.sock, ~p.del,
         NEW w \in BOOLEAN, w \/ p.wake, NEW u, u = Ending(p, "CLOSEWAIT", w)
  PROVE  Moved(p, u) /\ StateOK(h, u) /\ Synced(u) /\ u.state # "SYNRCVD"
<1>1. CASE Finished(p)
  <2>1. "CLOSEWAIT" \in States
    BY DEF States
  <2>2. u = Ended(p, "CLOSEWAIT", w)
    BY <1>1 DEF Ending, Ended
  <2>3. /\ Restated(p, u) /\ u.state = "CLOSEWAIT" /\ u.timer = p.timer /\ u.del = p.del
        /\ p.wake \/ w => u.wake
    BY <2>1, <2>2, StateSet
  <2>4. u.wake
    BY <2>3
  <2>5. ~FinSent(u) /\ ~FinSent(p)
    BY <2>3 DEF FinSent
  <2>6. Moved(p, u)
    BY <2>3, <2>4, <2>5, MovedIs
  <2>7. Finished(u) /\ u.sock
    BY <1>1, <2>3 DEF Finished, Restated
  <2> QED
    BY <2>3, <2>6, <2>7 DEF StateOK, Synced, Live
<1>2. CASE ~Finished(p)
  BY <1>2, MovedRefl DEF Ending, StateOK, Synced, Live
<1> QED
  BY <1>1, <1>2

\* After our own FIN
LEMMA FinishingIs ==
  ASSUME NEW h, NEW p, IsBlock(p), TimerOK(p), p.state = "FINWAIT1", ~p.del, NEW u, u = Finishing1(p)
  PROVE  Moved(p, u) /\ StateOK(h, u) /\ Synced(u) /\ u.state # "SYNRCVD"
<1>0. FinSent(p) /\ p.write \in Int /\ p.una \in Int
  BY DEF FinSent, IsBlock
<1>1. CASE Finished(p) /\ ~SentAll(p)
  BY <1>1, StateOnly, <1>0, MovedIs DEF States, Finishing1, FinSent, SentAll, Restated, StateOK,
     Synced, Live
<1>2. CASE Finished(p) /\ SentAll(p)
  BY <1>2, <1>0, TimeWaitMoved DEF Finishing1, SentAll
<1>3. CASE ~Finished(p) /\ SentAll(p)
  BY <1>3, WaitFinIs, <1>0, MovedIs DEF Finishing1, FinSent, SentAll, Restated, StateOK, Synced, Live
<1>4. CASE ~Finished(p) /\ ~SentAll(p)
  BY <1>4, <1>0, MovedRefl DEF Finishing1, SentAll, StateOK, Synced, Live
<1> QED
  BY <1>1, <1>2, <1>3, <1>4

LEMMA StandStill ==
  ASSUME NEW h, NEW t, NEW F, NEW z, BlockOK(h, t), Live(t), t.out = <<>>, RcvEnd(t, F, z), NEW k
  PROVE  Answer(h, t, t, k, F, z)
  BY StepsRefl, StepsTurn DEF BlockOK, Answer

\* A block that says RST to a segment
LEMMA RstSaid ==
  ASSUME NEW t, IsBlock(t), t.out = <<>>, NEW s \in Segment, NEW v, v = SndRst(t, s)
  PROVE  /\ IsBlock(v) /\ AllRst(v) /\ v.sock = t.sock /\ v.una = t.una /\ v.rcvq = t.rcvq
         /\ v.read = t.read /\ v.err = t.err /\ v.state = t.state /\ v.timer = t.timer
         /\ v.out \in Seq(Segment)
<1>1. AllRst(t)
  BY DEF AllRst
<1>2. /\ IsBlock(v) /\ Unmoved(t, v) /\ AllRst(v)
  BY <1>1, SndRstIs
<1> QED
  BY <1>2 DEF Unmoved, Untouched, IsBlock

LEMMA AbortTurn ==
  ASSUME NEW h, NEW t, IsBlock(t), t.out = <<>>, NEW s \in Segment, NEW k, NEW F, NEW z
  PROVE  Answer(h, t, Abort(SndRst(t, s)), k, F, z)
  BY RstSaid, AbortIs, GoneTurn DEF Sleep, Gone, RcvEnd, Synced, Answer

\* The end of a block whose FIN is acknowledged
LEMMA DeleteTurn ==
  ASSUME NEW h, NEW t, NEW k, NEW F, NEW z, Live(t), FinSent(t),
         NEW b, IsBlock(b), FinSent(b) <=> FinSent(t), LastByte(b) = LastByte(t),
         b.una = t.una \/ b.una = k,
         NEW v, IsBlock(v), v.sock = t.sock, v.una = b.una, v.rcvq = t.rcvq, v.read = t.read,
         v.err = t.err, ~v.timer, Placed(t.rcvq), Staggered(t.rcvq),
         AllRst(v) \/ Outs(h, b, v)
  PROVE  Answer(h, t, Delete(v), k, F, z)
  BY DeleteIs, ReadableSame, GoneTurn DEF Sleep, Canwrite, Connected, Gone, RcvEnd, Synced, Answer

LEMMA SettleAnswer ==
  ASSUME NEW h, NEW t, NEW F, NEW z, Linked(h, t, F, z), NEW k, NEW p, Pre(h, t, k, F, z, p),
         NEW u, Moved(p, u) /\ StateOK(h, u) /\ Synced(u) /\ u.state # "SYNRCVD"
  PROVE  Answer(h, t, u, k, F, z)
BY SettleTurn DEF Answer

\* tcp_ack() and tcp_rcvdata()
LEMMA AckRcv ==
  ASSUME NEW h, NEW t, NEW F, NEW z, Linked(h, t, F, z), NEW s, Inbound(t, s, F, z), ~Has(s, "RST"),
         ~Has(s, "SYN"), NEW p, Pre(h, t, s.ack, F, z, p), p.rnxt = t.rnxt, NEW v, v = Rcvdata(p, s)
  PROVE  /\ Pre(h, t, s.ack, F, z, v) /\ v.state = p.state /\ v.una = p.una /\ IsBlock(v) /\ TimerOK(v)
         /\ v.write = t.write /\ v.sock = t.sock /\ v.del = t.del /\ (p.wake => v.wake)
         /\ t.una <= v.una
<1>1. s \in Segment /\ Comes(s, t.rnxt, F) /\ (Has(s, "FIN") => z)
  BY DEF Inbound
<1>2. F \in Nat /\ t.rnxt \in Int /\ 0 <= t.rnxt
  BY DEF Linked, BlockOK, IsBlock, RcvOK
<1>3. PICK k : k = s.ack
  OBVIOUS
<1>4. Pre(h, t, k, F, z, v) /\ v.state = p.state /\ v.una = p.una /\ (p.wake => v.wake)
  <2>1. 0 <= p.rnxt /\ Comes(s, p.rnxt, F)
    BY <1>1, <1>2, Zenon
  <2>2. Pre(h, t, k, F, z, p)
    BY <1>3, Zenon
  <2> QED
    <3>1. s \in Segment /\ F \in Nat /\ t.rnxt \in Int /\ (Has(s, "FIN") => z)
      BY <1>1, <1>2
    <3>2. Received(h, t, k, F, z, p, v)
      BY <3>1, <2>1, <2>2, PreRcv
    <3> QED
      BY <3>2, Zenon DEF Received
<1>5. IsBlock(v) /\ TimerOK(v) /\ v.write = t.write /\ v.sock = t.sock /\ v.del = t.del /\ t.una <= v.una
  BY <1>4, Zenon DEF Pre
<1> QED
  BY <1>3, <1>4, <1>5, Zenon

LEMMA LinkedIs ==
  ASSUME NEW h, NEW t, NEW F, NEW z, Linked(h, t, F, z)
  PROVE  /\ BlockOK(h, t) /\ IsBlock(t) /\ Live(t) /\ Synced(t) /\ t.out = <<>> /\ RcvEnd(t, F, z)
         /\ StateOK(h, t) /\ Placed(t.rcvq) /\ Staggered(t.rcvq) /\ TimerOK(t)
         /\ \A k : Answer(h, t, t, k, F, z)
  BY StandStill DEF Linked, BlockOK, Live, Synced, RcvOK

LEMMA GivenIs ==
  ASSUME NEW h, NEW t, NEW s, NEW a, NEW F, NEW z, Given(h, t, s, a, F, z)
  PROVE  /\ s \in Segment /\ Pre(h, t, s.ack, F, z, a) /\ IsBlock(a) /\ TimerOK(a)
         /\ Untouched(t, a) /\ t.una <= a.una
  BY PreAck DEF Given, Inbound, AckOf

\* In all the states with a connection, an RST or a stray segment ends it.
LEMMA StrayAnswer ==
  ASSUME NEW h, NEW t, NEW s, NEW a, NEW F, NEW z, Given(h, t, s, a, F, z), NEW x
  PROVE  Answer(h, t, Abort(SndRst(t, s)), x, F, z)
  BY LinkedIs, AbortTurn DEF Given, Inbound

LEMMA SynrcvdIs ==
  ASSUME NEW h, NEW t, NEW s, NEW a, NEW F, NEW z, Given(h, t, s, a, F, z), t.state = "SYNRCVD",
         NEW u, u = Synrcvd(t, s, a),
         NEW x, Bad(s) \/ x = s.ack
  PROVE  Answer(h, t, u, x, F, z)
<1>1. /\ BlockOK(h, t) /\ IsBlock(t) /\ Live(t) /\ t.out = <<>> /\ StateOK(h, t)
      /\ Answer(h, t, t, x, F, z) /\ Linked(h, t, F, z)
  BY LinkedIs DEF Given
<1>2. /\ s \in Segment /\ Pre(h, t, s.ack, F, z, a) /\ IsBlock(a) /\ TimerOK(a)
      /\ Untouched(t, a)
  BY GivenIs
<1>3. CASE Bad(s)
  <2>1. PICK o : o = SndRst(t, s).out
    OBVIOUS
  <2>2. o \in Seq(Segment) /\ AllRst(SndRst(t, s))
    BY <1>1, <1>2, <2>1, RstSaid
  <2>3. PICK f \in BOOLEAN : f = FALSE
    OBVIOUS
  <2>4. PICK v : v = [NoTcb EXCEPT !.out = o, !.fatal = f]
    OBVIOUS
  <2>5. u = v
    <3>1. u = [NoTcb EXCEPT !.out = o]
      BY <1>3, <2>1 DEF Synrcvd
    <3>2. NoTcb.fatal = f /\ "fatal" \in DOMAIN NoTcb
      BY <2>3 DEF NoTcb, Block
    <3>3. v = [NoTcb EXCEPT !.out = o]
      BY <2>4, <3>2 DEF NoTcb, Block
    <3> QED
      BY <3>1, <3>3, Zenon
  <2>6. /\ IsBlock(v) /\ v.state = "none" /\ v.out = o /\ ~v.timer /\ ~v.sock /\ ~v.del
        /\ ~v.delack /\ v.rcvq = <<>> /\ v.una = 0 /\ v.sndq = <<>> /\ ~v.err /\ ~v.disc
        /\ ~v.wake
    BY <2>2, <2>4, NoTcbIs
  <2>7. BlockOK(h, u)
    BY <2>5, <2>6, DeadOK
  <2>8. AllRst(u)
    BY <2>1, <2>2, <2>5, <2>6 DEF AllRst
  <2>9. Turn(h, t, u, x)
    BY <2>5, <2>6, <2>7, <2>8 DEF Turn, Said, Live, Synced
  <2>10. RcvEnd(u, F, z)
    BY <2>5, <2>6 DEF RcvEnd, Synced
  <2> QED
    BY <2>9, <2>10 DEF Answer
<1>4. CASE ~Bad(s) /\ ~Has(s, "ACK")
  BY <1>1, <1>4 DEF Synrcvd
<1>5. CASE ~Bad(s) /\ Has(s, "ACK")
  <2>1. ~Has(s, "RST") /\ ~Has(s, "SYN")
    BY <1>5 DEF Bad
  <2>2. PICK k : k = s.ack
    OBVIOUS
  <2>3. PICK p : p = Opened(a, s)
    OBVIOUS
  <2>4. a.state = "SYNRCVD" /\ ~FinSent(a) /\ a.rnxt = t.rnxt
    BY <1>2 DEF Untouched, FinSent
  <2>5. Pre(h, t, k, F, z, p) /\ p.state = "ESTABLISHED" /\ p.wake
    BY <1>2, <2>2, <2>3, <2>4, PreOpened
  <2>6. p.rnxt = t.rnxt
    BY <1>2, <2>3, <2>4, OpenedIs
  <2>7. PICK v : v = Rcvdata(p, s)
    OBVIOUS
  <2>8. /\ Pre(h, t, s.ack, F, z, v) /\ v.state = p.state /\ IsBlock(v)
        /\ v.sock = t.sock /\ v.del = t.del /\ (p.wake => v.wake)
    BY <2>2, <2>5, <1>1, <2>1, <2>6, <2>7, AckRcv DEF Given
  <2>9. v.state = "ESTABLISHED" /\ v.sock /\ ~v.del /\ v.wake
    BY <1>1, <2>5, <2>8 DEF StateOK, FinSent, IsBlock
  <2>10. PICK w \in BOOLEAN : w = FALSE
    OBVIOUS
  <2>11. u = Ending(v, "CLOSEWAIT", w)
    BY <1>5, <2>3, <2>7, <2>10, Zenon DEF Synrcvd
  <2>12. Moved(v, u) /\ StateOK(h, u) /\ Synced(u) /\ u.state # "SYNRCVD"
    BY <2>8, <2>9, <2>11, EndingIs
  <2>20. Answer(h, t, u, s.ack, F, z)
    BY <1>1, <2>8, <2>12, SettleAnswer
  <2>21. x = s.ack
    BY <1>5 DEF Stray
  <2> QED
    BY <2>20, <2>21, Zenon
<1> QED
  BY <1>3, <1>4, <1>5

LEMMA EstablishedIs ==
  ASSUME NEW h, NEW t, NEW s, NEW a, NEW F, NEW z, Given(h, t, s, a, F, z), t.state = "ESTABLISHED",
         NEW u, u = Established(t, s, a),
         NEW x, Bad(s) \/ x = s.ack
  PROVE  Answer(h, t, u, x, F, z)
<1>1. /\ BlockOK(h, t) /\ IsBlock(t) /\ Live(t) /\ t.out = <<>> /\ StateOK(h, t)
      /\ Answer(h, t, t, x, F, z) /\ Linked(h, t, F, z)
  BY LinkedIs DEF Given
<1>2. /\ s \in Segment /\ Pre(h, t, s.ack, F, z, a) /\ IsBlock(a) /\ TimerOK(a)
      /\ Untouched(t, a)
  BY GivenIs
<1>3. t.sock /\ ~t.del
  BY <1>1 DEF StateOK, FinSent, IsBlock
<1>4. CASE Bad(s)
  <2>1. PICK v : v = SndRst(t, s)
    OBVIOUS
  <2>2. /\ IsBlock(v) /\ AllRst(v) /\ v.sock = t.sock /\ v.una = t.una
    BY <1>1, <1>2, <2>1, RstSaid
  <2>3. u = [Reset(v) EXCEPT !.state = "CLOSED"]
    BY <1>4, <2>1 DEF Established
  <2>4. /\ IsBlock(u) /\ u.state = "CLOSED" /\ ~u.timer /\ ~u.del /\ ~u.delack /\ u.err
        /\ u.rcvq = <<>> /\ u.sndq = <<>> /\ u.out = v.out /\ u.sock = v.sock /\ u.una = v.una
        /\ (v.sock => u.wake)
    BY <2>2, <2>3, ResetIs
  <2>5. BlockOK(h, u)
    BY <1>3, <2>2, <2>4, DeadOK
  <2>6. Gone(h, v, u)
    BY <2>4, <2>5 DEF Gone
  <2>7. Sleep(t, u)
    BY <2>2, <2>4 DEF Sleep
  <2>8. (FinSent(t) <=> FinSent(t)) /\ LastByte(t) = LastByte(t) /\ t.una \in {t.una, x}
        /\ v.una \in {t.una, x}
    BY <2>2
  <2>9. Turn(h, t, u, x)
    BY <1>1, <2>2, <2>4, <2>6, <2>7, <2>8, GoneTurn
  <2>10. RcvEnd(u, F, z)
    BY <2>4 DEF RcvEnd, Synced
  <2> QED
    BY <2>9, <2>10 DEF Answer
<1>5. CASE ~Bad(s) /\ ~Has(s, "ACK")
  BY <1>1, <1>5 DEF Established
<1>6. CASE ~Bad(s) /\ Has(s, "ACK")
  <2>1. ~Has(s, "RST") /\ ~Has(s, "SYN")
    BY <1>6 DEF Bad
  <2>4. a.state = "ESTABLISHED" /\ a.rnxt = t.rnxt
    BY <1>2 DEF Untouched
  <2>7. PICK v : v = Rcvdata(a, s)
    OBVIOUS
  <2>8. /\ Pre(h, t, s.ack, F, z, v) /\ v.state = a.state /\ IsBlock(v)
        /\ v.sock = t.sock /\ v.del = t.del
    BY <1>1, <1>2, <2>1, <2>4, <2>7, AckRcv DEF Given
  <2>9. v.state = "ESTABLISHED" /\ v.sock /\ ~v.del
    BY <1>3, <2>4, <2>8
  <2>10. PICK w \in BOOLEAN : w = TRUE
    OBVIOUS
  <2>11. u = Ending(v, "CLOSEWAIT", w)
    BY <1>6, <2>7, <2>10, Zenon DEF Established
  <2>12. Moved(v, u) /\ StateOK(h, u) /\ Synced(u) /\ u.state # "SYNRCVD"
    BY <2>8, <2>9, <2>10, <2>11, EndingIs
  <2>20. Answer(h, t, u, s.ack, F, z)
    BY <1>1, <2>8, <2>12, SettleAnswer
  <2>21. x = s.ack
    BY <1>6 DEF Stray
  <2> QED
    BY <2>20, <2>21, Zenon
<1> QED
  BY <1>4, <1>5, <1>6

LEMMA Finwait1Is ==
  ASSUME NEW h, NEW t, NEW s, NEW a, NEW F, NEW z, Given(h, t, s, a, F, z), t.state = "FINWAIT1",
         NEW u, u = Finwait1(t, s, a),
         NEW x, Bad(s) \/ x = s.ack
  PROVE  Answer(h, t, u, x, F, z)
<1>1. IsBlock(t) /\ StateOK(h, t) /\ Answer(h, t, t, x, F, z) /\ Linked(h, t, F, z)
  BY LinkedIs DEF Given
<1>2. s \in Segment /\ Pre(h, t, s.ack, F, z, a) /\ Untouched(t, a)
  BY GivenIs
<1>3. CASE Stray(t, s)
  BY <1>3, StrayAnswer DEF Finwait1
<1>4. CASE ~Stray(t, s) /\ ~Has(s, "ACK")
  BY <1>1, <1>4 DEF Finwait1
<1>5. CASE ~Stray(t, s) /\ Has(s, "ACK")
  <2>1. ~Has(s, "RST") /\ ~Has(s, "SYN")
    BY <1>5 DEF Stray, Bad
  <2>2. a.state = "FINWAIT1" /\ a.rnxt = t.rnxt
    BY <1>2 DEF Untouched
  <2>3. PICK v : v = Rcvdata(a, s)
    OBVIOUS
  <2>4. /\ Pre(h, t, s.ack, F, z, v) /\ v.state = a.state /\ IsBlock(v) /\ TimerOK(v) /\ v.del = t.del
    BY <1>1, <1>2, <2>1, <2>2, <2>3, AckRcv DEF Given
  <2>5. ~v.del /\ v.state = "FINWAIT1"
    BY <1>1, <2>2, <2>4 DEF StateOK, IsBlock
  <2>6. u = Finishing1(v)
    BY <1>5, <2>3, Zenon DEF Finwait1
  <2>7. Moved(v, u) /\ StateOK(h, u) /\ Synced(u) /\ u.state # "SYNRCVD"
    BY <2>4, <2>5, <2>6, FinishingIs
  <2>20. Answer(h, t, u, s.ack, F, z)
    BY <1>1, <2>4, <2>7, SettleAnswer
  <2>21. x = s.ack
    BY <1>5 DEF Stray
  <2> QED
    BY <2>20, <2>21, Zenon
<1> QED
  BY <1>3, <1>4, <1>5

\* Everything was acknowledged before, and is after a segment.
LEMMA QuietRcv ==
  ASSUME NEW h, NEW t, NEW s, NEW a, NEW F, NEW z, Given(h, t, s, a, F, z),
         NEW st \in {"FINWAIT2", "TIMEWAIT"}, t.state = st,
         ~Has(s, "RST"), ~Has(s, "SYN"), NEW v, v = Rcvdata(a, s)
  PROVE  /\ Pre(h, t, s.ack, F, z, v) /\ v.state = st /\ IsBlock(v) /\ TimerOK(v) /\ v.del
         /\ v.write <= v.una /\ FinSent(v)
<1>1. IsBlock(t) /\ StateOK(h, t) /\ Linked(h, t, F, z)
  BY LinkedIs DEF Given
<1>2. s \in Segment /\ Pre(h, t, s.ack, F, z, a) /\ Untouched(t, a)
  BY GivenIs
<1>3. a.state = st /\ a.rnxt = t.rnxt
  BY <1>2 DEF Untouched
<1>4. /\ Pre(h, t, s.ack, F, z, v) /\ v.state = a.state /\ IsBlock(v) /\ TimerOK(v) /\ v.del = t.del
      /\ v.write = t.write /\ t.una <= v.una
  BY <1>1, <1>2, <1>3, AckRcv DEF Given
<1>5. t.del /\ t.write <= t.una
  BY <1>1 DEF StateOK
<1>6. v.write <= v.una
  <2>1. t.write \in Int /\ t.una \in Int /\ v.una \in Int
    BY <1>1, <1>4 DEF IsBlock
  <2>2. t.write <= v.una
    BY <1>4, <1>5, <2>1
  <2> QED
    BY <1>4, <2>2, Zenon
<1> QED
  BY <1>3, <1>4, <1>5, <1>6 DEF FinSent

LEMMA Finwait2Is ==
  ASSUME NEW h, NEW t, NEW s, NEW a, NEW F, NEW z, Given(h, t, s, a, F, z), t.state = "FINWAIT2",
         NEW u, u = Finwait2(t, s, a),
         NEW x, Bad(s) \/ x = s.ack
  PROVE  Answer(h, t, u, x, F, z)
<1>1. Answer(h, t, t, x, F, z) /\ Linked(h, t, F, z)
  BY LinkedIs DEF Given
<1>3. CASE Stray(t, s)
  BY <1>3, StrayAnswer DEF Finwait2
<1>4. CASE ~Stray(t, s) /\ ~Has(s, "ACK")
  BY <1>1, <1>4 DEF Finwait2
<1>5. CASE ~Stray(t, s) /\ Has(s, "ACK")
  <2>1. ~Has(s, "RST") /\ ~Has(s, "SYN")
    BY <1>5 DEF Stray, Bad
  <2>3. PICK v : v = Rcvdata(a, s)
    OBVIOUS
  <2>4. /\ Pre(h, t, s.ack, F, z, v) /\ v.state = "FINWAIT2" /\ IsBlock(v) /\ TimerOK(v) /\ v.del
        /\ v.write <= v.una /\ FinSent(v)
    BY <2>1, <2>3, QuietRcv
  <2>5. u = Finishing2(v)
    BY <1>5, <2>3, Zenon DEF Finwait2
  <2>6. Moved(v, u) /\ StateOK(h, u) /\ Synced(u) /\ u.state # "SYNRCVD"
    BY <2>4, <2>5, TimeWaitMoved, MovedRefl DEF Finishing2, StateOK, Synced, Live
  <2>20. Answer(h, t, u, s.ack, F, z)
    BY <1>1, <2>4, <2>6, SettleAnswer
  <2>21. x = s.ack
    BY <1>5 DEF Stray
  <2> QED
    BY <2>20, <2>21, Zenon
<1> QED
  BY <1>3, <1>4, <1>5

LEMMA TimewaitIs ==
  ASSUME NEW h, NEW t, NEW s, NEW a, NEW F, NEW z, Given(h, t, s, a, F, z), t.state = "TIMEWAIT",
         NEW u, u = Timewait(t, s, a),
         NEW x, Bad(s) \/ x = s.ack
  PROVE  Answer(h, t, u, x, F, z)
<1>1. /\ IsBlock(t) /\ t.out = <<>> /\ Live(t) /\ StateOK(h, t) /\ TimerOK(t) /\ Placed(t.rcvq)
      /\ Staggered(t.rcvq) /\ Linked(h, t, F, z)
  BY LinkedIs DEF Given
<1>2. s \in Segment
  BY GivenIs
<1>3. CASE Stray(t, s)
  <2>1. PICK v : v = SndRst(t, s)
    OBVIOUS
  <2>2. /\ IsBlock(v) /\ AllRst(v) /\ v.sock = t.sock /\ v.una = t.una /\ v.rcvq = t.rcvq
        /\ v.read = t.read /\ v.err = t.err /\ v.timer = t.timer
    BY <1>1, <1>2, <2>1, RstSaid
  <2>3. ~v.timer
    <3>1. t.write <= t.una /\ t.write \in Int /\ t.una \in Int
      BY <1>1 DEF StateOK, IsBlock
    <3>2. ~(t.una < t.write)
      BY <3>1
    <3>3. ~t.timer
      BY <1>1, <3>2 DEF TimerOK
    <3> QED
      BY <2>2, <3>3, Zenon
  <2>4. FinSent(t)
    BY DEF FinSent
  <2>6. Answer(h, t, Delete(v), x, F, z)
    BY <2>2, <1>1, <2>3, <2>4, DeleteTurn
  <2> QED
    BY <1>3, <2>1, <2>6, Zenon DEF Timewait
<1>5. CASE ~Stray(t, s)
  BY <1>5, QuietRcv, TimeWaitMoved, <1>1, SettleAnswer DEF Stray, Bad, Timewait
<1> QED
  BY <1>3, <1>5

LEMMA ClosewaitIs ==
  ASSUME NEW h, NEW t, NEW s, NEW a, NEW F, NEW z, Given(h, t, s, a, F, z), t.state = "CLOSEWAIT",
         NEW u, u = Closewait(t, s, a),
         NEW x, Bad(s) \/ x = s.ack
  PROVE  Answer(h, t, u, x, F, z)
<1>1. StateOK(h, t) /\ Linked(h, t, F, z) /\ IsBlock(t)
  BY LinkedIs DEF Given
<1>2. Pre(h, t, s.ack, F, z, a) /\ Untouched(t, a) /\ IsBlock(a)
  BY GivenIs
<1>3. CASE Bad(s)
  BY <1>3, StrayAnswer DEF Closewait
<1>4. CASE ~Bad(s)
  BY <1>4, <1>2, <1>1, MovedRefl, SettleAnswer DEF Closewait, Untouched, StateOK, Finished, FinSent,
     IsBlock, Synced, Live, Stray
<1> QED
  BY <1>3, <1>4

LEMMA ClosingIs ==
  ASSUME NEW h, NEW t, NEW s, NEW a, NEW F, NEW z, Given(h, t, s, a, F, z), t.state = "CLOSING",
         NEW u, u = Closing(t, s, a),
         NEW x, Bad(s) \/ x = s.ack
  PROVE  Answer(h, t, u, x, F, z)
<1>1. StateOK(h, t) /\ Linked(h, t, F, z) /\ IsBlock(t)
  BY LinkedIs DEF Given
<1>2. Pre(h, t, s.ack, F, z, a) /\ Untouched(t, a) /\ IsBlock(a) /\ TimerOK(a)
  BY GivenIs
<1>3. CASE Stray(t, s)
  BY <1>3, StrayAnswer DEF Closing
<1>4. CASE ~Stray(t, s)
  <2>1. u = IF SentAll(a) THEN TimeWait(a) ELSE a
    BY <1>4 DEF Closing
  <2>2. a.state = "CLOSING" /\ a.del = t.del /\ a.write \in Int /\ a.una \in Int
    BY <1>2 DEF Untouched, IsBlock
  <2>3. FinSent(a) /\ ~a.del
    BY <1>1, <2>2 DEF StateOK, FinSent, IsBlock
  <2>4. Moved(a, u) /\ StateOK(h, u) /\ Synced(u) /\ u.state # "SYNRCVD"
    <3>1. CASE SentAll(a)
      BY <1>2, <2>1, <2>3, <3>1, TimeWaitMoved DEF SentAll
    <3>2. CASE ~SentAll(a)
      BY <2>1, <2>2, <3>2, <1>2, <2>3, MovedRefl DEF SentAll, StateOK, Synced, Live
    <3> QED
      BY <3>1, <3>2
  <2>20. Answer(h, t, u, s.ack, F, z)
    BY <1>1, <1>2, <2>4, SettleAnswer
  <2>21. x = s.ack
    BY <1>4 DEF Stray
  <2> QED
    BY <2>20, <2>21, Zenon
<1> QED
  BY <1>3, <1>4

LEMMA LastackIs ==
  ASSUME NEW h, NEW t, NEW s, NEW a, NEW F, NEW z, Given(h, t, s, a, F, z), t.state = "LASTACK",
         NEW u, u = Lastack(t, s, a),
         NEW x, Bad(s) \/ x = s.ack
  PROVE  Answer(h, t, u, x, F, z)
<1>1. /\ StateOK(h, t) /\ Linked(h, t, F, z) /\ IsBlock(t) /\ Live(t) /\ Placed(t.rcvq)
      /\ Staggered(t.rcvq)
  BY LinkedIs DEF Given
<1>2. Pre(h, t, s.ack, F, z, a) /\ Untouched(t, a) /\ IsBlock(a) /\ TimerOK(a)
  BY GivenIs
<1>3. CASE Stray(t, s)
  BY <1>3, StrayAnswer DEF Lastack
<1>4. /\ a.state = "LASTACK" /\ a.fin = t.fin /\ a.rnxt = t.rnxt /\ a.sock = t.sock /\ a.del = t.del
      /\ a.rcvq = t.rcvq /\ a.read = t.read /\ a.err = t.err /\ a.write = t.write
  BY <1>2 DEF Untouched
<1>5. /\ FinSent(t) /\ FinSent(a) /\ a.write \in Int /\ a.una \in Int /\ a.timer \in BOOLEAN
  BY <1>2, <1>4 DEF FinSent, IsBlock
<1>6. CASE ~Stray(t, s) /\ SentAll(a)
  BY <1>6, <1>2, <1>5, <1>4, <1>1, DeleteTurn DEF Lastack, TimerOK, SentAll, Pre, LastByte, Stray
<1>7. CASE ~Stray(t, s) /\ ~SentAll(a)
  <2>1. u = a /\ a.una < a.write
    BY <1>5, <1>7 DEF Lastack, SentAll
  <2>2. Finished(a) /\ ~a.del
    BY <1>1, <1>4 DEF StateOK, Finished, IsBlock
  <2>3. Moved(a, u) /\ StateOK(h, u) /\ Synced(u) /\ u.state # "SYNRCVD"
    BY <1>2, <1>4, <1>5, <2>1, <2>2, MovedRefl DEF StateOK, Synced, Live
  <2>20. Answer(h, t, u, s.ack, F, z)
    BY <1>1, <1>2, <2>3, SettleAnswer
  <2>21. x = s.ack
    BY <1>7 DEF Stray
  <2> QED
    BY <2>20, <2>21, Zenon
<1> QED
  BY <1>3, <1>6, <1>7

LEMMA DispatchIs ==
  ASSUME NEW h, NEW t, NEW s, NEW a, NEW F, NEW z, Given(h, t, s, a, F, z),
         NEW u, u = Dispatch(t, s, a), NEW x, Bad(s) \/ x = s.ack
  PROVE  Answer(h, t, u, x, F, z)
  BY LinkedIs, SynrcvdIs, EstablishedIs, Finwait1Is, Finwait2Is, ClosewaitIs, LastackIs, ClosingIs,
     TimewaitIs DEF Given, IsBlock, States, Synced, Dispatch

\* A block without a connection says RST, or nothing.
LEMMA DeadAnswer ==
  ASSUME NEW h, NEW t, NEW u, NEW x, NEW F, NEW z, ~Live(t), ~Live(u), BlockOK(h, u), AllRst(u),
         u.una = 0 \/ u.una = t.una, u.sock = t.sock, u.state = t.state,
         u.rcvq # <<>> => u.rcvq = t.rcvq /\ u.read = t.read,
         t.sock => u.err = t.err /\ u.rcvq = t.rcvq /\ u.read = t.read
  PROVE  Answer(h, t, u, x, F, z)
  BY ReadableSame DEF Live, Synced, Sleep, Canwrite, Connected, Said, Turn, RcvEnd, Answer

LEMMA DeadRst ==
  ASSUME NEW h, NEW t, BlockOK(h, t), ~Live(t), t.out = <<>>, NEW s \in Segment,
         NEW u, u = SndRst(t, s), NEW x, NEW F, NEW z
  PROVE  Answer(h, t, u, x, F, z)
  BY SndRstIs, DeadAnswer DEF BlockOK, AllRst, Unmoved, Untouched, Live, Synced, StateOK, FinSent,
     Finished, RcvOK

\* No block
LEMMA NoBlockIs ==
  ASSUME NEW n, n = NoTcb
  PROVE  /\ IsBlock(n) /\ n.state = "none" /\ n.out = <<>> /\ ~n.timer /\ ~n.sock /\ ~n.del
         /\ ~n.delack /\ n.rcvq = <<>> /\ n.una = 0
  BY Params DEF Ostates, States, NoTcb, Block, NoFin, IsBlock, Fields

\* A segment for a host that has no block, or no more
LEMMA NoneIs ==
  ASSUME NEW h, NEW t, BlockOK(h, t), t.state = "none", t.out = <<>>, NEW s \in Segment,
         NEW u, u = SndRst(t, s) \/ u = NoTcb \/ u = SndRst(NoTcb, s), NEW x, NEW F, NEW z
  PROVE  Answer(h, t, u, x, F, z)
<1>1. CASE u = SndRst(t, s)
  BY <1>1, DeadRst DEF Live
<1>2. CASE u = NoTcb \/ u = SndRst(NoTcb, s)
  <2>1. PICK n : n = NoTcb
    OBVIOUS
  <2>2. /\ IsBlock(n) /\ n.state = "none" /\ n.out = <<>> /\ ~n.timer /\ ~n.sock /\ ~n.del
        /\ ~n.delack /\ n.rcvq = <<>> /\ n.una = 0
    BY <2>1, NoBlockIs
  <2>3. AllRst(n)
    BY <2>2 DEF AllRst
  <2>4. /\ IsBlock(u) /\ u.state = "none" /\ ~u.timer /\ ~u.sock /\ ~u.del
        /\ ~u.delack /\ u.rcvq = <<>> /\ u.una = 0 /\ AllRst(u)
    BY <2>1, <2>2, <2>3, SndRstIs, <1>2 DEF Unmoved, Untouched
  <2>5. BlockOK(h, u)
    BY <2>4, DeadOK
  <2>6. ~t.sock /\ t.sock \in BOOLEAN /\ u.sock \in BOOLEAN
    BY <2>4 DEF BlockOK, StateOK, IsBlock
  <2>7. u.sock = t.sock /\ ~Live(u) /\ ~Live(t)
    BY <2>4, <2>6 DEF Live
  <2> QED
    BY <2>4, <2>5, <2>6, <2>7, DeadAnswer
<1> QED
  BY <1>1, <1>2

\* A segment outside the window
LEMMA NotValidIs ==
  ASSUME NEW h, NEW t, BlockOK(h, t), Live(t), t.out = <<>>, NEW s, NEW u, u = SndAck(t, s),
         NEW F, NEW z, RcvEnd(t, F, z), NEW x
  PROVE  Answer(h, t, u, x, F, z)
  BY SndAckSteps, TimerSame, StepsTurn DEF BlockOK, Steps, Untouched, Answer

LEMMA AskedIs ==
  ASSUME NEW h, NEW t, IsBlock(t), SndOK(h, t), SynGone(t), TimerOK(t), ~FinSent(t), NEW n \in Int,
         NEW m \in Int, NEW u, u = Asked(t, n, m)
  PROVE  /\ IsBlock(u) /\ SndOK(h, u) /\ SynGone(u) /\ TimerOK(u) /\ u.state = t.state
         /\ u.una = t.una /\ u.max = t.max /\ u.write = t.write /\ u.sock = t.sock /\ u.del = t.del
         /\ u.fin = t.fin /\ u.rcvq = t.rcvq /\ u.rnxt = n /\ u.read = m /\ u.out = t.out
<1>3. /\ IsBlock(u) /\ u.state = t.state /\ u.ostate = t.ostate
      /\ u.una = t.una /\ u.nxt = t.nxt /\ u.max = t.max /\ u.write = t.write /\ u.sndq = t.sndq
      /\ u.sock = t.sock /\ u.del = t.del /\ u.timer = t.timer
      /\ u.fin = t.fin /\ u.rcvq = t.rcvq /\ u.rnxt = n /\ u.read = m /\ u.out = t.out
  BY DEF IsBlock, Fields, Asked
<1>4. FinSent(u) <=> FinSent(t)
  BY <1>3 DEF FinSent
<1>5. SndOK(h, u) /\ SynGone(u) /\ TimerOK(u)
  BY <1>3, <1>4, SndSameState
<1> QED
  BY <1>3, <1>5

LEMMA JoiningIs ==
  ASSUME NEW h \in Host, NEW t, BlockOK(h, t), t.state = "SYNSENT", t.out = <<>>, NEW i \in Nat,
         NEW s \in Segment, Has(s, "SYN"), Has(s, "ACK"),
         NEW x \in Int, s.ack = x, t.una < x, x <= t.max, NEW o \in Int, o = i + 1,
         NEW cwnd \in Int, NEW g, NEW p, p = Welcome(t, i, o, s, g, cwnd), NEW F
  PROVE  Joining(h, t, s, o, F, x, p)
<1>1. /\ IsBlock(t) /\ SndOK(h, t) /\ SynGone(t) /\ TimerOK(t) /\ StateOK(h, t) /\ ~FinSent(t)
      /\ t.fin = NoFin /\ t.rcvq = <<>> /\ ~t.del /\ t.sock
  BY DEF BlockOK, Live, StateOK, FinSent, IsBlock
<1> PICK b : b = Asked(t, i, o)
  OBVIOUS
<1> PICK a : a = Ack(b, s, g, cwnd)
  OBVIOUS
<1>0. p = Opened(a, s)
  BY Zenon DEF Welcome
<1>2. /\ IsBlock(b) /\ SndOK(h, b) /\ SynGone(b) /\ TimerOK(b) /\ b.state = t.state
      /\ b.una = t.una /\ b.max = t.max /\ b.write = t.write /\ b.sock = t.sock /\ b.del = t.del
      /\ b.fin = t.fin /\ b.rcvq = t.rcvq /\ b.rnxt = i /\ b.read = o /\ b.out = t.out
  <2>1. i \in Int
    OBVIOUS
  <2>2. IsBlock(t) /\ SndOK(h, t) /\ SynGone(t) /\ TimerOK(t) /\ ~FinSent(t)
    BY <1>1
  <2>3. b = Asked(t, i, o)
    OBVIOUS
  <2> QED
    BY <2>1, <2>2, <2>3, AskedIs
<1>3. AckOf(h, b, s, a) /\ a.una = x
  BY <1>2, AckIs
<1>4. /\ IsBlock(a) /\ SndOK(h, a) /\ SynGone(a) /\ TimerOK(a) /\ Outs(h, a, a)
      /\ a.state = "SYNSENT" /\ a.write = t.write /\ a.rnxt = i /\ a.read = o /\ a.fin = NoFin
      /\ a.rcvq = <<>> /\ a.sock /\ ~a.del /\ a.una = x /\ a.sock = t.sock
  BY <1>1, <1>2, <1>3, ZenonT(40) DEF AckOf, Untouched
<1>5. /\ IsBlock(p) /\ p.state = "ESTABLISHED" /\ p.wake
      /\ p.ostate = a.ostate /\ p.una = a.una /\ p.nxt = a.nxt /\ p.max = a.max
      /\ p.write = a.write /\ p.sndq = a.sndq /\ p.timer = a.timer
      /\ p.sock = a.sock /\ p.read = a.read /\ p.del = a.del /\ p.rnxt = a.rnxt
      /\ p.rcvq = a.rcvq /\ p.fin = a.fin /\ p.out = a.out
  BY <1>0, <1>4, OpenedIs
<1>6. ~FinSent(p) /\ ~FinSent(a)
  BY <1>4, <1>5 DEF FinSent
<1>7. SndOK(h, p) /\ SynGone(p) /\ TimerOK(p)
  BY <1>4, <1>5, <1>6, SndSameState, SMTT(30)
<1>8. Outs(h, p, p)
  <2>1. Outs(h, a, p)
    BY <1>4, <1>5, Zenon DEF Outs
  <2>2. a.rnxt <= p.rnxt /\ a.una <= p.una
    <3>1. a.rnxt \in Int /\ a.una \in Int
      BY <1>4 DEF IsBlock
    <3> QED
      BY <1>5, <3>1
  <2>3. LastByte(p) = LastByte(a)
    BY <1>5, <1>6 DEF LastByte
  <2> QED
    BY <1>4, <1>5, <1>6, <2>1, <2>2, <2>3, OutsGrow
<1>10. o = p.rnxt + One(Has(s, "SYN"))
  BY <1>4, <1>5 DEF One
<1> QED
  BY <1>4, <1>5, <1>7, <1>8, <1>10 DEF Joining

LEMMA JoinsIs ==
  ASSUME NEW h \in Host, NEW t, NEW i \in Nat, NEW o \in Int, o = i + 1,
         NEW F \in Nat, NEW z, NEW s \in Segment, Has(s, "SYN"), SynSeg(s, i, F, z),
         NEW x, NEW p, Joining(h, t, s, o, F, x, p), NEW v, v = Rcvdata(p, s),
         NEW u, u = SndAckOnly(v)
  PROVE  Joins(h, t, s, i, F, z, x, u)
<1>5. /\ IsBlock(p) /\ SndOK(h, p) /\ SynGone(p) /\ TimerOK(p) /\ Outs(h, p, p)
      /\ p.state = "ESTABLISHED" /\ p.wake /\ p.una = x /\ p.write = t.write /\ p.sock = t.sock
      /\ p.read = o /\ ~p.del /\ p.rcvq = <<>> /\ p.fin = NoFin /\ p.sock
  BY DEF Joining
<1>10. o = p.rnxt + One(Has(s, "SYN")) /\ 0 <= o
  BY DEF Joining
<1>11. Ready(p, o)
  BY <1>5, <1>10 DEF Placed, Staggered, Kept, Ready
<1>12. Comes(s, o, F) /\ o <= EndsAt(s) /\ EndsAt(s) <= F /\ EndsAt(s) \in Int
  <2>0. PICK l \in Nat : l = Len(s.data)
    BY SegIs
  <2>1. EndsAt(s) = i + 1 + l
    BY <2>0, SegIs DEF SynSeg, One
  <2>2. EndsAt(s) \in Int /\ o <= EndsAt(s)
    BY <2>1
  <2>3. AtPlace(s) /\ EndsAt(s) <= F /\ (Has(s, "FIN") => EndsAt(s) = F)
    BY DEF SynSeg
  <2> HIDE DEF EndsAt
  <2> QED
    BY <2>2, <2>3 DEF Comes
<1>13. /\ FinSeen(p) => p.fin = F
       /\ \A j \in 1..Len(p.rcvq) : NxtOf(p.rcvq[j]) <= F
  BY <1>5 DEF FinSeen
<1>14. Rcvd(p, s, o, F, v) /\ Outs(h, v, v)
  BY <1>5, <1>10, <1>11, <1>12, <1>13, RcvdataIs
<1>15. Rcvd(p, s, o, F, u) /\ Outs(h, u, u)
  BY <1>14, AckOnlyRcvd
<1>16. /\ IsBlock(u) /\ SndSame(p, u) /\ o <= u.rnxt /\ Ready(u, u.rnxt)
       /\ \A j \in 1..Len(u.rcvq) : NxtOf(u.rcvq[j]) <= F
       /\ FinSeen(u) => u.fin = F /\ (FinSeen(p) \/ Has(s, "FIN"))
       /\ p.wake => u.wake
  BY <1>15 DEF Rcvd
<1>17. SndOK(h, u) /\ SynGone(u) /\ TimerOK(u)
  BY <1>5, <1>16, SndSameOK
<1>18. /\ u.state = "ESTABLISHED" /\ u.una = x /\ u.write = t.write /\ u.read = o /\ u.sock = t.sock
       /\ u.sock /\ ~u.del
  BY <1>5, <1>16 DEF SndSame
<1>19. StateOK(h, u)
  BY <1>18 DEF StateOK, Live
<1>20. 0 <= u.rnxt /\ i <= u.rnxt /\ u.rnxt \in Int
  <2>1. u.rnxt \in Int /\ o <= u.rnxt /\ 0 <= o
    BY <1>10, <1>16, Zenon DEF IsBlock
  <2> QED
    BY <2>1
<1>21. RcvOK(u)
  BY <1>16, <1>20 DEF RcvOK, Ready
<1>22. BlockOK(h, u)
  BY <1>16, <1>17, <1>19, <1>21 DEF BlockOK
<1>23. RcvEnd(u, F, z)
  BY <1>12, <1>18, <1>5, <1>16 DEF FinSeen, SynSeg, RcvEnd
<1> QED
  BY <1>5, <1>15, <1>16, <1>18, <1>20, <1>22, <1>23 DEF Joins

LEMMA JoinsAnswer ==
  ASSUME NEW h \in Host, NEW t, BlockOK(h, t), t.state = "SYNSENT", NEW s, NEW F, NEW z, NEW x,
         NEW i \in Nat, i = Isn[Peer(h)], NEW u, Joins(h, t, s, i, F, z, x, u)
  PROVE  Answer(h, t, u, x, F, z)
<1>1. /\ BlockOK(h, u) /\ RcvEnd(u, F, z)
      /\ u.una = x /\ u.write = t.write /\ u.state = "ESTABLISHED" /\ u.sock = t.sock /\ u.wake
      /\ i <= u.rnxt /\ u.read = i + 1 /\ Outs(h, u, u)
  BY DEF Joins
<1>2. Live(t) /\ Live(u) /\ ~Synced(t) /\ Synced(u) /\ ~FinSent(t) /\ ~FinSent(u)
  BY <1>1 DEF Live, Synced, FinSent
<1>3. Sleep(t, u)
  BY <1>1 DEF Sleep
<1>4. Speaks(t, u, x, u)
  BY <1>1, <1>2 DEF BlockOK, IsBlock, LastByte, Speaks
<1>5. Said(h, t, u, x)
  BY <1>1, <1>2, <1>4 DEF Said
<1>6. Turn(h, t, u, x)
  BY <1>1, <1>2, <1>3, <1>5 DEF Turn
<1> QED
  BY <1>1, <1>6 DEF Answer

LEMMA SynsentCases ==
  ASSUME NEW t, NEW s, NEW isn, NEW cwnd, NEW u, u = Synsent(t, s, isn, cwnd)
  PROVE  SynsentArms(t, s, isn, cwnd, u)
  BY DEF Synsent, OursIs, Asked, SynsentArms

\* A connection that is refused
LEMMA RefusedIs ==
  ASSUME NEW h, NEW t, BlockOK(h, t), t.state = "SYNSENT", t.out = <<>>, NEW F, NEW z, NEW x,
         NEW u, u = [Reset(t) EXCEPT !.state = "CLOSED", !.disc = TRUE]
  PROVE  Answer(h, t, u, x, F, z)
<1>0. IsBlock(t) /\ t.sock
  BY DEF BlockOK, StateOK, FinSent
<1> PICK v : v = [Reset(t) EXCEPT !.state = "CLOSED"]
  OBVIOUS
<1>1. /\ IsBlock(v) /\ v.state = "CLOSED" /\ ~v.timer /\ ~v.del /\ ~v.delack /\ v.err
      /\ v.rcvq = <<>> /\ v.sndq = <<>> /\ v.out = t.out /\ v.sock = t.sock /\ v.una = t.una
      /\ v.read = t.read /\ (t.sock => v.wake) /\ v.fatal = t.fatal
  BY <1>0, ResetIs
<1>2. u = [v EXCEPT !.disc = TRUE]
  OBVIOUS
<1>3. /\ IsBlock(u) /\ u.state = "CLOSED" /\ ~u.timer /\ ~u.del
      /\ u.rcvq = <<>> /\ u.out = v.out /\ u.sock = v.sock /\ u.una = v.una
      /\ u.wake = v.wake
  BY <1>1, <1>2 DEF IsBlock, Fields
<1>4. BlockOK(h, u)
  BY <1>0, <1>1, <1>3, DeadOK
<1>5. u.out = <<>> /\ u.sock = t.sock /\ u.una = t.una /\ u.wake
  BY <1>0, <1>1, <1>3
<1>6. AllRst(u)
  BY <1>5 DEF AllRst
<1>7. ~Live(u) /\ ~Synced(u)
  BY <1>3 DEF Live, Synced
<1>8. Turn(h, t, u, x)
  BY <1>3, <1>4, <1>5, <1>6, <1>7 DEF Turn, Said, Sleep
<1> QED
  BY <1>7, <1>8 DEF Answer, RcvEnd

\* tcp_input() of a connection that was asked for
LEMMA SynsentIs ==
  ASSUME NEW h \in Host, NEW t, BlockOK(h, t), t.state = "SYNSENT", t.out = <<>>,
         NEW i \in Nat, i = Isn[Peer(h)], NEW F \in Nat, NEW z, NEW s \in Segment,
         Has(s, "SYN") /\ ~Has(s, "RST") => SynSeg(s, i, F, z),
         NEW cwnd \in Int, NEW u, u = Synsent(t, s, Isn[h], cwnd),
         NEW x, Has(s, "RST") \/ x = s.ack
  PROVE  Answer(h, t, u, x, F, z)
<1>1. /\ IsBlock(t) /\ SndOK(h, t) /\ TimerOK(t) /\ Live(t) /\ ~Synced(t) /\ t.una = Isn[h]
  BY DEF BlockOK, Live, Synced, StateOK
<1>0. SynsentArms(t, s, Isn[h], cwnd, u)
  BY SynsentCases
<1>2. RcvEnd(t, F, z)
  BY <1>1 DEF RcvEnd
<1>3. CASE u = SndRst(t, s)
  <2>1. Steps(h, t, u) /\ u.ostate = t.ostate /\ u.timer = t.timer
    BY <1>1, <1>3, SndRstSteps
  <2>2. TimerOK(u)
    BY <2>1, <1>1, TimerSame DEF Steps, Untouched
  <2>3. Turn(h, t, u, x) /\ RcvEnd(u, F, z)
    BY <1>1, <1>2, <2>1, <2>2, StepsTurn
  <2> QED
    BY <2>3 DEF Answer
<1>4. CASE u = t
  BY <1>1, <1>2, <1>4, StandStill
<1>5. CASE u = [Reset(t) EXCEPT !.state = "CLOSED", !.disc = TRUE]
  BY <1>5, RefusedIs
<1>6. ASSUME Has(s, "SYN"), ~Has(s, "RST"), OursIs(t, s, Isn[h]) PROVE Answer(h, t, u, x, F, z)
  <2>1. SynSeg(s, i, F, z) /\ s.seq = i /\ Has(s, "ACK")
    BY <1>6 DEF SynSeg
  <2>2. x \in Int /\ s.ack = x /\ t.una < x /\ x <= t.max
    BY <1>1, <1>6, SegIs DEF OursIs
  <2> PICK o \in Int : o = i + 1
    OBVIOUS
  <2> PICK g : g = FALSE
    OBVIOUS
  <2> PICK p : p = Welcome(t, i, o, s, g, cwnd)
    OBVIOUS
  <2> PICK b : b = Asked(t, i, o)
    OBVIOUS
  <2> PICK a : a = Ack(b, s, g, cwnd)
    OBVIOUS
  <2>3. Joining(h, t, s, o, F, x, p)
    BY <1>6, <2>1, <2>2, JoiningIs
  <2>4. p = Opened(a, s)
    BY Zenon DEF Welcome
  <2>5. Isn[h] < a.una
    BY <1>1, AskedIs, <2>2, <2>1, AckIs DEF FinSent, BlockOK
  <2>6. u = SndAckOnly(Rcvdata(p, s))
    BY <1>0, <1>6, <2>1, <2>4, <2>5 DEF SynsentArms, SynAcked
  <2>7. Joins(h, t, s, i, F, z, x, u)
    BY <1>6, <2>1, <2>3, <2>6, JoinsIs
  <2> QED
    BY <2>7, JoinsAnswer
<1>7. Has(s, "SYN") /\ ~Has(s, "RST") => Has(s, "ACK")
  BY DEF SynSeg
<1>8. OursIs(t, s, Isn[h]) => Has(s, "ACK")
  BY DEF OursIs
<1>9. /\ Has(s, "ACK") /\ ~OursIs(t, s, Isn[h]) => u = SndRst(t, s)
      /\ OursIs(t, s, Isn[h]) /\ Has(s, "RST") => u = [Reset(t) EXCEPT !.state = "CLOSED", !.disc = TRUE]
      /\ ~Has(s, "ACK") /\ ~(Has(s, "SYN") /\ ~Has(s, "RST")) => u = t
      /\ OursIs(t, s, Isn[h]) /\ ~Has(s, "SYN") /\ ~Has(s, "RST") => u = t
  BY <1>0, Zenon DEF SynsentArms
<1> QED
  BY <1>3, <1>4, <1>5, <1>6, <1>7, <1>8, <1>9, Zenon

\* A segment that comes in for a connection
LEMMA LiveInput ==
  ASSUME NEW h \in Host, NEW t, BlockOK(h, t), Synced(t), t.out = <<>>, NEW F \in Nat, NEW z,
         RcvEnd(t, F, z), t.sock => 0 <= t.read, NEW s \in Segment, Valid(t, s),
         ~Has(s, "RST") => NetSeg(t.rnxt, s, F) /\ (Has(s, "FIN") => z),
         NEW cwnd \in Int, NEW u, u = Handle(h, t, Trimmed(t, s), cwnd),
         NEW x, Has(s, "RST") \/ x = s.ack
  PROVE  Answer(h, t, u, x, F, z)
  BY TrimmedIs, AckIs, ValidComes, DispatchIs DEF BlockOK, Live, Synced, Handle, Trim, Linked, Inbound,
     Given, Bad

\* A segment for a socket that listens, or for no socket
LEMMA NoneInput ==
  ASSUME NEW h \in Host, NEW t, t = tcb[h], BlockOK(h, t), t.state = "none", t.out = <<>>,
         NEW s \in Segment,
         ~Has(s, "RST") /\ Has(s, "SYN") /\ ~Has(s, "ACK") => s.flags = {"SYN"},
         ~Opens(h, s), NEW cwnd, NEW u, u = Input(h, s, cwnd), NEW x, NEW F, NEW z
  PROVE  Answer(h, t, u, x, F, z)
  BY NoneIs DEF Input, Opens, Listen

\* tcp_input(), but for the SYN that opens the server's side
LEMMA InputTurn ==
  ASSUME NEW h \in Host, NEW t, t = tcb[h], BlockOK(h, t), t.out = <<>>, NEW F \in Nat, NEW z,
         RcvEnd(t, F, z), Synced(t) /\ t.sock => 0 <= t.read, NEW s, Arrives(h, t, s, F, z),
         ~Opens(h, s), NEW cwnd \in Int, NEW u, u = Input(h, s, cwnd),
         NEW x, Has(s, "RST") \/ x = s.ack
  PROVE  Answer(h, t, u, x, F, z)
<1>0. s \in Segment /\ IsBlock(t)
  BY DEF Arrives, BlockOK
<1>1. CASE t.state = "none"
  BY <1>0, <1>1, NoneInput DEF Arrives
<1>2. t.state # "none" => u = IF Valid(t, s) THEN Handle(h, t, Trimmed(t, s), cwnd) ELSE SndAck(t, s)
  BY Zenon DEF Input
<1>3. CASE t.state = "CLOSED"
  BY <1>3, <1>0, TrimmedIs, <1>2, DeadRst DEF Synced, Live, Valid, Handle
<1>4. CASE t.state = "SYNSENT"
  BY <1>4, <1>0, TrimmedIs, <1>2, Params, SynsentIs DEF Synced, Valid, Handle, Arrives, Peer, Host
<1>5. CASE Synced(t) /\ Valid(t, s)
  BY <1>2, <1>5, <1>0, LiveInput DEF Synced, Arrives
<1>6. CASE Synced(t) /\ ~Valid(t, s)
  BY <1>2, <1>6, NotValidIs DEF Synced, Live
<1> QED
  BY <1>1, <1>3, <1>4, <1>5, <1>6 DEF Synced

\* Nothing was said yet.
LEMMA Silent ==
  ASSUME NEW u, u.out = <<>>
  PROVE  AllRst(u) /\ \A h, b : Outs(h, b, u)
  BY DEF AllRst, Outs

LEMMA FlaggedIs ==
  ASSUME NEW t, IsBlock(t), NEW a \in BOOLEAN, NEW b \in BOOLEAN, NEW r, r = Flagged(t, a, b)
  PROVE  /\ IsBlock(r) /\ r.timer = a /\ r.del = b /\ r.ostate = t.ostate /\ r.una = t.una
         /\ r.nxt = t.nxt /\ r.max = t.max /\ r.write = t.write /\ r.sndq = t.sndq
         /\ r.state = t.state /\ r.rnxt = t.rnxt /\ r.read = t.read /\ r.fin = t.fin
         /\ r.rcvq = t.rcvq /\ r.cur = t.cur /\ r.sock = t.sock /\ r.disc = t.disc /\ r.err = t.err
         /\ r.wake = t.wake /\ r.out = t.out /\ r.delack = t.delack
BY DEF IsBlock, Fields, Flagged

LEMMA SndOKSame ==
  ASSUME NEW h, NEW p, NEW u, SndOK(h, p), u.state = p.state,
         u.una = p.una, u.nxt = p.nxt, u.max = p.max, u.write = p.write, u.sndq = p.sndq
  PROVE  SndAlike(h, p, u)
  BY DEF FinSent, Used, Connected, Canwrite, SndOK, SynGone, LastByte, SndAlike

LEMMA TimedOutIs ==
  ASSUME NEW h \in Host, NEW t, IsBlock(t), SndOK(h, t), t.una < t.write, t.ostate # "IDLE",
         NEW cwnd \in Int, NEW g, NEW u, u = Event(t, "TIMEOUT", cwnd, g)
  PROVE  TimedOut(h, t, u)
BY TimeoutEvent DEF TimedOut

LEMMA TimeoutTurn ==
  ASSUME NEW h \in Host, NEW t, BlockOK(h, t), t.out = <<>>, t.timer, NEW F, NEW z, RcvEnd(t, F, z),
         NEW cwnd \in Int, NEW g, NEW u, u = Event(Expired(t), "TIMEOUT", cwnd, g), NEW x
  PROVE  Answer(h, t, u, x, F, z) /\ (Synced(u) => Synced(t))
<1>1. /\ IsBlock(t) /\ SndOK(h, t) /\ TimerOK(t) /\ Live(t) /\ SynGone(t)
  BY DEF BlockOK, StateOK
<1>2. t.una < t.write /\ t.ostate # "IDLE"
  <2>1. t.una < t.write
    BY <1>1, Zenon DEF TimerOK
  <2>2. t.una \in Int /\ t.write \in Int
    BY <1>1 DEF IsBlock
  <2>3. ~(t.write <= t.una)
    BY <2>1, <2>2
  <2> QED
    BY <1>1, <2>1, <2>3, Zenon DEF TimerOK
<1> PICK f : f = FALSE
  OBVIOUS
<1> PICK r : r = Flagged(t, f, t.del)
  OBVIOUS
<1>3. Expired(t) = r
  BY <1>1 DEF Flagged, Expired, IsBlock, Fields
<1>4. /\ IsBlock(r) /\ r.ostate = t.ostate /\ r.una = t.una
      /\ r.nxt = t.nxt /\ r.max = t.max /\ r.write = t.write /\ r.sndq = t.sndq
      /\ r.state = t.state /\ r.rnxt = t.rnxt /\ r.read = t.read /\ r.fin = t.fin
      /\ r.rcvq = t.rcvq /\ r.cur = t.cur /\ r.sock = t.sock /\ r.disc = t.disc /\ r.err = t.err
      /\ r.wake = t.wake /\ r.out = t.out /\ r.del = t.del
  <2>1. t.del \in BOOLEAN /\ f \in BOOLEAN
    BY <1>1 DEF IsBlock
  <2> QED
    BY <1>1, <2>1, FlaggedIs
<1>5. /\ SndOK(h, r) /\ SynGone(r) /\ Canwrite(r) = Canwrite(t)
      /\ FinSent(r) <=> FinSent(t)
      /\ LastByte(r) = LastByte(t)
  BY <1>1, <1>4, SndOKSame DEF SndAlike
<1>6. u = Event(r, "TIMEOUT", cwnd, g)
  BY <1>3, Zenon
<1>7. r.una < r.write /\ r.ostate # "IDLE"
  BY <1>2, <1>4
<1>8. \/ Steps(h, r, u) /\ u.timer /\ u.ostate # "IDLE"
      \/ \E v : Steps(h, r, v) /\ u = Abort(v)
  BY <1>4, <1>5, <1>6, <1>7, TimedOutIs DEF TimedOut
<1>9. ASSUME NEW v, Steps(h, r, v)
      PROVE  /\ Steps(h, t, v) /\ Outs(h, v, v) /\ IsBlock(v) /\ v.sock = t.sock /\ v.una = t.una
             /\ (FinSent(v) <=> FinSent(t)) /\ LastByte(v) = LastByte(t) /\ v.write = t.write
  <2>1. Untouched(t, r)
    BY <1>4 DEF Untouched
  <2>2. /\ IsBlock(v) /\ SndOK(h, v) /\ Untouched(r, v) /\ v.una = r.una /\ r.max <= v.max
        /\ (SynGone(r) => SynGone(v)) /\ WakeOK(r, v) /\ (Outs(h, r, r) => Outs(h, r, v))
    BY <1>9 DEF Steps
  <2>3. Untouched(t, v)
    BY <2>1, <2>2, UntouchedTrans
  <2>4. WakeOK(t, v)
    BY <1>4, <1>5, <2>2 DEF WakeOK
  <2>5. Outs(h, r, r)
    BY <1>4, Silent
  <2>6. Outs(h, t, v)
    <3>1. Outs(h, r, v)
      BY <2>2, <2>5
    <3>2. IsBlock(t) /\ t.rnxt = r.rnxt /\ t.una = r.una /\ r.rnxt \in Int /\ r.una \in Int
      BY <1>1, <1>4 DEF IsBlock
    <3>3. r.rnxt <= t.rnxt /\ r.una <= t.una
      BY <3>2
    <3>4. LastByte(t) = LastByte(r) /\ (FinSent(t) <=> FinSent(r))
      BY <1>5
    <3> QED
      BY <1>4, <2>2, <3>1, <3>2, <3>3, <3>4, OutsGrow
  <2>7. t.max <= v.max /\ v.una = t.una /\ SynGone(v)
    BY <1>4, <1>5, <2>2
  <2>8. Steps(h, t, v)
    BY <2>2, <2>3, <2>4, <2>6, <2>7 DEF Steps
  <2>9. Outs(h, v, v)
    BY <1>9, <2>5, OutsSelf
  <2>10. v.sock = t.sock /\ v.state = t.state /\ v.write = t.write
    BY <2>3 DEF Untouched
  <2>11. FinSent(v) <=> FinSent(t)
    BY <2>10 DEF FinSent
  <2>12. LastByte(v) = LastByte(t)
    BY <2>10, <2>11 DEF LastByte
  <2> QED
    BY <2>2, <2>7, <2>8, <2>9, <2>10, <2>11, <2>12
<1>10. CASE Steps(h, r, u) /\ u.timer /\ u.ostate # "IDLE"
  <2>1. Steps(h, t, u) /\ u.una = t.una /\ u.write = t.write /\ IsBlock(u)
    BY <1>9, <1>10
  <2>2. TimerOK(u)
    <3>1. u.una \in Int /\ u.write \in Int /\ u.una < u.write
      BY <1>2, <2>1 DEF IsBlock
    <3> QED
      BY <1>10, <3>1 DEF TimerOK
  <2>3. Synced(u) => Synced(t)
    BY <2>1 DEF Steps, Untouched, Synced
  <2> QED
    BY <1>1, <2>1, <2>2, <2>3, StepsTurn DEF Answer
<1>11. CASE \E v : Steps(h, r, v) /\ u = Abort(v)
  BY <1>11, <1>9, AbortIs, <1>1, GoneTurn DEF Sleep, Gone, Synced, Answer, RcvEnd
<1> QED
  BY <1>8, <1>10, <1>11

\* A block that is deleted at the end of its time
LEMMA DeletemeTurn ==
  ASSUME NEW h \in Host, NEW t, BlockOK(h, t), t.out = <<>>, t.del, NEW F, NEW z,
         NEW u, u = Delete([t EXCEPT !.del = FALSE]), NEW x
  PROVE  Answer(h, t, u, x, F, z)
<1>1. IsBlock(t) /\ StateOK(h, t) /\ RcvOK(t)
  BY DEF BlockOK
<1> PICK f : f = FALSE
  OBVIOUS
<1> PICK r : r = Flagged(t, t.timer, f)
  OBVIOUS
<1>2. [t EXCEPT !.del = FALSE] = r
  BY <1>1 DEF Flagged, IsBlock, Fields
<1>3. u = Delete(r)
  BY <1>2, Zenon
<1>4. /\ IsBlock(r) /\ r.timer = t.timer /\ r.una = t.una /\ r.del = f
      /\ r.state = t.state /\ r.read = t.read /\ r.rcvq = t.rcvq /\ r.sock = t.sock /\ r.err = t.err
      /\ r.out = t.out
  <2>1. t.timer \in BOOLEAN /\ f \in BOOLEAN
    BY <1>1 DEF IsBlock
  <2> QED
    BY <1>1, <2>1, FlaggedIs
<1>5. Placed(t.rcvq) /\ Staggered(t.rcvq)
  BY <1>1 DEF RcvOK
<1>6. AllRst(r)
  BY <1>4, Silent
<1>7. CASE t.state \in {"FINWAIT2", "TIMEWAIT"}
  <2>1. Live(t) /\ FinSent(t) /\ TimerOK(t)
    BY <1>7 DEF BlockOK, Live, FinSent
  <2>2. ~t.timer
    BY <1>1, <1>7, <2>1, SMTT(20) DEF StateOK, TimerOK, IsBlock
  <2>3. ~r.timer
    BY <1>4, <2>2
  <2> QED
    BY <1>1, <1>3, <1>4, <1>5, <1>6, <2>1, <2>3, DeleteTurn
<1>8. CASE t.state = "CLOSED"
  <2>1. ~Live(t) /\ t.sock /\ ~t.timer
    BY <1>1, <1>8 DEF Live, StateOK, FinSent
  <2>2. ~r.timer /\ r.sock
    BY <1>4, <2>1
  <2>3. Gone(h, r, u) /\ u.rcvq = r.rcvq /\ u.read = r.read /\ u.err = r.err /\ u.state = "CLOSED"
    BY <1>3, <1>4, <1>5, <2>2, DeleteIs
  <2>4. BlockOK(h, u) /\ u.sock = r.sock /\ u.out = r.out /\ (u.una = 0 \/ u.una = r.una)
    BY <2>3 DEF Gone
  <2>5. AllRst(u)
    BY <1>4, <2>4, Silent
  <2>6. ~Live(u)
    BY <2>3 DEF Live
  <2>7. /\ u.una = 0 \/ u.una = t.una
        /\ u.sock = t.sock /\ u.state = t.state /\ u.rcvq = t.rcvq /\ u.read = t.read /\ u.err = t.err
    BY <1>4, <1>8, <2>3, <2>4
  <2> QED
    BY <2>1, <2>4, <2>5, <2>6, <2>7, DeadAnswer
<1> QED
  BY <1>1, <1>7, <1>8 DEF StateOK

\* An acknowledgement that was put off
LEMMA DodelackTurn ==
  ASSUME NEW h \in Host, NEW t, BlockOK(h, t), t.out = <<>>, t.delack, NEW F, NEW z, RcvEnd(t, F, z),
         NEW u, u = SndAckOnly(t), NEW x
  PROVE  Answer(h, t, u, x, F, z)
<1>1. IsBlock(t) /\ StateOK(h, t) /\ RcvOK(t) /\ t.state # "none"
  BY DEF BlockOK, StateOK
<1>2. CASE Live(t)
  BY <1>2, <1>1, AckOnlySteps, TimerSame, StepsTurn DEF BlockOK, Steps, Untouched, Answer
<1>3. CASE ~Live(t)
  <2>0. t.state = "CLOSED" /\ t.sock /\ ~t.timer
    BY <1>1, <1>3 DEF Live, StateOK, FinSent
  <2>1. /\ IsBlock(u) /\ Unmoved(t, u) /\ Len(u.out) = Len(t.out) + 1
        /\ u.out[Len(t.out) + 1].data = <<>> /\ u.out[Len(t.out) + 1].flags = {"ACK"}
        /\ Outs(h, t, t) => Outs(h, t, u)
    <3>1. t.nxt \in Int
      BY <1>1 DEF IsBlock
    <3>2. u = Acking(t, t.nxt, {"ACK"}, <<>>)
      BY Zenon DEF SndAckOnly
    <3> QED
      BY <1>1, <3>1, <3>2, PlainIs, ZenonT(40)
  <2>2. AllPlain(u)
    BY <2>1 DEF AllPlain
  <2>3. Outs(h, t, u)
    BY <2>1, Silent
  <2>4. /\ u.state = t.state /\ u.una = t.una /\ u.timer = t.timer /\ u.sock = t.sock
        /\ u.err = t.err /\ u.rcvq = t.rcvq /\ u.read = t.read /\ u.del = t.del
    BY <2>1 DEF Unmoved, Untouched
  <2>5. ~Synced(u) /\ ~Live(u) /\ ~Connected(u)
    BY <2>0, <2>4 DEF Synced, Live, Connected
  <2>6. BlockOK(h, u)
    BY <1>1, <2>4, <2>5, <2>0, <2>1 DEF RcvOK, StateOK, BlockOK
  <2>7. Sleep(t, u)
    BY <2>4, ReadableSame, <2>5 DEF Canwrite, Sleep
  <2>8. Said(h, t, u, x)
    BY <1>1, <2>0, <2>4, <2>5, <2>2, <2>3 DEF Speaks, Said
  <2>9. Turn(h, t, u, x)
    BY <2>0, <2>4, <2>5, <2>6, <2>7, <2>8 DEF Turn
  <2> QED
    BY <2>5, <2>9 DEF Answer, RcvEnd
<1> QED
  BY <1>2, <1>3

\* The windows are not touched by what comes.
LEMMA RcvdataWnd ==
  ASSUME NEW t, IsBlock(t), NEW s, NEW v, v = Rcvdata(t, s),
         NEW u, u = RcvBlock(t, s), IsBlock(u)
  PROVE  v.wnd = t.wnd /\ v.wndack = t.wndack
<1>1. u.wnd = t.wnd /\ u.wndack = t.wndack
  BY Zenon DEF RcvBlock, IsBlock, Fields
<1>2. SndAckOnly(u).wnd = u.wnd /\ SndAckOnly(u).wndack = u.wndack
  <2>1. u.nxt \in Int /\ <<>> \in Seq(Int) /\ {"ACK"} \in SUBSET {"SYN", "FIN", "ACK", "RST"}
    BY DEF IsBlock
  <2>2. Unmoved(u, Acking(u, u.nxt, {"ACK"}, <<>>))
    BY <2>1, AckingFields
  <2> QED
    BY <2>2, Zenon DEF SndAckOnly, Unmoved
<1>3. Delack(u).wnd = u.wnd /\ Delack(u).wndack = u.wndack
  BY <1>2 DEF IsBlock, Fields, Delack
<1>4. v = u \/ v = Delack(u) \/ v = SndAckOnly(u)
  BY RcvdataCases, Zenon
<1> QED
  BY <1>1, <1>2, <1>3, <1>4, Zenon

\* What a block said before it wrote more.
LEMMA OutsLonger ==
  ASSUME NEW h, NEW t, IsBlock(t), ~FinSent(t), NEW e, IsBlock(e), e.rnxt = t.rnxt, e.una = t.una,
         LastByte(t) <= LastByte(e), NEW u, IsBlock(u), Outs(h, t, u)
  PROVE  Outs(h, e, u)
<1>0. LastByte(t) \in Int /\ LastByte(e) \in Int
  <2>1. LastByte(t) \in Int
    BY DEF LastByte, IsBlock
  <2>2. e.write \in Int
    BY DEF IsBlock
  <2>3. LastByte(e) \in Int
    BY <2>2 DEF LastByte
  <2> QED
    BY <2>1, <2>3
<1> SUFFICES ASSUME NEW k \in 1..Len(u.out) PROVE OutSeg(h, e, u.out[k])
  BY Zenon DEF Outs
<1> PICK s : s = u.out[k]
  OBVIOUS
<1>1. s \in Segment /\ OutSeg(h, t, s)
  BY DEF IsBlock, Outs
<1>2. EndsAt(s) \in Int /\ LastByte(t) \in Int /\ LastByte(e) \in Int
  BY <1>1, SegIs, <1>0
<1>3. CASE Has(s, "RST")
  BY <1>3 DEF OutSeg
<1>4. CASE ~Has(s, "RST")
  <2>1. /\ s.ack <= t.rnxt
        /\ AtPlace(s) \/ (s.flags = {"ACK"} /\ Len(s.data) = 1 /\ s.seq + 2 <= t.una)
        /\ Has(s, "SYN") => s.seq = Isn[h] /\ s.flags = (IF h = "cl" THEN {"SYN"} ELSE {"SYN", "ACK"})
        /\ Has(s, "FIN") => EndsAt(s) = LastByte(t) /\ FinSent(t)
        /\ s.data # <<>> \/ Has(s, "SYN") => EndsAt(s) <= LastByte(t)
    BY <1>1, <1>4, Zenon DEF OutSeg
  <2>2. s.ack <= e.rnxt
    BY <2>1
  <2>3. AtPlace(s) \/ (s.flags = {"ACK"} /\ Len(s.data) = 1 /\ s.seq + 2 <= e.una)
    BY <2>1
  <2>4. ~Has(s, "FIN")
    BY <2>1
  <2>5. s.data # <<>> \/ Has(s, "SYN") => EndsAt(s) <= LastByte(e)
    <3> SUFFICES ASSUME s.data # <<>> \/ Has(s, "SYN") PROVE EndsAt(s) <= LastByte(e)
      OBVIOUS
    <3>1. EndsAt(s) <= LastByte(t)
      BY <2>1
    <3> HIDE DEF EndsAt, LastByte
    <3> QED
      BY <1>2, <3>1
  <2> QED
    BY <2>1, <2>2, <2>3, <2>4, <2>5, Zenon DEF OutSeg
<1> QED
  BY <1>3, <1>4

\* A new block
LEMMA BlockIs ==
  ASSUME NEW st \in {"CLOSED", "SYNRCVD"}, NEW n \in Int, NEW i \in Int, NEW o \in Int, o = i + 1,
         NEW b, b = Block(st, n, i)
  PROVE  /\ IsBlock(b) /\ b.state = st /\ b.ostate = "IDLE" /\ b.una = n /\ b.nxt = n /\ b.max = n
         /\ b.write = n /\ b.wnd = Mss /\ b.wndack = n /\ b.rnxt = i /\ b.read = o /\ b.fin = NoFin
         /\ b.sndq = <<>> /\ b.rcvq = <<>> /\ b.sock /\ ~b.timer /\ ~b.del /\ ~b.wake /\ b.out = <<>>
         /\ ~b.err
  BY Params DEF NoFin, Block, Fields, States, Ostates, IsBlock

LEMMA SynningIs ==
  ASSUME NEW h \in Host, NEW t, IsBlock(t), NEW n \in Nat, n = Isn[h], t.sndq = <<>>, t.una = n,
         t.nxt = n, t.max = n, t.write = n, t.wndack = n, t.wnd = Mss, t.ostate = "IDLE", ~t.timer,
         ~FinSent(t), NEW ack \in BOOLEAN, ack <=> h = "sv", NEW cwnd \in Int, Mss <= cwnd,
         Outs(h, t, t), NEW u, u = OutputSyn(t, ack, cwnd)
  PROVE  Synning(h, t, n, u)
<1>1. PICK e : /\ IsBlock(e) /\ Longer(t, e) /\ e.write = n + 1
               /\ Steps(h, e, u) /\ TimerOK(u) /\ SynGone(u)
  BY OutputSynIs
<1>2. /\ e.state = t.state /\ e.una = t.una /\ e.rnxt = t.rnxt /\ e.read = t.read /\ e.fin = t.fin
      /\ e.rcvq = t.rcvq /\ e.sock = t.sock /\ e.del = t.del /\ e.err = t.err /\ e.out = t.out
  BY <1>1 DEF Longer
<1>3. /\ IsBlock(u) /\ SndOK(h, u) /\ Untouched(e, u) /\ u.una = e.una
      /\ Outs(h, e, e) => Outs(h, e, u)
  BY <1>1 DEF Steps
<1>4. ~FinSent(e)
  BY <1>2 DEF FinSent
<1>5. Outs(h, e, e)
  <2>1. LastByte(t) = n /\ LastByte(e) = n + 1
    BY <1>1, <1>4 DEF LastByte
  <2>2. LastByte(t) <= LastByte(e)
    BY <2>1
  <2>3. Outs(h, e, t)
    BY <1>1, <1>2, <2>2, OutsLonger
  <2> QED
    BY <1>2, <2>3, Zenon DEF Outs
<1>6. Outs(h, u, u)
  BY <1>3, <1>5, OutsAlong
<1>7. /\ u.state = e.state /\ u.write = e.write /\ u.rnxt = e.rnxt /\ u.read = e.read /\ u.fin = e.fin
      /\ u.rcvq = e.rcvq /\ u.sock = e.sock /\ u.del = e.del /\ u.err = e.err
  BY <1>3 DEF Untouched
<1>8. u.una = n /\ u.write = n + 1
  BY <1>1, <1>2, <1>3, <1>7
<1>9. /\ u.state = t.state /\ u.rnxt = t.rnxt /\ u.read = t.read /\ u.fin = t.fin
      /\ u.rcvq = t.rcvq /\ u.sock = t.sock /\ u.del = t.del /\ u.err = t.err
  BY <1>2, <1>7, Zenon
<1> QED
  BY <1>1, <1>3, <1>6, <1>8, <1>9, Zenon DEF Synning

LEMMA OpeningIs ==
  ASSUME NEW s \in Segment, s.flags = {"SYN"}, AtPlace(s), NEW i \in Nat, s.seq = i,
         NEW o \in Int, o = i + 1, NEW F \in Nat, NEW z, EndsAt(s) <= F, NEW n \in Nat, n = Isn["sv"],
         NEW cwnd \in Int, Mss <= cwnd, NEW b, b = Block("SYNRCVD", n, i),
         NEW v, v = Rcvdata(b, s), NEW u, u = SynAck(v, cwnd)
  PROVE  Opening(u, n, o, F, z)
<1>0. Has(s, "SYN") /\ ~Has(s, "FIN") /\ One(Has(s, "SYN")) = 1
  BY DEF Has, One
<1>1. /\ IsBlock(b) /\ b.state = "SYNRCVD" /\ b.ostate = "IDLE" /\ b.una = n /\ b.nxt = n /\ b.max = n
      /\ b.write = n /\ b.wnd = Mss /\ b.wndack = n /\ b.rnxt = i /\ b.read = o /\ b.fin = NoFin
      /\ b.sndq = <<>> /\ b.rcvq = <<>> /\ b.sock /\ ~b.timer /\ ~b.del /\ ~b.wake /\ b.out = <<>>
  BY BlockIs
<1>2. Ready(b, o)
  BY <1>1 DEF Placed, Staggered, Kept, Ready
<1>3. EndsAt(s) \in Int /\ o <= EndsAt(s)
  <2>1. PICK l \in Nat : l = Len(s.data)
    BY SegIs
  <2>2. EndsAt(s) = i + 1 + l
    BY <1>0, <2>1, SegIs
  <2> QED
    BY <2>2
<1>4. Comes(s, o, F)
  <2> HIDE DEF EndsAt
  <2> QED
    BY <1>0, <1>3 DEF Comes
<1>5. /\ FinSeen(b) => b.fin = F
      /\ \A j \in 1..Len(b.rcvq) : NxtOf(b.rcvq[j]) <= F
  BY <1>1 DEF FinSeen
<1>6. o = b.rnxt + One(Has(s, "SYN")) /\ 0 <= o
  BY <1>0, <1>1
<1>7. Outs("sv", b, b)
  BY <1>1, Silent
<1>8. Rcvd(b, s, o, F, v) /\ Outs("sv", v, v)
  BY <1>1, <1>2, <1>4, <1>5, <1>6, <1>7, RcvdataIs
<1>9. /\ IsBlock(v) /\ SndSame(b, v) /\ o <= v.rnxt /\ Ready(v, v.rnxt)
      /\ \A j \in 1..Len(v.rcvq) : NxtOf(v.rcvq[j]) <= F
      /\ FinSeen(v) => v.fin = F /\ (FinSeen(b) \/ Has(s, "FIN"))
  BY <1>8 DEF Rcvd
<1>10. v.wnd = Mss /\ v.wndack = n
  BY <1>1, <1>2, <1>4, <1>5, <1>6, RcvBlockIs, RcvdataWnd DEF Rcvd
<1>11. /\ v.sndq = <<>> /\ v.una = n /\ v.nxt = n /\ v.max = n /\ v.write = n /\ v.ostate = "IDLE"
       /\ ~v.timer /\ v.state = "SYNRCVD" /\ v.read = o /\ v.sock /\ ~v.del
  BY <1>1, <1>9 DEF SndSame
<1>12. ~FinSent(v)
  BY <1>11 DEF FinSent
<1>13. Synning("sv", v, n, u)
  BY <1>8, <1>9, <1>10, <1>11, <1>12, SynningIs DEF Host, SynAck
<1>14. /\ IsBlock(u) /\ SndOK("sv", u) /\ SynGone(u) /\ TimerOK(u) /\ Outs("sv", u, u)
       /\ u.una = n /\ u.write = n + 1 /\ u.state = v.state /\ u.rnxt = v.rnxt /\ u.read = v.read
       /\ u.rcvq = v.rcvq /\ u.fin = v.fin /\ u.sock = v.sock /\ u.del = v.del
  BY <1>13 DEF Synning
<1>15. u.state = "SYNRCVD" /\ u.sock /\ ~u.del /\ u.read = o /\ o <= u.rnxt /\ u.rnxt \in Int
  <2>1. v.rnxt \in Int /\ o <= v.rnxt /\ u.rnxt = v.rnxt
    BY <1>9, <1>14 DEF IsBlock
  <2>2. u.state = "SYNRCVD" /\ u.sock /\ ~u.del /\ u.read = o
    BY <1>11, <1>14, Zenon
  <2> QED
    BY <2>1, <2>2, Zenon
<1>16. StateOK("sv", u)
  BY <1>15 DEF StateOK, Live
<1>17. RcvOK(u)
  <2>0. 0 <= o /\ o <= u.rnxt /\ u.rnxt \in Int
    BY <1>6, <1>15, Zenon
  <2>1. 0 <= u.rnxt
    BY <2>0
  <2>2. Ready(u, u.rnxt)
    <3>1. v.sock /\ u.sock
      BY <1>11, <1>15
    <3>2. u.rcvq = v.rcvq /\ u.read = v.read /\ u.fin = v.fin /\ u.rnxt = v.rnxt
      BY <1>14
    <3>3. \A q : Kept(u, q) <=> Kept(v, q)
      BY <3>2, ZenonT(40) DEF Kept
    <3>4. /\ Placed(v.rcvq) /\ Staggered(v.rcvq)
          /\ v.read <= v.rnxt /\ ~Kept(v, v.rnxt)
          /\ 0 <= v.read /\ \A q \in v.read..(v.rnxt - 1) : Kept(v, q) \/ q = v.fin
      BY <1>9, <3>1, Zenon DEF Ready
    <3>5. /\ Placed(u.rcvq) /\ Staggered(u.rcvq)
          /\ u.read <= u.rnxt /\ ~Kept(u, u.rnxt)
          /\ 0 <= u.read /\ \A q \in u.read..(u.rnxt - 1) : Kept(u, q) \/ q = u.fin
      BY <3>2, <3>3, <3>4, Zenon
    <3> QED
      BY <3>5, Zenon DEF Ready
  <2> QED
    BY <2>1, <2>2 DEF RcvOK, Ready
<1>18. BlockOK("sv", u)
  BY <1>14, <1>16, <1>17 DEF BlockOK
<1>19. RcvEnd(u, F, z)
  <2>1. ~FinSeen(v)
    BY <1>0, <1>1, <1>9 DEF FinSeen
  <2>2. ~FinSeen(u)
    BY <1>14, <2>1 DEF FinSeen
  <2>3. u.read <= F
    <3> HIDE DEF EndsAt
    <3> QED
      BY <1>3, <1>15
  <2>4. \A j \in 1..Len(u.rcvq) : NxtOf(u.rcvq[j]) <= F
    BY <1>9, <1>14
  <2> QED
    BY <2>2, <2>3, <2>4 DEF RcvEnd
<1> QED
  BY <1>14, <1>15, <1>18, <1>19 DEF Opening

LEMMA AskingIs ==
  ASSUME NEW n \in Nat, n = Isn["cl"], NEW cwnd \in Int, Mss <= cwnd, NEW i \in Int, i = 0,
         NEW b, b = Block("CLOSED", n, i),
         NEW v, v = Syn(b, cwnd), NEW u, u = Asks(v)
  PROVE  Asking(u, n)
<1> PICK o \in Int : o = i + 1
  OBVIOUS
<1>1. /\ IsBlock(b) /\ b.state = "CLOSED" /\ b.ostate = "IDLE" /\ b.una = n /\ b.nxt = n /\ b.max = n
      /\ b.write = n /\ b.wnd = Mss /\ b.wndack = n /\ b.rnxt = i /\ b.fin = NoFin
      /\ b.sndq = <<>> /\ b.rcvq = <<>> /\ b.sock /\ ~b.timer /\ ~b.del /\ ~b.wake /\ b.out = <<>>
      /\ ~b.err
  BY BlockIs
<1>2. Outs("cl", b, b) /\ ~FinSent(b)
  BY <1>1, Silent DEF FinSent
<1>3. Synning("cl", b, n, v)
  BY <1>1, <1>2, SynningIs DEF Host, Syn
<1>4. /\ IsBlock(v) /\ SndOK("cl", v) /\ SynGone(v) /\ TimerOK(v) /\ Outs("cl", v, v)
      /\ v.una = n /\ v.write = n + 1 /\ v.state = b.state /\ v.rnxt = b.rnxt /\ v.read = b.read
      /\ v.rcvq = b.rcvq /\ v.fin = b.fin /\ v.sock = b.sock /\ v.del = b.del /\ v.err = b.err
  BY <1>3 DEF Synning
<1>5. Restated(v, u) /\ u.state = "SYNSENT" /\ u.timer = v.timer /\ u.del = v.del
  BY <1>4, StateOnly DEF States, Asks
<1>6. /\ IsBlock(u)
      /\ u.ostate = v.ostate /\ u.una = v.una /\ u.nxt = v.nxt /\ u.max = v.max
      /\ u.write = v.write /\ u.sndq = v.sndq
      /\ u.sock = v.sock /\ u.err = v.err /\ u.read = v.read /\ u.rnxt = v.rnxt
      /\ u.rcvq = v.rcvq /\ u.fin = v.fin /\ u.out = v.out
  BY <1>5 DEF Restated
<1>7. ~FinSent(u) /\ ~FinSent(v)
  BY <1>1, <1>4, <1>5 DEF FinSent
<1>8. SndOK("cl", u) /\ SynGone(u) /\ TimerOK(u)
  BY <1>4, <1>5, <1>6, <1>7, SndSameState
<1>9. u.sock /\ ~u.del /\ u.rnxt = 0 /\ u.fin = NoFin /\ u.rcvq = <<>> /\ u.una = n /\ u.write = n + 1
      /\ ~u.err
  BY <1>1, <1>4, <1>5, <1>6
<1>10. StateOK("cl", u)
  BY <1>5, <1>9 DEF StateOK, Live
<1>11. RcvOK(u)
  BY <1>5, <1>9 DEF RcvOK, Placed, Staggered, Synced
<1>12. BlockOK("cl", u)
  BY <1>6, <1>8, <1>10, <1>11 DEF BlockOK
<1>13. Outs("cl", u, u)
  <2>1. Outs("cl", v, u)
    BY <1>4, <1>6, ZenonT(40) DEF Outs
  <2>2. v.rnxt <= u.rnxt /\ v.una <= u.una
    <3>1. v.rnxt \in Int /\ v.una \in Int
      BY <1>4 DEF IsBlock
    <3> QED
      BY <1>6, <3>1
  <2>3. LastByte(u) = LastByte(v) /\ (FinSent(u) <=> FinSent(v))
    BY <1>6, <1>7 DEF LastByte
  <2> QED
    BY <1>4, <1>6, <2>1, <2>2, <2>3, OutsGrow
<1> QED
  BY <1>5, <1>9, <1>12, <1>13 DEF Asking

LEMMA CleanIs ==
  ASSUME NEW u, IsBlock(u), NEW c, c = Clean(u)
  PROVE  Cleaned(u, c)
  BY DEF Clean, IsBlock, Fields, Cleaned

\* It is the same for all that matters.
LEMMA CleanState ==
  ASSUME NEW u, NEW c, Cleaned(u, c)
  PROVE  /\ Synced(c) <=> Synced(u)
         /\ Live(c) <=> Live(u)
         /\ FinSent(c) <=> FinSent(u)
         /\ FinSeen(c) <=> FinSeen(u)
         /\ Finished(c) <=> Finished(u)
         /\ Connected(c) <=> Connected(u)
         /\ Connecting(c) <=> Connecting(u)
         /\ \A x : Kept(c, x) <=> Kept(u, x)
         /\ Readable(c) = Readable(u)
         /\ Canwrite(c) = Canwrite(u)
  BY ReadableSame DEF Cleaned, Synced, Live, FinSent, FinSeen, Finished, Connected, Connecting,
     Kept, Canwrite, Used

LEMMA CleanOK ==
  ASSUME NEW h, NEW u, NEW c, Cleaned(u, c)
  PROVE  CleanFine(h, u, c)
  BY CleanState, SndSameState DEF Cleaned, BlockOK, StateOK, RcvOK, ProgFine, SleepFine, CleanFine

\* ip_send()
LEMMA SentIs ==
  ASSUME NEW h, NEW u, NEW m, m \in Sent(h, u)
  PROVE  m \in net \/ \E i \in 1..Len(u.out) : m = [to |-> Peer(h), seg |-> u.out[i]]
<1>1. PICK n \in {k \in 0..Len(u.out) :
                    k = 0 \/ Cardinality(net \cup {[to |-> Peer(h), seg |-> u.out[i]] : i \in 1..k}) <= MaxNet} :
        m \in net \cup {[to |-> Peer(h), seg |-> u.out[i]] : i \in 1..n}
  BY Zenon DEF Sent
<1>2. n \in 0..Len(u.out)
  OBVIOUS
<1>3. CASE m \in net
  BY <1>3
<1>4. CASE m \in {[to |-> Peer(h), seg |-> u.out[i]] : i \in 1..n}
  BY <1>4, <1>2
<1> QED
  BY <1>1, <1>3, <1>4

\* The other host
LEMMA PeerIs ==
  /\ Peer("cl") = "sv" /\ Peer("sv") = "cl"
  /\ \A h \in Host : Peer(h) \in Host /\ Peer(h) # h /\ Peer(Peer(h)) = h
  BY DEF Peer, Host

LEMMA FrameIs ==
  ASSUME NEW h \in Host, NEW g, g = Peer(h), NEW c, Frame(h, g, c)
  PROVE  tcb'[h] = c /\ tcb'[g] = tcb[g] /\ DOMAIN tcb' = Host
  BY PeerIs DEF Frame

\* What a host has acknowledged stays acknowledged.
LEMMA BelowStays ==
  ASSUME NEW h \in Host, NEW g, g = Peer(h), NEW u, NEW c, Frame(h, g, c), Synced(c) <=> Synced(u),
         c.rnxt = u.rnxt, NEW t, t = tcb[h], IsBlock(t), IsBlock(u), Forward(h, g, t, u),
         NEW x \in Int
  PROVE  /\ Below(h, x) => Below(h, x)'
         /\ Below(g, x)' <=> Below(g, x)
<1> PICK i \in Int : i = Isn[g]
  BY Params, PeerIs
<1> PICK n \in Int : n = t.rnxt
  BY DEF IsBlock
<1> PICK m \in Int : m = u.rnxt
  BY DEF IsBlock
<1>1. tcb'[h] = c /\ tcb'[g] = tcb[g]
  BY FrameIs
<1>2. ASSUME Below(h, x) PROVE Below(h, x)'
  BY <1>2, <1>1 DEF Below, Forward, Frame
<1>3. Below(g, x)' <=> Below(g, x)
  BY <1>1 DEF Frame, Below
<1> QED
  BY <1>2, <1>3

LEMMA HearsIs ==
  ASSUME NEW h, NEW u, net' = Sent(h, u)
  PROVE  Hears(h, u)
  BY SentIs DEF Hears

LEMMA BelowLess ==
  ASSUME NEW h \in Host, IsBlock(tcb[h]), NEW x \in Int, NEW y \in Int, y <= x, Below(h, x)
  PROVE  Below(h, y)
<1> PICK i \in Int : i = Isn[Peer(h)]
  BY Params, PeerIs
<1> PICK n \in Int : n = tcb[h].rnxt
  BY DEF IsBlock
<1>1. (Synced(tcb[h]) => x <= n) /\ (NotYet(h) => x <= i)
  BY Zenon DEF Below
<1>2. (Synced(tcb[h]) => y <= n) /\ (NotYet(h) => y <= i)
  BY <1>1
<1> QED
  BY <1>2, Zenon DEF Below

\* What a segment that was said is for the other host.
LEMMA SaidIs ==
  ASSUME NEW h \in Host, NEW g, g = Peer(h), NEW u, IsBlock(u), NEW c, Frame(h, g, c),
         NEW t, t = tcb[h], IsBlock(t), IsBlock(tcb[g]), Forward(h, g, t, u),
         Synced(c) <=> Synced(u), c.rnxt = u.rnxt,
         NEW F \in Nat, NEW b, Says(g, u, F, b), NEW s \in Segment, OutSeg(h, b, s), Started(h)',
         NotYet(h)' => u.state = "SYNSENT"
  PROVE  MsgOK(h, g, s)'
<1>1. CASE Has(s, "RST")
  BY <1>1 DEF MsgOK
<1>2. CASE ~Has(s, "RST")
  <2>1. tcb'[h] = c /\ tcb'[g] = tcb[g]
    BY FrameIs
  <2> PICK x \in Int : x = s.ack
    BY DEF Segment
  <2> PICK q \in Int : q = s.seq
    BY DEF Segment
  <2> PICK n \in Int : n = b.rnxt
    BY DEF Says, IsBlock
  <2> PICK m \in Int : m = u.rnxt
    BY DEF IsBlock
  <2> PICK a \in Int : a = b.una
    BY DEF Says, IsBlock
  <2> PICK i \in Nat : i = Isn[g]
    BY Params, PeerIs
  <2>2. x <= n
    BY <1>2, Zenon DEF OutSeg
  <2>3. (Synced(u) => n <= m) /\ (u.state = "SYNSENT" => n = 0)
    BY Zenon DEF Says
  <2>4. Synced(u) => x <= m
    BY <2>2, <2>3
  <2>5. u.state = "SYNSENT" => x <= i
    BY <2>2, <2>3
  <2>6. Below(h, s.ack)'
    BY <2>4, <2>5, <2>1 DEF Below
  <2>7. AtPlace(s) \/ (s.flags = {"ACK"} /\ Len(s.data) = 1 /\ Below(g, s.seq + 1)')
    <3>1. CASE AtPlace(s)
      BY <3>1
    <3>2. CASE ~AtPlace(s)
      <4>1. s.flags = {"ACK"} /\ Len(s.data) = 1 /\ s.seq + 2 <= b.una
        BY <1>2, <3>2, Zenon DEF OutSeg
      <4>2. q + 2 <= a
        BY <4>1, Zenon
      <4>3. Below(g, a)
        BY Zenon DEF Says
      <4> PICK p \in Int : p = q + 1
        OBVIOUS
      <4>4. p <= a
        BY <4>2
      <4>5. Below(g, p)
        BY <4>3, <4>4, BelowLess, PeerIs
      <4>6. Below(g, p)'
        BY <4>5, BelowStays
      <4>7. Below(g, s.seq + 1)'
        BY <4>6, Zenon
      <4> QED
        BY <4>1, <4>7
    <3> QED
      BY <3>1, <3>2
  <2>8. Started(h)' /\ (Has(s, "SYN") => s.seq = Isn[h] /\ s.flags = (IF h = "cl" THEN {"SYN"} ELSE {"SYN", "ACK"}))
    BY <1>2, Zenon DEF OutSeg
  <2> QED
    BY <2>6, <2>7, <2>8, Zenon DEF MsgOK
<1> QED
  BY <1>1, <1>2

\* Nothing that a host may rely on goes away.
LEMMA GoingBelow ==
  ASSUME NEW h \in Host, NEW g, g = Peer(h), NEW t, NEW u, NEW c, Going(h, g, t, u, c), NEW a \in Host
  PROVE  /\ \A x \in Int : Below(a, x) => Below(a, x)'
         /\ Started(a) => Started(a)'
<1>1. \A x \in Int : Below(h, x) => Below(h, x)'
  BY BelowStays DEF Going
<1>2. \A x \in Int : Below(g, x) => Below(g, x)'
  BY BelowStays DEF Going
<1>3. (Started(h) => Started(h)') /\ (Started(g) => Started(g)')
  BY Zenon DEF Going, Frame
<1>4. CASE a = h
  BY <1>1, <1>3, <1>4
<1>5. CASE a = g
  BY <1>2, <1>3, <1>5
<1> QED
  BY <1>4, <1>5, PeerIs DEF Host

\* A segment on its way stays right.
LEMMA MsgStays ==
  ASSUME NEW h \in Host, NEW g, g = Peer(h), NEW t, NEW u, NEW c, Going(h, g, t, u, c), NEW a \in Host,
         NEW b \in Host, NEW s \in Segment, MsgOK(a, b, s)
  PROVE  MsgOK(a, b, s)'
  BY GoingBelow DEF Segment, MsgOK

LEMMA NetStays ==
  ASSUME NEW h \in Host, NEW g, g = Peer(h), NEW t, NEW u, NEW c, Going(h, g, t, u, c), NetOK,
         NEW F \in Nat, Utters(h, g, u, F), Hears(h, u), AllRst(u) \/ Started(h)',
         Started(h)' /\ NotYet(h)' => u.state = "SYNSENT"
  PROVE  NetOK'
<1> SUFFICES ASSUME NEW m \in net'
             PROVE  m.to \in Host /\ m.seg \in Segment /\ MsgOK(Peer(m.to), m.to, m.seg)'
  BY Zenon DEF NetOK
<1>1. CASE m \in net
  BY <1>1, PeerIs, MsgStays DEF NetOK
<1>2. CASE \E i \in 1..Len(u.out) : m = [to |-> Peer(h), seg |-> u.out[i]]
  <2> PICK i \in 1..Len(u.out) : m = [to |-> g, seg |-> u.out[i]]
    BY <1>2
  <2>1. u.out[i] \in Segment
    BY DEF Going, IsBlock
  <2> PICK s \in Segment : s = u.out[i]
    BY <2>1
  <2>2. m.to = g /\ m.seg = s
    OBVIOUS
  <2>3. g \in Host /\ Peer(g) = h
    BY PeerIs
  <2>4. MsgOK(h, g, s)'
    BY SaidIs DEF AllRst, MsgOK, Utters, Outs, Going
  <2> QED
    BY <2>2, <2>3, <2>4, Zenon
<1> QED
  BY <1>1, <1>2 DEF Hears

LEMMA AcksStay ==
  ASSUME NEW h \in Host, NEW g, g = Peer(h), NEW t, NEW u, NEW c, Going(h, g, t, u, c), AcksOK,
         Below(g, u.una), c.una = u.una
  PROVE  AcksOK'
<1>1. tcb'[h] = c /\ tcb'[g] = tcb[g]
  BY FrameIs DEF Going
<1>2. Peer(g) = h /\ g \in Host
  BY PeerIs
<1>3. u.una \in Int /\ tcb[g].una \in Int
  BY DEF Going, IsBlock
<1>4. Below(g, u.una)'
  BY <1>2, <1>3, GoingBelow
<1>5. Below(h, tcb[g].una)'
  BY <1>2, <1>3, GoingBelow, <1>1 DEF AcksOK
<1>6. Below(g, tcb[h].una)'
  BY <1>1, <1>4 DEF Below
<1> SUFFICES ASSUME NEW a \in Host PROVE Below(Peer(a), tcb[a].una)'
  BY Zenon DEF AcksOK
<1>7. CASE a = h
  BY <1>6, <1>7, Zenon
<1>8. CASE a = g
  BY <1>2, <1>5, <1>8, Zenon
<1> QED
  BY <1>7, <1>8, PeerIs DEF Host

LEMMA EndStays ==
  ASSUME NEW h, NEW t, NEW u, NEW F \in Nat, NEW F1 \in Nat, Grows(h, t, u, F, F1), Started(h),
         NEW e
  PROVE  /\ EndFixed(t, F, e) => EndFixed(u, F1, e)
         /\ e \in Int /\ e <= F => e <= F1
  BY DEF Grows, EndFixed

LEMMA EndsAtInt ==
  ASSUME NEW s \in Segment
  PROVE  EndsAt(s) \in Int
BY DEF Segment, EndsAt, One

LEMMA StreamEndIs ==
  ASSUME NEW h, NEW g, NEW F
  PROVE  StreamEnd(h, g, F) <=>
           /\ Live(tcb[h]) => tcb[h].write = IF FinSent(tcb[h]) THEN F + 1 ELSE F
           /\ \A m \in net : m.to = g /\ ~Has(m.seg, "RST") => SegEnds(tcb[h], F, m.seg)
           /\ Synced(tcb[g]) => /\ Started(h)
                                /\ FinSeen(tcb[g]) => EndFixed(tcb[h], F, tcb[g].fin)
                                /\ \A i \in 1..Len(tcb[g].rcvq) : NxtOf(tcb[g].rcvq[i]) <= F
                                /\ tcb[g].sock => tcb[g].read <= F
BY Zenon DEF StreamEnd, SegEnds, EndFixed

LEMMA StreamEndNext ==
  ASSUME NEW h, NEW g, NEW F,
         Live(tcb'[h]) => tcb'[h].write = IF FinSent(tcb'[h]) THEN F + 1 ELSE F,
         \A m \in net' : m.to = g /\ ~Has(m.seg, "RST") => SegEnds(tcb'[h], F, m.seg),
         Synced(tcb'[g]) => /\ Started(h)'
                            /\ FinSeen(tcb'[g]) => EndFixed(tcb'[h], F, tcb'[g].fin)
                            /\ \A i \in 1..Len(tcb'[g].rcvq) : NxtOf(tcb'[g].rcvq[i]) <= F
                            /\ tcb'[g].sock => tcb'[g].read <= F
  PROVE  StreamEnd(h, g, F)'
BY Zenon DEF StreamEnd, SegEnds, EndFixed

LEMMA SegEndsStays ==
  ASSUME NEW h, NEW t, NEW u, NEW F \in Nat, NEW F1 \in Nat, Grows(h, t, u, F, F1), Started(h),
         NEW s \in Segment, SegEnds(t, F, s)
  PROVE  SegEnds(u, F1, s)
  BY EndsAtInt, EndStays DEF SegEnds

LEMMA SaidEnds ==
  ASSUME NEW h, NEW g, NEW u, NEW F, NEW b, Says(g, u, F, b), Outs(h, b, u), NEW i \in 1..Len(u.out),
         ~Has(u.out[i], "RST")
  PROVE  SegEnds(u, F, u.out[i])
  BY DEF Outs, AllPlain, Has, SegEnds, OutSeg, Says, EndFixed

LEMMA EndGrows ==
  ASSUME NEW h, NEW t, NEW u, NEW F \in Nat, NEW F1 \in Nat, Grows(h, t, u, F, F1), Started(h)
  PROVE  F <= F1
BY DEF Grows

LEMMA SegEndsSame ==
  ASSUME NEW u, NEW c, Cleaned(u, c)
  PROVE  \A F, s, e : /\ SegEnds(u, F, s) => SegEnds(c, F, s)
                      /\ EndFixed(u, F, e) => EndFixed(c, F, e)
  BY CleanState DEF SegEnds, EndFixed

\* The stream from h
LEMMA StreamOut ==
  ASSUME NEW h \in Host, NEW g, g = Peer(h), NEW t, NEW u, NEW c, Going(h, g, t, u, c), Cleaned(u, c),
         NetOK, NEW F \in Nat, StreamEnd(h, g, F), NEW F1 \in Nat, Grows(h, t, u, F, F1),
         Utters(h, g, u, F1), Hears(h, u)
  PROVE  StreamEnd(h, g, F1)'
<1>1. tcb'[h] = c /\ tcb'[g] = tcb[g] /\ tcb[h] = t
  BY FrameIs DEF Going
<1>2. g \in Host /\ Peer(g) = h
  BY PeerIs
<1>3. Started(h) => Started(h)'
  BY GoingBelow
<1>4. Live(c) => c.write = IF FinSent(c) THEN F1 + 1 ELSE F1
  BY CleanState DEF Cleaned, Grows
<1>5. ASSUME NEW m \in net', m.to = g, ~Has(m.seg, "RST") PROVE SegEnds(c, F1, m.seg)
  <2>1. CASE m \in net
    <3>1. m.seg \in Segment /\ MsgOK(h, g, m.seg)
      BY <1>2, <1>5, <2>1, Zenon DEF NetOK
    <3>2. Started(h)
      BY <1>5, <3>1, Zenon DEF MsgOK
    <3>3. SegEnds(t, F, m.seg)
      BY <1>1, <1>5, <2>1, StreamEndIs, Zenon
    <3>4. SegEnds(u, F1, m.seg)
      BY <3>1, <3>2, <3>3, SegEndsStays
    <3> QED
      BY <3>4, SegEndsSame
  <2>2. CASE \E i \in 1..Len(u.out) : m = [to |-> Peer(h), seg |-> u.out[i]]
    BY <2>2, <1>5, SaidEnds, SegEndsSame DEF Utters, AllRst
  <2> QED
    BY <2>1, <2>2 DEF Hears
<1>6. ASSUME Synced(tcb[g])
      PROVE  /\ Started(h)'
             /\ FinSeen(tcb[g]) => EndFixed(c, F1, tcb[g].fin)
             /\ \A i \in 1..Len(tcb[g].rcvq) : NxtOf(tcb[g].rcvq[i]) <= F1
             /\ tcb[g].sock => tcb[g].read <= F1
  <2>1. /\ Started(h)
        /\ FinSeen(tcb[g]) => EndFixed(t, F, tcb[g].fin)
        /\ \A i \in 1..Len(tcb[g].rcvq) : NxtOf(tcb[g].rcvq[i]) <= F
        /\ tcb[g].sock => tcb[g].read <= F
    BY <1>1, <1>6, StreamEndIs, Zenon
  <2>2. IsBlock(tcb[g])
    BY DEF Going
  <2>3. FinSeen(tcb[g]) => EndFixed(c, F1, tcb[g].fin)
    <3>1. FinSeen(tcb[g]) => EndFixed(u, F1, tcb[g].fin)
      BY <2>1, EndStays
    <3> QED
      BY <3>1, SegEndsSame
  <2>4. ASSUME NEW i \in 1..Len(tcb[g].rcvq) PROVE NxtOf(tcb[g].rcvq[i]) <= F1
    <3>1. NxtOf(tcb[g].rcvq[i]) \in Int
      BY <2>2, ChunkIs DEF IsBlock
    <3>2. NxtOf(tcb[g].rcvq[i]) <= F
      BY <2>1
    <3> PICK e \in Int : e = NxtOf(tcb[g].rcvq[i])
      BY <3>1, Zenon
    <3>3. e <= F /\ Started(h)
      BY <2>1, <3>2, Zenon
    <3>4. F <= F1
      BY <3>3, EndGrows
    <3>5. e <= F1
      BY <3>3, <3>4
    <3> QED
      BY <3>5
  <2>5. tcb[g].sock => tcb[g].read <= F1
    BY <2>2, <2>1, EndStays DEF IsBlock
  <2> QED
    BY <1>3, <2>1, <2>3, <2>4, <2>5
<1>7. Live(tcb'[h]) => tcb'[h].write = IF FinSent(tcb'[h]) THEN F1 + 1 ELSE F1
  BY <1>1, <1>4, Zenon
<1>8. \A m \in net' : m.to = g /\ ~Has(m.seg, "RST") => SegEnds(tcb'[h], F1, m.seg)
  BY <1>1, <1>5, Zenon
<1>9. Synced(tcb'[g]) => /\ Started(h)'
                         /\ FinSeen(tcb'[g]) => EndFixed(tcb'[h], F1, tcb'[g].fin)
                         /\ \A i \in 1..Len(tcb'[g].rcvq) : NxtOf(tcb'[g].rcvq[i]) <= F1
                         /\ tcb'[g].sock => tcb'[g].read <= F1
  BY <1>1, <1>6, Zenon
<1> QED
  BY <1>7, <1>8, <1>9, StreamEndNext

\* The stream to h
LEMMA StreamIn ==
  ASSUME NEW h \in Host, NEW g, g = Peer(h), NEW t, NEW u, NEW c, Going(h, g, t, u, c), Cleaned(u, c),
         NEW G \in Nat, StreamEnd(g, h, G), NEW z, z <=> (Live(tcb[g]) => FinSent(tcb[g])),
         RcvEnd(u, G, z), Hears(h, u)
  PROVE  StreamEnd(g, h, G)'
  BY FrameIs, PeerIs, GoingBelow, StreamEndIs, CleanState, StreamEndNext DEF Going, Hears, Cleaned,
     RcvEnd, Forward, EndFixed

LEMMA OutcomeIs ==
  ASSUME NEW h \in Host, NEW g, g = Peer(h), NEW u, NEW w, NEW l, Outcome(h, u, w, l), TypeOK,
         NEW c, c = Clean(u)
  PROVE  /\ tcb'[h] = c /\ tcb'[g] = tcb[g] /\ DOMAIN tcb' = Host
         /\ prog'[h] = w /\ prog'[g] = prog[g] /\ DOMAIN prog' = Host
         /\ got'[h] = l /\ got'[g] = got[g] /\ DOMAIN got' = Host
         /\ prog' = [a \in Host |-> IF a = h THEN w ELSE prog[a]]
         /\ got' = [a \in Host |-> IF a = h THEN l ELSE got[a]]
<1>1. g \in Host /\ g # h
  BY PeerIs
<1>2. tcb' = [tcb EXCEPT ![h] = c] /\ DOMAIN tcb = Host
  BY Zenon DEF Outcome, TypeOK
<1>3. tcb'[h] = c /\ tcb'[g] = tcb[g] /\ DOMAIN tcb' = Host
  BY <1>1, <1>2
<1>4. prog' = [prog EXCEPT ![h] = w] /\ prog \in [Host -> Prog]
  BY Zenon DEF Outcome, TypeOK
<1>5. got' = [got EXCEPT ![h] = l] /\ got \in [Host -> Seq(Int)]
  BY Zenon DEF Outcome, TypeOK
<1> HIDE DEF Prog
<1>6. prog'[h] = w /\ prog'[g] = prog[g] /\ DOMAIN prog' = Host
  BY <1>1, <1>4
<1>7. got'[h] = l /\ got'[g] = got[g] /\ DOMAIN got' = Host
  BY <1>1, <1>5
<1>8. prog' = [a \in Host |-> IF a = h THEN w ELSE prog[a]]
  BY <1>4
<1>9. got' = [a \in Host |-> IF a = h THEN l ELSE got[a]]
  BY <1>5
<1> QED
  BY <1>3, <1>6, <1>7, <1>8, <1>9

LEMMA TypeStays ==
  ASSUME NEW h \in Host, NEW g, g = Peer(h), NEW u, NEW w \in Prog, NEW l \in Seq(Int),
         Outcome(h, u, w, l), TypeOK, NEW c, c = Clean(u), IsBlock(c)
  PROVE  TypeOK'
<1>1. \A a \in Host : IsBlock(tcb'[a])
  BY PeerIs, OutcomeIs DEF TypeOK, Host
<1>2. DOMAIN tcb' = Host
  BY OutcomeIs
<1>3. prog' \in [Host -> Prog]
  <2>1. prog' = [a \in Host |-> IF a = h THEN w ELSE prog[a]]
    BY OutcomeIs
  <2>2. prog \in [Host -> Prog]
    BY Zenon DEF TypeOK
  <2> HIDE DEF Prog
  <2> QED
    BY <2>1, <2>2
<1>4. got' \in [Host -> Seq(Int)]
  <2>1. got' = [a \in Host |-> IF a = h THEN l ELSE got[a]]
    BY OutcomeIs
  <2>2. got \in [Host -> Seq(Int)]
    BY Zenon DEF TypeOK
  <2> QED
    BY <2>1, <2>2
<1>5. listening' \in {"new", "used", "closed"}
  BY Zenon DEF Outcome
<1> QED
  BY <1>1, <1>2, <1>3, <1>4, <1>5, Zenon DEF TypeOK

LEMMA HostStays ==
  ASSUME NEW h \in Host, NEW g, g = Peer(h), NEW u, NEW w \in Prog, NEW l \in Seq(Int),
         Outcome(h, u, w, l), TypeOK, NEW c, c = Clean(u), Cleaned(u, c), BlockOK(h, u),
         ProgFine(h, u, w, Len(l)), SleepFine(u, w), HostOK(g), Sleepers(g), NEW a \in Host
  PROVE  HostOK(a)' /\ Sleepers(a)'
<1>0. /\ tcb'[h] = c /\ tcb'[g] = tcb[g]
      /\ prog'[h] = w /\ prog'[g] = prog[g]
      /\ got'[h] = l /\ got'[g] = got[g]
  BY OutcomeIs
<1>1. CASE a = h
  <2>1. BlockOK(h, c) /\ ProgFine(h, c, w, Len(l)) /\ SleepFine(c, w) /\ c.out = <<>> /\ ~c.wake
    BY CleanOK DEF CleanFine, Cleaned
  <2>2. HostOK(h)'
    BY <1>0, <2>1, Zenon DEF HostOK, BlockOK, ProgOK
  <2>3. Sleepers(h)'
    BY <1>0, <2>1, Zenon DEF Sleepers
  <2> QED
    BY <1>1, <2>2, <2>3, Zenon
<1>2. CASE a = g
  BY <1>0, <1>2 DEF HostOK, ProgOK, Sleepers
<1> QED
  BY <1>1, <1>2, PeerIs DEF Host

\* What is not there yet sends nothing.
LEMMA YetIs ==
  ASSUME NEW h \in Host, NEW u, NEW w, TypeOK',
         ~Started(h)' => u.state = "none" /\ w.fd = "none",
         tcb'[h].state = u.state, prog'[h] = w
  PROVE  /\ Started(h)' /\ NotYet(h)' => u.state = "SYNSENT"
         /\ Synced(u) => ~NotYet(h)'
  BY DEF NotYet, Started, Synced, Host

LEMMA StartStays ==
  ASSUME NEW h \in Host, NEW g, g = Peer(h), NEW u, NEW w, NEW l,
         Outcome(h, u, w, l), TypeOK, TypeOK', NEW c, c = Clean(u), Cleaned(u, c), StartOK,
         Frame(h, g, c), Serves(h, g, u, w, l)
  PROVE  StartOK'
  BY OutcomeIs, CleanState, YetIs, PeerIs DEF Cleaned, Serves, StartOK, Frame, Host

LEMMA OrderStays ==
  ASSUME NEW h \in Host, NEW g, g = Peer(h), NEW u, NEW w, NEW l, Outcome(h, u, w, l), TypeOK,
         InOrder, \A i \in 1..Len(l) : l[i] = Isn[g] + i
  PROVE  InOrder'
  BY OutcomeIs, PeerIs DEF InOrder, Host

\* A step of h that makes u of its block keeps the invariant.
LEMMA StepInv ==
  ASSUME TInv, NEW h \in Host, NEW g, g = Peer(h), NEW t, t = tcb[h], NEW u, NEW w, NEW l,
         NEW F \in Nat, StreamEnd(h, g, F), NEW F1 \in Nat, NEW G \in Nat, StreamEnd(g, h, G),
         NEW z, z <=> (Live(tcb[g]) => FinSent(tcb[g])),
         Legal(h, g, t, u, F, F1, G, z), Outcome(h, u, w, l), NEW c, c = Clean(u), Frame(h, g, c),
         Serves(h, g, u, w, l)
  PROVE  TInv'
<1>1. /\ TypeOK /\ (\A a \in Host : HostOK(a)) /\ StartOK /\ NetOK /\ AcksOK
      /\ (\A a \in Host : Sleepers(a)) /\ InOrder
  BY Zenon DEF TInv
<1>2. /\ BlockOK(h, u) /\ RcvEnd(u, G, z) /\ Below(g, u.una) /\ Forward(h, g, t, u)
      /\ Grows(h, t, u, F, F1) /\ Utters(h, g, u, F1)
  BY Zenon DEF Legal
<1>3. /\ w \in Prog /\ ProgFine(h, u, w, Len(l)) /\ SleepFine(u, w)
      /\ AllRst(u) \/ Started(h)'
      /\ ~Started(h)' => u.state = "none" /\ w.fd = "none"
      /\ l \in Seq(Int) /\ (NotYet(h)' => l = <<>>)
      /\ \A i \in 1..Len(l) : l[i] = Isn[g] + i
  BY Zenon DEF Serves
<1>4. g \in Host /\ Peer(g) = h
  BY PeerIs
<1>5. IsBlock(u)
  BY <1>2 DEF BlockOK
<1>6. Cleaned(u, c)
  BY <1>5, CleanIs
<1>7. IsBlock(c) /\ c.rnxt = u.rnxt /\ c.una = u.una /\ c.state = u.state
  BY <1>6 DEF Cleaned
<1>8. IsBlock(t) /\ IsBlock(tcb[g])
  BY <1>1, <1>4, Zenon DEF TypeOK
<1>9. Going(h, g, t, u, c)
  BY <1>6, CleanState, <1>2, <1>5, <1>7, <1>8 DEF Going
<1>10. tcb'[h] = c /\ prog'[h] = w
  BY <1>1, OutcomeIs
<1>11. Hears(h, u)
  BY HearsIs DEF Outcome
<1>12. TypeOK'
  BY <1>1, <1>3, <1>7, TypeStays
<1>13. \A a \in Host : HostOK(a)' /\ Sleepers(a)'
  BY <1>1, <1>2, <1>3, <1>4, <1>6, HostStays
<1>14. StartOK'
  BY <1>1, <1>6, <1>12, StartStays
<1>15. NetOK'
  BY <1>3, <1>7, <1>10, <1>12, YetIs, <1>1, <1>2, <1>9, <1>11, NetStays
<1>16. AcksOK'
  BY <1>1, <1>2, <1>7, <1>9, AcksStay
<1>17. StreamEnd(h, g, F1)'
  BY <1>1, <1>2, <1>6, <1>9, <1>11, StreamOut
<1>18. StreamEnd(g, h, G)'
  BY <1>2, <1>6, <1>9, <1>11, StreamIn
<1>19. InOrder'
  BY <1>1, <1>3, OrderStays
<1>20. \A a \in Host : \E E \in Nat : StreamEnd(a, Peer(a), E)'
  BY PeerIs, <1>4, <1>17, <1>18 DEF Host
<1> QED
  BY <1>12, <1>13, <1>14, <1>15, <1>16, <1>19, <1>20, Zenon DEF TInv

LEMMA FrameSame ==
  ASSUME TypeOK, NEW h \in Host, NEW g, g = Peer(h), NEW u, NEW w, NEW l, Outcome(h, u, w, l),
         NEW c, c = Clean(u), c.state = u.state,
         listening' = listening, w.fd = "none" <=> prog[h].fd = "none",
         u.state = "SYNSENT" => tcb[h].state = "SYNSENT"
  PROVE  Frame(h, g, c) /\ (Started(h)' <=> Started(h))
<1>1. /\ tcb'[h] = c /\ tcb'[g] = tcb[g] /\ prog'[h] = w /\ prog'[g] = prog[g]
  BY OutcomeIs
<1>2. tcb' = [tcb EXCEPT ![h] = c] /\ DOMAIN tcb = Host
  BY Zenon DEF Outcome, TypeOK
<1>3. (NotYet(h)' => NotYet(h)) /\ (Started(h)' <=> Started(h))
  BY <1>1 DEF NotYet, Started, Host
<1>4. (NotYet(g)' <=> NotYet(g)) /\ (Started(g)' <=> Started(g))
  BY <1>1 DEF NotYet, Started
<1> QED
  BY <1>2, <1>3, <1>4, Zenon DEF Frame

\* What the block of a host is worth
LEMMA TInvHost ==
  ASSUME TInv, NEW h \in Host, NEW t, t = tcb[h]
  PROVE  /\ BlockOK(h, t) /\ t.out = <<>> /\ ~t.wake
         /\ ProgFine(h, t, prog[h], Len(got[h])) /\ SleepFine(t, prog[h])
         /\ prog[h] \in Prog /\ got[h] \in Seq(Int)
         /\ \A i \in 1..Len(got[h]) : got[h][i] = Isn[Peer(h)] + i
         /\ ~Started(h) => t.state = "none" /\ prog[h].fd = "none"
         /\ Synced(t) => ~NotYet(h)
         /\ NotYet(h) => got[h] = <<>>
         /\ Below(Peer(h), t.una)
<1>1. TypeOK /\ HostOK(h) /\ StartOK /\ AcksOK /\ Sleepers(h) /\ InOrder
  BY Zenon DEF TInv
<1>2. IsBlock(t)
  BY <1>1, Zenon DEF TypeOK
<1>3. BlockOK(h, t) /\ t.out = <<>> /\ ~t.wake /\ ProgFine(h, t, prog[h], Len(got[h]))
  BY <1>1, <1>2, Zenon DEF HostOK, BlockOK, ProgOK
<1>4. SleepFine(t, prog[h])
  BY <1>1, Zenon DEF Sleepers
<1>5. prog[h] \in Prog /\ got[h] \in Seq(Int)
  <2>1. prog \in [Host -> Prog] /\ got \in [Host -> Seq(Int)]
    BY <1>1, Zenon DEF TypeOK
  <2> HIDE DEF Prog
  <2> QED
    BY <2>1
<1>6. \A i \in 1..Len(got[h]) : got[h][i] = Isn[Peer(h)] + i
  BY <1>1, Zenon DEF InOrder
<1>7. /\ ~Started(h) => t.state = "none" /\ prog[h].fd = "none"
      /\ Synced(t) => ~NotYet(h)
      /\ NotYet(h) => got[h] = <<>>
  BY <1>1, Zenon DEF StartOK
<1>8. Below(Peer(h), t.una)
  BY <1>1, Zenon DEF AcksOK
<1> QED
  BY <1>3, <1>4, <1>5, <1>6, <1>7, <1>8

LEMMA BelowZero ==
  ASSUME TInv, NEW h \in Host
  PROVE  Below(h, 0)
  BY Params, PeerIs DEF TInv, HostOK, RcvOK, Below

\* Where the stream ends
LEMMA StreamLast ==
  ASSUME NEW h, NEW g, NEW F \in Nat, StreamEnd(h, g, F), NEW t, t = tcb[h], Live(t)
  PROVE  LastByte(t) = F /\ t.write = IF FinSent(t) THEN F + 1 ELSE F
  BY StreamEndIs DEF LastByte

LEMMA AnswerLegal ==
  ASSUME TInv, NEW h \in Host, NEW g, g = Peer(h), NEW t, t = tcb[h], NEW u, NEW x, NEW G, NEW z,
         Answer(h, t, u, x, G, z), Below(g, x), Synced(u) /\ ~Synced(t) => Started(g),
         NEW F \in Nat, StreamEnd(h, g, F)
  PROVE  Legal(h, g, t, u, F, F, G, z)
  BY TInvHost, BelowZero, PeerIs, StreamLast DEF Answer, Turn, Forward, BlockOK, StateOK, NotYet,
     Grows, Utters, Said, Speaks, Says, Legal

LEMMA WakeupIs ==
  ASSUME NEW p \in Prog, NEW u, NEW w, w = Wakeup(p, u)
  PROVE  Waked(p, u, w)
  BY DEF Prog, Woken, Wakeup, Waked

\* The sleepers of a block that stands still, or that wakes them
LEMMA SleepStays ==
  ASSUME NEW h, NEW t, NEW u, NEW p \in Prog, NEW n, ProgFine(h, t, p, n), SleepFine(t, p),
         t.sock => Sleep(t, u), NEW w, w = Wakeup(p, u)
  PROVE  SleepFine(u, w)
<1>1. CASE u.wake
  <2>1. w.rd # "asleep" /\ w.wr # "asleep"
    BY <1>1, WakeupIs DEF Waked
  <2> QED
    BY <2>1, Zenon DEF SleepFine
<1>2. CASE p.rd # "asleep" /\ p.wr # "asleep" /\ ~u.wake
  BY <1>2, WakeupIs DEF Waked, SleepFine
<1>3. CASE ~u.wake /\ (p.rd = "asleep" \/ p.wr = "asleep")
  <2>1. w = p
    BY <1>3, WakeupIs DEF Waked
  <2>2. p.fd \in {"none", "open", "gone"}
    BY DEF Prog
  <2>3. p.fd = "open"
    BY <1>3, <2>2 DEF ProgFine
  <2>4. t.sock /\ (FinSent(t) => p.shut)
    BY <2>3, Zenon DEF ProgFine
  <2>5. /\ u.err = t.err
        /\ u.state = t.state \/ FinSent(t)
        /\ Readable(t) = 0 => Readable(u) = 0
        /\ Canwrite(t) = 0 => Canwrite(u) = 0
    BY <1>3, <2>4, Zenon DEF Sleep
  <2>6. (u.state = t.state => (Connecting(u) <=> Connecting(t)) /\ (Connected(u) <=> Connected(t)))
        /\ (FinSent(t) => ~Connecting(t))
    BY DEF Connecting, Connected, FinSent
  <2>7. p.rd = "asleep" => ~u.err /\ Readable(u) = 0 /\ (p.shut \/ u.state = "ESTABLISHED")
    BY <2>4, <2>5, Zenon DEF SleepFine
  <2>8. p.wr = "asleep" /\ ~p.conn
          => ~u.err /\ Canwrite(u) = 0 /\ (p.shut \/ Connected(u) \/ Connecting(u))
    BY <2>4, <2>5, <2>6, Zenon DEF SleepFine
  <2>9. p.wr = "asleep" /\ p.conn => Connecting(u)
    BY <2>4, <2>5, <2>6, Zenon DEF SleepFine
  <2> QED
    BY <2>1, <2>7, <2>8, <2>9, Zenon DEF SleepFine
<1> QED
  BY <1>1, <1>2, <1>3

LEMMA AnswerServes ==
  ASSUME TInv, NEW h \in Host, NEW g, g = Peer(h), NEW t, t = tcb[h], NEW u, NEW x, NEW G, NEW z,
         Answer(h, t, u, x, G, z), NEW w, w = Wakeup(prog[h], u), NEW l, l = got[h],
         NotYet(h)' => NotYet(h), Started(h)' <=> Started(h)
  PROVE  Serves(h, g, u, w, l)
<1>1. /\ BlockOK(h, u)
      /\ Live(u) => Live(t) /\ (FinSent(u) <=> FinSent(t))
      /\ \/ u.sock = t.sock /\ Sleep(t, u)
         \/ t.state = "SYNRCVD" /\ u.state = "none"
      /\ u.state \in {"SYNRCVD", "SYNSENT"} => u.state = t.state
      /\ Synced(u) => IF Synced(t) THEN t.rnxt <= u.rnxt /\ u.read = t.read
                      ELSE t.state = "SYNSENT" /\ Isn[Peer(h)] <= u.rnxt /\ u.read = Isn[Peer(h)] + 1
      /\ u.rcvq # <<>> => Synced(u) \/ (u.rcvq = t.rcvq /\ u.read = t.read)
      /\ Said(h, t, u, x)
  BY Zenon DEF Answer, Turn
<1> PICK p \in Prog : p = prog[h]
  BY TInvHost
<1> PICK n \in Nat : n = Len(l)
  BY TInvHost
<1>2. BlockOK(h, t) /\ ProgFine(h, t, p, n) /\ SleepFine(t, p)
  BY TInvHost
<1>3. /\ ~Started(h) => t.state = "none" /\ p.fd = "none"
      /\ Synced(t) => ~NotYet(h)
      /\ NotYet(h) => l = <<>>
  BY TInvHost
<1>4. l \in Seq(Int) /\ \A i \in 1..Len(l) : l[i] = Isn[g] + i
  BY TInvHost
<1>5. /\ w \in Prog /\ w.fd = p.fd /\ w.conn = p.conn /\ w.shut = p.shut /\ w.left = p.left
      /\ w.rd = "idle" <=> p.rd = "idle"
      /\ w.wr = "idle" <=> p.wr = "idle"
  <2>1. w = Wakeup(p, u)
    OBVIOUS
  <2>2. Waked(p, u, w)
    BY <2>1, WakeupIs
  <2> QED
    BY <2>2 DEF Waked
<1>6. /\ ~u.sock => u.state = "none" \/ FinSent(u)
      /\ u.state = "none" => ~u.sock
  BY <1>1, Zenon DEF BlockOK, StateOK
<1>7. (FinSent(u) => FinSent(t)) /\ (t.state = "none" => ~Live(u))
  BY <1>1 DEF FinSent, Live
<1>8. NotYet(h) => n = 0
  BY <1>3
<1>9. ProgFine(h, u, w, n)
  BY <1>2, <1>5, <1>6, <1>7, <1>1, Params, PeerIs, <1>8 DEF ProgFine, BlockOK, StateOK, NotYet
<1>10. SleepFine(u, w)
  <2>1. CASE t.state = "SYNRCVD" /\ u.state = "none"
    BY <1>2, <2>1, <1>5 DEF ProgFine, Prog, SleepFine
  <2>2. CASE Sleep(t, u)
    BY <1>2, <2>2, SleepStays
  <2> QED
    BY <1>1, <2>1, <2>2
<1>11. AllRst(u) \/ Started(h)'
  BY <1>1, <1>3, Zenon DEF Said
<1>12. ~Started(h)' => u.state = "none" /\ w.fd = "none"
  BY <1>3, <1>5, <1>7, <1>2, <1>1, <1>6 DEF FinSent, BlockOK, StateOK
<1>13. NotYet(h)' => l = <<>>
  BY <1>3
<1> QED
  BY <1>4, <1>5, <1>9, <1>10, <1>11, <1>12, <1>13, Zenon DEF Serves

LEMMA FinishIs ==
  ASSUME TypeOK, NEW h \in Host, NEW u, NEW p, Finish(h, u, p), NEW w, w = Wakeup(p, u),
         NEW l, got' = [got EXCEPT ![h] = l], listening' \in {"new", "used", "closed"}
  PROVE  Outcome(h, u, w, l)
BY Zenon DEF Finish, Outcome, Clean

LEMMA GotSame ==
  ASSUME TypeOK, NEW h \in Host, got' = got
  PROVE  got' = [got EXCEPT ![h] = got[h]]
  BY DEF TypeOK

\* What has come so far lies within what was written.
LEMMA RcvEndIs ==
  ASSUME NEW h \in Host, NEW g, NEW G, StreamEnd(g, h, G), NEW z,
         z <=> (Live(tcb[g]) => FinSent(tcb[g])), NEW t, t = tcb[h]
  PROVE  RcvEnd(t, G, z)
BY StreamEndIs, Zenon DEF RcvEnd, EndFixed

LEMMA TInvStream ==
  ASSUME TInv, NEW h \in Host
  PROVE  \E F \in Nat : StreamEnd(h, Peer(h), F)
BY Zenon DEF TInv

\* A step that is no call of a program
LEMMA FrontTurn ==
  ASSUME TInv, NEW h \in Host, NEW g, g = Peer(h), NEW t, t = tcb[h], NEW u, NEW x, Below(g, x),
         Synced(u) /\ ~Synced(t) => Started(g),
         NEW G \in Nat, StreamEnd(g, h, G), NEW z, z <=> (Live(tcb[g]) => FinSent(tcb[g])),
         Answer(h, t, u, x, G, z),
         Finish(h, u, prog[h]), listening' = listening, got' = got
  PROVE  TInv'
<1> PICK F \in Nat : StreamEnd(h, g, F)
  BY TInvStream
<1>1. Legal(h, g, t, u, F, F, G, z)
  BY AnswerLegal
<1> PICK w : w = Wakeup(prog[h], u)
  OBVIOUS
<1> PICK l : l = got[h]
  OBVIOUS
<1> PICK c : c = Clean(u)
  OBVIOUS
<1>2. TypeOK
  BY Zenon DEF TInv
<1>3. Outcome(h, u, w, l)
  BY <1>2, GotSame, FinishIs DEF TypeOK
<1>4. c.state = u.state
  BY CleanIs DEF Answer, Turn, BlockOK, Cleaned
<1>5. w.fd = prog[h].fd
  <2> PICK p \in Prog : p = prog[h]
    BY TInvHost
  <2>1. w = Wakeup(p, u)
    OBVIOUS
  <2>2. Waked(p, u, w)
    BY <2>1, WakeupIs
  <2> QED
    BY <2>2 DEF Waked
<1>6. u.state = "SYNSENT" => tcb[h].state = "SYNSENT"
  BY Zenon DEF Answer, Turn
<1>7. Frame(h, g, c) /\ (Started(h)' <=> Started(h))
  BY <1>2, <1>3, <1>4, <1>5, <1>6, FrameSame
<1>8. Serves(h, g, u, w, l)
  BY <1>7, AnswerServes DEF Frame
<1> QED
  BY <1>1, <1>3, <1>7, <1>8, StepInv

\* wakeme()
LEMMA TimeoutInv ==
  ASSUME TInv, NEW h \in Host, Timeout(h)
  PROVE  TInv'
<1> PICK g \in Host : g = Peer(h)
  BY PeerIs
<1> PICK t : t = tcb[h]
  OBVIOUS
<1>1. PICK cwnd \in Cwnds, q \in BOOLEAN : Finish(h, Event([tcb[h] EXCEPT !.timer = FALSE], "TIMEOUT", cwnd, q), prog[h])
  BY Zenon DEF Timeout
<1>2. t.timer /\ listening' = listening /\ got' = got
  BY Zenon DEF Timeout
<1> PICK u : u = Event(Expired(t), "TIMEOUT", cwnd, q)
  OBVIOUS
<1>3. Finish(h, u, prog[h])
  BY <1>1, Zenon DEF Expired
<1>4. cwnd \in Int
  BY Params DEF Cwnds, Most
<1> PICK G \in Nat : StreamEnd(g, h, G)
  BY TInvStream, PeerIs
<1> PICK z \in BOOLEAN : z <=> (Live(tcb[g]) => FinSent(tcb[g]))
  OBVIOUS
<1>5. BlockOK(h, t) /\ t.out = <<>> /\ Below(g, t.una)
  BY TInvHost
<1>6. RcvEnd(t, G, z)
  BY RcvEndIs
<1>7. Answer(h, t, u, t.una, G, z) /\ (Synced(u) => Synced(t))
  BY <1>2, <1>4, <1>5, <1>6, TimeoutTurn
<1> QED
  BY <1>2, <1>3, <1>5, <1>7, FrontTurn

\* deleteme()
LEMMA DeletemeInv ==
  ASSUME TInv, NEW h \in Host, Deleteme(h)
  PROVE  TInv'
<1> PICK g \in Host : g = Peer(h)
  BY PeerIs
<1> PICK t : t = tcb[h]
  OBVIOUS
<1> PICK u : u = Delete([t EXCEPT !.del = FALSE])
  OBVIOUS
<1>1. Finish(h, u, prog[h]) /\ t.del /\ listening' = listening /\ got' = got
  BY Zenon DEF Deleteme
<1> PICK G \in Nat : StreamEnd(g, h, G)
  BY TInvStream, PeerIs
<1> PICK z \in BOOLEAN : z <=> (Live(tcb[g]) => FinSent(tcb[g]))
  OBVIOUS
<1>2. BlockOK(h, t) /\ t.out = <<>> /\ Below(g, t.una)
  BY TInvHost
<1>3. Answer(h, t, u, t.una, G, z)
  BY <1>1, <1>2, DeletemeTurn
<1>4. Synced(u) => Synced(t)
  BY <1>1, <1>2, <1>3 DEF BlockOK, StateOK, Answer, Turn
<1> QED
  BY <1>1, <1>2, <1>3, <1>4, FrontTurn

\* dodelack()
LEMMA DodelackInv ==
  ASSUME TInv, NEW h \in Host, Dodelack(h)
  PROVE  TInv'
<1> PICK g \in Host : g = Peer(h)
  BY PeerIs
<1> PICK t : t = tcb[h]
  OBVIOUS
<1> PICK u : u = SndAckOnly(t)
  OBVIOUS
<1>1. Finish(h, u, prog[h]) /\ t.delack /\ listening' = listening /\ got' = got
  BY Zenon DEF Dodelack
<1> PICK G \in Nat : StreamEnd(g, h, G)
  BY TInvStream, PeerIs
<1> PICK z \in BOOLEAN : z <=> (Live(tcb[g]) => FinSent(tcb[g]))
  OBVIOUS
<1>2. BlockOK(h, t) /\ t.out = <<>> /\ Below(g, t.una)
  BY TInvHost
<1>3. RcvEnd(t, G, z)
  BY RcvEndIs
<1>4. Answer(h, t, u, t.una, G, z)
  BY <1>1, <1>2, <1>3, DodelackTurn
<1>5. Synced(u) => Synced(t)
  <2>1. IsBlock(t) /\ t.nxt \in Int
    BY <1>2 DEF BlockOK, IsBlock
  <2>2. u = Acking(t, t.nxt, {"ACK"}, <<>>)
    BY Zenon DEF SndAckOnly
  <2>3. Unmoved(t, u)
    BY <2>1, <2>2, PlainIs
  <2>4. u.state = t.state
    BY <2>3, Zenon DEF Unmoved, Untouched
  <2> QED
    BY <2>4 DEF Synced
<1> QED
  BY <1>1, <1>2, <1>4, <1>5, FrontTurn

\* Segments that are lost
LEMMA LoseInv ==
  ASSUME TInv, Lose
  PROVE  TInv'
<1>1. net' \subseteq net /\ tcb' = tcb /\ listening' = listening /\ prog' = prog /\ got' = got
  BY Zenon DEF Lose
<1>2. NetOK'
  BY <1>1, Zenon DEF TInv, NetOK, MsgOK, Below, NotYet, Started
<1>3. \A h \in Host : \E F \in Nat : StreamEnd(h, Peer(h), F)'
  BY TInvStream, <1>1 DEF StreamEnd, Started
<1>4. TypeOK' /\ StartOK' /\ AcksOK' /\ InOrder'
  BY <1>1, Zenon DEF TInv, TypeOK, StartOK, AcksOK, InOrder, Below, NotYet, Started
<1>5. \A h \in Host : HostOK(h)' /\ Sleepers(h)'
  BY <1>1, Zenon DEF TInv, HostOK, ProgOK, Sleepers
<1> QED
  BY <1>2, <1>3, <1>4, <1>5, Zenon DEF TInv

\* A segment on its way is one that the other host can take.
LEMMA ArrivesIs ==
  ASSUME TInv, NEW h \in Host, NEW g, g = Peer(h), NEW t, t = tcb[h], NEW m \in net, m.to = h,
         NEW s, s = m.seg, NEW G \in Nat, StreamEnd(g, h, G), NEW z,
         z <=> (Live(tcb[g]) => FinSent(tcb[g]))
  PROVE  Arrives(h, t, s, G, z)
  BY StreamEndIs, TInvHost, PeerIs DEF TInv, NetOK, Arrives, MsgOK, SegEnds, EndFixed, Below, NetSeg,
     BlockOK, StateOK, Has, SynSeg

\* A segment with RST opens nothing.
LEMMA RstOpens ==
  ASSUME NEW h \in Host, NEW t, t = tcb[h], IsBlock(t), t.state = "SYNSENT", NEW s, Has(s, "RST"),
         NEW cwnd, NEW u, u = Input(h, s, cwnd)
  PROVE  ~Synced(u)
<1>1. ~Synced(t) /\ t.state # "none" /\ t.state # "CLOSED"
  BY DEF Synced
<1>2. u = IF Valid(t, s) THEN Handle(h, t, Trimmed(t, s), cwnd) ELSE SndAck(t, s)
  BY <1>1, Zenon DEF Input
<1>3. Trimmed(t, s) = s
  BY <1>1, Zenon DEF Trimmed
<1>4. SndAck(t, s) = t /\ SndRst(t, s) = t
  BY DEF SndAck, SndRst
<1>5. Handle(h, t, s, cwnd) = Synsent(t, s, Isn[h], cwnd)
  BY <1>1 DEF Handle
<1> PICK i : i = Isn[h]
  OBVIOUS
<1> PICK v : v = Synsent(t, s, i, cwnd)
  OBVIOUS
<1>6. SynsentArms(t, s, i, cwnd, v)
  BY SynsentCases
<1>7. ~Synced(v)
  BY ResetIs, <1>6, <1>4, <1>1, ZenonT(40) DEF IsBlock, Fields, SynsentArms, OursIs, Synced
<1> QED
  BY <1>1, <1>2, <1>3, <1>4, <1>5, <1>7, Zenon

LEMMA DeliverInv ==
  ASSUME TInv, NEW m \in net, NEW h, h = m.to, NEW s, s = m.seg, ~Opens(h, s), NEW cwnd \in Cwnds,
         Finish(h, Input(h, s, cwnd), prog[h]), listening' = listening, got' = got
  PROVE  TInv'
<1>0. h \in Host /\ s \in Segment /\ MsgOK(Peer(h), h, s)
  BY Zenon DEF TInv, NetOK
<1> PICK g \in Host : g = Peer(h)
  BY <1>0, PeerIs
<1> PICK t : t = tcb[h]
  OBVIOUS
<1> PICK u : u = Input(h, s, cwnd)
  OBVIOUS
<1>1. cwnd \in Int
  BY Params DEF Cwnds, Most
<1> PICK G \in Nat : StreamEnd(g, h, G)
  BY <1>0, TInvStream, PeerIs
<1> PICK z \in BOOLEAN : z <=> (Live(tcb[g]) => FinSent(tcb[g]))
  OBVIOUS
<1>2. BlockOK(h, t) /\ t.out = <<>> /\ Below(g, t.una) /\ ProgFine(h, t, prog[h], Len(got[h]))
  BY <1>0, TInvHost
<1>3. RcvEnd(t, G, z)
  BY <1>0, RcvEndIs
<1>4. Arrives(h, t, s, G, z)
  BY <1>0, ArrivesIs
<1>5. Synced(t) /\ t.sock => 0 <= t.read
  BY <1>0, TInvHost, Params, <1>2 DEF ProgFine
<1> PICK x : x = IF Has(s, "RST") THEN t.una ELSE s.ack
  OBVIOUS
<1>6. Has(s, "RST") \/ x = s.ack
  OBVIOUS
<1>7. Below(g, x)
  BY <1>0, <1>2, Zenon DEF MsgOK
<1>8. Answer(h, t, u, x, G, z)
  BY <1>0, <1>1, <1>2, <1>3, <1>4, <1>5, <1>6, InputTurn
<1>9. Synced(u) /\ ~Synced(t) => Started(g)
  BY <1>2, <1>8, <1>0, RstOpens DEF Answer, Turn, BlockOK, MsgOK
<1> QED
  BY <1>0, <1>7, <1>8, <1>9, FrontTurn

\* A block that was just made speaks for itself.
LEMMA NewSays ==
  ASSUME NEW h, NEW g, NEW u, IsBlock(u), ~FinSent(u), Below(g, u.una), u.state = "SYNSENT" => u.rnxt = 0,
         NEW F, u.write = F, Outs(h, u, u)
  PROVE  Utters(h, g, u, F)
<1>1. LastByte(u) = F
  BY DEF LastByte
<1>2. Synced(u) => u.rnxt <= u.rnxt
  BY DEF IsBlock
<1>3. Says(g, u, F, u)
  BY <1>1, <1>2, Zenon DEF Says
<1> QED
  BY <1>3, Zenon DEF Utters

\* The other host has nothing of a connection that is not there.
LEMMA NothingBelow ==
  ASSUME TInv, NEW h \in Host, NEW g, g = Peer(h), ~Started(h), NEW n \in Nat, n = Isn[h]
  PROVE  Below(g, n)
  BY TInvStream, StreamEndIs, PeerIs DEF Below

LEMMA OpensInv ==
  ASSUME TInv, NEW m \in net, NEW h, h = m.to, NEW s, s = m.seg, Opens(h, s), listening = "new",
         NEW cwnd \in Cwnds, Finish(h, Input(h, s, cwnd), prog[h]), listening' = "used", got' = got
  PROVE  TInv'
<1>1. h \in Host /\ s \in Segment /\ MsgOK(Peer(h), h, s) /\ TypeOK
  BY Zenon DEF TInv, NetOK
<1>2. h = "sv" /\ tcb[h].state = "none" /\ s.flags = {"SYN"}
  BY Zenon DEF Opens
<1> PICK g : g = "cl"
  OBVIOUS
<1>3. g = Peer(h) /\ g \in Host
  BY PeerIs, <1>2 DEF Host
<1>4. Has(s, "SYN") /\ ~Has(s, "RST") /\ ~Has(s, "ACK")
  BY <1>2 DEF Has
<1>5. /\ Started(g) /\ s.seq = Isn[g]
      /\ AtPlace(s) \/ s.flags = {"ACK"}
  BY <1>1, <1>3, <1>4, Zenon DEF MsgOK
<1>6. AtPlace(s)
  BY <1>2, <1>5
<1> PICK i \in Nat : i = Isn[g]
  BY <1>3, Params
<1> PICK o \in Int : o = i + 1
  OBVIOUS
<1> PICK n \in Nat : n = Isn["sv"]
  BY Params DEF Host
<1> PICK G \in Nat : StreamEnd(g, h, G)
  BY <1>1, <1>3, TInvStream, PeerIs
<1> PICK z \in BOOLEAN : z <=> (Live(tcb[g]) => FinSent(tcb[g]))
  OBVIOUS
<1>7. EndsAt(s) <= G
  BY <1>4, StreamEndIs DEF SegEnds
<1>8. cwnd \in Int /\ Mss <= cwnd
  BY Params DEF Cwnds, Most
<1> PICK b : b = Block("SYNRCVD", n, i)
  OBVIOUS
<1> PICK v : v = Rcvdata(b, s)
  OBVIOUS
<1> PICK u : u = SynAck(v, cwnd)
  OBVIOUS
<1>9. Opening(u, n, o, G, z)
  BY <1>1, <1>2, <1>5, <1>6, <1>7, <1>8, OpeningIs
<1>10. Input(h, s, cwnd) = u
  BY <1>2, <1>4, <1>5 DEF Input, Listen, SynAck
<1>11. Finish(h, u, prog[h])
  BY <1>10, Zenon
<1>12. /\ BlockOK("sv", u) /\ RcvEnd(u, G, z) /\ Outs("sv", u, u)
       /\ u.state = "SYNRCVD" /\ u.una = n /\ u.write = n + 1 /\ o <= u.rnxt /\ u.read = o /\ u.sock
  BY <1>9, Zenon DEF Opening
<1>13. IsBlock(u) /\ ~FinSent(u) /\ Live(u) /\ Synced(u)
  BY <1>12 DEF BlockOK, FinSent, Live, Synced
<1>14. NotYet(h) /\ ~Started(h)
  BY <1>2 DEF NotYet, Started
<1>15. Below(g, n)
  BY <1>1, <1>2, <1>3, <1>14, NothingBelow
<1>16. Below(g, u.una)
  BY <1>12, <1>15, Zenon
<1> PICK F \in Nat : StreamEnd(h, g, F)
  BY <1>1, <1>3, TInvStream
<1> PICK e \in Nat : e = n + 1
  OBVIOUS
<1> PICK t : t = tcb[h]
  OBVIOUS
<1>17. Forward(h, g, t, u)
  <2> PICK r \in Int : r = u.rnxt
    BY <1>13 DEF IsBlock
  <2>1. o <= r
    BY <1>12, Zenon
  <2>2. i <= r
    BY <2>1
  <2>3. Isn[g] <= u.rnxt
    BY <2>2
  <2> QED
    BY <1>5, <1>14, <2>3, Zenon DEF Forward
<1>18. Utters(h, g, u, e)
  BY <1>2, <1>12, <1>13, <1>16, NewSays
<1>19. Grows(h, t, u, F, e)
  BY <1>12, <1>13, <1>14 DEF Grows
<1>20. Legal(h, g, t, u, F, e, G, z)
  BY <1>2, <1>12, <1>16, <1>17, <1>18, <1>19 DEF Legal
<1> PICK p \in Prog : p = prog[h]
  BY <1>1, TInvHost
<1> PICK w : w = Wakeup(p, u)
  OBVIOUS
<1> PICK l : l = got[h]
  OBVIOUS
<1> PICK c : c = Clean(u)
  OBVIOUS
<1>21. Outcome(h, u, w, l)
  BY <1>1, GotSame, <1>11, FinishIs
<1>22. Started(h)' /\ ~NotYet(h)'
  BY <1>2 DEF NotYet, Started
<1>23. /\ tcb'[g] = tcb[g] /\ prog'[g] = prog[g]
       /\ tcb' = [tcb EXCEPT ![h] = c] /\ DOMAIN tcb = Host
  <2>1. tcb'[g] = tcb[g] /\ prog'[g] = prog[g]
    BY <1>1, <1>3, <1>21, OutcomeIs
  <2> QED
    BY <1>1, <1>21, <2>1, Zenon DEF TypeOK, Outcome
<1>24. Frame(h, g, c)
  BY <1>23, <1>14, <1>22 DEF NotYet, Started, Frame
<1>25. Serves(h, g, u, w, l)
  <2>1. p.fd = "none" /\ l = <<>> /\ ProgFine(h, tcb[h], p, Len(l))
    BY <1>1, <1>14, TInvHost
  <2>2. p.rd = "idle" /\ p.wr = "idle" /\ ~p.conn
    BY <2>1, Zenon DEF ProgFine
  <2>3. Waked(p, u, w)
    BY WakeupIs
  <2>4. w \in Prog /\ w.fd = "none" /\ w.rd = "idle" /\ w.wr = "idle" /\ w.conn = p.conn
    BY <2>1, <2>2, <2>3 DEF Waked
  <2>5. u.read = Isn[Peer(h)] + 1 + Len(l)
    BY <2>1, <1>3, <1>12
  <2>6. w.fd # "open" /\ w.fd # "gone" /\ w.rd # "asleep" /\ w.wr # "asleep"
    BY <2>4
  <2>7. ProgFine(h, u, w, Len(l))
    BY <1>12, <1>13, <2>2, <2>4, <2>5, <2>6, Zenon DEF ProgFine
  <2>8. SleepFine(u, w)
    BY <2>6, Zenon DEF SleepFine
  <2>9. l \in Seq(Int) /\ \A k \in 1..Len(l) : l[k] = Isn[g] + k
    BY <1>1, <1>3, TInvHost
  <2> QED
    BY <1>22, <2>4, <2>7, <2>8, <2>9, Zenon DEF Serves
<1> QED
  BY <1>1, <1>3, <1>20, <1>21, <1>24, <1>25, StepInv

LEMMA StreamsAre ==
  ASSUME TInv, NEW h \in Host
  PROVE  \E g, F, G, z : Streams(h, g, F, G, z)
  BY PeerIs, TInvStream DEF Streams

\* Those who are woken may go on like those who are not.
LEMMA WakeServes ==
  ASSUME NEW h, NEW u, NEW p \in Prog, NEW n, ProgFine(h, u, p, n),
         u.wake \/ SleepFine(u, p), NEW w, w = Wakeup(p, u)
  PROVE  Served(h, u, w, p, n)
<1>1. Waked(p, u, w)
  BY WakeupIs
<1>2. /\ w \in Prog /\ w.fd = p.fd /\ w.conn = p.conn /\ w.shut = p.shut
      /\ w.left = p.left
      /\ w.rd = "idle" <=> p.rd = "idle"
      /\ w.wr = "idle" <=> p.wr = "idle"
      /\ u.wake => w.rd # "asleep" /\ w.wr # "asleep"
      /\ ~u.wake => w = p
  BY <1>1, Zenon DEF Waked
<1>3. ProgFine(h, u, w, n)
  BY <1>2, Zenon DEF ProgFine
<1>4. SleepFine(u, w)
  BY <1>2 DEF SleepFine
<1> QED
  BY <1>2, <1>3, <1>4, Zenon DEF Served

\* A call on a socket that is open
LEMMA CallInv ==
  ASSUME TInv, NEW h \in Host, NEW g, NEW t, t = tcb[h], NEW F, NEW G, NEW z, Streams(h, g, F, G, z),
         NEW u, NEW E \in Nat, Legal(h, g, t, u, F, E, G, z),
         u.state = "SYNSENT" => t.state = "SYNSENT",
         NEW p \in Prog, prog[h].fd # "none", p.fd # "none", ProgFine(h, u, p, Len(got'[h])),
         u.wake \/ SleepFine(u, p), Finish(h, u, p), listening' = listening,
         NEW l \in Seq(Int), got' = [got EXCEPT ![h] = l], NotYet(h) => l = <<>>,
         \A i \in 1..Len(l) : l[i] = Isn[g] + i
  PROVE  TInv'
<1>1. /\ TypeOK /\ g \in Host /\ g = Peer(h) /\ F \in Nat /\ G \in Nat
      /\ StreamEnd(h, g, F) /\ StreamEnd(g, h, G)
      /\ z <=> (Live(tcb[g]) => FinSent(tcb[g]))
  BY Zenon DEF Streams, TInv
<1> PICK w : w = Wakeup(p, u)
  OBVIOUS
<1> PICK c : c = Clean(u)
  OBVIOUS
<1>2. Outcome(h, u, w, l)
  BY <1>1, FinishIs DEF TypeOK
<1>3. got'[h] = l
  BY <1>1, <1>2, OutcomeIs, ZenonT(40)
<1>4. ProgFine(h, u, p, Len(l))
  BY <1>3, Zenon
<1>5. w \in Prog /\ w.fd = p.fd /\ ProgFine(h, u, w, Len(l)) /\ SleepFine(u, w)
  <2>1. Served(h, u, w, p, Len(l))
    BY <1>4, WakeServes
  <2> QED
    BY <2>1, Zenon DEF Served
<1>6. c.state = u.state
  BY CleanIs DEF Legal, BlockOK, Cleaned
<1>7. Frame(h, g, c) /\ (Started(h)' <=> Started(h))
  BY <1>5, <1>1, <1>2, <1>6, FrameSame
<1>8. Started(h)
  BY TInvHost
<1>9. Serves(h, g, u, w, l)
  BY <1>7, <1>5, <1>8 DEF Frame, Serves
<1> QED
  BY <1>1, <1>2, <1>7, <1>9, StepInv

\* A call that reads nothing
LEMMA QuietInv ==
  ASSUME TInv, NEW h \in Host, NEW g, NEW t, t = tcb[h], NEW F, NEW G, NEW z, Streams(h, g, F, G, z),
         NEW u, NEW E \in Nat, Legal(h, g, t, u, F, E, G, z),
         u.state = "SYNSENT" => t.state = "SYNSENT",
         NEW p \in Prog, prog[h].fd # "none", p.fd # "none", ProgFine(h, u, p, Len(got[h])),
         u.wake \/ SleepFine(u, p), Finish(h, u, p), listening' = listening, got' = got
  PROVE  TInv'
<1>1. ProgFine(h, u, p, Len(got'[h]))
  OBVIOUS
<1> PICK l \in Seq(Int) : l = got[h]
  BY TInvHost
<1>2. got' = [got EXCEPT ![h] = l]
  BY GotSame DEF TInv
<1>3. (NotYet(h) => l = <<>>) /\ \A i \in 1..Len(l) : l[i] = Isn[g] + i
  BY TInvHost, Zenon DEF Streams
<1> QED
  BY <1>1, <1>2, <1>3, CallInv, ZenonT(40)

LEMMA ClearedIs ==
  ASSUME NEW h, NEW t, BlockOK(h, t), NEW e \in BOOLEAN, NEW u, u = Cleared(t, e)
  PROVE  /\ BlockOK(h, u) /\ u.err = e /\ u.out = t.out /\ u.state = t.state /\ u.una = t.una
         /\ u.rnxt = t.rnxt /\ u.write = t.write /\ u.fin = t.fin /\ u.rcvq = t.rcvq /\ u.sock = t.sock
         /\ u.read = t.read /\ u.sndq = t.sndq
<1>1. IsBlock(t)
  BY DEF BlockOK
<1>2. DOMAIN t = Fields /\ DOMAIN u = Fields
  BY <1>1 DEF IsBlock, Cleared
<1>3. /\ u.err = e
      /\ u.state = t.state /\ u.ostate = t.ostate /\ u.una = t.una /\ u.nxt = t.nxt /\ u.max = t.max
      /\ u.write = t.write /\ u.rnxt = t.rnxt /\ u.read = t.read /\ u.fin = t.fin /\ u.sndq = t.sndq
      /\ u.rcvq = t.rcvq /\ u.sock = t.sock /\ u.timer = t.timer /\ u.del = t.del
      /\ u.delack = t.delack /\ u.wnd = t.wnd /\ u.wndseq = t.wndseq /\ u.wndack = t.wndack
      /\ u.wndmax = t.wndmax /\ u.rwnd = t.rwnd /\ u.cur = t.cur /\ u.nretrans = t.nretrans
      /\ u.dupacks = t.dupacks /\ u.disc = t.disc /\ u.fatal = t.fatal /\ u.out = t.out /\ u.wake = t.wake
  BY <1>2 DEF Fields, Cleared
<1>4. IsBlock(u)
  BY <1>1, <1>2, <1>3, Zenon DEF IsBlock
<1>5. /\ Synced(u) <=> Synced(t)
      /\ Live(u) <=> Live(t)
      /\ FinSent(u) <=> FinSent(t)
      /\ Finished(u) <=> Finished(t)
  BY <1>3 DEF Synced, Live, FinSent, Finished
<1>6. \A x : Kept(u, x) <=> Kept(t, x)
  BY <1>3, Zenon DEF Kept
<1>7. Live(t) => SndOK(h, t) /\ SynGone(t) /\ TimerOK(t)
  BY DEF BlockOK
<1>8. Live(u) => SndOK(h, u) /\ SynGone(u) /\ TimerOK(u)
  BY <1>3, <1>5, <1>7, SndSameState
<1>9. StateOK(h, u)
  BY <1>3, <1>5 DEF BlockOK, StateOK
<1>10. RcvOK(u)
  BY <1>3, <1>5, <1>6 DEF BlockOK, RcvOK
<1>11. BlockOK(h, u)
  BY <1>4, <1>8, <1>9, <1>10, Zenon DEF BlockOK
<1> QED
  BY <1>3, <1>11

LEMMA StillLegal ==
  ASSUME TInv, NEW h \in Host, NEW g, NEW t, t = tcb[h], NEW F, NEW G, NEW z, Streams(h, g, F, G, z),
         NEW u, Still(h, t, u)
  PROVE  Legal(h, g, t, u, F, F, G, z)
<1>1. /\ g \in Host /\ g = Peer(h) /\ F \in Nat /\ G \in Nat
      /\ StreamEnd(h, g, F) /\ StreamEnd(g, h, G)
      /\ z <=> (Live(tcb[g]) => FinSent(tcb[g]))
  BY Zenon DEF Streams
<1>2. BlockOK(h, u) /\ u.out = <<>>
  BY Zenon DEF Still
<1>3. /\ u.state = t.state /\ u.una = t.una /\ u.rnxt = t.rnxt
      /\ u.write = t.write /\ u.fin = t.fin /\ u.rcvq = t.rcvq /\ u.sock = t.sock /\ u.read = t.read
  BY Zenon DEF Still
<1>4. /\ Synced(u) <=> Synced(t)
      /\ Live(u) <=> Live(t)
      /\ FinSent(u) <=> FinSent(t)
      /\ FinSeen(u) <=> FinSeen(t)
  BY <1>3 DEF Synced, Live, FinSent, FinSeen
<1>5. Below(g, u.una)
  BY <1>1, TInvHost, <1>3
<1>6. Forward(h, g, t, u)
  BY <1>2, <1>3, <1>4 DEF BlockOK, IsBlock, Forward
<1>7. Grows(h, t, u, F, F)
  BY <1>1, StreamLast, <1>3, <1>4 DEF Grows
<1>8. RcvEnd(u, G, z)
  BY <1>1, RcvEndIs, <1>3, <1>4 DEF RcvEnd
<1>9. Utters(h, g, u, F)
  BY <1>2, Silent DEF Utters
<1> QED
  BY <1>2, <1>5, <1>6, <1>7, <1>8, <1>9, Zenon DEF Legal

LEMMA StillSame ==
  ASSUME NEW h, NEW t, BlockOK(h, t), t.out = <<>>
  PROVE  Still(h, t, t)
BY DEF Still

LEMMA StillCleared ==
  ASSUME NEW h, NEW t, BlockOK(h, t), t.out = <<>>, NEW e \in BOOLEAN, NEW u, u = Cleared(t, e)
  PROVE  Still(h, t, u)
  BY ClearedIs DEF Still

\* What the programs see of it
LEMMA StillProg ==
  ASSUME NEW h, NEW t, NEW u, Still(h, t, u)
  PROVE  /\ \A p, n : ProgFine(h, t, p, n) => ProgFine(h, u, p, n)
         /\ Readable(u) = Readable(t)
         /\ Canwrite(u) = Canwrite(t)
         /\ Connecting(u) <=> Connecting(t)
         /\ Connected(u) <=> Connected(t)
  BY ReadableSame DEF Still, Synced, FinSent, Connecting, Connected, ProgFine, Canwrite, Used

\* A call that leaves the connection as it is and reads nothing
LEMMA StillInv ==
  ASSUME TInv, NEW h \in Host, NEW t, t = tcb[h], NEW u, Still(h, t, u), NEW p \in Prog,
         prog[h].fd # "none", p.fd # "none", ProgFine(h, t, p, Len(got[h])),
         SleepFine(u, p), Finish(h, u, p), listening' = listening, got' = got
  PROVE  TInv'
<1> PICK g, F, G, z : Streams(h, g, F, G, z)
  BY StreamsAre, Zenon
<1>1. F \in Nat
  BY Zenon DEF Streams
<1>2. Legal(h, g, t, u, F, F, G, z)
  BY StillLegal
<1>3. ProgFine(h, u, p, Len(got[h]))
  BY StillProg, Zenon
<1>4. u.state = "SYNSENT" => t.state = "SYNSENT"
  BY Zenon DEF Still
<1> QED
  BY <1>1, <1>2, <1>3, <1>4, QuietInv

LEMMA WriterIs ==
  ASSUME NEW p \in Prog, NEW a \in {"idle", "asleep", "awake"}, NEW b \in BOOLEAN, NEW n \in Nat,
         NEW q, q = Writer(p, a, b, n)
  PROVE  Wrote(p, a, b, n, q)
BY DEF Writer, Prog, Wrote

LEMMA WriterFine ==
  ASSUME NEW p \in Prog, NEW a \in {"idle", "asleep", "awake"}, NEW b \in BOOLEAN, NEW n \in Nat,
         NEW q, q = Writer(p, a, b, n), NEW h, NEW t, NEW k, ProgFine(h, t, p, k), p.fd = "open",
         b => a # "idle", a # "idle" /\ ~b => n > 0
  PROVE  ProgFine(h, t, q, k)
<1>1. /\ q.wr = a /\ q.conn = b /\ q.left = n /\ q.fd = p.fd /\ q.rd = p.rd
      /\ q.shut = p.shut
  BY WriterIs DEF Wrote
<1>2. p.fd # "none" /\ p.fd # "gone"
  OBVIOUS
<1> QED
  BY <1>1, <1>2, Zenon DEF ProgFine

\* A program that sleeps has its socket.
LEMMA Sleeping ==
  ASSUME NEW h, NEW t, NEW p \in Prog, NEW n, ProgFine(h, t, p, n), p.wr # "idle" \/ p.rd # "idle"
  PROVE  p.fd = "open"
  BY DEF Prog, ProgFine

LEMMA ConnectAgainInv ==
  ASSUME TInv, ConnectAgain
  PROVE  TInv'
<1> PICK h \in Host : h = "cl"
  BY DEF Host
<1> PICK t : t = tcb[h]
  OBVIOUS
<1> PICK e \in BOOLEAN : e <=> t.err /\ (Connecting(t) \/ t.state = "ESTABLISHED")
  OBVIOUS
<1> PICK u : u = Cleared(t, e)
  OBVIOUS
<1>1. BlockOK(h, t) /\ t.out = <<>> /\ ProgFine(h, t, prog[h], Len(got[h])) /\ SleepFine(t, prog[h])
      /\ prog[h] \in Prog
  BY TInvHost
<1>2. /\ prog[h].conn /\ prog[h].wr = "awake"
      /\ Finish(h, [t EXCEPT !.err = @ /\ (Connecting(t) \/ t.state = "ESTABLISHED")], ConnectLoop(prog[h], t))
      /\ listening' = listening /\ got' = got
  BY Zenon DEF ConnectAgain
<1>3. u = [t EXCEPT !.err = @ /\ (Connecting(t) \/ t.state = "ESTABLISHED")]
  BY <1>1 DEF BlockOK, IsBlock, Cleared
<1> PICK a \in {"idle", "asleep", "awake"} : a = IF Connecting(t) THEN "asleep" ELSE "idle"
  OBVIOUS
<1>0. Connecting(t) \in BOOLEAN
  BY DEF Connecting
<1> PICK b \in BOOLEAN : b = Connecting(t)
  BY <1>0, Zenon
<1> PICK q \in Prog : q = prog[h]
  BY <1>1
<1> PICK n \in Nat : n = q.left
  BY DEF Prog
<1> PICK p : p = Writer(q, a, b, n)
  OBVIOUS
<1>4. p = ConnectLoop(q, t)
  BY DEF Writer, ConnectLoop, Prog
<1>5. Still(h, t, u)
  BY <1>1, StillCleared
<1>6. prog[h].fd = "open"
  BY <1>1, <1>2, Sleeping
<1>7. p \in Prog /\ p.wr = a /\ p.conn = b /\ p.fd = q.fd /\ p.rd = q.rd /\ p.shut = q.shut
  <2>1. Wrote(q, a, b, n, p)
    BY WriterIs
  <2> QED
    BY <2>1, Zenon DEF Wrote
<1>8. ProgFine(h, t, p, Len(got[h]))
  BY <1>1, <1>6, WriterFine
<1>9. SleepFine(u, p)
  BY <1>5, StillProg, <1>1, ClearedIs, <1>7 DEF Still, SleepFine
<1>10. Finish(h, u, p)
  BY <1>2, <1>3, <1>4, Zenon
<1>11. prog[h].fd # "none" /\ p.fd # "none"
  BY <1>6, <1>7
<1> QED
  BY <1>2, <1>5, <1>7, <1>8, <1>9, <1>10, <1>11, StillInv

\* A signal
LEMMA InterruptInv ==
  ASSUME TInv, NEW h \in Host, Interrupt(h)
  PROVE  TInv'
<1> PICK t : t = tcb[h]
  OBVIOUS
<1> PICK g \in Host : g = Peer(h)
  BY PeerIs
<1>1. ProgFine(h, t, prog[h], Len(got[h])) /\ SleepFine(t, prog[h]) /\ prog[h] \in Prog
  BY TInvHost
<1>2. tcb' = tcb /\ listening' = listening /\ net' = net /\ got' = got
  BY Zenon DEF Interrupt
<1>3. prog \in [Host -> Prog]
  BY Zenon DEF TInv, TypeOK
<1>4. \E p \in Prog : /\ prog' = [prog EXCEPT ![h] = p] /\ p.fd = prog[h].fd
                      /\ ProgFine(h, t, p, Len(got[h])) /\ SleepFine(t, p)
  <2> PICK q \in Prog : q = prog[h]
    BY <1>1
  <2> PICK a \in {"idle", "asleep", "awake"} : a = "idle"
    OBVIOUS
  <2>1. CASE q.rd = "asleep" /\ prog' = [prog EXCEPT ![h].rd = "idle"]
    <3> PICK p : p = [q EXCEPT !.rd = a]
      OBVIOUS
    <3>1. /\ p \in Prog /\ p.rd = a /\ p.wr = q.wr /\ p.conn = q.conn /\ p.left = q.left /\ p.fd = q.fd
          /\ p.shut = q.shut
      BY DEF Prog
    <3>2. prog' = [prog EXCEPT ![h] = p]
      BY <2>1, Zenon
    <3>3. p.rd = "idle" /\ p.rd # "asleep"
      BY <3>1
    <3>4. ProgFine(h, t, p, Len(got[h]))
      BY <1>1, <3>1, <3>3, Zenon DEF ProgFine
    <3>5. SleepFine(t, p)
      BY <1>1, <3>1, <3>3, Zenon DEF SleepFine
    <3> QED
      BY <3>1, <3>2, <3>4, <3>5, Zenon
  <2>2. CASE q.wr = "asleep" /\ prog' = [prog EXCEPT ![h] = [Back(@) EXCEPT !.conn = FALSE]]
    <3> PICK b \in BOOLEAN : b = FALSE
      OBVIOUS
    <3> PICK n \in Nat : n = 0
      OBVIOUS
    <3> PICK p : p = Writer(q, a, b, n)
      OBVIOUS
    <3>1. /\ p \in Prog /\ p.rd = q.rd /\ p.wr = a /\ p.conn = b /\ p.fd = q.fd
          /\ p.shut = q.shut
      BY WriterIs DEF Wrote
    <3>2. p = [Back(q) EXCEPT !.conn = FALSE]
      BY DEF Writer, Back, Prog
    <3>3. prog' = [prog EXCEPT ![h] = p]
      BY <2>2, <3>2, Zenon
    <3>4. ~b /\ a # "asleep" /\ ~(a # "idle")
      OBVIOUS
    <3>5. q.fd = "open"
      BY <2>2, <1>1, Sleeping
    <3>6. ProgFine(h, t, p, Len(got[h]))
      BY <1>1, <3>4, <3>5, WriterFine
    <3>7. SleepFine(t, p)
      BY <1>1, <3>1, <3>4, Zenon DEF SleepFine
    <3> QED
      BY <3>1, <3>3, <3>6, <3>7, Zenon
  <2> QED
    BY <2>1, <2>2, Zenon DEF Interrupt
<1> PICK p \in Prog : /\ prog' = [prog EXCEPT ![h] = p] /\ p.fd = prog[h].fd
                      /\ ProgFine(h, t, p, Len(got[h])) /\ SleepFine(t, p)
  BY <1>4
<1> HIDE DEF Prog
<1>5. prog' \in [Host -> Prog] /\ prog'[h] = p /\ prog'[g] = prog[g]
  BY <1>3, PeerIs
<1>6. \A a \in Host : prog'[a].fd = prog[a].fd
  BY PeerIs, <1>5 DEF Host
<1>7. \A a \in Host : (NotYet(a)' <=> NotYet(a)) /\ (Started(a)' <=> Started(a))
  BY <1>2, <1>6 DEF Host, NotYet, Started
<1>8. \A a \in Host : \A x : Below(a, x) => Below(a, x)'
  BY <1>2, <1>7, Zenon DEF Below
<1>9. TypeOK' /\ StartOK' /\ InOrder'
  BY <1>2, <1>5, <1>6, <1>7, ZenonT(40) DEF TInv, TypeOK, StartOK, InOrder
<1>10. AcksOK'
  BY <1>2, <1>8, PeerIs, Zenon DEF TInv, AcksOK
<1>11. NetOK'
  BY <1>2, PeerIs, <1>7, <1>8 DEF NetOK, TInv, MsgOK
<1>12. \A a \in Host : \E F \in Nat : StreamEnd(a, Peer(a), F)'
  BY TInvStream, <1>2, <1>7 DEF StreamEnd
<1>13. HostOK(h)' /\ Sleepers(h)'
  BY <1>2, <1>5, Zenon DEF TInv, HostOK, ProgOK, Sleepers
<1>14. HostOK(g)' /\ Sleepers(g)'
  BY <1>2, <1>5, Zenon DEF TInv, HostOK, ProgOK, Sleepers
<1>15. \A a \in Host : HostOK(a)' /\ Sleepers(a)'
  BY PeerIs, <1>13, <1>14 DEF Host
<1> QED
  BY <1>9, <1>10, <1>11, <1>12, <1>15, Zenon DEF TInv

LEMMA OpenerIs ==
  ASSUME NEW p \in Prog, NEW f \in {"none", "open", "gone"}, NEW q, q = Opener(p, f)
  PROVE  OpenerOf(p, f, q)
BY DEF Opener, OpenerOf, Prog

\* tcp_accept()
LEMMA AcceptInv ==
  ASSUME TInv, Accept
  PROVE  TInv'
<1> PICK h \in Host : h = "sv"
  BY DEF Host
<1> PICK t : t = tcb[h]
  OBVIOUS
<1> PICK g, F, G, z : Streams(h, g, F, G, z)
  BY StreamsAre, Zenon
<1>0. /\ g \in Host /\ g = Peer(h) /\ F \in Nat /\ G \in Nat
      /\ StreamEnd(h, g, F) /\ StreamEnd(g, h, G)
      /\ z <=> (Live(tcb[g]) => FinSent(tcb[g]))
  BY Zenon DEF Streams
<1>1. TypeOK /\ prog[h] \in Prog
  BY TInvHost DEF TInv
<1> PICK q \in Prog : q = prog[h]
  BY <1>1
<1> PICK n : n = Len(got[h])
  OBVIOUS
<1>2. BlockOK(h, t) /\ t.out = <<>> /\ ~t.wake /\ ProgFine(h, t, q, n)
  BY TInvHost
<1>3. /\ q.fd = "none" /\ t.state \notin {"none", "SYNRCVD"}
      /\ Finish(h, t, [q EXCEPT !.fd = "open"])
      /\ listening' = "closed" /\ got' = got
  BY Zenon DEF Accept
<1> PICK f \in {"none", "open", "gone"} : f = "open"
  OBVIOUS
<1> PICK p : p = Opener(q, f)
  OBVIOUS
<1>4. Finish(h, t, p)
  BY <1>3, Zenon DEF Opener
<1>5. OpenerOf(q, f, p)
  BY OpenerIs
<1>6. /\ p \in Prog /\ p.fd = "open" /\ p.wr = q.wr /\ p.conn = q.conn /\ p.left = q.left /\ p.rd = q.rd
      /\ p.shut = q.shut
  BY <1>5, Zenon DEF OpenerOf
<1>7. q.rd = "idle" /\ q.wr = "idle" /\ ~q.conn /\ ~FinSent(t) /\ t.sock
  BY <1>2, <1>3, Zenon DEF ProgFine
<1>8. Started(h) /\ Started(h)' /\ ~NotYet(h)' /\ ~NotYet(h)
  BY TInvHost, <1>3 DEF Started, NotYet
<1>9. ProgFine(h, t, p, n)
  BY <1>3, <1>6, <1>2, <1>7 DEF ProgFine
<1>10. SleepFine(t, p)
  BY <1>6, <1>7 DEF SleepFine
<1> PICK w : w = Wakeup(p, t)
  OBVIOUS
<1>11. Served(h, t, w, p, n)
  BY <1>6, <1>9, <1>10, WakeServes
<1>12. w \in Prog /\ w.fd = "open" /\ ProgFine(h, t, w, n) /\ SleepFine(t, w)
  BY <1>6, <1>11, Zenon DEF Served
<1> PICK l \in Seq(Int) : l = got[h]
  BY TInvHost
<1> PICK c : c = Clean(t)
  OBVIOUS
<1>13. Outcome(h, t, w, l)
  BY <1>1, <1>3, GotSame, <1>4, FinishIs
<1>14. Legal(h, g, t, t, F, F, G, z)
  BY <1>2, StillSame, StillLegal
<1>15. Frame(h, g, c)
  BY <1>0, <1>1, <1>13, OutcomeIs, PeerIs, <1>8 DEF NotYet, Started, TypeOK, Outcome, Frame
<1>16. Serves(h, g, t, w, l)
  BY <1>0, TInvHost, <1>8, <1>12 DEF Serves
<1> QED
  BY <1>0, <1>13, <1>14, <1>15, <1>16, StepInv

\* tcp_connect()
LEMMA ConnectStep ==
  ASSUME TInv, NEW h \in Host, h = "cl", NEW t, t = tcb[h], NotYet(h), ~Started(h), NEW n \in Nat,
         n = Isn[h], NEW u, Asking(u, n), NEW p \in Prog, p.wr = "asleep", p.conn, p.fd = "open",
         p.rd = "idle", Finish(h, u, p), listening' = listening, got' = got
  PROVE  TInv'
<1> PICK g, F, G, z : Streams(h, g, F, G, z)
  BY StreamsAre, Zenon
<1>0. /\ g \in Host /\ g = Peer(h) /\ F \in Nat /\ G \in Nat
      /\ StreamEnd(h, g, F) /\ StreamEnd(g, h, G)
      /\ z <=> (Live(tcb[g]) => FinSent(tcb[g]))
  BY Zenon DEF Streams
<1>1. TypeOK /\ prog[h] \in Prog
  BY TInvHost DEF TInv
<1>4. got[h] = <<>>
  BY TInvHost
<1> PICK k \in Nat : k = n + 1
  OBVIOUS
<1>10. /\ BlockOK(h, u) /\ Outs(h, u, u)
       /\ u.state = "SYNSENT" /\ u.una = n /\ u.write = k /\ u.rnxt = 0 /\ u.sock /\ u.rcvq = <<>>
       /\ ~u.err
  BY Zenon DEF Asking
<1>11. IsBlock(u) /\ ~FinSent(u) /\ Live(u) /\ ~Synced(u) /\ Connecting(u)
  BY <1>10 DEF BlockOK, FinSent, Live, Synced, Connecting
<1>12. Below(g, u.una)
  BY <1>0, NothingBelow, <1>10
<1>13. Legal(h, g, t, u, F, k, G, z)
  BY <1>11, <1>10, <1>12, NewSays DEF Forward, Grows, RcvEnd, Legal
<1> PICK w : w = Wakeup(p, u)
  OBVIOUS
<1> PICK l \in Seq(Int) : l = got[h]
  BY TInvHost
<1>20. ProgFine(h, u, p, Len(l))
  BY <1>10, <1>11 DEF ProgFine
<1>21. SleepFine(u, p)
  BY <1>11 DEF SleepFine
<1>22. Served(h, u, w, p, Len(l))
  BY <1>20, <1>21, WakeServes
<1>23. w \in Prog /\ w.fd = "open" /\ ProgFine(h, u, w, Len(l)) /\ SleepFine(u, w)
  BY <1>22, Zenon DEF Served
<1> PICK c : c = Clean(u)
  OBVIOUS
<1>24. Outcome(h, u, w, l)
  BY <1>1, GotSame, FinishIs DEF TypeOK
<1>25. Started(h)'
  BY <1>0, <1>1, <1>24, OutcomeIs, <1>23 DEF Started
<1>26. Frame(h, g, c)
  BY <1>0, <1>1, <1>24, OutcomeIs, PeerIs DEF NotYet, Started, TypeOK, Outcome, Frame
<1>27. Serves(h, g, u, w, l)
  BY <1>0, TInvHost, <1>4, <1>23, <1>25 DEF Serves
<1> QED
  BY <1>0, <1>13, <1>24, <1>26, <1>27, StepInv

LEMMA WaiterIs ==
  ASSUME NEW o \in Prog, NEW u, u.state = "SYNSENT", NEW p, p = ConnectLoop(o, u)
  PROVE  WaiterOf(o, p)
  BY DEF Connecting, ConnectLoop, Prog, WaiterOf

LEMMA ConnectInv ==
  ASSUME TInv, Connect
  PROVE  TInv'
<1> PICK h \in Host : h = "cl"
  BY DEF Host
<1> PICK q \in Prog : q = prog[h]
  BY TInvHost
<1>2. q.fd = "none" /\ listening' = listening /\ got' = got
  BY Zenon DEF Connect
<1>3. NotYet(h) /\ ~Started(h)
  BY <1>2 DEF NotYet, Started
<1>5. q.rd = "idle"
  BY TInvHost, <1>2 DEF ProgFine
<1> PICK n \in Nat : n = Isn[h]
  BY Params DEF Host
<1>6. PICK cwnd \in Cwnds :
        Finish("cl", [OutputSyn(Block("CLOSED", Isn["cl"], 0), FALSE, cwnd) EXCEPT !.state = "SYNSENT"],
               ConnectLoop([prog["cl"] EXCEPT !.fd = "open"],
                           [OutputSyn(Block("CLOSED", Isn["cl"], 0), FALSE, cwnd) EXCEPT !.state = "SYNSENT"]))
  BY Zenon DEF Connect
<1> PICK u : u = Asks(Syn(Block("CLOSED", n, 0), cwnd))
  OBVIOUS
<1>7. u = [OutputSyn(Block("CLOSED", Isn["cl"], 0), FALSE, cwnd) EXCEPT !.state = "SYNSENT"]
  BY Zenon DEF Asks, Syn
<1>8. cwnd \in Int /\ Mss <= cwnd
  BY Params DEF Cwnds, Most
<1>9. Asking(u, n)
  BY <1>8, AskingIs
<1> PICK o : o = [q EXCEPT !.fd = "open"]
  OBVIOUS
<1>10. o \in Prog /\ o.fd = "open" /\ o.rd = "idle"
  BY <1>5 DEF Prog
<1> PICK p : p = ConnectLoop(o, u)
  OBVIOUS
<1>11. p \in Prog /\ p.wr = "asleep" /\ p.conn /\ p.fd = "open" /\ p.rd = "idle"
  <2>1. u.state = "SYNSENT"
    BY <1>9, Zenon DEF Asking
  <2>2. WaiterOf(o, p)
    BY <1>10, <2>1, WaiterIs
  <2> QED
    BY <1>10, <2>2, Zenon DEF WaiterOf
<1>12. Finish(h, u, p)
  BY <1>6, <1>7, Zenon
<1> QED
  BY <1>2, <1>3, <1>9, <1>11, <1>12, ConnectStep, Zenon

LEMMA KinSame ==
  ASSUME NEW t, NEW e, Kin(t, e), Synced(t), Synced(e)
  PROVE  /\ RcvOK(t) => RcvOK(e)
         /\ \A F, z : RcvEnd(t, F, z) => RcvEnd(e, F, z)
         /\ Readable(e) = Readable(t)
         /\ Finished(e) <=> Finished(t)
  BY ReadableSame DEF Kin, Kept, FinSeen, RcvOK, RcvEnd, Finished

LEMMA AddsLegal ==
  ASSUME TInv, NEW h \in Host, NEW g, NEW t, t = tcb[h], NEW F, NEW G, NEW z, Streams(h, g, F, G, z),
         Synced(t), ~FinSent(t), NEW e, NEW u, NEW E \in Nat, F <= E, Adds(h, t, e, u, E), StateOK(h, u)
  PROVE  /\ Legal(h, g, t, u, F, E, G, z)
         /\ Outs(h, u, u) /\ Kin(t, u) /\ u.state = e.state /\ Synced(u)
<1>0. /\ g \in Host /\ g = Peer(h) /\ F \in Nat /\ G \in Nat
      /\ StreamEnd(h, g, F) /\ StreamEnd(g, h, G)
      /\ z <=> (Live(tcb[g]) => FinSent(tcb[g]))
  BY Zenon DEF Streams
<1>1. /\ IsBlock(e) /\ Kin(t, e) /\ e.out = <<>> /\ SynGone(e) /\ Steps(h, e, u) /\ TimerOK(u)
      /\ Synced(e) /\ LastByte(e) = E /\ e.write = IF FinSent(e) THEN E + 1 ELSE E
  BY Zenon DEF Adds
<1>2. /\ IsBlock(u) /\ SndOK(h, u) /\ SynGone(u) /\ Untouched(e, u) /\ u.una = e.una
      /\ Outs(h, e, e) => Outs(h, e, u)
  BY <1>1, Zenon DEF Steps
<1>3. /\ u.state = e.state /\ u.write = e.write /\ u.rnxt = e.rnxt
      /\ Kin(t, u)
  BY <1>1, <1>2, Zenon DEF Untouched, Kin
<1>4. /\ Synced(u)
      /\ FinSent(u) <=> FinSent(e)
  BY <1>1, <1>3, Zenon DEF Synced, FinSent
<1>5. Live(t) /\ Live(u)
  BY <1>4 DEF Synced, Live
<1>6. BlockOK(h, t) /\ Below(g, t.una)
  BY <1>0, TInvHost
<1>7. RcvOK(u) /\ RcvEnd(u, G, z)
  BY <1>0, RcvEndIs, <1>3, <1>4, <1>6, KinSame DEF BlockOK
<1>8. BlockOK(h, u)
  BY <1>1, <1>2, <1>7, Zenon DEF BlockOK
<1>9. u.una = t.una /\ u.rnxt = t.rnxt
  BY <1>3, Zenon DEF Kin
<1>10. u.rnxt <= u.rnxt
  BY <1>2 DEF IsBlock
<1>11. Forward(h, g, t, u)
  BY <1>9, <1>10, Zenon DEF Forward
<1>12. Grows(h, t, u, F, E)
  BY <1>1, <1>3, <1>4, <1>5, Zenon DEF Grows
<1>13. Says(g, u, E, e) /\ Outs(h, e, u)
  BY <1>2, <1>3, <1>6, <1>9, <1>10, <1>4, <1>1, Silent DEF Synced, Says
<1>14. Utters(h, g, u, E)
  BY <1>13, Zenon DEF Utters
<1>15. Below(g, u.una)
  BY <1>6, <1>9, Zenon
<1>16. Outs(h, u, u)
  BY <1>1, OutsSelf, Silent
<1> QED
  BY <1>3, <1>4, <1>7, <1>8, <1>11, <1>12, <1>14, <1>15, <1>16, Zenon DEF Legal

\* tcp_shutdown() of an open connection
LEMMA FinIs ==
  ASSUME TInv, NEW h \in Host, NEW g, NEW t, t = tcb[h], NEW F, NEW G, NEW z, Streams(h, g, F, G, z),
         t.state = "ESTABLISHED" \/ t.state = "CLOSEWAIT", NEW cwnd \in Cwnds, NEW u, u = Fin(t, cwnd)
  PROVE  /\ Legal(h, g, t, u, F, F, G, z) /\ Outs(h, u, u)
         /\ Kin(t, u) /\ Synced(u) /\ FinSent(u) /\ u.state # "SYNRCVD"
<1>0. /\ g \in Host /\ g = Peer(h) /\ F \in Nat /\ StreamEnd(h, g, F)
  BY Zenon DEF Streams
<1>1. BlockOK(h, t) /\ t.out = <<>>
  BY TInvHost
<1>2. IsBlock(t) /\ ~FinSent(t) /\ Live(t) /\ Synced(t)
  BY <1>1 DEF FinSent, Live, Synced, BlockOK
<1>3. SndOK(h, t) /\ SynGone(t) /\ TimerOK(t) /\ StateOK(h, t)
  BY <1>1, <1>2, Zenon DEF BlockOK
<1>4. cwnd \in Int
  BY Params DEF Cwnds, Most
<1> PICK s \in {"FINWAIT1", "LASTACK"} : s = IF t.state = "ESTABLISHED" THEN "FINWAIT1" ELSE "LASTACK"
  OBVIOUS
<1> PICK v : v = [t EXCEPT !.state = s]
  OBVIOUS
<1>5. u = OutputFin(v, cwnd)
  BY DEF Fin
<1>6. PICK e : /\ IsBlock(e) /\ Longer(v, e) /\ e.write = t.write + 1 /\ SynGone(e)
               /\ Steps(h, e, u) /\ TimerOK(u)
  BY <1>2, <1>3, <1>4, <1>5, OutputFinIs
<1>7. /\ v.state = s /\ Kin(t, v) /\ v.out = t.out
  BY <1>2 DEF IsBlock, Fields, Kin
<1>8. e.state = s /\ Kin(t, e) /\ e.out = <<>>
  BY <1>1, <1>6, <1>7, Zenon DEF Longer, Kin
<1>9. FinSent(e) /\ Synced(e) /\ e.state # "SYNRCVD"
  BY <1>8 DEF FinSent, Synced
<1> PICK w \in Int : w = t.write
  BY <1>2 DEF IsBlock
<1>10. w = F
  BY <1>0, <1>2, StreamLast
<1>11. e.write = F + 1
  BY <1>6, <1>10
<1>12. LastByte(e) = F
  BY <1>0, <1>9, <1>11 DEF LastByte
<1>13. Adds(h, t, e, u, F)
  BY <1>6, <1>8, <1>9, <1>11, <1>12, Zenon DEF Adds
<1>14. IsBlock(u) /\ u.state = s /\ u.write = F + 1 /\ Kin(t, u)
  BY <1>6, <1>8, <1>11, Zenon DEF Steps, Untouched, Kin
<1>15. StateOK(h, u)
  <2>1. u.una < u.write
    <3> PICK a \in Int : a = t.una
      BY <1>2 DEF IsBlock
    <3>1. a <= w
      BY <1>2, <1>3, SMTT(20) DEF SndOK, IsBlock
    <3>2. u.una = a
      BY <1>14, Zenon DEF Kin
    <3>3. a < F + 1
      BY <1>0, <1>10, <3>1
    <3> QED
      BY <1>14, <3>2, <3>3, Zenon
  <2>2. s = "LASTACK" => Finished(u)
    BY <1>3, <1>14, <1>2, KinSame DEF StateOK, Synced
  <2>3. ~u.del
    BY <1>3, <1>14 DEF StateOK, Kin
  <2> QED
    BY <1>14, <2>1, <2>2, <2>3 DEF StateOK, FinSent, Live
<1>16. F <= F
  BY <1>0
<1>17. /\ Legal(h, g, t, u, F, F, G, z) /\ Outs(h, u, u)
       /\ Kin(t, u) /\ Synced(u)
  BY <1>0, <1>2, <1>13, <1>15, <1>16, AddsLegal
<1>18. FinSent(u) /\ u.state # "SYNRCVD"
  BY <1>8, <1>9, <1>14 DEF FinSent
<1> QED
  BY <1>17, <1>18

LEMMA ShutIs ==
  ASSUME NEW p \in Prog, NEW q, q = Shut(p)
  PROVE  ShutOf(p, q)
  BY DEF Shut, Prog, ShutOf

\* Nobody who sleeps is left alone by it.
LEMMA ShutFine ==
  ASSUME NEW h, NEW t, NEW u, Synced(t), Synced(u), Kin(t, u), FinSent(u), u.state # "SYNRCVD",
         NEW p, NEW q, NEW n, q.shut, q.fd = p.fd, q.rd = p.rd, q.wr = p.wr, q.conn = p.conn,
         q.left = p.left, p.fd = "open", ProgFine(h, t, p, n), SleepFine(t, p), ~Connecting(t)
  PROVE  ProgFine(h, u, q, n) /\ SleepFine(u, q)
  BY KinSame DEF Kin, ProgFine, FinSent, Connected, Canwrite, SleepFine

LEMMA ShutdownInv ==
  ASSUME TInv, NEW h \in Host, Shutdown(h)
  PROVE  TInv'
<1> PICK t : t = tcb[h]
  OBVIOUS
<1> PICK g, F, G, z : Streams(h, g, F, G, z)
  BY StreamsAre, Zenon
<1> PICK q \in Prog : q = prog[h]
  BY TInvHost
<1> PICK l \in Seq(Int) : l = got[h]
  BY TInvHost
<1>1. /\ BlockOK(h, t) /\ t.out = <<>> /\ ProgFine(h, t, q, Len(l)) /\ SleepFine(t, q)
  BY TInvHost
<1>2. q.fd = "open" /\ listening' = listening /\ got' = got
  BY Zenon DEF Shutdown, Open
<1>3. PICK cwnd \in Cwnds : Finish(h, Fin(t, cwnd), Shut(q))
  BY Zenon DEF Shutdown, Shut
<1> PICK p : p = Shut(q)
  OBVIOUS
<1> PICK u : u = Fin(t, cwnd)
  OBVIOUS
<1>4. Finish(h, u, p)
  BY <1>3, Zenon
<1>5. p \in Prog /\ p.shut /\ p.fd = q.fd /\ p.rd = q.rd /\ p.wr = q.wr /\ p.conn = q.conn /\ p.left = q.left
  BY ShutIs, Zenon DEF ShutOf
<1>6. prog[h].fd # "none" /\ p.fd # "none"
  BY <1>2, <1>5
<1>7. CASE t.state = "ESTABLISHED" \/ t.state = "CLOSEWAIT"
  <2>1. /\ Legal(h, g, t, u, F, F, G, z)
        /\ Kin(t, u) /\ Synced(u) /\ FinSent(u) /\ u.state # "SYNRCVD"
    BY <1>7, FinIs
  <2>2. Synced(t) /\ ~Connecting(t)
    BY <1>7 DEF Synced, Connecting
  <2>3. ProgFine(h, u, p, Len(l)) /\ SleepFine(u, p)
    BY <1>1, <1>2, <1>5, <2>1, <2>2, ShutFine
  <2>4. F \in Nat /\ u.state # "SYNSENT"
    BY <2>1, Zenon DEF Streams, Synced
  <2>5. /\ Legal(h, g, t, u, F, F, G, z) /\ F \in Nat /\ (u.state = "SYNSENT" => t.state = "SYNSENT")
        /\ p \in Prog /\ prog[h].fd # "none" /\ p.fd # "none" /\ ProgFine(h, u, p, Len(got[h]))
        /\ (u.wake \/ SleepFine(u, p)) /\ Finish(h, u, p) /\ listening' = listening /\ got' = got
    BY <1>2, <1>4, <1>5, <1>6, <2>1, <2>3, <2>4
  <2> QED
    BY <2>5, QuietInv
<1>8. CASE ~(t.state = "ESTABLISHED" \/ t.state = "CLOSEWAIT")
  BY <1>1, <1>2, <1>8, StillSame, <1>5, <1>4, <1>6, StillInv DEF ProgFine, Fin, SleepFine
<1> QED
  BY <1>7, <1>8

LEMMA BareIs ==
  ASSUME NEW u, IsBlock(u), NEW n \in Int, NEW v, v = Bare(u, n)
  PROVE  BareOf(u, n, v) /\ v.out = u.out
  BY EmptySeq DEF Bare, IsBlock, Fields, BareOf

LEMMA SeverCases ==
  ASSUME NEW u, IsBlock(u), NEW n \in Int, NEW v, v = Sever(u, n), NEW c, c = Bare(u, n)
  PROVE  v = c \/ v = SndAckOnly(c)
<1> PICK w : w = [[u EXCEPT !.sock = FALSE] EXCEPT !.rcvq = <<>>]
  OBVIOUS
<1>1. w.rcvq = <<>> /\ DOMAIN w = Fields
  BY DEF IsBlock, Fields
<1>2. NotRead(w, n) = <<>>
  <2>1. w.rcvq \in Seq(Chunk) /\ Len(w.rcvq) = 0
    BY <1>1, EmptySeq
  <2>2. PICK k \in 0..Len(w.rcvq) : Part(w.rcvq, k, NotRead(w, n))
    BY <2>1, NotReadIs
  <2> PICK r : r = NotRead(w, n)
    OBVIOUS
  <2>3. r \in Seq(Chunk) /\ Len(r) = 0
    BY <2>1, <2>2 DEF Part
  <2> QED
    BY <2>3, EmptySeq
<1>3. c = [w EXCEPT !.read = n, !.rcvq = <<>>, !.cur = 0]
  BY <1>1 DEF Bare, IsBlock, Fields
<1> QED
  BY <1>2, <1>3, Zenon DEF Sever, Dropsegs

LEMMA SeverIs ==
  ASSUME NEW h, NEW u, BlockOK(h, u), Synced(u), FinSent(u), Outs(h, u, u), NEW n \in Int, n = u.rnxt,
         NEW v, v = Sever(u, n)
  PROVE  BlockOK(h, v) /\ BareOf(u, n, v) /\ Outs(h, v, v)
<1>1. IsBlock(u) /\ SndOK(h, u) /\ SynGone(u) /\ TimerOK(u) /\ StateOK(h, u) /\ RcvOK(u)
  BY DEF BlockOK, Synced, Live
<1> PICK c : c = Bare(u, n)
  OBVIOUS
<1>2. BareOf(u, n, c) /\ c.out = u.out
  BY <1>1, BareIs
<1>3. /\ IsBlock(c) /\ c.state = u.state /\ c.una = u.una /\ c.nxt = u.nxt /\ c.max = u.max
      /\ c.write = u.write /\ c.sndq = u.sndq /\ c.ostate = u.ostate /\ c.timer = u.timer /\ c.del = u.del
      /\ c.rnxt = u.rnxt /\ c.fin = u.fin /\ c.rcvq = <<>> /\ ~c.sock /\ c.read = n
  BY <1>2, Zenon DEF BareOf
<1>4. /\ FinSent(c) <=> FinSent(u)
      /\ LastByte(c) = LastByte(u)
  BY <1>3, Zenon DEF FinSent, LastByte
<1>5. SndOK(h, c) /\ SynGone(c) /\ TimerOK(c)
  BY <1>1, <1>3, <1>4, SndSameState
<1>6. Outs(h, c, c)
  <2>1. c.rnxt <= c.rnxt /\ c.una <= c.una
    BY <1>3 DEF IsBlock
  <2>2. Outs(h, c, u)
    BY <1>1, <1>3, <1>4, <2>1, OutsGrow
  <2> QED
    BY <1>2, <2>2, Zenon DEF Outs
<1>7. BareOf(u, n, v) /\ SndOK(h, v) /\ SynGone(v) /\ TimerOK(v) /\ Outs(h, v, v)
  <2>1. CASE v = c
    BY <1>2, <1>5, <1>6, <2>1, Zenon
  <2>2. CASE v = SndAckOnly(c)
    <3>1. Steps(h, c, v) /\ v.ostate = c.ostate /\ v.timer = c.timer
      BY <1>3, <1>5, <2>2, AckOnlySteps
    <3> PICK a \in Int : a = c.nxt
      BY <1>3 DEF IsBlock
    <3>2. v = Acking(c, a, {"ACK"}, <<>>)
      BY <2>2, Zenon DEF SndAckOnly
    <3>3. Unmoved(c, v) /\ v.sndq = c.sndq /\ v.nxt = c.nxt /\ v.max = c.max /\ IsBlock(v)
      BY <1>3, <3>2, PlainIs
    <3>4. BareOf(u, n, v)
      BY <1>3, <3>3, Zenon DEF Unmoved, Untouched, BareOf
    <3>5. SndOK(h, v) /\ SynGone(v) /\ v.una = c.una /\ v.write = c.write
      BY <1>5, <3>1, Zenon DEF Steps, Untouched
    <3>6. TimerOK(v)
      BY <1>5, <3>1, <3>5, TimerSame
    <3>7. Outs(h, v, v)
      BY <1>6, <3>1, OutsSelf
    <3> QED
      BY <3>4, <3>5, <3>6, <3>7
  <2> QED
    BY <1>1, <2>1, <2>2, SeverCases
<1>8. /\ IsBlock(v) /\ v.state = u.state /\ v.una = u.una /\ v.write = u.write /\ v.del = u.del
      /\ v.timer = u.timer /\ v.rnxt = u.rnxt /\ v.fin = u.fin /\ v.rcvq = <<>> /\ ~v.sock /\ v.read = n
  BY <1>7, Zenon DEF BareOf
<1>9. StateOK(h, v)
  BY <1>8, <1>1 DEF Finished, FinSent, Live, StateOK
<1>10. RcvOK(v)
  BY <1>1, <1>8 DEF RcvOK, Kept, Placed, Staggered
<1> QED
  BY <1>7, <1>8, <1>9, <1>10, Zenon DEF BlockOK

\* The block of a closed connection may follow the one that is open.
LEMMA SeverLegal ==
  ASSUME TInv, NEW h \in Host, NEW g, NEW t, t = tcb[h], NEW F, NEW G, NEW z, Streams(h, g, F, G, z),
         Synced(t), NEW u, Legal(h, g, t, u, F, F, G, z), Outs(h, u, u), Kin(t, u), Synced(u), FinSent(u),
         NEW n \in Int, n = t.rnxt, NEW v, v = Sever(u, n)
  PROVE  Legal(h, g, t, v, F, F, G, z) /\ v.state = u.state /\ ~v.sock
<1>0. F \in Nat
  BY Zenon DEF Streams
<1>1. BlockOK(h, u) /\ RcvEnd(u, G, z) /\ Below(g, u.una) /\ Grows(h, t, u, F, F)
  BY Zenon DEF Legal
<1>2. n = u.rnxt
  BY Zenon DEF Kin
<1>3. BlockOK(h, v) /\ BareOf(u, n, v) /\ Outs(h, v, v)
  BY <1>1, <1>2, SeverIs
<1>4. /\ IsBlock(v) /\ v.state = u.state /\ v.una = u.una /\ v.write = u.write
      /\ v.rnxt = u.rnxt /\ v.fin = u.fin /\ v.rcvq = <<>> /\ ~v.sock
  BY <1>3, Zenon DEF BareOf
<1>5. Synced(v) /\ FinSent(v) /\ Live(v) /\ Live(u) /\ v.state # "SYNSENT"
  BY <1>4 DEF Synced, FinSent, Live
<1>6. n <= n
  OBVIOUS
<1>7. RcvEnd(v, G, z)
  BY <1>4, <1>1 DEF RcvEnd, FinSeen
<1>8. Forward(h, g, t, v)
  BY <1>2, <1>4, <1>6, Zenon DEF Forward
<1>9. Grows(h, t, v, F, F)
  BY <1>1, <1>4, <1>5, Zenon DEF Grows
<1>10. LastByte(v) = F
  <2> PICK w \in Int : w = v.write
    BY <1>4 DEF IsBlock
  <2>1. w = F + 1
    BY <1>5, <1>9, Zenon DEF Grows
  <2>2. w - 1 = F
    BY <1>0, <2>1
  <2> QED
    BY <1>5, <2>2, Zenon DEF LastByte
<1>11. Says(g, v, F, v)
  BY <1>1, <1>2, <1>4, <1>5, <1>6, <1>10, Zenon DEF Says
<1>12. Utters(h, g, v, F)
  BY <1>3, <1>11, Zenon DEF Utters
<1>13. Below(g, v.una)
  BY <1>1, <1>4, Zenon
<1> QED
  BY <1>3, <1>4, <1>7, <1>8, <1>9, <1>12, <1>13, Zenon DEF Legal

\* A socket whose connection was never there, or is no more
LEMMA VanishLegal ==
  ASSUME TInv, NEW h \in Host, NEW g, NEW t, t = tcb[h], NEW F, NEW G, NEW z, Streams(h, g, F, G, z),
         NEW u, u = NoTcb
  PROVE  Legal(h, g, t, u, F, F, G, z) /\ u.state = "none" /\ ~u.sock /\ u.rcvq = <<>>
  BY NoBlockIs, BelowZero, Silent DEF Live, Synced, StateOK, Placed, Staggered, BlockOK, RcvOK,
     Streams, Utters, RcvEnd, Forward, Grows, Legal

LEMMA GoneIs ==
  ASSUME NEW p \in Prog, p.rd = "idle", p.wr = "idle", ~p.conn, NEW q, q = Closer(p),
         NEW u, ~u.sock, NEW h, NEW n
  PROVE  q \in Prog /\ q.fd # "none" /\ ProgFine(h, u, q, n) /\ SleepFine(u, q)
  BY DEF Closer, Prog, ProgFine, SleepFine

LEMMA CloseInv ==
  ASSUME TInv, NEW h \in Host, Close(h)
  PROVE  TInv'
<1> PICK t : t = tcb[h]
  OBVIOUS
<1> PICK g, F, G, z : Streams(h, g, F, G, z)
  BY StreamsAre, Zenon
<1> PICK q \in Prog : q = prog[h]
  BY TInvHost
<1>1. /\ BlockOK(h, t) /\ t.out = <<>> /\ ProgFine(h, t, q, Len(got[h]))
  BY TInvHost
<1>2. q.fd = "open" /\ q.rd = "idle" /\ q.wr = "idle" /\ listening' = listening /\ got' = got
  BY Zenon DEF Close, Open
<1>3. PICK cwnd \in Cwnds : Finish(h, Detach(t, cwnd), Closer(q))
  BY Zenon DEF Close, Closer
<1> PICK p : p = Closer(q)
  OBVIOUS
<1> PICK v : v = Detach(t, cwnd)
  OBVIOUS
<1>4. Finish(h, v, p)
  BY <1>3, Zenon
<1>5. t.sock /\ t.state # "SYNRCVD" /\ ~q.conn /\ t.state # "none" /\ IsBlock(t) /\ StateOK(h, t)
  BY <1>1, <1>2 DEF ProgFine, BlockOK, StateOK
<1> PICK n \in Int : n = t.rnxt
  BY <1>5 DEF IsBlock
<1>6. F \in Nat
  BY Zenon DEF Streams
<1>7. Legal(h, g, t, v, F, F, G, z) /\ ~v.sock /\ v.state # "SYNSENT"
  <2>1. CASE t.state \in {"CLOSED", "SYNSENT"}
    BY <2>1, VanishLegal DEF Detach
  <2>2. CASE t.state \notin {"CLOSED", "SYNSENT"}
    <3> PICK u : u = Fin(t, cwnd)
      OBVIOUS
    <3>1. v = Sever(u, n)
      BY <2>2, Zenon DEF Detach, Sever
    <3>2. Synced(t)
      BY <1>5, <2>2 DEF Synced
    <3>3. Legal(h, g, t, u, F, F, G, z) /\ Outs(h, u, u) /\ Kin(t, u) /\ Synced(u) /\ FinSent(u)
      <4>1. CASE t.state = "ESTABLISHED" \/ t.state = "CLOSEWAIT"
        BY <4>1, FinIs
      <4>2. CASE ~(t.state = "ESTABLISHED" \/ t.state = "CLOSEWAIT")
        BY <1>5, <4>2, <1>1, StillSame, StillLegal, Silent, <2>2, <3>2 DEF Fin, Kin, FinSent,
           IsBlock, States
      <4> QED
        BY <4>1, <4>2
    <3>4. Legal(h, g, t, v, F, F, G, z) /\ v.state = u.state /\ ~v.sock
      BY <3>1, <3>2, <3>3, SeverLegal
    <3> QED
      BY <3>3, <3>4 DEF Synced
  <2> QED
    BY <2>1, <2>2
<1>8. p \in Prog /\ p.fd # "none" /\ ProgFine(h, v, p, Len(got[h])) /\ SleepFine(v, p)
  BY <1>2, <1>5, <1>7, GoneIs
<1>9. /\ Legal(h, g, t, v, F, F, G, z) /\ F \in Nat /\ (v.state = "SYNSENT" => t.state = "SYNSENT")
      /\ p \in Prog /\ prog[h].fd # "none" /\ p.fd # "none" /\ ProgFine(h, v, p, Len(got[h]))
      /\ (v.wake \/ SleepFine(v, p)) /\ Finish(h, v, p) /\ listening' = listening /\ got' = got
  BY <1>2, <1>4, <1>6, <1>7, <1>8
<1> QED
  BY <1>9, QuietInv

LEMMA CanwriteIs ==
  ASSUME NEW h, NEW t, BlockOK(h, t)
  PROVE  Canwrite(t) \in Nat /\ (Canwrite(t) # 0 => Connected(t))
<1>1. CASE ~Connected(t)
  BY <1>1 DEF Canwrite
<1>2. CASE Connected(t)
  <2>1. t.sndq \in Seq(Item) /\ Chain(t.sndq)
    BY <1>2 DEF BlockOK, SndOK, Live, Connected, IsBlock
  <2> PICK sp \in Int : sp = SndMax - Used(t)
    BY <2>1, UsedIs, Params
  <2>2. Canwrite(t) = 0 \/ Canwrite(t) = Most(sp, 0)
    BY DEF Canwrite
  <2> PICK m \in Nat : m = Most(sp, 0)
    BY DEF Most
  <2>3. Canwrite(t) \in Nat
    BY <2>2
  <2> QED
    BY <1>2, <2>3
<1> QED
  BY <1>1, <1>2

LEMMA WriterSleeps ==
  ASSUME NEW t, NEW u, NEW p \in Prog, SleepFine(t, p), Readable(u) = Readable(t), u.err = t.err,
         u.state = t.state, NEW a \in {"idle", "asleep", "awake"}, NEW n \in Nat, ~p.conn,
         NEW b \in BOOLEAN, b = p.conn, NEW q, q = Writer(p, a, b, n),
         a = "asleep" => ~u.err /\ Canwrite(u) = 0 /\ (Connected(u) \/ Connecting(u))
  PROVE  SleepFine(u, q)
<1>0. Wrote(p, a, b, n, q)
  BY WriterIs
<1>1. q.wr = a /\ q.conn = b /\ q.rd = p.rd /\ q.shut = p.shut
  BY <1>0, Zenon DEF Wrote
<1>2. ~b
  OBVIOUS
<1> QED
  BY <1>1, <1>2, Zenon DEF SleepFine

\* The data of a write goes into the queue.
LEMMA WriteLegal ==
  ASSUME TInv, NEW h \in Host, NEW g, NEW t, t = tcb[h], NEW F, NEW G, NEW z, Streams(h, g, F, G, z),
         Connected(t), NEW n \in Nat, n > 0, NEW cwnd \in Cwnds, NEW u, u = OutputData(t, n, cwnd)
  PROVE  /\ \E E \in Nat : Legal(h, g, t, u, F, E, G, z)
         /\ Kin(t, u) /\ u.state = t.state
         /\ t.sock /\ n = Canwrite(t) => Canwrite(u) = 0 \/ u.wake
<1>0. /\ g \in Host /\ g = Peer(h) /\ F \in Nat /\ StreamEnd(h, g, F)
  BY Zenon DEF Streams
<1>1. BlockOK(h, t) /\ t.out = <<>>
  BY TInvHost
<1>2. IsBlock(t) /\ ~FinSent(t) /\ Live(t) /\ Synced(t)
  BY <1>1 DEF FinSent, Live, Synced, BlockOK, Connected
<1>3. SndOK(h, t) /\ SynGone(t) /\ TimerOK(t) /\ StateOK(h, t)
  BY <1>1, <1>2, Zenon DEF BlockOK
<1>4. cwnd \in Int
  BY Params DEF Cwnds, Most
<1>5. \E e : /\ IsBlock(e) /\ Longer(t, e) /\ e.write = t.write + n /\ SynGone(e)
             /\ n = Canwrite(t) => Canwrite(e) = 0
             /\ Steps(h, e, u) /\ TimerOK(u)
  BY <1>2, <1>3, <1>4, OutputDataIs
<1> PICK e : /\ IsBlock(e) /\ Longer(t, e) /\ e.write = t.write + n /\ SynGone(e)
             /\ n = Canwrite(t) => Canwrite(e) = 0
             /\ Steps(h, e, u) /\ TimerOK(u)
  BY <1>5, Zenon
<1>6. e.state = t.state /\ Kin(t, e) /\ e.out = <<>>
  BY <1>1, Zenon DEF Longer, Kin
<1>7. ~FinSent(e) /\ Synced(e)
  BY <1>2, <1>6 DEF FinSent, Synced
<1> PICK E \in Nat : E = F + n
  BY <1>0
<1>8. e.write = E /\ F <= E
  BY <1>0, <1>2, StreamLast
<1>9. Adds(h, t, e, u, E)
  BY <1>6, <1>7, <1>8, Zenon DEF Adds, LastByte
<1>10. u.state = t.state /\ Kin(t, u)
  BY <1>6, Zenon DEF Steps, Untouched, Kin
<1>11. StateOK(h, u)
  BY <1>3, <1>2, <1>10, KinSame DEF Connected, StateOK, Kin, Synced, FinSent, Live
<1>12. Legal(h, g, t, u, F, E, G, z)
  BY <1>2, <1>8, <1>9, <1>11, AddsLegal
<1>13. t.sock /\ n = Canwrite(t) => Canwrite(u) = 0 \/ u.wake
  BY <1>6 DEF Steps, Kin, WakeOK
<1> QED
  BY <1>10, <1>12, <1>13, Zenon

LEMMA SendLoopInv ==
  ASSUME TInv, NEW h \in Host, NEW t, t = tcb[h], NEW p \in Prog, ProgFine(h, t, p, Len(got[h])),
         SleepFine(t, p), p.fd = "open", prog[h].fd # "none", ~p.conn, p.left > 0, ~t.err,
         NEW cwnd \in Cwnds, SendLoop(h, t, p, cwnd), listening' = listening, got' = got
  PROVE  TInv'
<1> PICK g, F, G, z : Streams(h, g, F, G, z)
  BY StreamsAre, Zenon
<1>1. BlockOK(h, t) /\ t.out = <<>>
  BY TInvHost
<1>2. t.sock
  BY DEF ProgFine
<1> PICK c \in Nat : c = Canwrite(t)
  BY <1>1, CanwriteIs
<1> PICK k \in Nat : k = p.left
  BY DEF Prog
<1> PICK n \in Nat : n = Least(c, k)
  BY DEF Least
<1> PICK b \in BOOLEAN : b = p.conn
  BY DEF Prog
<1>3. n = Least(Canwrite(t), p.left)
  BY Zenon
<1>4. ~(Connecting(t) /\ Connected(t))
  BY DEF Connecting, Connected
<1>5. CASE Connecting(t) \/ (Connected(t) /\ n = 0)
  <2> PICK a \in {"idle", "asleep", "awake"} : a = "asleep"
    OBVIOUS
  <2> PICK q : q = Writer(p, a, b, k)
    OBVIOUS
  <2>1. q = [p EXCEPT !.wr = "asleep"]
    BY DEF Writer, Prog
  <2>0. ~(Connected(t) /\ n > 0)
    BY <1>4, <1>5
  <2>2. Finish(h, t, q)
    BY <1>3, <1>5, <2>0, <2>1, Zenon DEF SendLoop
  <2>3. Canwrite(t) = 0
    BY <1>1, <1>4, CanwriteIs, <1>5 DEF Least
  <2>4. q \in Prog /\ q.fd # "none"
    <3>1. Wrote(p, a, b, k, q)
      BY WriterIs
    <3> QED
      BY <3>1, Zenon DEF Wrote
  <2>5. ProgFine(h, t, q, Len(got[h]))
    BY WriterFine
  <2>6. SleepFine(t, q)
    BY <1>5, <2>3, WriterSleeps
  <2>7. Still(h, t, t)
    BY <1>1, StillSame
  <2> QED
    BY <2>2, <2>4, <2>5, <2>6, <2>7, StillInv
<1>6. CASE Connected(t) /\ n > 0
  <2> PICK a \in {"idle", "asleep", "awake"} : a = IF n < k THEN "asleep" ELSE "idle"
    OBVIOUS
  <2> PICK m \in Nat : m = k - n
    BY DEF Least
  <2> PICK q : q = Writer(p, a, b, m)
    OBVIOUS
  <2> PICK u : u = OutputData(t, n, cwnd)
    OBVIOUS
  <2>1. q = [p EXCEPT !.left = @ - n, !.wr = IF n < p.left THEN "asleep" ELSE "idle"]
    BY DEF Writer, Prog
  <2>0. ~(Connecting(t) \/ (Connected(t) /\ n = 0))
    BY <1>4, <1>6
  <2>2. Finish(h, u, q)
    BY <1>3, <1>6, <2>0, <2>1, Zenon DEF SendLoop
  <2>3. /\ \E E \in Nat : Legal(h, g, t, u, F, E, G, z)
        /\ Kin(t, u) /\ u.state = t.state
        /\ t.sock /\ n = Canwrite(t) => Canwrite(u) = 0 \/ u.wake
    BY <1>6, WriteLegal
  <2>4. PICK E \in Nat : Legal(h, g, t, u, F, E, G, z)
    BY <2>3
  <2>5. q \in Prog /\ q.fd # "none"
    <3>1. Wrote(p, a, b, m, q)
      BY WriterIs
    <3> QED
      BY <3>1, Zenon DEF Wrote
  <2>6. a = "asleep" => n < k /\ n = Canwrite(t)
    BY DEF Least
  <2>7. ProgFine(h, t, q, Len(got[h]))
    BY <2>6, WriterFine
  <2>8. Synced(t) /\ Synced(u) /\ Connected(u) /\ (FinSent(u) <=> FinSent(t)) /\ u.state # "SYNSENT" 
    BY <1>6, <2>3 DEF Synced, Connected, FinSent
  <2>9. u.sock = t.sock /\ u.read = t.read /\ u.err = t.err /\ u.rcvq = t.rcvq
    BY <2>3, Zenon DEF Kin
  <2>10. ProgFine(h, u, q, Len(got[h]))
    BY <2>3, <2>7, <2>8, <2>9, Zenon DEF ProgFine
  <2>11. u.wake \/ SleepFine(u, q)
    BY <2>3, <2>8, KinSame, <2>9, WriterSleeps, <1>2, <2>6
  <2>12. /\ Legal(h, g, t, u, F, E, G, z) /\ E \in Nat /\ (u.state = "SYNSENT" => t.state = "SYNSENT")
         /\ q \in Prog /\ prog[h].fd # "none" /\ q.fd # "none" /\ ProgFine(h, u, q, Len(got[h]))
         /\ (u.wake \/ SleepFine(u, q)) /\ Finish(h, u, q) /\ listening' = listening /\ got' = got
    BY <2>2, <2>4, <2>5, <2>8, <2>10, <2>11
  <2> QED
    BY <2>12, QuietInv
<1>7. CASE ~(Connecting(t) \/ Connected(t))
  <2> PICK a \in {"idle", "asleep", "awake"} : a = "idle"
    OBVIOUS
  <2> PICK m \in Nat : m = 0
    OBVIOUS
  <2> PICK q : q = Writer(p, a, b, m)
    OBVIOUS
  <2>1. q = Back(p)
    BY DEF Writer, Back, Prog
  <2>2. Finish(h, t, q)
    BY <1>3, <1>7, <2>1, Zenon DEF SendLoop
  <2>4. q \in Prog /\ q.fd # "none"
    <3>1. Wrote(p, a, b, m, q)
      BY WriterIs
    <3> QED
      BY <3>1, Zenon DEF Wrote
  <2>5. ProgFine(h, t, q, Len(got[h]))
    BY WriterFine
  <2>6. SleepFine(t, q)
    BY WriterSleeps
  <2>7. Still(h, t, t)
    BY <1>1, StillSame
  <2> QED
    BY <2>2, <2>4, <2>5, <2>6, <2>7, StillInv
<1>8. n = 0 \/ n > 0
  OBVIOUS
<1> QED
  BY <1>5, <1>6, <1>7, <1>8

\* A call that takes the error
LEMMA ErrInv ==
  ASSUME TInv, NEW h \in Host, NEW t, t = tcb[h], NEW p \in Prog, ProgFine(h, t, p, Len(got[h])),
         SleepFine(t, p), p.fd # "none", prog[h].fd # "none",
         Finish(h, [t EXCEPT !.err = FALSE], p), listening' = listening, got' = got
  PROVE  TInv'
<1>1. BlockOK(h, t) /\ t.out = <<>>
  BY TInvHost
<1> PICK e \in BOOLEAN : e <=> FALSE
  OBVIOUS
<1> PICK u : u = Cleared(t, e)
  OBVIOUS
<1>2. u = [t EXCEPT !.err = FALSE]
  BY DEF Cleared
<1>3. Still(h, t, u)
  BY <1>1, StillCleared
<1>4. /\ Readable(u) = Readable(t) /\ Canwrite(u) = Canwrite(t)
      /\ Connecting(u) <=> Connecting(t)
      /\ Connected(u) <=> Connected(t)
  BY <1>3, StillProg
<1>8. u.state = t.state
  BY <1>3, Zenon DEF Still
<1>5. ~u.err
  BY <1>1, ClearedIs
<1>6. SleepFine(u, p)
  BY <1>4, <1>5, <1>8, Zenon DEF SleepFine
<1>7. Finish(h, u, p)
  BY <1>2, Zenon
<1> QED
  BY <1>3, <1>6, <1>7, StillInv

LEMMA SendInv ==
  ASSUME TInv, NEW h \in Host, Send(h)
  PROVE  TInv'
<1> PICK t : t = tcb[h]
  OBVIOUS
<1> PICK q \in Prog : q = prog[h]
  BY TInvHost
<1>1. ProgFine(h, t, q, Len(got[h])) /\ SleepFine(t, q)
  BY TInvHost
<1>2. /\ q.fd = "open" /\ q.wr = "idle" /\ q.todo # <<>> /\ listening' = listening /\ got' = got
  BY Zenon DEF Send, Open
<1>3. \E cwnd \in Cwnds :
        IF t.err THEN Finish(h, [t EXCEPT !.err = FALSE], [q EXCEPT !.todo = Tail(@)])
        ELSE SendLoop(h, t, [[q EXCEPT !.todo = Tail(@)] EXCEPT !.left = Head(q.todo)], cwnd)
  BY Zenon DEF Send
<1> PICK cwnd \in Cwnds :
        IF t.err THEN Finish(h, [t EXCEPT !.err = FALSE], [q EXCEPT !.todo = Tail(@)])
        ELSE SendLoop(h, t, [[q EXCEPT !.todo = Tail(@)] EXCEPT !.left = Head(q.todo)], cwnd)
  BY <1>3, Zenon
<1> PICK s \in Seq(Nat \ {0}) : s = q.todo
  BY DEF Prog
<1>4. s # <<>> /\ Tail(s) \in Seq(Nat \ {0}) /\ Head(s) \in Nat \ {0}
  BY <1>2
<1> PICK r \in Seq(Nat \ {0}) : r = Tail(s)
  BY <1>4
<1> PICK n \in Nat \ {0} : n = Head(s)
  BY <1>4
<1> PICK p : p = [q EXCEPT !.todo = r]
  OBVIOUS
<1> PICK w : w = [p EXCEPT !.left = n]
  OBVIOUS
<1>5. /\ p \in Prog /\ p.fd = q.fd /\ p.rd = q.rd /\ p.wr = q.wr /\ p.conn = q.conn /\ p.shut = q.shut
      /\ p.left = q.left
  BY DEF Prog
<1>6. /\ w \in Prog /\ w.fd = q.fd /\ w.rd = q.rd /\ w.wr = q.wr /\ w.conn = q.conn /\ w.shut = q.shut
      /\ w.left = n
  BY <1>5 DEF Prog
<1>7. ~q.conn /\ q.wr # "asleep" /\ ~(q.wr # "idle")
  BY <1>1, <1>2 DEF ProgFine
<1>8. p.fd # "none" /\ prog[h].fd # "none" /\ w.fd = "open"
  BY <1>2, <1>5, <1>6
<1>9. p = [q EXCEPT !.todo = Tail(@)] /\ w = [[q EXCEPT !.todo = Tail(@)] EXCEPT !.left = Head(q.todo)]
  BY Zenon
<1>10. CASE t.err
  <2>1. ProgFine(h, t, p, Len(got[h])) /\ SleepFine(t, p)
    BY <1>1, <1>5, Zenon DEF ProgFine, SleepFine
  <2>2. Finish(h, [t EXCEPT !.err = FALSE], p)
    BY <1>9, <1>10, Zenon
  <2> QED
    BY <1>2, <1>5, <1>8, <2>1, <2>2, ErrInv
<1>11. CASE ~t.err
  <2>1. ProgFine(h, t, w, Len(got[h])) /\ SleepFine(t, w)
    BY <1>1, <1>6, <1>7, Zenon DEF ProgFine, SleepFine
  <2>2. SendLoop(h, t, w, cwnd)
    BY <1>9, <1>11, Zenon
  <2>3. ~w.conn /\ w.left > 0
    BY <1>6, <1>7
  <2> QED
    BY <1>2, <1>6, <1>8, <1>11, <2>1, <2>2, <2>3, SendLoopInv
<1> QED
  BY <1>10, <1>11

LEMMA SendAgainInv ==
  ASSUME TInv, NEW h \in Host, SendAgain(h)
  PROVE  TInv'
<1> PICK t : t = tcb[h]
  OBVIOUS
<1> PICK q \in Prog : q = prog[h]
  BY TInvHost
<1>1. ProgFine(h, t, q, Len(got[h])) /\ SleepFine(t, q)
  BY TInvHost
<1>2. /\ q.wr = "awake" /\ ~q.conn /\ listening' = listening /\ got' = got
  BY Zenon DEF SendAgain
<1>3. \E cwnd \in Cwnds :
        IF t.err \/ q.shut THEN Finish(h, [t EXCEPT !.err = FALSE], Back(q))
        ELSE SendLoop(h, t, q, cwnd)
  BY Zenon DEF SendAgain
<1> PICK cwnd \in Cwnds :
        IF t.err \/ q.shut THEN Finish(h, [t EXCEPT !.err = FALSE], Back(q))
        ELSE SendLoop(h, t, q, cwnd)
  BY <1>3, Zenon
<1>4. q.wr # "idle" /\ q.wr # "asleep"
  BY <1>2
<1>5. q.fd = "open" /\ prog[h].fd # "none" /\ q.left > 0
  BY <1>1, <1>4, Sleeping, <1>2 DEF ProgFine
<1>6. CASE t.err \/ q.shut
  <2> PICK a \in {"idle", "asleep", "awake"} : a = "idle"
    OBVIOUS
  <2> PICK m \in Nat : m = 0
    OBVIOUS
  <2> PICK b \in BOOLEAN : b = q.conn
    BY DEF Prog
  <2> PICK p : p = Writer(q, a, b, m)
    OBVIOUS
  <2>1. p = Back(q)
    BY DEF Writer, Back, Prog
  <2>2. Finish(h, [t EXCEPT !.err = FALSE], p)
    BY <1>6, <2>1, Zenon
  <2>3. Wrote(q, a, b, m, p)
    BY WriterIs
  <2>4. p \in Prog /\ p.fd = q.fd /\ p.wr = a /\ p.rd = q.rd /\ p.shut = q.shut
    BY <2>3, Zenon DEF Wrote
  <2>5. ProgFine(h, t, p, Len(got[h]))
    BY <1>2, <1>1, <1>5, WriterFine
  <2>6. SleepFine(t, p)
    BY <2>4, <1>1 DEF SleepFine
  <2>7. p.fd # "none"
    BY <1>5, <2>4
  <2> QED
    BY <1>2, <1>5, <2>2, <2>4, <2>5, <2>6, <2>7, ErrInv
<1>7. CASE ~(t.err \/ q.shut)
  BY <1>7, <1>1, <1>2, <1>5, SendLoopInv
<1> QED
  BY <1>6, <1>7

\* The segment that a byte is read from
LEMMA ByteAtIs ==
  ASSUME NEW q \in Seq(Chunk), Placed(q), Staggered(q), NEW x \in Int, Holds(q, x)
  PROVE  ByteAt(q, x) = x
<1> PICK i \in 1..Len(q) : q[i].seq <= x /\ x < NxtOf(q[i])
  BY DEF Holds
<1> PICK n \in Nat : n = Len(q)
  OBVIOUS
<1>1. \A j \in 1..n : q[j] \in Chunk /\ q[j].seq \in Int /\ NxtOf(q[j]) \in Int
  BY ChunkIs
<1> PICK T : T = {j \in 1..n : x < NxtOf(q[j])}
  OBVIOUS
<1>0. T \in SUBSET Nat
  OBVIOUS
<1>2. i \in T /\ i \in 1..n
  OBVIOUS
<1> PICK j \in T : \A k \in T : j <= k
  BY <1>0, <1>2, LeastNat
<1>3. j \in 1..n /\ x < NxtOf(q[j]) /\ j <= i
  BY <1>2
<1>4. \A k \in 1..(j - 1) : NxtOf(q[k]) <= x
  BY <1>3, <1>1
<1>5. q[j].seq <= x
  BY <1>3, <1>1, <1>2 DEF Staggered
<1> DEFINE Fit(m) == /\ q[m].seq <= x /\ x < NxtOf(q[m])
                     /\ \A k \in 1..(m - 1) : NxtOf(q[k]) <= x
<1>6. \E m \in 1..Len(q) : SegmentOf(q, x) = q[m] /\ Fit(m)
  <2>1. SegmentOf(q, x) = q[CHOOSE m \in 1..Len(q) : Fit(m)]
    BY Zenon DEF SegmentOf
  <2>2. j \in 1..Len(q) /\ Fit(j)
    BY <1>3, <1>4, <1>5
  <2> HIDE DEF Fit
  <2>3. (CHOOSE m \in 1..Len(q) : Fit(m)) \in 1..Len(q) /\ Fit(CHOOSE m \in 1..Len(q) : Fit(m))
    BY <2>2, Zenon
  <2> QED
    BY <2>1, <2>3, Zenon
<1> HIDE DEF Fit
<1> PICK m \in 1..Len(q) : SegmentOf(q, x) = q[m] /\ Fit(m)
  BY <1>6
<1> PICK b \in Chunk : b = q[m]
  BY <1>1
<1>7. SegmentOf(q, x) = b
  BY Zenon
<1> PICK s \in Int : s = b.seq
  BY DEF Chunk
<1> PICK d \in Seq(Int) : d = b.data
  BY DEF Chunk
<1>8. s <= x /\ x < s + Len(d)
  BY DEF NxtOf, Fit
<1> PICK y \in Int : y = x - s + 1
  OBVIOUS
<1>9. y \in 1..Len(d)
  BY <1>8, SMTT(20)
<1>10. d[y] = s + y - 1
  BY <1>9 DEF Placed
<1>11. ByteAt(q, x) = d[y]
  BY <1>7, Zenon DEF ByteAt
<1>12. s + y - 1 = x
  BY SMTT(20)
<1> QED
  BY <1>10, <1>11, <1>12

LEMMA CatAt ==
  ASSUME NEW r \in Seq(Int), NEW b \in Seq(Int), NEW o, o = Len(r), NEW n, n = Len(b), NEW l, l = r \o b
  PROVE  Catted(r, b, o, n, l)
  BY Cat DEF Catted

LEMMA ReadIs ==
  ASSUME NEW t, IsBlock(t), RcvOK(t), NEW n \in 1..Readable(t), NEW o \in Nat, NEW r \in Seq(Int), Len(r) = o,
         NEW a \in Int, t.read = a + 1 + o, \A i \in 1..o : r[i] = a + i, NEW l, l = r \o Read(t, n)
  PROVE  Reads(l, o, n, a)
<1>1. Placed(t.rcvq) /\ Staggered(t.rcvq) /\ t.rcvq \in Seq(Chunk)
  BY DEF RcvOK, IsBlock
<1> PICK k \in Nat : k = Readable(t)
  BY <1>1, ReadableIs
<1> PICK w \in Int : w = t.read
  BY DEF IsBlock
<1>2. w = a + 1 + o /\ n <= k /\ n \in Nat
  OBVIOUS
<1>3. \A x \in Int : w <= x /\ x < w + k => Kept(t, x)
  BY <1>1, ReadableIs
<1>4. \A i \in 1..n : ByteAt(t.rcvq, t.read + i - 1) = a + o + i
  BY <1>2, <1>1, <1>3, KeptIs, ByteAtIs
<1> PICK b : b = Read(t, n)
  OBVIOUS
<1>5. b = [i \in 1..n |-> a + o + i]
  BY <1>4 DEF Read
<1>6. b \in Seq(Int) /\ Len(b) = n /\ \A i \in 1..n : b[i] = a + o + i
  BY <1>2, <1>5
<1>7. /\ l \in Seq(Int) /\ Len(l) = o + n
      /\ \A i \in 1..o : l[i] = r[i]
      /\ \A i \in 1..n : l[o + i] = b[i]
  <2>1. l = r \o b
    BY Zenon
  <2>2. r \in Seq(Int) /\ b \in Seq(Int) /\ o = Len(r) /\ n = Len(b)
    BY <1>6
  <2>3. Catted(r, b, o, n, l)
    BY <2>1, <2>2, CatAt
  <2> QED
    BY <2>3, Zenon DEF Catted
<1> SUFFICES ASSUME NEW i \in 1..(o + n) PROVE l[i] = a + i
  BY <1>7 DEF Reads
<1>8. CASE i <= o
  BY <1>7, <1>8
<1>9. CASE i > o
  <2> PICK j \in 1..n : j = i - o
    BY <1>9
  <2>1. o + j = i
    OBVIOUS
  <2>4. l[i] = b[j]
    BY <1>7, <2>1
  <2>2. b[j] = a + o + j
    BY <1>6
  <2>3. a + o + j = a + i
    OBVIOUS
  <2> QED
    BY <2>2, <2>3, <2>4
<1>10. i <= o \/ i > o
  BY <1>2
<1> QED
  BY <1>8, <1>9, <1>10

LEMMA TakenIs ==
  ASSUME NEW t, IsBlock(t), NEW x \in Int, NEW q \in Seq(Chunk), NEW k \in Int, NEW v, v = Taken(t, x, q, k)
  PROVE  TakenOf(t, x, q, v) /\ v.out = t.out
  BY DEF Taken, IsBlock, Fields, TakenOf

LEMMA DropCases ==
  ASSUME NEW t, IsBlock(t), t.rcvq # <<>>, NEW x \in Int, NEW q \in Seq(Chunk), q = NotRead(t, x),
         NEW v, v = Dropsegs(t, x)
  PROVE  \E k \in Int : v = Taken(t, x, q, k) \/ v = SndAckOnly(Taken(t, x, q, k))
<1> PICK k : k = IF q = <<>> THEN 0 ELSE t.cur - (q[1].seq - t.rcvq[1].seq)
  OBVIOUS
<1>1. k \in Int
  BY ChunkIs DEF IsBlock
<1> PICK u : u = Taken(t, x, q, k)
  OBVIOUS
<1>2. u = [t EXCEPT !.read = x, !.rcvq = q,
                    !.cur = IF q = <<>> THEN 0 ELSE @ - (q[1].seq - t.rcvq[1].seq)]
  BY Zenon DEF Taken
<1>3. v = u \/ v = SndAckOnly(u)
  BY <1>2, Zenon DEF Dropsegs
<1> QED
  BY <1>1, <1>3, Zenon

LEMMA AckAlone ==
  ASSUME NEW h, NEW c, IsBlock(c), c.out = <<>>, NEW v, v = SndAckOnly(c)
  PROVE  Acknowledges(h, c, v)
<1>0. c.nxt \in Int
  BY DEF IsBlock
<1>1. v = Acking(c, c.nxt, {"ACK"}, <<>>)
  BY Zenon DEF SndAckOnly
<1>2. /\ IsBlock(v) /\ Unmoved(c, v) /\ v.sndq = c.sndq /\ v.nxt = c.nxt /\ v.max = c.max
      /\ Len(v.out) = Len(c.out) + 1
      /\ v.out[Len(c.out) + 1].data = <<>> /\ v.out[Len(c.out) + 1].flags = {"ACK"}
      /\ Outs(h, c, c) => Outs(h, c, v)
  BY <1>0, <1>1, PlainIs, ZenonT(40)
<1>3. AllPlain(v)
  BY <1>2 DEF AllPlain
<1>4. Outs(h, c, v)
  BY <1>2, Silent
<1> QED
  BY <1>2, <1>3, <1>4, Zenon DEF Acknowledges

LEMMA DropIs ==
  ASSUME NEW h, NEW t, IsBlock(t), t.out = <<>>, t.rcvq # <<>>, NEW x \in Int, NEW q \in Seq(Chunk),
         q = NotRead(t, x), NEW v, v = Dropsegs(t, x)
  PROVE  Dropped(h, t, x, q, v)
<1>1. PICK k \in Int : v = Taken(t, x, q, k) \/ v = SndAckOnly(Taken(t, x, q, k))
  BY DropCases
<1> PICK c : c = Taken(t, x, q, k)
  OBVIOUS
<1>2. TakenOf(t, x, q, c) /\ c.out = <<>>
  BY TakenIs
<1>3. CASE v = c
  BY <1>2, <1>3 DEF AllPlain, Outs, Dropped
<1>4. CASE v = SndAckOnly(c)
  <2>1. IsBlock(c)
    BY <1>2, Zenon DEF TakenOf
  <2>2. Acknowledges(h, c, v)
    BY <1>2, <1>4, <2>1, AckAlone
  <2>3. /\ IsBlock(v) /\ Unmoved(c, v) /\ v.sndq = c.sndq /\ v.nxt = c.nxt /\ v.max = c.max
        /\ AllPlain(v) /\ Outs(h, c, v)
    BY <2>2, Zenon DEF Acknowledges
  <2>6. TakenOf(t, x, q, v)
    BY <1>2, <2>3, ZenonT(40) DEF Unmoved, Untouched, TakenOf
  <2> QED
    BY <1>2, <2>3, <2>6, Zenon DEF Dropped
<1> QED
  BY <1>1, <1>3, <1>4

\* What is left is what has not been read.
LEMMA TakenRcv ==
  ASSUME NEW t, IsBlock(t), RcvOK(t), NEW n \in 1..Readable(t), NEW x \in Int, x = t.read + n,
         NEW q, q = NotRead(t, x), NEW v, TakenOf(t, x, q, v), NEW G \in Int, NEW z, RcvEnd(t, G, z)
  PROVE  RcvOK(v) /\ RcvEnd(v, G, z) /\ t.rcvq # <<>>
<1>1. Placed(t.rcvq) /\ Staggered(t.rcvq) /\ t.rcvq \in Seq(Chunk)
  BY DEF RcvOK, IsBlock
<1>2. /\ q \in Seq(Chunk) /\ Staggered(q) /\ Placed(q)
      /\ \A y : Holds(q, y) => Holds(t.rcvq, y)
      /\ \A y \in Int : x <= y /\ Holds(t.rcvq, y) => Holds(q, y)
      /\ \A i \in 1..Len(q) : \E j \in 1..Len(t.rcvq) : q[i] = t.rcvq[j]
  BY <1>1, NotReadHolds
<1>3. /\ IsBlock(v) /\ v.state = t.state /\ v.rnxt = t.rnxt /\ v.fin = t.fin /\ v.sock = t.sock
      /\ v.rcvq = q /\ v.read = x
  BY Zenon DEF TakenOf
<1> PICK k \in Nat : k = Readable(t)
  BY <1>1, ReadableIs
<1> PICK w \in Int : w = t.read
  BY DEF IsBlock
<1> PICK o \in Int : o = t.rnxt
  BY DEF IsBlock
<1>4. n \in Nat /\ n > 0 /\ n <= k /\ x = w + n
  OBVIOUS
<1>5. \A y \in Int : w <= y /\ y < w + k => Holds(t.rcvq, y)
  BY <1>1, ReadableIs, KeptIs
<1>6. Synced(v) <=> Synced(t)
  BY <1>3 DEF Synced
<1>7. \A y : Kept(v, y) <=> Holds(q, y)
  BY <1>2, <1>3, KeptIs
<1>8. Synced(t) => 0 <= o /\ x <= o /\ ~Kept(v, o)
  <2> SUFFICES ASSUME Synced(t) PROVE 0 <= o /\ x <= o /\ ~Kept(v, o)
    OBVIOUS
  <2>1. 0 <= o /\ w <= o /\ ~Kept(t, o)
    BY DEF RcvOK
  <2>2. ~Holds(t.rcvq, o)
    BY <1>1, <2>1, KeptIs
  <2>3. ~(o < w + k)
    BY <1>5, <2>1, <2>2
  <2> QED
    BY <1>2, <1>4, <1>7, <2>1, <2>2, <2>3
<1>9. Synced(t) /\ t.sock => \A y \in x..(o - 1) : Kept(v, y) \/ y = t.fin
  <2> SUFFICES ASSUME Synced(t), t.sock, NEW y \in x..(o - 1), y # t.fin PROVE Kept(v, y)
    OBVIOUS
  <2>1. y \in w..(o - 1) /\ y \in Int /\ x <= y
    BY <1>4
  <2>2. Kept(t, y)
    BY <2>1 DEF RcvOK
  <2>3. Holds(q, y)
    BY <1>1, <1>2, <2>1, <2>2, KeptIs
  <2> QED
    BY <1>7, <2>3
<1>10. RcvOK(v)
  BY <1>2, <1>3, <1>6, <1>8, <1>9, Zenon DEF RcvOK
<1> PICK i \in 1..Len(t.rcvq) : t.rcvq[i].seq <= x - 1 /\ x - 1 < NxtOf(t.rcvq[i])
  <2>1. x - 1 \in Int /\ w <= x - 1 /\ x - 1 < w + k
    BY <1>4
  <2> QED
    BY <1>5, <2>1 DEF Holds
<1>11. t.rcvq # <<>>
  OBVIOUS
<1>12. RcvEnd(v, G, z)
  <2> SUFFICES ASSUME Synced(v)
               PROVE  /\ FinSeen(v) => v.fin = G /\ z
                      /\ \A j \in 1..Len(v.rcvq) : NxtOf(v.rcvq[j]) <= G
                      /\ v.sock => v.read <= G
    BY Zenon DEF RcvEnd
  <2>1. (FinSeen(t) => t.fin = G /\ z) /\ \A j \in 1..Len(t.rcvq) : NxtOf(t.rcvq[j]) <= G
    BY <1>6, Zenon DEF RcvEnd
  <2>2. FinSeen(v) => v.fin = G /\ z
    BY <1>3, <2>1, Zenon DEF FinSeen
  <2>3. \A j \in 1..Len(v.rcvq) : NxtOf(v.rcvq[j]) <= G
    BY <1>2, <1>3, <2>1, Zenon
  <2>4. x <= G
    <3>1. NxtOf(t.rcvq[i]) \in Int /\ NxtOf(t.rcvq[i]) <= G
      BY <1>1, <2>1, ChunkIs
    <3> QED
      BY <3>1
  <2> QED
    BY <1>3, <2>2, <2>3, <2>4, Zenon
<1> QED
  BY <1>10, <1>11, <1>12

LEMMA RecvLegal ==
  ASSUME TInv, NEW h \in Host, NEW g, NEW t, t = tcb[h], NEW F, NEW G, NEW z, Streams(h, g, F, G, z),
         t.sock, NEW n \in 1..Readable(t), NEW x \in Int, x = t.read + n, NEW q, q = NotRead(t, x),
         NEW v, v = Dropsegs(t, x)
  PROVE  Legal(h, g, t, v, F, F, G, z) /\ TakenOf(t, x, q, v) /\ t.rcvq # <<>>
<1>0. /\ g \in Host /\ g = Peer(h) /\ F \in Nat /\ G \in Nat
      /\ StreamEnd(h, g, F) /\ StreamEnd(g, h, G)
      /\ z <=> (Live(tcb[g]) => FinSent(tcb[g]))
  BY Zenon DEF Streams
<1>1. BlockOK(h, t) /\ t.out = <<>> /\ Below(g, t.una)
  BY <1>0, TInvHost
<1>2. IsBlock(t) /\ StateOK(h, t) /\ RcvOK(t)
  BY <1>1, Zenon DEF BlockOK
<1>3. RcvEnd(t, G, z)
  BY <1>0, RcvEndIs
<1>4. q \in Seq(Chunk)
  BY <1>2, NotReadHolds DEF IsBlock
<1>5. t.rcvq # <<>>
  BY <1>2, <1>4, TakenIs, <1>0, <1>3, TakenRcv
<1>6. Dropped(h, t, x, q, v)
  BY <1>1, <1>2, <1>4, <1>5, DropIs
<1>7. TakenOf(t, x, q, v) /\ AllPlain(v)
  BY <1>6, Zenon DEF Dropped
<1>8. RcvOK(v) /\ RcvEnd(v, G, z)
  BY <1>0, <1>2, <1>3, <1>7, TakenRcv
<1>9. /\ IsBlock(v) /\ v.state = t.state /\ v.una = t.una /\ v.nxt = t.nxt /\ v.max = t.max
      /\ v.write = t.write /\ v.sndq = t.sndq /\ v.ostate = t.ostate /\ v.timer = t.timer /\ v.del = t.del
      /\ v.rnxt = t.rnxt /\ v.fin = t.fin /\ v.sock = t.sock /\ v.err = t.err
  BY <1>7, Zenon DEF TakenOf
<1>10. t.state # "none" /\ t.state # "SYNSENT"
  BY <1>2, <1>5 DEF StateOK
<1>11. /\ Synced(v) <=> Synced(t)
       /\ Live(v) <=> Live(t)
       /\ FinSent(v) <=> FinSent(t)
       /\ Finished(v) <=> Finished(t)
  BY <1>9 DEF Synced, Live, FinSent, Finished
<1>12. Live(v) => SndOK(h, v) /\ SynGone(v) /\ TimerOK(v)
  <2>1. Live(t) => SndOK(h, t) /\ SynGone(t) /\ TimerOK(t)
    BY <1>1 DEF BlockOK
  <2> QED
    BY <1>9, <1>11, <2>1, SndSameState
<1>13. StateOK(h, v)
  BY <1>2, <1>9, <1>10, <1>11, Zenon DEF StateOK
<1>14. BlockOK(h, v)
  BY <1>8, <1>9, <1>12, <1>13, Zenon DEF BlockOK
<1>15. v.rnxt <= v.rnxt
  BY <1>9 DEF IsBlock
<1>16. Forward(h, g, t, v)
  BY <1>9, <1>11, <1>15, Zenon DEF Forward
<1>17. Grows(h, t, v, F, F)
  BY <1>0, StreamLast, <1>9, <1>11 DEF Grows
<1>18. Utters(h, g, v, F)
  <2> PICK c : TakenOf(t, x, q, c) /\ Outs(h, c, v)
    BY <1>6, Zenon DEF Dropped
  <2>1. IsBlock(c) /\ c.state = t.state /\ c.una = t.una /\ c.rnxt = t.rnxt
    BY Zenon DEF TakenOf
  <2>2. FinSent(c) <=> FinSent(v)
    BY <1>9, <2>1, Zenon DEF FinSent
  <2>3. Says(g, v, F, c)
    BY <1>1, <1>7, <1>9, <1>10, <1>15, <2>1, <2>2, Zenon DEF Says
  <2> QED
    BY <2>3, Zenon DEF Utters
<1>19. Below(g, v.una)
  BY <1>1, <1>9, Zenon
<1>20. Legal(h, g, t, v, F, F, G, z)
  BY <1>8, <1>14, <1>16, <1>17, <1>18, <1>19, Zenon DEF Legal
<1> QED
  BY <1>5, <1>7, <1>20

LEMMA ReaderIs ==
  ASSUME NEW p \in Prog, NEW a \in {"idle", "asleep", "awake"}, NEW q, q = Reader(p, a)
  PROVE  ReaderOf(p, a, q)
BY DEF Reader, ReaderOf, Prog

LEMMA ReaderFine ==
  ASSUME NEW p \in Prog, NEW a \in {"idle", "asleep", "awake"}, NEW q, q = Reader(p, a), p.fd = "open",
         NEW h, NEW t, NEW n, ProgFine(h, t, p, n), SleepFine(t, p),
         a = "asleep" => ~t.err /\ Readable(t) = 0 /\ t.state = "ESTABLISHED"
  PROVE  ProgFine(h, t, q, n) /\ SleepFine(t, q)
  BY ReaderIs DEF ReaderOf, ProgFine, SleepFine

LEMMA HasRead ==
  ASSUME TInv, NEW h \in Host, NEW t, t = tcb[h], t.sock, t.rcvq # <<>>
  PROVE  ~NotYet(h)
  BY TInvHost DEF BlockOK, StateOK, NotYet, Started, Host

LEMMA RecvReads ==
  ASSUME TInv, NEW h \in Host, NEW t, t = tcb[h], NEW p \in Prog, p = prog[h], p.fd = "open",
         NEW n \in 1..Readable(t), NEW l, l = got[h] \o Read(t, n)
  PROVE  Reads(l, Len(got[h]), n, Isn[Peer(h)])
<1> PICK r \in Seq(Int) : r = got[h]
  BY TInvHost
<1> PICK o \in Nat : o = Len(r)
  OBVIOUS
<1>1. BlockOK(h, t) /\ ProgFine(h, t, p, o)
  BY TInvHost
<1>2. IsBlock(t) /\ RcvOK(t) /\ t.sock
  BY <1>1 DEF BlockOK, ProgFine
<1> PICK g \in Host : g = Peer(h)
  BY PeerIs
<1> PICK F, G, z : Streams(h, g, F, G, z)
  BY StreamsAre, Zenon DEF Streams
<1> PICK x : x = t.read + n
  OBVIOUS
<1>3. t.rcvq # <<>>
  BY <1>2, ReadableIs, RecvLegal DEF IsBlock, RcvOK
<1> PICK c \in Int : c = Isn[g]
  BY Params
<1>4. t.read = c + 1 + o
  BY <1>1, <1>3 DEF ProgFine
<1>5. \A i \in 1..o : r[i] = c + i
  BY TInvHost
<1>6. l = r \o Read(t, n)
  BY Zenon
<1>7. Reads(l, o, n, c)
  BY <1>2, <1>4, <1>5, <1>6, ReadIs
<1> QED
  BY <1>7, Zenon

LEMMA RecvSome ==
  ASSUME TInv, NEW h \in Host, NEW t, t = tcb[h], NEW p \in Prog, p = prog[h], p.fd = "open",
         NEW n \in 1..Readable(t), NEW a \in {"idle", "asleep", "awake"}, a = "idle",
         Finish(h, Dropsegs(t, t.read + n), Reader(p, a)),
         NEW l, Reads(l, Len(got[h]), n, Isn[Peer(h)]), got' = [got EXCEPT ![h] = l],
         listening' = listening
  PROVE  TInv'
<1> PICK g, F, G, z : Streams(h, g, F, G, z)
  BY StreamsAre, Zenon
<1> PICK r \in Seq(Int) : r = got[h]
  BY TInvHost
<1> PICK o \in Nat : o = Len(r)
  OBVIOUS
<1>1. BlockOK(h, t) /\ ProgFine(h, t, p, o) /\ SleepFine(t, p)
  BY TInvHost
<1>2. F \in Nat /\ g \in Host /\ g = Peer(h)
  BY Zenon DEF Streams
<1>3. IsBlock(t) /\ RcvOK(t) /\ Placed(t.rcvq) /\ Staggered(t.rcvq)
  BY <1>1 DEF BlockOK, RcvOK
<1> PICK w \in Int : w = t.read
  BY <1>3 DEF IsBlock
<1> PICK k \in Nat : k = Readable(t)
  BY <1>3, ReadableIs
<1>4. n \in Nat /\ n > 0 /\ n <= k
  OBVIOUS
<1> PICK x \in Int : x = w + n
  BY <1>4
<1>5. x = t.read + n
  OBVIOUS
<1> PICK q : q = NotRead(t, x)
  OBVIOUS
<1> PICK v : v = Dropsegs(t, x)
  OBVIOUS
<1>6. t.sock
  BY <1>1 DEF ProgFine
<1>7. Legal(h, g, t, v, F, F, G, z) /\ TakenOf(t, x, q, v) /\ t.rcvq # <<>>
  BY <1>5, <1>6, RecvLegal
<1>8. /\ v.state = t.state /\ v.sndq = t.sndq /\ v.sock = t.sock /\ v.err = t.err /\ v.read = x
  BY <1>7, Zenon DEF TakenOf
<1> PICK c \in Int : c = Isn[g]
  BY <1>2, Params
<1>9. t.read = c + 1 + o
  BY <1>1, <1>7, <1>2 DEF ProgFine
<1>11. l \in Seq(Int) /\ Len(l) = o + n /\ \A i \in 1..Len(l) : l[i] = c + i
  BY <1>2 DEF Reads
<1> PICK u : u = Reader(p, a)
  OBVIOUS
<1>12. ReaderOf(p, a, u)
  BY ReaderIs
<1>13. /\ u \in Prog /\ u.rd = a /\ u.wr = p.wr /\ u.conn = p.conn /\ u.left = p.left /\ u.fd = p.fd
       /\ u.shut = p.shut
  BY <1>12, Zenon DEF ReaderOf
<1>14. ProgFine(h, v, u, Len(l))
  <2>1. x = c + 1 + (o + n)
    BY <1>4, <1>9
  <2>2. v.read = Isn[Peer(h)] + 1 + Len(l)
    BY <1>2, <1>8, <1>11, <2>1, Zenon
  <2>3. u.fd # "none" /\ u.fd # "gone"
    BY <1>13
  <2>4. FinSent(v) <=> FinSent(t)
    BY <1>8 DEF FinSent
  <2> QED
    BY <1>1, <1>8, <1>13, <2>2, <2>3, <2>4, Zenon DEF ProgFine
<1>15. SleepFine(v, u)
  BY <1>13, <1>8, <1>1, ZenonT(40) DEF Canwrite, Used, Connected, Connecting, SleepFine
<1>16. Finish(h, v, u)
  BY <1>5, Zenon
<1>17. ~NotYet(h)
  BY <1>6, <1>7, HasRead
<1>18. v.state = "SYNSENT" => t.state = "SYNSENT"
  BY <1>8
<1>19. ProgFine(h, v, u, Len(got'[h]))
  BY <1>14 DEF TInv, TypeOK
<1>20. \A i \in 1..Len(l) : l[i] = Isn[g] + i
  BY <1>11
<1>21. /\ Legal(h, g, t, v, F, F, G, z) /\ F \in Nat /\ (v.state = "SYNSENT" => t.state = "SYNSENT")
       /\ u \in Prog /\ prog[h].fd # "none" /\ u.fd # "none" /\ ProgFine(h, v, u, Len(got'[h]))
       /\ (v.wake \/ SleepFine(v, u)) /\ Finish(h, v, u) /\ listening' = listening
       /\ l \in Seq(Int) /\ got' = [got EXCEPT ![h] = l] /\ (NotYet(h) => l = <<>>)
       /\ \A i \in 1..Len(l) : l[i] = Isn[g] + i
  BY <1>2, <1>7, <1>11, <1>13, <1>15, <1>16, <1>17, <1>18, <1>19, <1>20
<1> QED
  BY <1>21, CallInv, ZenonT(40)

LEMMA RecvLoopInv ==
  ASSUME TInv, NEW h \in Host, NEW t, t = tcb[h], NEW p \in Prog, p = prog[h], p.fd = "open", ~t.err,
         RecvLoop(h, t, p), listening' = listening
  PROVE  TInv'
<1>1. BlockOK(h, t) /\ t.out = <<>> /\ ProgFine(h, t, p, Len(got[h])) /\ SleepFine(t, p)
  BY TInvHost
<1>2. CASE Readable(t) > 0
  <2>1. \E n \in 1..Readable(t) :
         /\ Finish(h, Dropsegs(t, t.read + n), [p EXCEPT !.rd = "idle"])
         /\ got' = [got EXCEPT ![h] = @ \o [i \in 1..n |-> ByteAt(t.rcvq, t.read + i - 1)]]
    BY <1>2, Zenon DEF RecvLoop
  <2>2. PICK n \in 1..Readable(t) :
         /\ Finish(h, Dropsegs(t, t.read + n), [p EXCEPT !.rd = "idle"])
         /\ got' = [got EXCEPT ![h] = @ \o [i \in 1..n |-> ByteAt(t.rcvq, t.read + i - 1)]]
    BY <2>1, Zenon
  <2> PICK a \in {"idle", "asleep", "awake"} : a = "idle"
    OBVIOUS
  <2> PICK l : l = got[h] \o Read(t, n)
    OBVIOUS
  <2>3. Finish(h, Dropsegs(t, t.read + n), Reader(p, a))
    BY <2>2, Zenon DEF Reader
  <2>4. got' = [got EXCEPT ![h] = l]
    BY <2>2, Zenon DEF Read
  <2>5. Reads(l, Len(got[h]), n, Isn[Peer(h)])
    BY RecvReads
  <2> QED
    BY <2>3, <2>4, <2>5, RecvSome
<1>3. CASE ~(Readable(t) > 0)
  BY <1>3, <1>1, ReadableIs, ReaderIs, ReaderFine, StillSame, StillInv DEF RecvLoop, Reader,
     BlockOK, RcvOK, ReaderOf
<1> QED
  BY <1>2, <1>3

LEMMA RecvInv ==
  ASSUME TInv, NEW h \in Host, Recv(h)
  PROVE  TInv'
  BY TInvHost, ErrInv, RecvLoopInv DEF Recv, Open

LEMMA RecvAgainInv ==
  ASSUME TInv, NEW h \in Host, RecvAgain(h)
  PROVE  TInv'
  BY TInvHost, Sleeping, ReaderIs, ReaderFine, ErrInv, RecvLoopInv DEF RecvAgain, Reader, ReaderOf

LEMMA InitInv ==
  ASSUME Init
  PROVE  TInv
<1> PICK n : n = NoTcb
  OBVIOUS
<1>1. /\ IsBlock(n) /\ n.state = "none" /\ n.out = <<>> /\ ~n.timer /\ ~n.sock /\ ~n.del
      /\ ~n.delack /\ n.rcvq = <<>> /\ n.una = 0
  BY NoBlockIs
<1>2. ~n.wake
  BY DEF NoTcb, Block
<1>3. /\ DOMAIN tcb = Host /\ \A h \in Host : tcb[h] = n
      /\ listening = "new" /\ net = {}
      /\ prog = [h \in Host |-> Idle(h)]
      /\ DOMAIN got = Host /\ \A h \in Host : got[h] = <<>>
  BY DEF Init
<1>4. \A h \in Host : Idle(h) \in Prog
  BY Params DEF Idle, Prog
<1>5. \A h \in Host : /\ prog[h].fd = "none" /\ prog[h].rd = "idle" /\ prog[h].wr = "idle"
                      /\ ~prog[h].conn
  BY <1>3 DEF Idle
<1>6. TypeOK
  <2>1. prog \in [Host -> Prog]
    <3> HIDE DEF Prog
    <3> QED
      BY <1>3, <1>4
  <2>2. got \in [Host -> Seq(Int)]
    BY EmptySeq DEF Init
  <2> QED
    BY <1>1, <1>3, <2>1, <2>2 DEF TypeOK
<1>7. ~Live(n) /\ ~Synced(n) /\ ~FinSent(n)
  BY <1>1 DEF Live, Synced, FinSent
<1>8. \A h \in Host : Started(h) <=> FALSE
  BY <1>3, <1>5 DEF Started, Host
<1>9. \A h \in Host : HostOK(h)
  BY <1>1, <1>7, <1>3, <1>5, <1>2 DEF StateOK, Placed, Staggered, RcvOK, ProgOK, ProgFine, HostOK
<1>10. StartOK
  BY <1>1, <1>3, <1>5, <1>7, Zenon DEF StartOK
<1>11. NetOK
  BY <1>3 DEF NetOK
<1>12. AcksOK
  BY PeerIs, Params, <1>1, <1>3, <1>7 DEF AcksOK, Below
<1>13. \A h \in Host : \E F \in Nat : StreamEnd(h, Peer(h), F)
  BY PeerIs, <1>3, <1>7 DEF StreamEnd
<1>14. \A h \in Host : Sleepers(h)
  BY <1>5 DEF Sleepers, SleepFine
<1>15. InOrder
  BY <1>3 DEF InOrder
<1> QED
  BY <1>6, <1>9, <1>10, <1>11, <1>12, <1>13, <1>14, <1>15, Zenon DEF TInv

LEMMA DeliversInv ==
  ASSUME TInv, Deliver
  PROVE  TInv'
  BY OpensInv, DeliverInv DEF Deliver

LEMMA StutterInv ==
  ASSUME TInv, UNCHANGED vars
  PROVE  TInv'
  BY DEF vars, NotYet, Started, Below, TInv, TypeOK, StartOK, InOrder, AcksOK, NetOK, MsgOK,
     StreamEnd, HostOK, ProgOK, Sleepers

LEMMA NextInv ==
  ASSUME TInv, [Next]_vars
  PROVE  TInv'
  BY DeliversInv, LoseInv, ConnectInv, ConnectAgainInv, AcceptInv, TimeoutInv, DeletemeInv,
     DodelackInv, SendInv, SendAgainInv, RecvInv, RecvAgainInv, ShutdownInv, CloseInv, InterruptInv,
     StutterInv DEF Next

\* TInv holds in every state of every behaviour, for every size of window, buffer,
\* segment and write: the handlers, the timers and the calls of tcpin.c, tcpout.c,
\* tcputil.c and tcp.c all preserve it.
THEOREM TcpInvariant == Spec => []TInv
<1>1. Init => TInv
  BY InitInv
<1>2. TInv /\ [Next]_vars => TInv'
  BY NextInv
<1> QED
  BY <1>1, <1>2, PTL DEF Spec

\* Through loss, duplication, reordering and retransmission the i-th byte a program
\* reads is the i-th of the other side's stream (tcp_addseg(), tcp_sndseg(),
\* tcp_probe() and tcp_recv()).
THEOREM TcpInOrder == Spec => []InOrder
<1>1. TInv => InOrder
  BY Zenon DEF TInv
<1> QED
  BY <1>1, TcpInvariant, PTL

LEMMA AckedKeptIs ==
  ASSUME TInv
  PROVE  AckedKept
<1> SUFFICES ASSUME NEW h \in Host, Synced(tcb[h]), Synced(tcb[Peer(h)]), tcb[Peer(h)].sock,
                    NEW x \in tcb[Peer(h)].read..(tcb[h].una - 1)
             PROVE  Kept(tcb[Peer(h)], x) \/ x = tcb[Peer(h)].fin
  BY Zenon DEF AckedKept
<1> PICK g \in Host : g = Peer(h)
  BY PeerIs
<1> PICK t : t = tcb[h]
  OBVIOUS
<1> PICK u : u = tcb[g]
  OBVIOUS
<1>1. Synced(u) /\ u.sock /\ x \in u.read..(t.una - 1)
  OBVIOUS
<1>2. IsBlock(t) /\ IsBlock(u) /\ RcvOK(u) /\ Below(g, t.una)
  BY TInvHost DEF BlockOK
<1> PICK a \in Int : a = t.una
  BY <1>2 DEF IsBlock
<1> PICK r \in Int : r = u.read
  BY <1>2 DEF IsBlock
<1> PICK o \in Int : o = u.rnxt
  BY <1>2 DEF IsBlock
<1>3. a <= o
  BY <1>1, <1>2, Zenon DEF Below
<1>4. x \in r..(o - 1)
  BY <1>1, <1>3
<1>5. \A y \in r..(o - 1) : Kept(u, y) \/ y = u.fin
  BY <1>1, <1>2, Zenon DEF RcvOK
<1> QED
  BY <1>4, <1>5, Zenon

\* What a receiver has acknowledged, and a socket may still read, is in its queue
\* or has been read (tcp_rcvdata(), tcp_dropsegs()): the sender may forget it.
THEOREM TcpAckedKept == Spec => []AckedKept
<1>1. TInv => AckedKept
  BY AckedKeptIs
<1> QED
  BY <1>1, TcpInvariant, PTL

LEMMA EofRightIs ==
  ASSUME TInv
  PROVE  EofRight
<1> SUFFICES ASSUME NEW h \in Host, tcb[h].state \in {"CLOSEWAIT", "LASTACK"}, tcb[h].sock,
                    Readable(tcb[h]) = 0
             PROVE  Len(got[h]) = tcb[h].fin - Isn[Peer(h)] - 1
  BY Zenon DEF EofRight
<1> PICK t : t = tcb[h]
  OBVIOUS
<1> PICK p \in Prog : p = prog[h]
  BY TInvHost
<1> PICK g, F, G, z : Streams(h, g, F, G, z)
  BY StreamsAre, Zenon
<1>0. g \in Host /\ g = Peer(h) /\ G \in Nat /\ StreamEnd(g, h, G) /\ (z <=> (Live(tcb[g]) => FinSent(tcb[g])))
  BY Zenon DEF Streams
<1>1. IsBlock(t) /\ RcvOK(t) /\ StateOK(h, t) /\ ProgFine(h, t, p, Len(got[h])) /\ got[h] \in Seq(Int)
  BY TInvHost DEF BlockOK
<1>2. Synced(t) /\ Finished(t) /\ t.sock
  BY <1>1 DEF Synced, StateOK
<1>3. p.fd # "gone"
  BY <1>1, <1>2 DEF ProgFine
<1>4. t.read = Isn[Peer(h)] + 1 + Len(got[h])
  BY <1>1, <1>2, <1>3, Zenon DEF ProgFine
<1>5. ~Kept(t, t.read)
  BY <1>1, ReadableIs DEF RcvOK
<1> PICK r \in Int : r = t.read
  BY <1>1 DEF IsBlock
<1> PICK o \in Int : o = t.rnxt
  BY <1>1 DEF IsBlock
<1> PICK f \in Int : f = t.fin
  BY <1>1 DEF IsBlock
<1> PICK n \in Nat : n = Len(got[h])
  BY <1>1
<1> PICK a \in Int : a = Isn[Peer(h)]
  BY PeerIs, Params
<1>6. f < o /\ FinSeen(t)
  BY <1>2 DEF Finished, FinSeen
<1>7. r <= f
  BY <1>0, RcvEndIs, <1>2, <1>6 DEF RcvEnd
<1>8. \A y \in r..(o - 1) : Kept(t, y) \/ y = f
  BY <1>1, <1>2, Zenon DEF RcvOK
<1>9. r \in r..(o - 1)
  BY <1>6, <1>7
<1>10. r = f
  BY <1>5, <1>8, <1>9, Zenon
<1>11. n = f - a - 1
  <2>1. r = a + 1 + n
    BY <1>4, Zenon
  <2> QED
    BY <1>10, <2>1, SMTT(20)
<1> QED
  BY <1>11, Zenon

\* A receiver takes for the end of the stream nothing but its end, however the FIN
\* was delayed, repeated or cut off at the edge of the window.
THEOREM TcpEofRight == Spec => []EofRight
<1>1. TInv => EofRight
  BY EofRightIs
<1> QED
  BY <1>1, TcpInvariant, PTL

LEMMA NeverStuckIs ==
  ASSUME TInv
  PROVE  NeverStuck
  BY TInvHost DEF NeverStuck, BlockOK, Live, TimerOK, StateOK, FinSent

\* As long as a connection has something that is not acknowledged the timer of
\* its output state machine runs (tcp_event()), and a block without a socket has
\* that or the one that deletes it: nothing waits for ever for what was lost.
THEOREM TcpNeverStuck == Spec => []NeverStuck
<1>1. TInv => NeverStuck
  BY NeverStuckIs
<1> QED
  BY <1>1, TcpInvariant, PTL

\* No reader, writer or connector sleeps on a socket that already has what it waits
\* for (tcp.c, so_wakersel(), so_wakewsel()).
THEOREM TcpNoLostWakeup == Spec => []NoLostWakeup
<1>1. TInv => NoLostWakeup
  BY Zenon DEF TInv, Sleepers, SleepFine, NoLostWakeup
<1> QED
  BY <1>1, TcpInvariant, PTL

=============================================================================
