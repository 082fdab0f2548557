--------------------------- MODULE TimeoutProofs ---------------------------
(***************************************************************************)
(* Proofs about Timeout: its structures are never lost or in two places, the *)
(* differences on tlist always add up to the times that were asked for, and  *)
(* the list implements the requests of Alarm.                               *)
(***************************************************************************)
EXTENDS Timeout, TLAPS, WellFoundedInduction

-----------------------------------------------------------------------------
(* Prefix sums.  What the loop of inserttimeout() computes is a recursive    *)
(* function; it is reasoned about through the least place where it would go  *)
(* wrong.                                                                    *)

\* A set of natural numbers that is not empty has a least element.
LEMMA LeastNat ==
  ASSUME NEW T \in SUBSET Nat, NEW n \in T
  PROVE  \E m \in T : \A k \in T : m <= k
<1>1. PICK m \in T : \A y \in T : ~(<<y, m>> \in OpToRel(<, Nat))
  BY WFMin, NatLessThanWellFounded, Zenon
<1>2. \A y \in T : ~(y < m)
  <2> SUFFICES ASSUME NEW y \in T PROVE ~(y < m)
    OBVIOUS
  <2>1. y \in Nat /\ m \in Nat
    OBVIOUS
  <2> QED
    BY <1>1, <2>1, Zenon DEF OpToRel
<1> QED
  BY <1>2

\* f counts delta d down along the first n nodes of l.
Runs(f, l, d, n) ==
  f \in [0..n -> Int] /\ f[0] = d /\ \A k \in 1..n : f[k] = f[k - 1] - l[k].when

\* The domain of a sequence.
LEMMA SeqDomain ==
  ASSUME NEW S, NEW s \in Seq(S)
  PROVE  DOMAIN s = 1..Len(s) /\ Len(s) \in Nat
  OBVIOUS

\* A sequence of one element.
LEMMA Single ==
  ASSUME NEW S, NEW x \in S
  PROVE  /\ <<x>> \in Seq(S) /\ <<x>> # <<>>
         /\ {<<x>>[i] : i \in DOMAIN <<x>>} = {x}
         /\ \A i, j \in DOMAIN <<x>> : <<x>>[i] = <<x>>[j] => i = j
  OBVIOUS

\* The fields of a node have their types.
LEMMA WhenInt ==
  ASSUME NEW l \in Seq(Timeout), NEW k \in 1..Len(l)
  PROVE  /\ l[k] \in Timeout /\ l[k].when \in Int /\ l[k].due \in Int
         /\ l[k].addr \in Addr /\ l[k].proc \in Proc /\ l[k].func \in Func
         /\ l[k].addr \in Addrs(l)
<1>1. l[k] \in Timeout /\ k \in DOMAIN l
  OBVIOUS
<1>2. l[k].addr \in Addrs(l)
  BY <1>1 DEF Addrs
<1> QED
  BY <1>1, <1>2 DEF Timeout

\* Changing the time of a node changes nothing else.
LEMMA ExceptWhen ==
  ASSUME NEW t \in Timeout, NEW w \in Int
  PROVE  LET u == [t EXCEPT !.when = w] IN
         /\ u \in Timeout /\ u.when = w
         /\ u.addr = t.addr /\ u.proc = t.proc /\ u.func = t.func /\ u.due = t.due
  BY DEF Timeout

\* The countdown along a list exists.
LEMMA RunsExist ==
  ASSUME NEW l \in Seq(Timeout), NEW d \in Int, NEW n \in 0..Len(l)
  PROVE  \E f : Runs(f, l, d, n)
<1> DEFINE Bad == {m \in 0..Len(l) : ~ \E f : Runs(f, l, d, m)}
<1> SUFFICES ASSUME n \in Bad PROVE FALSE
  OBVIOUS
<1>1. PICK m \in Bad : \A k \in Bad : m <= k
  <2>1. Bad \in SUBSET Nat
    OBVIOUS
  <2> QED
    BY <2>1, LeastNat
<1>2. m # 0
  <2>1. Runs([k \in 0..0 |-> d], l, d, 0)
    BY DEF Runs
  <2> QED
    BY <2>1
<1>3. m - 1 \in 0..Len(l) /\ m - 1 \notin Bad
  BY <1>1, <1>2
<1>4. PICK f : Runs(f, l, d, m - 1)
  BY <1>3
<1>5. l[m].when \in Int
  BY <1>1, <1>2, WhenInt
<1> DEFINE g == [k \in 0..m |-> IF k = m THEN f[m - 1] - l[m].when ELSE f[k]]
<1>6. Runs(g, l, d, m)
  <2>1. m \in Nat /\ 0 \in 0..(m - 1) /\ m - 1 \in 0..(m - 1) /\ 0 \in 0..m
    BY <1>1, <1>2
  <2>2. /\ f[0] = d
        /\ \A k \in 0..(m - 1) : f[k] \in Int
        /\ \A k \in 1..(m - 1) : f[k] = f[k - 1] - l[k].when
    BY <1>4 DEF Runs
  <2>3. g[m] = f[m - 1] - l[m].when /\ \A k \in 0..(m - 1) : g[k] = f[k]
    BY <2>1
  <2>4. g \in [0..m -> Int]
    BY <2>1, <2>2, <1>5
  <2>5. \A k \in 1..m : g[k] = g[k - 1] - l[k].when
    <3> SUFFICES ASSUME NEW k \in 1..m PROVE g[k] = g[k - 1] - l[k].when
      OBVIOUS
    <3> HIDE DEF g
    <3>1. CASE k = m
      BY <3>1, <2>1, <2>3
    <3>2. CASE k # m
      <4>1. k \in 1..(m - 1) /\ k \in 0..(m - 1) /\ k - 1 \in 0..(m - 1)
        BY <3>2, <2>1
      <4> QED
        BY <4>1, <2>2, <2>3
    <3> QED
      BY <3>1, <3>2
  <2>6. g[0] = d
    BY <2>1, <2>2, <2>3
  <2> HIDE DEF g
  <2> QED
    BY <2>4, <2>5, <2>6 DEF Runs
<1> QED
  BY <1>1, <1>6

\* Left is such a countdown.
LEMMA LeftRuns ==
  ASSUME NEW l \in Seq(Timeout), NEW d \in Int
  PROVE  Runs(Left(l, d), l, d, Len(l))
<1> DEFINE Body(f) == [k \in 0..Len(l) |-> IF k = 0 THEN d ELSE f[k - 1] - l[k].when]
           left == Left(l, d)
<1>0. Len(l) \in Nat
  OBVIOUS
<1>1. PICK f : Runs(f, l, d, Len(l))
  BY <1>0, RunsExist
<1>2. f = Body(f)
  BY <1>0, <1>1 DEF Runs
<1>3. left = Body(left)
  <2>1. left = CHOOSE g : g = Body(g)
    BY DEF Left
  <2> QED
    BY <1>2, <2>1
<1>4. \A k \in 0..Len(l) : left[k] = IF k = 0 THEN d ELSE left[k - 1] - l[k].when
  BY <1>3
<1>5. \A k \in 0..Len(l) : left[k] = f[k]
  <2> HIDE DEF left
  <2> DEFINE Bad == {k \in 0..Len(l) : left[k] # f[k]}
  <2> SUFFICES ASSUME NEW k \in Bad PROVE FALSE
    OBVIOUS
  <2>1. PICK m \in Bad : \A j \in Bad : m <= j
    <3>1. Bad \in SUBSET Nat
      OBVIOUS
    <3> QED
      BY <3>1, LeastNat
  <2>2. m # 0
    BY <1>0, <1>1, <1>4, <2>1 DEF Runs
  <2>3. m - 1 \in 0..Len(l) /\ left[m - 1] = f[m - 1]
    BY <2>1, <2>2
  <2> QED
    BY <1>1, <1>4, <2>1, <2>2, <2>3 DEF Runs
<1>6. left = [k \in 0..Len(l) |-> left[k]]
  BY <1>3
<1> HIDE DEF left
<1>7. left \in [0..Len(l) -> Int]
  BY <1>1, <1>5, <1>6 DEF Runs
<1> QED
  BY <1>0, <1>4, <1>7 DEF Runs, left

-----------------------------------------------------------------------------
(* Times.                                                                    *)

\* The differences on l are those between the times asked for, the first one to
\* the clock h, and later nodes are not due earlier.
Times(l, h) ==
  /\ l # <<>> => l[1].when = l[1].due - h
  /\ \A i \in 2..Len(l) : l[i].when = l[i].due - l[i - 1].due
  /\ \A i, j \in 1..Len(l) : i <= j => l[i].due <= l[j].due

\* What is left of a time after k nodes is its distance to the k-th time asked for.
LEMMA LeftIsDue ==
  ASSUME NEW l \in Seq(Timeout), NEW h \in Int, Times(l, h), NEW d \in Int
  PROVE  /\ Left(l, d)[0] = d
         /\ \A k \in 1..Len(l) : Left(l, d)[k] = d + h - l[k].due
<1> DEFINE left == Left(l, d)
           Bad == {k \in 1..Len(l) : left[k] # d + h - l[k].due}
<1>1. Runs(left, l, d, Len(l))
  BY LeftRuns
<1> HIDE DEF left
<1>2. left[0] = d
  BY <1>1 DEF Runs
<1>3. ASSUME NEW k \in Bad PROVE FALSE
  <2>1. PICK m \in Bad : \A j \in Bad : m <= j
    <3>1. Bad \in SUBSET Nat
      OBVIOUS
    <3> QED
      BY <1>3, <3>1, LeastNat
  <2>2. l[m].when \in Int /\ l[m].due \in Int
    BY <2>1, WhenInt
  <2>3. left[m] = left[m - 1] - l[m].when
    BY <1>1, <2>1 DEF Runs
  <2>4. CASE m = 1
    <3>1. l # <<>>
      BY <2>1
    <3> QED
      BY <1>2, <2>1, <2>2, <2>3, <2>4, <3>1 DEF Times
  <2>5. CASE m # 1
    <3>1. m \in 2..Len(l) /\ m - 1 \in 1..Len(l) /\ m - 1 \notin Bad
      BY <2>1, <2>5
    <3>2. l[m - 1].due \in Int
      BY <3>1, WhenInt
    <3>3. left[m - 1] = d + h - l[m - 1].due
      BY <3>1
    <3>4. l[m].when = l[m].due - l[m - 1].due
      BY <3>1 DEF Times
    <3>5. left[m] = (d + h - l[m - 1].due) - (l[m].due - l[m - 1].due)
      BY <2>3, <3>3, <3>4
    <3>6. left[m] = d + h - l[m].due
      BY <2>2, <3>2, <3>5
    <3> QED
      BY <2>1, <3>6
  <2> QED
    BY <2>4, <2>5
<1> QED
  BY <1>2, <1>3 DEF left

-----------------------------------------------------------------------------
(* The list operations.                                                      *)

\* Removing a node from expire_list leaves the others in order.
LEMMA RemoveAtLemma ==
  ASSUME NEW l \in Seq(Timeout), Distinct(l), NEW k \in 1..Len(l)
  PROVE  LET m == RemoveAt(l, k) IN
         /\ m \in Seq(Timeout) /\ Len(m) = Len(l) - 1
         /\ \A i \in 1..Len(m) : m[i] = l[IF i < k THEN i ELSE i + 1]
         /\ Distinct(m)
         /\ Addrs(m) = Addrs(l) \ {l[k].addr}
<1> DEFINE m == RemoveAt(l, k)
<1>0. Len(l) \in Nat /\ k \in Nat /\ 1 <= k /\ k <= Len(l) /\ DOMAIN l = 1..Len(l)
  OBVIOUS
<1>1. m = [i \in 1..(Len(l) - 1) |-> l[IF i < k THEN i ELSE i + 1]]
  BY <1>0 DEF RemoveAt
<1>2. \A i \in 1..(Len(l) - 1) : l[IF i < k THEN i ELSE i + 1] \in Timeout
  BY <1>0
<1>3. m \in Seq(Timeout) /\ Len(m) = Len(l) - 1
  BY <1>0, <1>1, <1>2
<1>4. \A i \in 1..Len(m) : m[i] = l[IF i < k THEN i ELSE i + 1]
  BY <1>1, <1>3
<1> HIDE DEF m
<1>5. Distinct(m)
  <2> SUFFICES ASSUME NEW i \in 1..Len(m), NEW j \in 1..Len(m), m[i].addr = m[j].addr
               PROVE  i = j
    BY <1>3 DEF Distinct
  <2> DEFINE I == IF i < k THEN i ELSE i + 1
             J == IF j < k THEN j ELSE j + 1
  <2>1. I \in 1..Len(l) /\ J \in 1..Len(l) /\ m[i] = l[I] /\ m[j] = l[J]
    BY <1>0, <1>3, <1>4
  <2>2. I = J
    BY <1>0, <2>1 DEF Distinct
  <2> QED
    BY <1>0, <2>2
<1>6. Addrs(m) = Addrs(l) \ {l[k].addr}
  <2>1. ASSUME NEW a \in Addrs(m) PROVE a \in Addrs(l) \ {l[k].addr}
    <3>1. PICK i \in 1..Len(m) : a = m[i].addr
      BY <1>3, <2>1 DEF Addrs
    <3>2. (IF i < k THEN i ELSE i + 1) \in DOMAIN l /\ (IF i < k THEN i ELSE i + 1) # k
      BY <1>0, <1>3, <3>1
    <3> QED
      BY <1>0, <1>4, <3>1, <3>2 DEF Addrs, Distinct
  <2>2. ASSUME NEW a \in Addrs(l) \ {l[k].addr} PROVE a \in Addrs(m)
    <3>1. PICK j \in 1..Len(l) : a = l[j].addr /\ j # k
      BY <1>0, <2>2 DEF Addrs
    <3> DEFINE i == IF j < k THEN j ELSE j - 1
    <3>2. i \in 1..Len(m) /\ j = (IF i < k THEN i ELSE i + 1)
      BY <1>0, <1>3, <3>1
    <3> HIDE DEF i
    <3>3. m[i] = l[j] /\ i \in DOMAIN m
      BY <1>3, <1>4, <3>2
    <3> QED
      BY <3>1, <3>3 DEF Addrs
  <2> QED
    BY <2>1, <2>2
<1> QED
  BY <1>3, <1>4, <1>5, <1>6 DEF m

\* Unlinking removes one node and passes its time on.
LEMMA UnlinkLemma ==
  ASSUME NEW l \in Seq(Timeout), Distinct(l), NEW k \in 1..Len(l)
  PROVE  LET m == Unlink(l, k) IN
         /\ m \in Seq(Timeout) /\ Len(m) = Len(l) - 1
         /\ \A i \in 1..Len(m) : LET j == IF i < k THEN i ELSE i + 1 IN
              /\ m[i].addr = l[j].addr /\ m[i].proc = l[j].proc
              /\ m[i].func = l[j].func /\ m[i].due = l[j].due
              /\ m[i].when = IF i = k THEN l[k + 1].when + l[k].when ELSE l[j].when
         /\ Distinct(m)
         /\ Addrs(m) = Addrs(l) \ {l[k].addr}
         /\ \A h \in Int : Times(l, h) => Times(m, h)
<1> DEFINE m == Unlink(l, k)
           J(i) == IF i < k THEN i ELSE i + 1
<1>0. Len(l) \in Nat /\ k \in Nat /\ 1 <= k /\ k <= Len(l) /\ DOMAIN l = 1..Len(l)
  OBVIOUS
<1>1. m = [i \in 1..(Len(l) - 1) |->
             IF i < k THEN l[i]
             ELSE IF i = k THEN [l[k + 1] EXCEPT !.when = @ + l[k].when] ELSE l[i + 1]]
  BY DEF Unlink
<1>2. \A i \in 1..Len(l) : l[i] \in Timeout /\ l[i].when \in Int /\ l[i].due \in Int
  BY WhenInt
<1>3. m \in Seq(Timeout) /\ Len(m) = Len(l) - 1
  <2>1. ASSUME NEW i \in 1..(Len(l) - 1)
        PROVE  (IF i < k THEN l[i]
                ELSE IF i = k THEN [l[k + 1] EXCEPT !.when = @ + l[k].when]
                ELSE l[i + 1]) \in Timeout
    <3>1. CASE i < k
      BY <1>0, <1>2, <3>1
    <3>2. CASE i = k
      <4>1. l[k + 1] \in Timeout /\ l[k + 1].when + l[k].when \in Int
        BY <1>0, <1>2, <3>2
      <4> QED
        BY <1>0, <3>2, <4>1, ExceptWhen
    <3>3. CASE i > k
      BY <1>0, <1>2, <3>3
    <3> QED
      BY <1>0, <3>1, <3>2, <3>3
  <2> QED
    BY <1>0, <1>1, <2>1
<1>4. ASSUME NEW i \in 1..Len(m)
      PROVE  /\ J(i) \in 1..Len(l) /\ J(i) # k
             /\ m[i].addr = l[J(i)].addr /\ m[i].proc = l[J(i)].proc
             /\ m[i].func = l[J(i)].func /\ m[i].due = l[J(i)].due
             /\ m[i].when = IF i = k THEN l[k + 1].when + l[k].when ELSE l[J(i)].when
  <2>1. CASE i = k
    <3>1. /\ l[k + 1] \in Timeout /\ l[k + 1].when + l[k].when \in Int
          /\ m[i] = [l[k + 1] EXCEPT !.when = l[k + 1].when + l[k].when]
          /\ J(i) = k + 1 /\ k + 1 \in 1..Len(l)
      BY <1>0, <1>1, <1>2, <1>3, <2>1
    <3>2. /\ m[i].addr = l[k + 1].addr /\ m[i].proc = l[k + 1].proc
          /\ m[i].func = l[k + 1].func /\ m[i].due = l[k + 1].due
          /\ m[i].when = l[k + 1].when + l[k].when
      BY <3>1, ExceptWhen
    <3> HIDE DEF J, m
    <3> QED
      BY <1>0, <2>1, <3>1, <3>2
  <2>2. CASE i # k
    BY <1>0, <1>1, <1>3, <2>2
  <2> QED
    BY <2>1, <2>2
<1> HIDE DEF m
<1>5. Distinct(m)
  <2> SUFFICES ASSUME NEW i \in 1..Len(m), NEW j \in 1..Len(m), m[i].addr = m[j].addr
               PROVE  i = j
    BY <1>3 DEF Distinct
  <2>1. J(i) = J(j)
    <3> HIDE DEF J
    <3> QED
      BY <1>0, <1>4 DEF Distinct
  <2> QED
    BY <1>0, <2>1
<1>6. Addrs(m) = Addrs(l) \ {l[k].addr}
  <2>1. ASSUME NEW a \in Addrs(m) PROVE a \in Addrs(l) \ {l[k].addr}
    <3>1. PICK i \in 1..Len(m) : a = m[i].addr
      BY <1>3, <2>1 DEF Addrs
    <3> HIDE DEF J
    <3> QED
      BY <1>0, <1>4, <3>1 DEF Addrs, Distinct
  <2>2. ASSUME NEW a \in Addrs(l) \ {l[k].addr} PROVE a \in Addrs(m)
    <3>1. PICK j \in 1..Len(l) : a = l[j].addr /\ j # k
      BY <1>0, <2>2 DEF Addrs
    <3> DEFINE i == IF j < k THEN j ELSE j - 1
    <3>2. i \in 1..Len(m) /\ j = J(i)
      BY <1>0, <1>3, <3>1
    <3> HIDE DEF i, J
    <3>3. m[i].addr = a /\ i \in DOMAIN m
      BY <1>3, <1>4, <3>1, <3>2
    <3> QED
      BY <3>3 DEF Addrs
  <2> QED
    BY <2>1, <2>2
<1>7. ASSUME NEW h \in Int, Times(l, h) PROVE Times(m, h)
  <2>1. ASSUME m # <<>> PROVE m[1].when = m[1].due - h
    <3>1. 1 \in 1..Len(m) /\ l # <<>> /\ 1 \in 1..Len(l)
      BY <1>0, <1>3, <2>1
    <3>2. l[1].when = l[1].due - h
      BY <1>7, <3>1 DEF Times
    <3>3. CASE k = 1
      <4>1. 2 \in 2..Len(l) /\ l[2].when = l[2].due - l[1].due
        BY <1>3, <1>7, <3>1 DEF Times
      <4> QED
        BY <1>2, <1>4, <3>1, <3>2, <3>3, <4>1
    <3>4. CASE k # 1
      BY <1>0, <1>4, <3>1, <3>2, <3>4
    <3> QED
      BY <3>3, <3>4
  <2>2. ASSUME NEW i \in 2..Len(m) PROVE m[i].when = m[i].due - m[i - 1].due
    <3>1. i \in 1..Len(m) /\ i - 1 \in 1..Len(m) /\ i \in 2..Len(l) /\ i + 1 \in 2..Len(l)
      BY <1>3
    <3>2. /\ l[i].when = l[i].due - l[i - 1].due
          /\ l[i + 1].when = l[i + 1].due - l[i].due
      BY <1>7, <3>1 DEF Times
    <3>3. /\ l[i].due \in Int /\ l[i - 1].due \in Int /\ l[i + 1].due \in Int
          /\ l[i].when \in Int /\ l[i + 1].when \in Int
      BY <1>0, <1>2, <1>3, <3>1
    <3>4. /\ m[i].due = l[J(i)].due /\ m[i - 1].due = l[J(i - 1)].due
          /\ m[i].when = IF i = k THEN l[k + 1].when + l[k].when ELSE l[J(i)].when
      BY <1>4, <3>1
    <3>5. CASE i < k
      BY <1>0, <3>1, <3>2, <3>4, <3>5
    <3>6. CASE i = k
      BY <1>0, <3>1, <3>2, <3>3, <3>4, <3>6
    <3>7. CASE i > k
      <4>1. J(i) = i + 1 /\ J(i - 1) = i /\ i # k
        BY <1>0, <3>1, <3>7
      <4> QED
        BY <3>2, <3>4, <4>1
    <3> QED
      BY <1>0, <3>1, <3>5, <3>6, <3>7
  <2>3. ASSUME NEW i \in 1..Len(m), NEW j \in 1..Len(m), i <= j PROVE m[i].due <= m[j].due
    <3>1. J(i) \in 1..Len(l) /\ J(j) \in 1..Len(l) /\ J(i) <= J(j)
      BY <1>0, <1>4, <2>3
    <3> QED
      BY <1>4, <1>7, <3>1 DEF Times
  <2> QED
    BY <2>1, <2>2, <2>3 DEF Times
<1> QED
  BY <1>3, <1>4, <1>5, <1>6, <1>7 DEF m

\* The assertion of inserttimeout() fails for nothing but a negative time on an empty
\* list: what is left behind a node that was passed is positive.
LEMMA FailsLast ==
  ASSUME NEW l \in Seq(Timeout), NEW h \in Int, Times(l, h), NEW d \in Int,
         StopsAt(l, d, Len(l) + 1), Left(l, d)[Len(l)] < 0
  PROVE  l = <<>> /\ d < 0
<1>0. Len(l) \in Nat
  OBVIOUS
<1>1. \A i \in 1..Len(l) : l[i].due \in Int
  BY WhenInt
<1>2. /\ Left(l, d)[0] = d
      /\ \A i \in 1..Len(l) : Left(l, d)[i] = d + h - l[i].due
  BY LeftIsDue
<1>3. ASSUME Len(l) # 0 PROVE FALSE
  <2> PICK j \in 1..Len(l) : j = Len(l)
    BY <1>0, <1>3
  <2>0. j \in 1..(Len(l) + 1 - 1)
    BY <1>0
  <2>1. l[j].when < Left(l, d)[j - 1] /\ l[j].due \in Int /\ d + h - l[j].due < 0
    <3>1. l[j].when < Left(l, d)[j - 1]
      BY <2>0 DEF StopsAt
    <3>2. Left(l, d)[j] = d + h - l[j].due
      BY <1>2
    <3>3. Left(l, d)[j] < 0
      OBVIOUS
    <3>4. d + h - l[j].due < 0
      BY <3>2, <3>3, Zenon
    <3>5. l[j].due \in Int
      BY <1>1
    <3> QED
      BY <3>1, <3>4, <3>5, Zenon
  <2>2. CASE j = 1
    <3>1. l # <<>>
      BY <1>3
    <3>2. l[1].when = l[1].due - h
      BY <3>1, Zenon DEF Times
    <3> QED
      BY <1>2, <2>1, <2>2, <3>2
  <2>3. CASE j # 1
    <3>1. j - 1 \in 1..Len(l) /\ j \in 2..Len(l)
      BY <2>3
    <3>2. l[j].when = l[j].due - l[j - 1].due /\ l[j - 1].due \in Int
      BY <1>1, <3>1 DEF Times
    <3>3. Left(l, d)[j - 1] = d + h - l[j - 1].due
      BY <1>2, <3>1
    <3> QED
      BY <2>1, <3>2, <3>3
  <2> QED
    BY <2>2, <2>3
<1> QED
  BY <1>0, <1>2, <1>3

\* inserttimeout() puts a new node where the differences stay right.
LEMMA LinkLemma ==
  ASSUME NEW l \in Seq(Timeout), Distinct(l), NEW h \in Int, Times(l, h),
         NEW t \in Timeout, t.addr \notin Addrs(l),
         NEW d \in Int, t.due = h + d,
         NEW k \in 1..(Len(l) + 1), StopsAt(l, d, k)
  PROVE  LET left == Left(l, d)[k - 1]
             m == LinkBefore(l, t, left, k)
         IN  /\ m \in Seq(Timeout) /\ Len(m) = Len(l) + 1
             /\ \A i \in 1..Len(m) :
                  LET s == IF i = k THEN t ELSE IF i < k THEN l[i] ELSE l[i - 1] IN
                  /\ m[i].addr = s.addr /\ m[i].proc = s.proc
                  /\ m[i].func = s.func /\ m[i].due = s.due
             /\ Distinct(m)
             /\ Addrs(m) = Addrs(l) \cup {t.addr}
             /\ Times(m, h)
<1> DEFINE left == Left(l, d)[k - 1]
           m == LinkBefore(l, t, left, k)
           S(i) == IF i = k THEN t ELSE IF i < k THEN l[i] ELSE l[i - 1]
<1>0. Len(l) \in Nat /\ k \in Nat /\ 1 <= k /\ k <= Len(l) + 1 /\ DOMAIN l = 1..Len(l)
  OBVIOUS
<1>1. \A i \in 1..Len(l) : l[i] \in Timeout /\ l[i].when \in Int /\ l[i].due \in Int
  BY WhenInt
<1>2. /\ Left(l, d)[0] = d
      /\ \A i \in 1..Len(l) : Left(l, d)[i] = d + h - l[i].due
  BY LeftIsDue
<1>3. left \in Int /\ left = IF k = 1 THEN d ELSE t.due - l[k - 1].due
  <2>1. CASE k = 1
    BY <1>2, <2>1
  <2>2. CASE k # 1
    <3>1. k - 1 \in 1..Len(l) /\ l[k - 1].due \in Int
      BY <1>0, <1>1, <2>2
    <3>2. left = d + h - l[k - 1].due
      BY <1>2, <3>1
    <3> QED
      BY <2>2, <3>1, <3>2
  <2> QED
    BY <2>1, <2>2
<1>4. \A j \in 1..(k - 1) : l[j].due < t.due
  <2> SUFFICES ASSUME NEW j \in 1..(k - 1) PROVE l[j].due < t.due
    OBVIOUS
  <2>1. j \in 1..Len(l) /\ l[j].when < Left(l, d)[j - 1]
    BY <1>0 DEF StopsAt
  <2>2. CASE j = 1
    <3>1. l # <<>> /\ l[1].when = l[1].due - h
      BY <2>1, <2>2 DEF Times
    <3>2. l[1].due \in Int /\ Left(l, d)[j - 1] = d
      BY <1>1, <1>2, <2>1, <2>2
    <3> QED
      BY <2>1, <2>2, <3>1, <3>2
  <2>3. CASE j # 1
    <3>1. j - 1 \in 1..Len(l) /\ j \in 2..Len(l)
      BY <2>1, <2>3
    <3>2. l[j].when = l[j].due - l[j - 1].due
      BY <3>1 DEF Times
    <3>3. l[j].due \in Int /\ l[j - 1].due \in Int
      BY <1>1, <2>1, <3>1
    <3>4. Left(l, d)[j - 1] = d + h - l[j - 1].due
      BY <1>2, <3>1
    <3>5. l[j].due - l[j - 1].due < d + h - l[j - 1].due
      BY <2>1, <3>2, <3>4
    <3> QED
      BY <3>3, <3>5
  <2> QED
    BY <2>2, <2>3
<1>5. \A j \in k..Len(l) : t.due <= l[j].due
  <2> SUFFICES ASSUME NEW j \in k..Len(l) PROVE t.due <= l[j].due
    OBVIOUS
  <2>1. k \in 1..Len(l) /\ j \in 1..Len(l) /\ l[k].due <= l[j].due
    BY <1>0 DEF Times
  <2>2. l[k].when >= left
    BY <1>0, <2>1 DEF StopsAt
  <2>3. t.due <= l[k].due
    <3>1. CASE k = 1
      <4>1. l # <<>> /\ l[1].when = l[1].due - h
        BY <2>1, <3>1 DEF Times
      <4>2. left = d /\ l[1].due \in Int
        BY <1>1, <1>3, <2>1, <3>1
      <4> HIDE DEF left
      <4> QED
        BY <2>2, <3>1, <4>1, <4>2
    <3>2. CASE k # 1
      <4>1. k \in 2..Len(l) /\ k - 1 \in 1..Len(l)
        BY <2>1, <3>2
      <4>2. l[k].when = l[k].due - l[k - 1].due
        BY <4>1 DEF Times
      <4>3. l[k].due \in Int /\ l[k - 1].due \in Int
        BY <1>1, <2>1, <4>1
      <4> HIDE DEF left
      <4>4. left = t.due - l[k - 1].due
        BY <1>3, <3>2
      <4>5. l[k].due - l[k - 1].due >= t.due - l[k - 1].due /\ t.due \in Int
        BY <2>2, <4>2, <4>4
      <4> QED
        BY <4>3, <4>5
    <3> QED
      BY <3>1, <3>2
  <2>4. t.due \in Int /\ l[k].due \in Int /\ l[j].due \in Int
    BY <1>1, <2>1 DEF Timeout
  <2> QED
    BY <2>1, <2>3, <2>4
<1> HIDE DEF left
<1>7. m = [i \in 1..(Len(l) + 1) |->
             IF i < k THEN l[i]
             ELSE IF i = k THEN [t EXCEPT !.when = left]
             ELSE IF i = k + 1 THEN [l[k] EXCEPT !.when = @ - left] ELSE l[i - 1]]
  BY DEF LinkBefore
<1>8. /\ [t EXCEPT !.when = left] \in Timeout
      /\ k <= Len(l) => [l[k] EXCEPT !.when = @ - left] \in Timeout
  <2>1. [t EXCEPT !.when = left] \in Timeout
    BY <1>3, ExceptWhen
  <2>2. ASSUME k <= Len(l) PROVE [l[k] EXCEPT !.when = l[k].when - left] \in Timeout
    <3>1. l[k] \in Timeout /\ l[k].when - left \in Int
      BY <1>0, <1>1, <1>3, <2>2
    <3> QED
      BY <3>1, ExceptWhen
  <2> QED
    BY <2>1, <2>2
<1>9. m \in Seq(Timeout) /\ Len(m) = Len(l) + 1
  <2>1. ASSUME NEW i \in 1..(Len(l) + 1)
        PROVE  (IF i < k THEN l[i]
                ELSE IF i = k THEN [t EXCEPT !.when = left]
                ELSE IF i = k + 1 THEN [l[k] EXCEPT !.when = @ - left] ELSE l[i - 1]) \in Timeout
    BY <1>0, <1>1, <1>8
  <2>2. Len(l) + 1 \in Nat
    BY <1>0
  <2> HIDE DEF m
  <2> QED
    BY <1>7, <2>1, <2>2
<1>10. ASSUME NEW i \in 1..Len(m)
       PROVE  /\ S(i) \in Timeout
              /\ m[i].addr = S(i).addr /\ m[i].proc = S(i).proc
              /\ m[i].func = S(i).func /\ m[i].due = S(i).due
              /\ m[i].when = IF i = k THEN left
                             ELSE IF i = k + 1 THEN l[k].when - left ELSE S(i).when
  <2>1. CASE i = k
    <3>1. m[i] = [t EXCEPT !.when = left] /\ S(i) = t
      BY <1>0, <1>7, <1>9, <2>1
    <3> HIDE DEF S, m
    <3>2. /\ m[i].addr = t.addr /\ m[i].proc = t.proc /\ m[i].func = t.func
          /\ m[i].due = t.due /\ m[i].when = left
      <4> QED
        BY <1>3, <3>1, ExceptWhen
    <3> QED
      BY <2>1, <3>1, <3>2
  <2>2. CASE i = k + 1
    <3>1. m[i] = [l[k] EXCEPT !.when = l[k].when - left] /\ k \in 1..Len(l)
      BY <1>0, <1>7, <1>9, <2>2
    <3>2. l[k] \in Timeout /\ l[k].when - left \in Int
      BY <1>1, <1>3, <3>1
    <3>3. S(i) = l[k] /\ i # k
      BY <1>0, <2>2
    <3>4. /\ m[i].addr = l[k].addr /\ m[i].proc = l[k].proc /\ m[i].func = l[k].func
          /\ m[i].due = l[k].due /\ m[i].when = l[k].when - left
      BY <3>1, <3>2, ExceptWhen
    <3> HIDE DEF S, m
    <3> QED
      BY <2>2, <3>2, <3>3, <3>4
  <2>3. CASE i # k /\ i # k + 1
    <3>1. m[i] = S(i)
      BY <1>0, <1>7, <1>9, <2>3
    <3>2. S(i) \in Timeout
      BY <1>0, <1>1, <1>9, <2>3
    <3> QED
      BY <2>3, <3>1, <3>2
  <2> QED
    BY <2>1, <2>2, <2>3
<1> HIDE DEF m
<1>11. Distinct(m)
  <2> SUFFICES ASSUME NEW i \in 1..Len(m), NEW j \in 1..Len(m), m[i].addr = m[j].addr
               PROVE  i = j
    BY <1>9 DEF Distinct
  <2>1. S(i).addr = S(j).addr
    BY <1>10
  <2>2. \A n \in 1..Len(l) : l[n].addr # t.addr
    BY <1>0 DEF Addrs
  <2>3. \A n, o \in 1..Len(l) : l[n].addr = l[o].addr => n = o
    BY <1>0 DEF Distinct
  <2>4. \A n \in 1..Len(m) : n # k => \E o \in 1..Len(l) : S(n) = l[o] /\ o = IF n < k THEN n ELSE n - 1
    <3> SUFFICES ASSUME NEW n \in 1..Len(m), n # k
                 PROVE  \E o \in 1..Len(l) : S(n) = l[o] /\ o = IF n < k THEN n ELSE n - 1
      OBVIOUS
    <3>1. CASE n < k
      <4>1. n \in 1..Len(l) /\ S(n) = l[n]
        BY <1>0, <1>9, <3>1
      <4> QED
        BY <3>1, <4>1
    <3>2. CASE n > k
      <4>1. n - 1 \in 1..Len(l) /\ S(n) = l[n - 1] /\ ~(n < k)
        BY <1>0, <1>9, <3>2
      <4> QED
        BY <4>1
    <3> QED
      BY <1>0, <1>9, <3>1, <3>2
  <2>5. S(k) = t
    OBVIOUS
  <2> HIDE DEF S
  <2>6. CASE i = k \/ j = k
    BY <2>1, <2>2, <2>4, <2>5, <2>6
  <2>7. CASE i # k /\ j # k
    <3>1. PICK n \in 1..Len(l) : S(i) = l[n] /\ n = IF i < k THEN i ELSE i - 1
      BY <2>4, <2>7
    <3>2. PICK o \in 1..Len(l) : S(j) = l[o] /\ o = IF j < k THEN j ELSE j - 1
      BY <2>4, <2>7
    <3>3. n = o
      BY <2>1, <2>3, <3>1, <3>2
    <3> QED
      BY <1>0, <1>9, <2>7, <3>1, <3>2, <3>3
  <2> QED
    BY <2>6, <2>7
<1>12. Addrs(m) = Addrs(l) \cup {t.addr}
  <2>1. ASSUME NEW a \in Addrs(m) PROVE a \in Addrs(l) \cup {t.addr}
    <3>0. PICK i \in DOMAIN m : a = m[i].addr
      BY <2>1 DEF Addrs
    <3>1. i \in 1..Len(m) /\ a = S(i).addr
      <4> HIDE DEF S
      <4> QED
        BY <1>9, <1>10, <3>0
    <3>2. i = k \/ (i < k /\ i \in 1..Len(l)) \/ (i > k /\ i - 1 \in 1..Len(l))
      BY <1>0, <1>9
    <3> QED
      BY <1>0, <3>1, <3>2 DEF Addrs
  <2>2. ASSUME NEW a \in Addrs(l) \cup {t.addr} PROVE a \in Addrs(m)
    <3>1. PICK i \in 1..Len(m) : a = S(i).addr
      <4>1. CASE a = t.addr
        BY <1>0, <1>9, <4>1
      <4>2. CASE a \in Addrs(l)
        <5>1. PICK j \in 1..Len(l) : a = l[j].addr
          BY <1>0, <4>2 DEF Addrs
        <5> DEFINE i == IF j < k THEN j ELSE j + 1
        <5>2. i \in 1..Len(m) /\ S(i) = l[j]
          BY <1>0, <1>9, <5>1
        <5> QED
          BY <5>1, <5>2
      <4> QED
        BY <2>2, <4>1, <4>2
    <3> HIDE DEF S
    <3>2. i \in DOMAIN m /\ a = m[i].addr
      BY <1>9, <1>10, <3>1
    <3> QED
      BY <3>2 DEF Addrs
  <2> QED
    BY <2>1, <2>2
<1>13. Times(m, h)
  <2>0. t.due \in Int /\ h \in Int
    BY DEF Timeout
  <2>1. m[1].when = m[1].due - h
    <3>1. 1 \in 1..Len(m)
      BY <1>0, <1>9
    <3>2. CASE k = 1
      BY <1>3, <1>10, <3>1, <3>2
    <3>3. CASE k # 1
      <4>1. l # <<>> /\ l[1].when = l[1].due - h /\ S(1) = l[1] /\ 1 # k /\ 1 # k + 1
        BY <1>0, <3>3 DEF Times
      <4> QED
        BY <1>10, <3>1, <4>1
    <3> QED
      BY <3>2, <3>3
  <2>2. ASSUME NEW i \in 2..Len(m) PROVE m[i].when = m[i].due - m[i - 1].due
    <3>0. i \in 1..Len(m) /\ i - 1 \in 1..Len(m)
      BY <1>9
    <3>1. CASE i = k
      <4>1. S(i - 1) = l[i - 1]
        BY <1>0, <3>1
      <4> QED
        BY <1>3, <1>10, <3>0, <3>1, <4>1
    <3>2. CASE i = k + 1
      <4>1. S(i - 1) = t /\ S(i) = l[k] /\ k \in 1..Len(l)
        BY <1>0, <1>9, <3>2
      <4>2. l[k].when - left = l[k].due - t.due
        <5>1. CASE k = 1
          <6>1. l # <<>> /\ l[1].when = l[1].due - h
            BY <4>1, <5>1 DEF Times
          <6> QED
            BY <1>1, <1>3, <2>0, <4>1, <5>1, <6>1
        <5>2. CASE k # 1
          <6>1. k \in 2..Len(l) /\ k - 1 \in 1..Len(l) /\ l[k].when = l[k].due - l[k - 1].due
            BY <1>0, <4>1, <5>2 DEF Times
          <6>2. l[k - 1].due \in Int /\ l[k].due \in Int /\ left = t.due - l[k - 1].due
            BY <1>1, <1>3, <4>1, <5>2, <6>1
          <6> QED
            BY <2>0, <6>1, <6>2
        <5> QED
          BY <5>1, <5>2
      <4>3. i # k /\ m[i].when = l[k].when - left /\ m[i].due = l[k].due /\ m[i - 1].due = t.due
        BY <1>0, <1>10, <3>0, <3>2, <4>1
      <4> QED
        BY <4>2, <4>3
    <3>3. CASE i < k
      <4>1. S(i) = l[i] /\ S(i - 1) = l[i - 1] /\ i \in 2..Len(l)
        BY <1>0, <3>3
      <4>2. l[i].when = l[i].due - l[i - 1].due
        BY <4>1 DEF Times
      <4>3. m[i].when = l[i].when
        BY <1>0, <1>10, <3>0, <3>3, <4>1
      <4> QED
        BY <1>10, <3>0, <4>1, <4>2, <4>3
    <3>4. CASE i > k + 1
      <4>1. S(i) = l[i - 1] /\ S(i - 1) = l[i - 2] /\ i - 1 \in 2..Len(l) /\ (i - 1) - 1 = i - 2
        BY <1>0, <1>9, <3>4
      <4>2. l[i - 1].when = l[i - 1].due - l[i - 2].due
        BY <4>1 DEF Times
      <4>3. m[i].when = l[i - 1].when
        BY <1>0, <1>10, <3>0, <3>4, <4>1
      <4> QED
        BY <1>10, <3>0, <4>1, <4>2, <4>3
    <3> QED
      BY <1>0, <1>9, <3>1, <3>2, <3>3, <3>4
  <2>3. ASSUME NEW i \in 1..Len(m), NEW j \in 1..Len(m), i <= j PROVE m[i].due <= m[j].due
    <3>1. S(i).due <= S(j).due
      <4>1. \A n, o \in 1..Len(l) : n <= o => l[n].due <= l[o].due
        BY DEF Times
      <4>2. \A n \in 1..Len(l) : n < k => l[n].due <= t.due
        BY <1>0, <1>1, <1>4, <2>0
      <4> QED
        BY <1>0, <1>5, <1>9, <2>0, <2>3, <4>1, <4>2
    <3> QED
      BY <1>10, <3>1
  <2> QED
    BY <2>1, <2>2, <2>3 DEF Times
<1> QED
  BY <1>9, <1>10, <1>11, <1>12, <1>13 DEF left, m

-----------------------------------------------------------------------------
(* The inductive invariant.                                                  *)

\* Which of the local variables are in use follows from the place in the code.
Stages ==
  /\ node # Null <=> pc = "insert"
  /\ chain # <<>> <=> pc \in {"dispose", "dispose tlist", "dispose expired"}
  /\ cb # NoCall => pc \in {"callback", "alloc", "insert", "dispose"}
  /\ pc = "callback" => cb # NoCall
  /\ at # Null => pc \in {"cancel tlist", "dispose tlist", "cancel expired", "dispose expired"}
  /\ pc # "fatal"

TimesOK == Times(tlist, hz_200)

\* A dead process installs nothing, and process 0 does not die.
Living ==
  /\ Root \notin dead
  /\ pc \in {"alloc", "insert"} => req.proc \notin dead

\* The walk of cancelalltimeouts() over tlist has left none of the process's
\* timeouts behind it, and the one over expire_list finds none on tlist.
Walk ==
  /\ pc \in {"cancel tlist", "dispose tlist", "cancel expired", "dispose expired"}
       => req.proc # Root
  /\ pc \in {"cancel tlist", "dispose tlist"}
       => /\ at \in Addrs(tlist) \cup {Null}
          /\ \A i, j \in DOMAIN tlist : tlist[j].addr = at /\ i <= j => tlist[i].proc # req.proc
  /\ pc \in {"cancel expired", "dispose expired"}
       => \A i \in DOMAIN tlist : tlist[i].proc # req.proc

Inv == TypeOK /\ PoolOK /\ Stages /\ TimesOK /\ Living /\ DeadHaveNone /\ Walk

\* The machine has stopped at the assertion of inserttimeout().
Stopped == pc = "fatal" /\ TypeOK /\ PoolOK /\ DeadHaveNone /\ FatalOnlyIfNegative

\* What a list asks for, without the order and the differences.
Asked(l) == {[addr |-> l[i].addr, proc |-> l[i].proc, func |-> l[i].func, due |-> l[i].due]
               : i \in DOMAIN l}

\* Unlinking withdraws one request.
LEMMA UnlinkAsked ==
  ASSUME NEW l \in Seq(Timeout), Distinct(l), NEW k \in 1..Len(l)
  PROVE  Asked(Unlink(l, k)) = Asked(l) \ {[addr |-> l[k].addr, proc |-> l[k].proc,
                                            func |-> l[k].func, due |-> l[k].due]}
<1> DEFINE m == Unlink(l, k)
           J(i) == IF i < k THEN i ELSE i + 1
           R(n, i) == [addr |-> n[i].addr, proc |-> n[i].proc, func |-> n[i].func, due |-> n[i].due]
<1>1. /\ m \in Seq(Timeout) /\ Len(m) = Len(l) - 1
      /\ \A i \in 1..Len(m) : /\ m[i].addr = l[J(i)].addr /\ m[i].proc = l[J(i)].proc
                              /\ m[i].func = l[J(i)].func /\ m[i].due = l[J(i)].due
  BY UnlinkLemma
<1> HIDE DEF m
<1>0. Len(l) \in Nat /\ k \in Nat /\ 1 <= k /\ k <= Len(l) /\ DOMAIN l = 1..Len(l) /\ DOMAIN m = 1..Len(m)
  BY <1>1
<1>2. \A i \in 1..Len(m) : R(m, i) = R(l, J(i)) /\ J(i) \in 1..Len(l) /\ J(i) # k
  BY <1>0, <1>1
<1>3. \A i, j \in 1..Len(l) : R(l, i) = R(l, j) => i = j
  BY <1>0 DEF Distinct
<1>4. \A j \in 1..Len(l) : j # k => \E i \in 1..Len(m) : j = J(i)
  <2> SUFFICES ASSUME NEW j \in 1..Len(l), j # k PROVE \E i \in 1..Len(m) : j = J(i)
    OBVIOUS
  <2> DEFINE i == IF j < k THEN j ELSE j - 1
  <2>1. i \in 1..Len(m) /\ j = J(i)
    BY <1>0, <1>1
  <2> QED
    BY <2>1
<1>5. Asked(m) = {R(m, i) : i \in 1..Len(m)} /\ Asked(l) = {R(l, i) : i \in 1..Len(l)}
  BY <1>0 DEF Asked
<1>6. Asked(m) = Asked(l) \ {R(l, k)}
  <2> HIDE DEF R, J
  <2> QED
    BY <1>0, <1>2, <1>3, <1>4, <1>5
<1> QED
  BY <1>6 DEF m

\* What is left of a list after an unlinking.
LEMMA UnlinkProcs ==
  ASSUME NEW l \in Seq(Timeout), Distinct(l), NEW k \in 1..Len(l),
         NEW h \in Int, Times(l, h)
  PROVE  LET m == Unlink(l, k) IN
         /\ m \in Seq(Timeout) /\ Distinct(m) /\ Times(m, h)
         /\ Addrs(m) = Addrs(l) \ {l[k].addr}
         /\ \A n \in DOMAIN m : \E o \in DOMAIN l : m[n].proc = l[o].proc
<1> DEFINE m == Unlink(l, k)
           J(i) == IF i < k THEN i ELSE i + 1
<1>1. /\ m \in Seq(Timeout) /\ Len(m) = Len(l) - 1 /\ Distinct(m) /\ Times(m, h)
      /\ Addrs(m) = Addrs(l) \ {l[k].addr}
      /\ \A i \in 1..Len(m) : m[i].addr = l[J(i)].addr /\ m[i].proc = l[J(i)].proc
  BY UnlinkLemma
<1> HIDE DEF m
<1>0. Len(l) \in Nat /\ k \in Nat /\ 1 <= k /\ k <= Len(l) /\ DOMAIN l = 1..Len(l) /\ DOMAIN m = 1..Len(m)
  BY <1>1
<1>2. \A i \in DOMAIN m : J(i) \in DOMAIN l
  BY <1>0, <1>1
<1> HIDE DEF J
<1> QED
  BY <1>0, <1>1, <1>2 DEF m

\* One call of inserttimeout() with a structure that is on no list.
LEMMA InsertLemma ==
  ASSUME tlist \in Seq(Timeout), Distinct(tlist), hz_200 \in Int, TimesOK,
         NEW t \in Timeout, t.addr \notin Addrs(tlist),
         NEW d \in Int, t.due = hz_200 + d,
         NEW next, Insert(t, d, next)
  PROVE  /\ pc' = next
         /\ tlist' \in Seq(Timeout) /\ Distinct(tlist') /\ Times(tlist', hz_200)
         /\ Addrs(tlist') = Addrs(tlist) \cup {t.addr}
         /\ Asked(tlist') = Asked(tlist) \cup
              {[addr |-> t.addr, proc |-> t.proc, func |-> t.func, due |-> t.due]}
         /\ \A i \in DOMAIN tlist' :
              \/ tlist'[i].proc = t.proc
              \/ \E o \in DOMAIN tlist : tlist[o].proc = tlist'[i].proc
         /\ \A i, j \in DOMAIN tlist' : i <= j /\ tlist'[j].addr # t.addr =>
              \/ tlist'[i].proc = t.proc
              \/ \E o, n \in DOMAIN tlist : /\ o <= n /\ tlist[o].proc = tlist'[i].proc
                                            /\ tlist[n].addr = tlist'[j].addr
<1>1. PICK k \in 1..(Len(tlist) + 1) :
        /\ StopsAt(tlist, d, k)
        /\ tlist' = LinkBefore(tlist, t, Left(tlist, d)[k - 1], k)
        /\ pc' = next
  BY DEF Insert
<1> DEFINE l == tlist
           m == tlist'
           S(i) == IF i = k THEN t ELSE IF i < k THEN l[i] ELSE l[i - 1]
<1>2. LET n == LinkBefore(l, t, Left(l, d)[k - 1], k) IN
         /\ n \in Seq(Timeout) /\ Len(n) = Len(l) + 1
         /\ \A i \in 1..Len(n) :
               /\ n[i].addr = S(i).addr /\ n[i].proc = S(i).proc
               /\ n[i].func = S(i).func /\ n[i].due = S(i).due
         /\ Distinct(n)
         /\ Addrs(n) = Addrs(l) \cup {t.addr}
         /\ Times(n, hz_200)
  BY <1>1, LinkLemma DEF TimesOK
<1>3. m = LinkBefore(l, t, Left(l, d)[k - 1], k) /\ pc' = next
  BY <1>1, <1>2
<1>4. /\ m \in Seq(Timeout) /\ Len(m) = Len(l) + 1
      /\ \A i \in 1..Len(m) :
            /\ m[i].addr = S(i).addr /\ m[i].proc = S(i).proc
            /\ m[i].func = S(i).func /\ m[i].due = S(i).due
      /\ Distinct(m)
      /\ Addrs(m) = Addrs(l) \cup {t.addr}
      /\ Times(m, hz_200)
  BY <1>2, <1>3
<1> HIDE DEF l, m
<1>0. /\ Len(l) \in Nat /\ k \in Nat /\ 1 <= k /\ k <= Len(l) + 1
      /\ DOMAIN l = 1..Len(l) /\ DOMAIN m = 1..Len(m)
  BY <1>1, <1>4 DEF l
<1> DEFINE R(n) == [addr |-> n.addr, proc |-> n.proc, func |-> n.func, due |-> n.due]
<1>5. Asked(m) = Asked(l) \cup {R(t)}
  <2>1. Asked(m) = {R(m[i]) : i \in 1..Len(m)} /\ Asked(l) = {R(l[i]) : i \in 1..Len(l)}
    BY <1>0 DEF Asked
  <2>2. \A i \in 1..Len(m) : R(m[i]) = R(S(i))
    BY <1>4
  <2>3. ASSUME NEW i \in 1..Len(m) PROVE S(i) = t \/ \E j \in 1..Len(l) : S(i) = l[j]
    <3>1. CASE i < k
      BY <1>0, <3>1
    <3>2. CASE i > k
      <4>1. i - 1 \in 1..Len(l) /\ S(i) = l[i - 1]
        BY <1>0, <1>4, <3>2
      <4> QED
        BY <4>1
    <3> QED
      BY <1>0, <3>1, <3>2
  <2>4. k \in 1..Len(m) /\ S(k) = t
    BY <1>0, <1>4
  <2>5. ASSUME NEW j \in 1..Len(l) PROVE \E i \in 1..Len(m) : S(i) = l[j]
    <3> DEFINE i == IF j < k THEN j ELSE j + 1
    <3>1. i \in 1..Len(m) /\ S(i) = l[j]
      BY <1>0, <1>4
    <3> QED
      BY <3>1
  <2> HIDE DEF R, S
  <2> QED
    BY <2>1, <2>2, <2>3, <2>4, <2>5
<1>6. \A i \in DOMAIN m : m[i].proc = t.proc \/ \E o \in DOMAIN l : l[o].proc = m[i].proc
  <2> SUFFICES ASSUME NEW i \in 1..Len(m), i # k
               PROVE  \E o \in DOMAIN l : l[o].proc = m[i].proc
    BY <1>0, <1>4
  <2> DEFINE o == IF i < k THEN i ELSE i - 1
  <2>1. o \in DOMAIN l /\ S(i) = l[o]
    BY <1>0, <1>4
  <2> QED
    BY <1>4, <2>1
<1>7. ASSUME NEW i \in DOMAIN m, NEW j \in DOMAIN m, i <= j, m[j].addr # t.addr, i # k
      PROVE  \E o, n \in DOMAIN l : o <= n /\ l[o].proc = m[i].proc /\ l[n].addr = m[j].addr
  <2> DEFINE o == IF i < k THEN i ELSE i - 1
             n == IF j < k THEN j ELSE j - 1
  <2>1. j # k
    BY <1>0, <1>4, <1>7
  <2>2. o \in DOMAIN l /\ n \in DOMAIN l /\ o <= n /\ S(i) = l[o] /\ S(j) = l[n]
    BY <1>0, <1>4, <1>7, <2>1
  <2>3. l[o].proc = m[i].proc /\ l[n].addr = m[j].addr
    BY <1>0, <1>4, <2>2
  <2> QED
    BY <2>2, <2>3
<1>8. m[k].proc = t.proc
  BY <1>0, <1>4
<1> QED
  BY <1>3, <1>4, <1>5, <1>6, <1>7, <1>8 DEF l, m

-----------------------------------------------------------------------------
(* Every action preserves the invariant.                                     *)

\* The invariant holds at the start.
LEMMA InitInv ==
  ASSUME Init
  PROVE  Inv
<1> USE TimeoutAssumption
<1>1. NoReq \in Request /\ NoReq.delta = 0
  BY DEF NoReq, Request
<1>2. TypeOK
  BY <1>1 DEF Init, TypeOK, Places, Timeout, Addr
<1>3. PoolOK
  BY DEF Init, PoolOK, Distinct, Addrs, InHand, InChain
<1>4. Stages /\ Living /\ DeadHaveNone /\ Walk
  BY <1>1 DEF Init, Stages, Living, DeadHaveNone, Walk
<1>5. TimesOK
  BY DEF Init, TimesOK, Times
<1> QED
  BY <1>2, <1>3, <1>4, <1>5 DEF Inv

\* A stuttering step keeps the invariant.
LEMMA StutterInv ==
  ASSUME Inv, UNCHANGED vars
  PROVE  Inv'
<1>1. TypeOK'
  BY DEF Inv, TypeOK, vars
<1>2. PoolOK'
  BY DEF Inv, PoolOK, InHand, InChain, vars
<1>3. Stages' /\ Living' /\ DeadHaveNone' /\ TimesOK'
  BY DEF Inv, Stages, Living, DeadHaveNone, TimesOK, vars
<1>4. Walk'
  BY DEF Inv, Walk, vars
<1> QED
  BY <1>1, <1>2, <1>3, <1>4 DEF Inv

\* The timer interrupt: the head is closer by one, everything else follows.
LEMMA TickInv ==
  ASSUME Inv, Tick
  PROVE  Inv' /\ Asked(tlist') = Asked(tlist)
<1> USE TimeoutAssumption
<1> DEFINE l == tlist
           m == tlist'
<1>0. l \in Seq(Timeout) /\ hz_200 \in Int /\ hz_200' = hz_200 + 1
  BY DEF Inv, TypeOK, Tick
<1>1. /\ m \in Seq(Timeout) /\ Len(m) = Len(l)
      /\ \A i \in 1..Len(l) :
           /\ m[i].addr = l[i].addr /\ m[i].proc = l[i].proc /\ m[i].func = l[i].func
           /\ m[i].due = l[i].due /\ m[i].when = IF i = 1 THEN l[i].when - 1 ELSE l[i].when
  <2>1. CASE l = <<>>
    BY <1>0, <2>1 DEF Tick, CountDown
  <2>2. CASE l # <<>>
    <3>1. 1 \in 1..Len(l) /\ m = [l EXCEPT ![1] = [l[1] EXCEPT !.when = l[1].when - 1]]
      BY <1>0, <2>2 DEF Tick, CountDown
    <3>2. l[1] \in Timeout /\ l[1].when - 1 \in Int
      BY <1>0, <3>1, WhenInt
    <3> DEFINE u == [l[1] EXCEPT !.when = l[1].when - 1]
    <3>3. /\ u \in Timeout /\ u.when = l[1].when - 1
          /\ u.addr = l[1].addr /\ u.proc = l[1].proc /\ u.func = l[1].func /\ u.due = l[1].due
      BY <3>2, ExceptWhen
    <3> HIDE DEF u
    <3>4. m = [l EXCEPT ![1] = u]
      BY <3>1 DEF u
    <3>5. m \in Seq(Timeout) /\ Len(m) = Len(l) /\ \A i \in 1..Len(l) : m[i] = IF i = 1 THEN u ELSE l[i]
      BY <1>0, <3>1, <3>3, <3>4
    <3> QED
      BY <3>3, <3>5
  <2> QED
    BY <2>1, <2>2
<1> HIDE DEF l, m
<1>2. DOMAIN l = 1..Len(l) /\ DOMAIN m = 1..Len(l) /\ Len(l) \in Nat /\ (m = <<>> <=> l = <<>>)
  BY <1>0, <1>1
<1>3. TypeOK'
  <2>1. hz_200' \in 0..MaxTime
    BY DEF Inv, TypeOK, Tick
  <2> QED
    BY <1>1, <2>1 DEF Inv, TypeOK, Tick, m
<1>4. Distinct(m) /\ Addrs(m) = Addrs(l) /\ Asked(m) = Asked(l)
  <2>1. Distinct(l)
    BY DEF Inv, PoolOK, l
  <2>2. Distinct(m)
    BY <1>1, <1>2, <2>1 DEF Distinct
  <2>3. Addrs(m) = {m[i].addr : i \in 1..Len(l)} /\ Addrs(l) = {l[i].addr : i \in 1..Len(l)}
    BY <1>2 DEF Addrs
  <2> QED
    BY <1>1, <1>2, <2>2, <2>3 DEF Asked
<1>5. PoolOK'
  BY <1>4 DEF Inv, PoolOK, Tick, InHand, InChain, l, m
<1>6. Times(m, hz_200')
  <2>1. Times(l, hz_200)
    BY DEF Inv, TimesOK, l
  <2>2. ASSUME m # <<>> PROVE m[1].when = m[1].due - (hz_200 + 1)
    <3>1. l # <<>> /\ 1 \in 1..Len(l) /\ l[1].when = l[1].due - hz_200
      BY <1>0, <1>2, <2>1, <2>2 DEF Times
    <3>2. l[1].due \in Int /\ l[1].when \in Int
      BY <1>0, <3>1, WhenInt
    <3> QED
      BY <1>0, <1>1, <3>1, <3>2
  <2>3. ASSUME NEW i \in 2..Len(m) PROVE m[i].when = m[i].due - m[i - 1].due
    <3>1. i \in 1..Len(l) /\ i - 1 \in 1..Len(l) /\ i # 1 /\ i \in 2..Len(l)
      BY <1>1, <1>2
    <3> QED
      BY <1>1, <2>1, <3>1 DEF Times
  <2>4. \A i, j \in 1..Len(m) : i <= j => m[i].due <= m[j].due
    BY <1>1, <2>1 DEF Times
  <2> QED
    BY <1>0, <2>2, <2>3, <2>4 DEF Times
<1>7. Stages' /\ Living'
  BY DEF Inv, Stages, Living, Tick
<1>8. DeadHaveNone' /\ Walk'
  <2>1. UNCHANGED <<pc, req, at, dead>>
    BY DEF Tick
  <2>2. DeadHaveNone'
    BY <1>1, <1>2, <2>1 DEF Inv, DeadHaveNone, l, m
  <2>3. Walk'
    BY <1>1, <1>2, <1>4, <2>1 DEF Inv, Walk, l, m
  <2> QED
    BY <2>2, <2>3
<1> QED
  BY <1>3, <1>4, <1>5, <1>6, <1>7, <1>8 DEF Inv, TimesOK, l, m

\* An interrupt handler installs a timeout in the middle of anything.
LEMMA IntAddInv ==
  ASSUME Inv, NEW p \in Proc, NEW f \in Func, NEW d \in Int,
         IntAddroottimeout(p, f, d)
  PROVE  Inv' /\ \E a \in Addr :
           /\ a \notin Addrs(tlist)
           /\ Asked(tlist') = Asked(tlist) \cup
                {[addr |-> a, proc |-> p, func |-> f, due |-> hz_200 + d]}
<1> USE TimeoutAssumption
<1>0. /\ tlist \in Seq(Timeout) /\ Distinct(tlist) /\ hz_200 \in Int /\ TimesOK
      /\ expire_list \in Seq(Timeout) /\ Distinct(expire_list) /\ used \subseteq Addr
  BY DEF Inv, TypeOK, PoolOK
<1>1. UNCHANGED <<hz_200, req, node, chain, at, cb, dead>> /\ p = Root
  BY DEF IntAddroottimeout
<1>2. PICK a \in Addr :
        /\ Insert(Node(a, Root, f, d), d, pc)
        /\ held' = [held EXCEPT ![Root][f] = a]
        /\ a \notin Addrs(tlist) /\ a \notin InHand /\ a \notin InChain
        /\ expire_list' \in Seq(Timeout) /\ Distinct(expire_list')
        /\ Addrs(expire_list') = Addrs(expire_list) \ {a}
        /\ used' = used \cup {a}
  <2>1. CASE \E i \in Reusable(Root, f) :
               /\ expire_list' = RemoveAt(expire_list, i)
               /\ Insert(Node(expire_list[i].addr, Root, f, d), d, pc)
               /\ held' = [held EXCEPT ![Root][f] = expire_list[i].addr]
               /\ UNCHANGED used
    <3>0. \A i \in Reusable(Root, f) : i \in 1..Len(expire_list)
      BY <1>0 DEF Reusable
    <3>1. PICK i \in 1..Len(expire_list) :
               /\ expire_list' = RemoveAt(expire_list, i)
               /\ Insert(Node(expire_list[i].addr, Root, f, d), d, pc)
               /\ held' = [held EXCEPT ![Root][f] = expire_list[i].addr]
               /\ UNCHANGED used
      BY <2>1, <3>0
    <3> DEFINE a == expire_list[i].addr
    <3>2. a \in Addr /\ a \in Addrs(expire_list)
      BY <1>0, <3>1, WhenInt
    <3>3. /\ expire_list' \in Seq(Timeout) /\ Distinct(expire_list')
          /\ Addrs(expire_list') = Addrs(expire_list) \ {a}
      BY <1>0, <3>1, RemoveAtLemma
    <3>4. a \notin Addrs(tlist) /\ a \notin InHand /\ a \notin InChain /\ a \in used
      BY <3>2 DEF Inv, PoolOK
    <3> QED
      BY <3>1, <3>2, <3>3, <3>4
  <2>2. CASE \E a \in Static \ used :
               /\ used' = used \cup {a}
               /\ Insert(Node(a, Root, f, d), d, pc)
               /\ held' = [held EXCEPT ![Root][f] = a]
               /\ UNCHANGED expire_list
    <3>1. PICK a \in Static \ used :
               /\ used' = used \cup {a}
               /\ Insert(Node(a, Root, f, d), d, pc)
               /\ held' = [held EXCEPT ![Root][f] = a]
               /\ UNCHANGED expire_list
      BY <2>2
    <3>2. /\ a \in Addr /\ a \notin Addrs(tlist) /\ a \notin InHand /\ a \notin InChain
          /\ a \notin Addrs(expire_list)
      BY <3>1 DEF Inv, PoolOK, Addr
    <3>3. Addrs(expire_list') = Addrs(expire_list) \ {a}
      BY <3>1, <3>2
    <3> QED
      BY <1>0, <3>1, <3>2, <3>3
  <2> QED
    BY <2>1, <2>2 DEF IntAddroottimeout
<1> DEFINE t == Node(a, Root, f, d)
<1>3. t \in Timeout /\ t.addr = a /\ t.proc = Root /\ t.func = f /\ t.due = hz_200 + d
  BY <1>0 DEF Node, Timeout
<1> HIDE DEF t
<1>4. /\ pc' = pc
      /\ tlist' \in Seq(Timeout) /\ Distinct(tlist') /\ Times(tlist', hz_200)
      /\ Addrs(tlist') = Addrs(tlist) \cup {a}
      /\ Asked(tlist') = Asked(tlist) \cup
           {[addr |-> a, proc |-> Root, func |-> f, due |-> hz_200 + d]}
      /\ \A i \in DOMAIN tlist' :
           \/ tlist'[i].proc = Root
           \/ \E o \in DOMAIN tlist : tlist[o].proc = tlist'[i].proc
      /\ \A i, j \in DOMAIN tlist' : i <= j /\ tlist'[j].addr # a =>
           \/ tlist'[i].proc = Root
           \/ \E o, n \in DOMAIN tlist : /\ o <= n /\ tlist[o].proc = tlist'[i].proc
                                         /\ tlist[n].addr = tlist'[j].addr
  <2>1. Insert(t, d, pc) /\ t.addr \notin Addrs(tlist)
    BY <1>2, <1>3 DEF t
  <2> QED
    BY <1>0, <1>3, <2>1, InsertLemma, ZenonT(60)
<1>5. TypeOK'
  <2>1. held' \in [Proc -> [Func -> Addr \cup {Null}]]
    BY <1>2 DEF Inv, TypeOK
  <2>2. used' \subseteq Addr
    BY <1>0, <1>2
  <2> QED
    BY <1>1, <1>2, <1>4, <2>1, <2>2 DEF Inv, TypeOK
<1>6. PoolOK'
  <2>1. InHand' = InHand /\ InChain' = InChain /\ chain' = chain
    BY <1>1 DEF InHand, InChain
  <2> QED
    BY <1>2, <1>4, <2>1 DEF Inv, PoolOK
<1>7. Stages' /\ Living' /\ TimesOK'
  BY <1>1, <1>4 DEF Inv, Stages, Living, TimesOK
<1>8. DeadHaveNone'
  BY <1>1, <1>4 DEF Inv, DeadHaveNone, Living
<1>9. Walk'
  <2>1. ASSUME pc \in {"cancel tlist", "dispose tlist"}
        PROVE  /\ at \in Addrs(tlist') \cup {Null}
               /\ \A i, j \in DOMAIN tlist' :
                    tlist'[j].addr = at /\ i <= j => tlist'[i].proc # req.proc
    <3>1. /\ at \in Addrs(tlist) \cup {Null} /\ req.proc # Root
          /\ \A i, j \in DOMAIN tlist : tlist[j].addr = at /\ i <= j => tlist[i].proc # req.proc
      BY <2>1 DEF Inv, Walk
    <3>2. at # a
      BY <1>2, <3>1
    <3> QED
      BY <1>4, <3>1, <3>2
  <2>2. ASSUME pc \in {"cancel expired", "dispose expired"}
        PROVE  \A i \in DOMAIN tlist' : tlist'[i].proc # req.proc
    BY <1>4, <2>2, ZenonT(60) DEF Inv, Walk
  <2> QED
    BY <1>1, <1>4, <2>1, <2>2 DEF Inv, Walk
<1> QED
  BY <1>1, <1>2, <1>4, <1>5, <1>6, <1>7, <1>8, <1>9 DEF Inv

\* The search of expire_list in __addtimeout().
LEMMA AddtimeoutInv ==
  ASSUME Inv, NEW p \in Proc, NEW f \in Func, NEW d \in Int, Addtimeout(p, f, d)
  PROVE  Inv'
<1> USE TimeoutAssumption
<1>0. /\ expire_list \in Seq(Timeout) /\ Distinct(expire_list)
      /\ pc \in {"run", "callback"} /\ p \notin dead /\ node = Null /\ chain = <<>>
  BY DEF Inv, TypeOK, PoolOK, Stages, Addtimeout, Kernel
<1>1. /\ UNCHANGED <<hz_200, tlist, used, chain, at, cb, held, dead>>
      /\ req' = [proc |-> p, func |-> f, delta |-> d]
  BY DEF Addtimeout
<1>2. req' \in Request /\ req'.proc = p
  BY <1>1 DEF Request
<1>3. /\ expire_list' \in Seq(Timeout) /\ Distinct(expire_list')
      /\ Addrs(expire_list') = Addrs(expire_list) \ InHand'
      /\ InHand' \subseteq Addrs(expire_list)
      /\ node' \in Addr \cup {Null}
      /\ pc' \in {"insert", "alloc"}
      /\ node' # Null <=> pc' = "insert"
  <2>1. CASE \E i \in Reusable(p, f) :
               /\ node' = expire_list[i].addr
               /\ expire_list' = RemoveAt(expire_list, i)
               /\ pc' = "insert"
    <3>0. \A i \in Reusable(p, f) : i \in 1..Len(expire_list)
      BY <1>0 DEF Reusable
    <3>1. PICK i \in 1..Len(expire_list) :
               /\ node' = expire_list[i].addr
               /\ expire_list' = RemoveAt(expire_list, i)
               /\ pc' = "insert"
      BY <2>1, <3>0
    <3>2. node' \in Addr /\ node' \in Addrs(expire_list)
      BY <1>0, <3>1, WhenInt
    <3>3. InHand' = {node'}
      BY <3>2 DEF InHand
    <3>4. /\ expire_list' \in Seq(Timeout) /\ Distinct(expire_list')
          /\ Addrs(expire_list') = Addrs(expire_list) \ {node'}
      BY <1>0, <3>1, RemoveAtLemma
    <3> QED
      BY <3>1, <3>2, <3>3, <3>4
  <2>2. CASE pc' = "alloc" /\ UNCHANGED <<node, expire_list>>
    BY <1>0, <2>2 DEF InHand
  <2> QED
    BY <2>1, <2>2 DEF Addtimeout
<1>4. TypeOK'
  BY <1>1, <1>2, <1>3 DEF Inv, TypeOK, Places
<1>5. PoolOK'
  <2>1. InChain' = InChain /\ chain' = chain /\ InHand = {}
    BY <1>0, <1>1 DEF InChain, InHand
  <2> QED
    BY <1>1, <1>3, <2>1 DEF Inv, PoolOK
<1>6. Stages'
  BY <1>0, <1>1, <1>2, <1>3 DEF Inv, Stages
<1>7. TimesOK' /\ DeadHaveNone' /\ Living' /\ Walk'
  BY <1>0, <1>1, <1>2, <1>3 DEF Inv, TimesOK, DeadHaveNone, Living, Walk
<1> QED
  BY <1>4, <1>5, <1>6, <1>7 DEF Inv

\* newtimeout() with and without success.
LEMMA NewtimeoutInv ==
  ASSUME Inv, Newtimeout
  PROVE  Inv'
<1> USE TimeoutAssumption
<1>0. /\ pc = "alloc" /\ node = Null /\ chain = <<>> /\ InHand = {}
      /\ UNCHANGED <<hz_200, tlist, expire_list, chain, at, cb, dead>>
  BY DEF Inv, Stages, Newtimeout, InHand
<1>1. CASE \E a \in Addr \ used :
             used' = used \cup {a} /\ node' = a /\ pc' = "insert" /\ UNCHANGED <<req, held>>
  <2>1. PICK a \in Addr \ used :
          used' = used \cup {a} /\ node' = a /\ pc' = "insert" /\ UNCHANGED <<req, held>>
    BY <1>1
  <2>2. InHand' = {a} /\ InChain' = InChain /\ node' # Null
    BY <1>0, <2>1 DEF InHand, InChain
  <2>3. TypeOK'
    BY <1>0, <2>1 DEF Inv, TypeOK, Places
  <2>4. PoolOK'
    BY <1>0, <2>1, <2>2 DEF Inv, PoolOK
  <2>5. Stages'
    BY <1>0, <2>1, <2>2 DEF Inv, Stages
  <2>6. TimesOK' /\ DeadHaveNone' /\ Living' /\ Walk'
    BY <1>0, <2>1 DEF Inv, TimesOK, DeadHaveNone, Living, Walk
  <2> QED
    BY <2>3, <2>4, <2>5, <2>6 DEF Inv
<1>2. CASE /\ held' = [held EXCEPT ![req.proc][req.func] = Null]
           /\ pc' = Back /\ req' = NoReq /\ UNCHANGED <<used, node>>
  <2>1. NoReq \in Request /\ NoReq.delta = 0
    BY DEF NoReq, Request
  <2>2. pc' = IF cb = NoCall THEN "run" ELSE "callback"
    BY <1>2 DEF Back
  <2>3. held' \in [Proc -> [Func -> Addr \cup {Null}]]
    BY <1>2 DEF Inv, TypeOK, Request
  <2>4. TypeOK'
    BY <1>0, <1>2, <2>1, <2>2, <2>3 DEF Inv, TypeOK, Places
  <2>5. PoolOK'
    BY <1>0, <1>2 DEF Inv, PoolOK, InHand, InChain
  <2>6. Stages'
    BY <1>0, <1>2, <2>1, <2>2 DEF Inv, Stages
  <2>7. TimesOK' /\ DeadHaveNone' /\ Living' /\ Walk'
    BY <1>0, <2>2 DEF Inv, TimesOK, DeadHaveNone, Living, Walk
  <2> QED
    BY <2>4, <2>5, <2>6, <2>7 DEF Inv
<1> QED
  BY <1>1, <1>2 DEF Newtimeout

\* The insertion in __addtimeout().
LEMMA InserttimeoutInv ==
  ASSUME Inv, Inserttimeout
  PROVE  /\ Inv'
         /\ node \in Addr /\ node \notin Addrs(tlist)
         /\ Asked(tlist') = Asked(tlist) \cup {[addr |-> node, proc |-> req.proc,
                               func |-> req.func, due |-> hz_200 + req.delta]}
<1> USE TimeoutAssumption
<1>0. /\ pc = "insert" /\ node # Null /\ chain = <<>> /\ node \in Addr /\ InHand = {node}
      /\ tlist \in Seq(Timeout) /\ Distinct(tlist) /\ hz_200 \in Int /\ TimesOK
      /\ req.delta \in Int /\ req.proc \in Proc /\ req.func \in Func
  BY DEF Inv, Stages, TypeOK, Request, PoolOK, Inserttimeout, InHand
<1>1. /\ Insert(Node(node, req.proc, req.func, req.delta), req.delta, Back)
      /\ held' = [held EXCEPT ![req.proc][req.func] = node]
      /\ node' = Null /\ req' = NoReq
      /\ UNCHANGED <<hz_200, expire_list, used, chain, at, cb, dead>>
  BY DEF Inserttimeout
<1> DEFINE t == Node(node, req.proc, req.func, req.delta)
<1>2. /\ t \in Timeout /\ t.addr = node /\ t.proc = req.proc /\ t.func = req.func
      /\ t.due = hz_200 + req.delta
  BY <1>0 DEF Node, Timeout
<1>3. node \notin Addrs(tlist) /\ node \notin Addrs(expire_list) /\ node \notin InChain
  BY <1>0 DEF Inv, PoolOK
<1>4. Insert(t, req.delta, Back)
  BY <1>1
<1> HIDE DEF t
<1>5. /\ pc' = Back
      /\ tlist' \in Seq(Timeout) /\ Distinct(tlist') /\ Times(tlist', hz_200)
      /\ Addrs(tlist') = Addrs(tlist) \cup {node}
      /\ Asked(tlist') = Asked(tlist) \cup {[addr |-> node, proc |-> req.proc,
                            func |-> req.func, due |-> hz_200 + req.delta]}
      /\ \A i \in DOMAIN tlist' :
           \/ tlist'[i].proc = req.proc
           \/ \E o \in DOMAIN tlist : tlist[o].proc = tlist'[i].proc
  BY <1>0, <1>2, <1>3, <1>4, InsertLemma
<1>6. NoReq \in Request /\ NoReq.delta = 0
  BY DEF NoReq, Request
<1>7. pc' \in {"run", "callback"} /\ (pc' = "callback" <=> cb # NoCall)
  BY <1>5 DEF Back
<1>8. TypeOK'
  <2>1. held' \in [Proc -> [Func -> Addr \cup {Null}]]
    BY <1>0, <1>1 DEF Inv, TypeOK
  <2> QED
    BY <1>1, <1>5, <1>6, <1>7, <2>1 DEF Inv, TypeOK, Places
<1>9. PoolOK'
  <2>1. InHand' = {} /\ InChain' = InChain /\ chain' = chain
    BY <1>1 DEF InHand, InChain
  <2> QED
    BY <1>0, <1>1, <1>3, <1>5, <2>1 DEF Inv, PoolOK
<1>10. Stages'
  <2>1. node' = Null /\ chain' = <<>> /\ cb' = cb /\ at' = Null
    BY <1>0, <1>1, <1>6 DEF Inv, Stages
  <2> QED
    BY <1>7, <2>1 DEF Stages
<1>11. TimesOK' /\ DeadHaveNone' /\ Living' /\ Walk'
  BY <1>0, <1>1, <1>5, <1>7 DEF Inv, TimesOK, DeadHaveNone, Living, Walk
<1> QED
  BY <1>0, <1>3, <1>5, <1>8, <1>9, <1>10, <1>11 DEF Inv

\* The tail of a sequence.
LEMMA TailLemma ==
  ASSUME NEW S, NEW s \in Seq(S), s # <<>>
  PROVE  /\ Tail(s) \in Seq(S) /\ Len(Tail(s)) = Len(s) - 1
         /\ Len(s) \in Nat /\ Len(s) >= 1
         /\ DOMAIN s = 1..Len(s) /\ DOMAIN Tail(s) = 1..(Len(s) - 1)
         /\ \A i \in 1..(Len(s) - 1) : Tail(s)[i] = s[i + 1]
         /\ Head(s) = s[1]
         /\ Len(s) = 1 => Tail(s) = <<>>
         /\ Len(s) > 1 => Tail(s) # <<>>
<1>1. Len(s) \in Nat /\ Len(s) >= 1 /\ DOMAIN s = 1..Len(s) /\ Head(s) = s[1]
  OBVIOUS
<1>2. Tail(s) \in Seq(S) /\ Len(Tail(s)) = Len(s) - 1
  OBVIOUS
<1>3. \A i \in 1..(Len(s) - 1) : Tail(s)[i] = s[i + 1]
  OBVIOUS
<1>4. DOMAIN Tail(s) = 1..(Len(s) - 1)
  BY <1>2
<1>5. (Len(s) = 1 => Tail(s) = <<>>) /\ (Len(s) > 1 => Tail(s) # <<>>)
  <2> DEFINE t == Tail(s)
  <2>1. t \in Seq(S) /\ Len(t) = Len(s) - 1
    BY <1>2
  <2> HIDE DEF t
  <2>2. (Len(s) = 1 => t = <<>>) /\ (Len(s) > 1 => t # <<>>)
    BY <1>1, <2>1
  <2> QED
    BY <2>2 DEF t
<1> QED
  BY <1>1, <1>2, <1>3, <1>4, <1>5

\* __canceltimeout() withdraws at most one request.
LEMMA CanceltimeoutInv ==
  ASSUME Inv, NEW p \in Proc, NEW f \in Func, Canceltimeout(p, f)
  PROVE  /\ Inv'
         /\ \/ Asked(tlist') = Asked(tlist)
            \/ \E q \in Asked(tlist) : Asked(tlist') = Asked(tlist) \ {q}
<1> USE TimeoutAssumption
<1> DEFINE a == held[p][f]
<1>0. /\ tlist \in Seq(Timeout) /\ Distinct(tlist) /\ hz_200 \in Int /\ TimesOK
      /\ expire_list \in Seq(Timeout) /\ Distinct(expire_list)
      /\ pc \in {"run", "callback"} /\ node = Null /\ chain = <<>>
  <2>1. pc \in {"run", "callback"}
    BY DEF Canceltimeout, Kernel
  <2>2. node = Null /\ chain = <<>>
    BY <2>1 DEF Inv, Stages
  <2> QED
    BY <2>1, <2>2 DEF Inv, TypeOK, PoolOK
<1>00. InHand = {} /\ InChain = {}
  BY <1>0 DEF InHand, InChain
<1>1. /\ held' = [held EXCEPT ![p][f] = Null]
      /\ UNCHANGED <<hz_200, used, req, node, at, cb, dead>> /\ InHand' = {}
  BY <1>0, <1>00 DEF Canceltimeout, InHand
<1>2. held' \in [Proc -> [Func -> Addr \cup {Null}]]
  BY <1>1 DEF Inv, TypeOK
<1> HIDE DEF a
<1>3. CASE \E i \in Named(expire_list, a, p) :
             /\ expire_list' = RemoveAt(expire_list, i)
             /\ chain' = <<a>> /\ pc' = "dispose"
             /\ UNCHANGED tlist
  <2>1. \A i \in Named(expire_list, a, p) : i \in 1..Len(expire_list) /\ expire_list[i].addr = a
    BY <1>0 DEF Named
  <2>2. PICK i \in 1..Len(expire_list) :
             /\ expire_list' = RemoveAt(expire_list, i)
             /\ chain' = <<a>> /\ pc' = "dispose"
             /\ UNCHANGED tlist
             /\ expire_list[i].addr = a
    BY <1>3, <2>1
  <2>3. a \in Addr /\ a \in Addrs(expire_list)
    BY <1>0, <2>2, WhenInt
  <2>4. /\ expire_list' \in Seq(Timeout) /\ Distinct(expire_list')
        /\ Addrs(expire_list') = Addrs(expire_list) \ {a}
    BY <1>0, <2>2, RemoveAtLemma
  <2>5. /\ chain' \in Seq(Addr) /\ InChain' = {a} /\ chain' # <<>>
        /\ \A j, k \in DOMAIN chain' : chain'[j] = chain'[k] => j = k
    BY <2>2, <2>3 DEF InChain
  <2>6. TypeOK'
    BY <1>1, <1>2, <2>2, <2>4, <2>5 DEF Inv, TypeOK, Places
  <2>7. PoolOK'
    BY <1>0, <1>00, <1>1, <2>2, <2>3, <2>4, <2>5 DEF Inv, PoolOK
  <2>8. Stages'
    BY <1>0, <1>1, <2>2, <2>5 DEF Inv, Stages
  <2>9. TimesOK' /\ DeadHaveNone' /\ Living' /\ Walk'
    BY <1>0, <1>1, <2>2 DEF Inv, TimesOK, DeadHaveNone, Living, Walk
  <2> QED
    BY <2>2, <2>6, <2>7, <2>8, <2>9 DEF Inv
<1>4. CASE /\ \E i \in Named(tlist, a, p) :
                tlist' = Unlink(tlist, i) /\ chain' = <<a>> /\ pc' = "dispose"
           /\ UNCHANGED expire_list
  <2>1. \A i \in Named(tlist, a, p) : i \in 1..Len(tlist) /\ tlist[i].addr = a
    BY <1>0 DEF Named
  <2>2. PICK i \in 1..Len(tlist) :
             /\ tlist' = Unlink(tlist, i) /\ chain' = <<a>> /\ pc' = "dispose"
             /\ tlist[i].addr = a
    BY <1>4, <2>1
  <2>3. a \in Addr /\ a \in Addrs(tlist)
    BY <1>0, <2>2, WhenInt
  <2>4. /\ tlist' \in Seq(Timeout) /\ Distinct(tlist')
        /\ Addrs(tlist') = Addrs(tlist) \ {a}
        /\ Times(tlist', hz_200)
        /\ \A n \in DOMAIN tlist' : \E o \in DOMAIN tlist : tlist'[n].proc = tlist[o].proc
    <3>1. Times(tlist, hz_200)
      BY <1>0 DEF TimesOK
    <3>2. LET m == Unlink(tlist, i) IN
          /\ m \in Seq(Timeout) /\ Distinct(m) /\ Times(m, hz_200)
          /\ Addrs(m) = Addrs(tlist) \ {tlist[i].addr}
          /\ \A n \in DOMAIN m : \E o \in DOMAIN tlist : m[n].proc = tlist[o].proc
      BY <1>0, <2>2, <3>1, UnlinkProcs
    <3> QED
      BY <2>2, <3>2
  <2>5. /\ chain' \in Seq(Addr) /\ InChain' = {a} /\ chain' # <<>>
        /\ \A j, k \in DOMAIN chain' : chain'[j] = chain'[k] => j = k
    BY <2>2, <2>3 DEF InChain
  <2>6. TypeOK'
    BY <1>1, <1>2, <1>4, <2>2, <2>4, <2>5 DEF Inv, TypeOK, Places
  <2>7. PoolOK'
    BY <1>0, <1>00, <1>1, <1>4, <2>3, <2>4, <2>5 DEF Inv, PoolOK
  <2>8. Stages'
    BY <1>0, <1>1, <2>2, <2>5 DEF Inv, Stages
  <2>9. TimesOK' /\ DeadHaveNone' /\ Living' /\ Walk'
    BY <1>0, <1>1, <2>2, <2>4 DEF Inv, TimesOK, DeadHaveNone, Living, Walk
  <2>10. \E q \in Asked(tlist) : Asked(tlist') = Asked(tlist) \ {q}
    <3> DEFINE q == [addr |-> tlist[i].addr, proc |-> tlist[i].proc,
                     func |-> tlist[i].func, due |-> tlist[i].due]
    <3>1. q \in Asked(tlist)
      BY <1>0, <2>2 DEF Asked
    <3>2. Asked(tlist') = Asked(tlist) \ {q}
      BY <1>0, <2>2, UnlinkAsked
    <3> QED
      BY <3>1, <3>2
  <2> QED
    BY <2>6, <2>7, <2>8, <2>9, <2>10 DEF Inv
<1>5. CASE UNCHANGED <<lists, chain, pc>>
  <2>1. UNCHANGED <<tlist, expire_list, chain, pc>> /\ InChain' = InChain
    BY <1>5 DEF lists, InChain
  <2>2. TypeOK'
    BY <1>1, <1>2, <2>1 DEF Inv, TypeOK
  <2>3. PoolOK'
    BY <1>0, <1>00, <1>1, <2>1 DEF Inv, PoolOK
  <2>4. Stages' /\ TimesOK' /\ DeadHaveNone' /\ Living' /\ Walk'
    BY <1>0, <1>1, <2>1 DEF Inv, Stages, TimesOK, DeadHaveNone, Living, Walk
  <2> QED
    BY <2>1, <2>2, <2>3, <2>4 DEF Inv
<1> QED
  BY <1>3, <1>4, <1>5 DEF Canceltimeout, a

\* disposetimeout() gives back one structure.
LEMMA DisposetimeoutInv ==
  ASSUME Inv, Disposetimeout
  PROVE  Inv'
<1> USE TimeoutAssumption
<1>0. /\ pc \in {"dispose", "dispose tlist", "dispose expired"}
      /\ chain \in Seq(Addr) /\ chain # <<>> /\ node = Null /\ InHand = {}
      /\ used' = used \ {Head(chain)} /\ chain' = Tail(chain)
      /\ UNCHANGED <<hz_200, tlist, expire_list, req, node, at, cb, held, dead>>
      /\ InHand' = {}
  BY DEF Inv, TypeOK, Stages, Disposetimeout, lists, InHand
<1>1. /\ chain' \in Seq(Addr) /\ Len(chain') = Len(chain) - 1
      /\ Len(chain) \in Nat /\ Len(chain) >= 1
      /\ \A i \in 1..Len(chain') : chain'[i] = chain[i + 1]
      /\ Head(chain) = chain[1]
      /\ DOMAIN chain = 1..Len(chain) /\ DOMAIN chain' = 1..(Len(chain) - 1)
      /\ Len(chain) = 1 => chain' = <<>>
      /\ Len(chain) > 1 => chain' # <<>>
  <2>1. chain \in Seq(Addr) /\ chain # <<>> /\ chain' = Tail(chain)
    BY <1>0
  <2> QED
    BY <2>1, TailLemma
<1>2. /\ \A i, j \in DOMAIN chain' : chain'[i] = chain'[j] => i = j
      /\ InChain' = InChain \ {Head(chain)}
      /\ Head(chain) \in InChain
  <2>1. DOMAIN chain = 1..Len(chain) /\ DOMAIN chain' = 1..(Len(chain) - 1)
    BY <1>0, <1>1
  <2>2. \A i, j \in 1..Len(chain) : chain[i] = chain[j] => i = j
    BY <2>1 DEF Inv, PoolOK
  <2>3. ASSUME NEW i \in DOMAIN chain', NEW j \in DOMAIN chain', chain'[i] = chain'[j]
        PROVE  i = j
    <3>1. /\ i + 1 \in 1..Len(chain) /\ j + 1 \in 1..Len(chain)
          /\ chain[i + 1] = chain[j + 1]
      BY <1>1, <2>1, <2>3
    <3>2. i + 1 = j + 1
      BY <2>2, <3>1
    <3> QED
      BY <2>1, <3>2
  <2>4. ASSUME NEW x \in InChain' PROVE x \in InChain \ {Head(chain)}
    <3>1. PICK i \in DOMAIN chain' : x = chain'[i]
      BY <2>4 DEF InChain
    <3>2. i + 1 \in 1..Len(chain) /\ x = chain[i + 1] /\ i + 1 # 1 /\ 1 \in 1..Len(chain)
      BY <1>1, <2>1, <3>1
    <3> QED
      BY <1>1, <2>1, <2>2, <3>2 DEF InChain
  <2>5. ASSUME NEW x \in InChain \ {Head(chain)} PROVE x \in InChain'
    <3>1. PICK i \in 1..Len(chain) : x = chain[i]
      BY <2>1, <2>5 DEF InChain
    <3>2. i - 1 \in DOMAIN chain' /\ (i - 1) + 1 = i
      BY <1>1, <2>1, <2>5, <3>1
    <3> QED
      BY <1>1, <2>1, <3>1, <3>2 DEF InChain
  <2>6. Head(chain) \in InChain
    BY <1>1, <2>1 DEF InChain
  <2> QED
    BY <2>3, <2>4, <2>5, <2>6
<1>3. PoolOK'
  <2>1. /\ Distinct(tlist) /\ Distinct(expire_list)
        /\ Addrs(tlist) \cap Addrs(expire_list) = {} /\ Addrs(tlist) \cap InChain = {}
        /\ Addrs(expire_list) \cap InChain = {}
        /\ used = Addrs(tlist) \cup Addrs(expire_list) \cup InChain
    BY <1>0 DEF Inv, PoolOK
  <2>2. /\ Distinct(tlist') /\ Distinct(expire_list')
        /\ Addrs(tlist') = Addrs(tlist) /\ Addrs(expire_list') = Addrs(expire_list)
    BY <1>0, <2>1
  <2>3. used' = Addrs(tlist) \cup Addrs(expire_list) \cup (InChain \ {Head(chain)})
    BY <1>0, <1>2, <2>1
  <2> QED
    BY <1>0, <1>2, <2>1, <2>2, <2>3 DEF PoolOK
<1>4. CASE Len(chain) > 1
  <2>1. pc' = pc /\ chain' # <<>>
    BY <1>1, <1>4 DEF Disposetimeout
  <2>2. TypeOK'
    BY <1>0, <1>1, <2>1 DEF Inv, TypeOK
  <2>4. Stages' /\ TimesOK' /\ DeadHaveNone' /\ Living' /\ Walk'
    BY <1>0, <2>1 DEF Inv, Stages, TimesOK, DeadHaveNone, Living, Walk
  <2> QED
    BY <1>3, <2>2, <2>4 DEF Inv
<1>5. CASE Len(chain) = 1
  <2>1. /\ pc' = CASE pc = "dispose tlist"   -> "cancel tlist"
                   [] pc = "dispose expired" -> "cancel expired"
                   [] pc = "dispose"         -> Back
        /\ chain' = <<>>
    BY <1>0, <1>1, <1>5 DEF Disposetimeout
  <2>2. \/ pc = "dispose tlist" /\ pc' = "cancel tlist"
        \/ pc = "dispose expired" /\ pc' = "cancel expired"
        \/ /\ pc = "dispose" /\ pc' \in {"run", "callback"}
           /\ pc' = "callback" <=> cb # NoCall
    BY <1>0, <2>1 DEF Back
  <2>3. TypeOK'
    BY <1>0, <1>1, <2>2 DEF Inv, TypeOK, Places
  <2>5. Stages'
    BY <1>0, <2>1, <2>2 DEF Inv, Stages
  <2>6. TimesOK' /\ DeadHaveNone' /\ Living' /\ Walk'
    BY <1>0, <2>2 DEF Inv, TimesOK, DeadHaveNone, Living, Walk
  <2> QED
    BY <1>3, <2>3, <2>5, <2>6 DEF Inv
<1> QED
  BY <1>1, <1>4, <1>5

\* Steps that only move the program counter, with no structure in hand.
LEMMA MoveInv ==
  ASSUME Inv, UNCHANGED <<hz_200, tlist, expire_list, used, node, chain, dead>>,
         at' = Null, chain = <<>>, node = Null, cb' \in {cb, NoCall},
         held' \in [Proc -> [Func -> Addr \cup {Null}]],
         req' \in Request,
         pc' \in {"run", "cancel tlist", "alarms", "old"},
         cb' = NoCall, pc' = "cancel tlist" => req'.proc # Root
  PROVE  Inv'
<1> USE TimeoutAssumption
<1>0. InHand' = InHand /\ InChain' = InChain
  BY DEF InHand, InChain
<1>1. TypeOK'
  BY DEF Inv, TypeOK, Places
<1>2. PoolOK'
  BY <1>0 DEF Inv, PoolOK
<1>3. Stages' /\ TimesOK' /\ DeadHaveNone' /\ Living'
  BY DEF Inv, Stages, TimesOK, DeadHaveNone, Living
<1>4. Walk'
  <2>1. \A j \in DOMAIN tlist : tlist[j].addr # Null
    <3>0. tlist \in Seq(Timeout)
      BY DEF Inv, TypeOK
    <3>1. tlist \in Seq(Timeout) /\ DOMAIN tlist = 1..Len(tlist)
      BY <3>0, SeqDomain
    <3>2. \A j \in 1..Len(tlist) : tlist[j].addr \in Addr
      BY <3>1, WhenInt
    <3>3. Null \notin Addr
      OBVIOUS
    <3> HIDE TimeoutAssumption
    <3> QED
      BY <3>1, <3>2, <3>3
  <2> QED
    BY <2>1 DEF Inv, Walk
<1> QED
  BY <1>1, <1>2, <1>3, <1>4 DEF Inv

\* The steps between the parts of cancelalltimeouts() and checkalarms().
LEMMA StartInv ==
  ASSUME Inv,
         \/ \E p \in Proc : Cancelalltimeouts(p)
         \/ Checkalarms \/ CallbackReturns \/ AlarmsDone
  PROVE  Inv' /\ UNCHANGED tlist
<1> USE TimeoutAssumption
<1>1. CASE \E p \in Proc : Cancelalltimeouts(p)
  <2>1. PICK p \in Proc : Cancelalltimeouts(p)
    BY <1>1
  <2>2. /\ pc = "run" /\ p # Root /\ pc' = "cancel tlist"
        /\ req' = [req EXCEPT !.proc = p]
        /\ held' = [held EXCEPT ![p] = [f \in Func |-> Null]]
        /\ UNCHANGED <<hz_200, tlist, expire_list, used, node, chain, at, cb, dead>>
    BY <2>1 DEF Cancelalltimeouts, lists
  <2>3. held' \in [Proc -> [Func -> Addr \cup {Null}]]
    BY <2>2 DEF Inv, TypeOK
  <2>4. req' \in Request /\ req'.delta = req.delta /\ req'.proc = p
    BY <2>2 DEF Inv, TypeOK, Request
  <2>5. chain = <<>> /\ node = Null /\ cb = NoCall /\ at = Null
    BY <2>2 DEF Inv, Stages
  <2> QED
    BY <2>2, <2>3, <2>4, <2>5, MoveInv
<1>2. CASE Checkalarms \/ CallbackReturns \/ AlarmsDone
  <2>1. /\ pc \in {"run", "callback", "alarms"} /\ pc' \in {"alarms", "old"}
        /\ UNCHANGED <<hz_200, tlist, expire_list, used, req, node, chain, at, held, dead>>
        /\ cb' = NoCall
    BY <1>2 DEF Inv, Stages, Checkalarms, CallbackReturns, AlarmsDone, lists
  <2>2. /\ chain = <<>> /\ node = Null /\ at = Null
        /\ held \in [Proc -> [Func -> Addr \cup {Null}]] /\ req \in Request
    BY <2>1 DEF Inv, Stages, TypeOK
  <2> QED
    BY <2>1, <2>2, MoveInv
<1> QED
  BY <1>1, <1>2

\* A process structure is used again.
LEMMA ForkInv ==
  ASSUME Inv, NEW p \in Proc, Fork(p)
  PROVE  Inv' /\ UNCHANGED tlist
<1>1. /\ UNCHANGED <<hz_200, tlist, expire_list, used, pc, req, node, chain, at, cb, held>>
      /\ dead' \subseteq dead
  BY DEF Fork, lists
<1>2. TypeOK'
  BY <1>1 DEF Inv, TypeOK
<1>3. PoolOK'
  BY <1>1 DEF Inv, PoolOK, InHand, InChain
<1>4. Stages' /\ TimesOK' /\ DeadHaveNone' /\ Living' /\ Walk'
  BY <1>1 DEF Inv, Stages, TimesOK, DeadHaveNone, Living, Walk
<1> QED
  BY <1>1, <1>2, <1>3, <1>4 DEF Inv

\* A structure is put at the head of a list.
LEMMA ConsLemma ==
  ASSUME NEW x \in Timeout, NEW l \in Seq(Timeout), Distinct(l), x.addr \notin Addrs(l)
  PROVE  LET m == <<x>> \o l IN
         /\ m \in Seq(Timeout) /\ Distinct(m) /\ Addrs(m) = Addrs(l) \cup {x.addr}
<1> DEFINE m == <<x>> \o l
<1>1. /\ m \in Seq(Timeout) /\ Len(m) = Len(l) + 1 /\ m[1] = x
      /\ \A i \in 2..Len(m) : m[i] = l[i - 1]
      /\ DOMAIN l = 1..Len(l) /\ DOMAIN m = 1..(Len(l) + 1) /\ Len(l) \in Nat
  OBVIOUS
<1> HIDE DEF m
<1>2. \A i \in 1..Len(l) : l[i].addr # x.addr
  BY <1>1 DEF Addrs
<1>3. Distinct(m)
  <2> SUFFICES ASSUME NEW i \in 1..Len(m), NEW j \in 1..Len(m), m[i].addr = m[j].addr
               PROVE  i = j
    BY <1>1 DEF Distinct
  <2>1. \A n \in 1..Len(m) : n = 1 \/ (n \in 2..Len(m) /\ n - 1 \in 1..Len(l))
    BY <1>1
  <2>2. CASE i = 1 \/ j = 1
    BY <1>1, <1>2, <2>1, <2>2
  <2>3. CASE i # 1 /\ j # 1
    <3>1. l[i - 1].addr = l[j - 1].addr /\ i - 1 \in DOMAIN l /\ j - 1 \in DOMAIN l
      BY <1>1, <2>1, <2>3
    <3>2. i - 1 = j - 1
      BY <3>1 DEF Distinct
    <3> QED
      BY <3>2
  <2> QED
    BY <2>2, <2>3
<1>4. Addrs(m) = Addrs(l) \cup {x.addr}
  <2>1. ASSUME NEW a \in Addrs(m) PROVE a \in Addrs(l) \cup {x.addr}
    <3>1. PICK i \in 1..Len(m) : a = m[i].addr
      BY <1>1, <2>1 DEF Addrs
    <3>2. CASE i = 1
      BY <1>1, <3>1, <3>2
    <3>3. CASE i # 1
      <4>1. i \in 2..Len(m) /\ i - 1 \in DOMAIN l
        BY <1>1, <3>3
      <4> QED
        BY <1>1, <3>1, <4>1 DEF Addrs
    <3> QED
      BY <3>2, <3>3
  <2>2. ASSUME NEW a \in Addrs(l) PROVE a \in Addrs(m)
    <3>1. PICK i \in 1..Len(l) : a = l[i].addr
      BY <1>1, <2>2 DEF Addrs
    <3>2. i + 1 \in 2..Len(m) /\ i + 1 \in DOMAIN m /\ (i + 1) - 1 = i
      BY <1>1
    <3>3. m[i + 1] = l[i]
      BY <1>1, <3>2
    <3> QED
      BY <3>1, <3>2, <3>3 DEF Addrs
  <2>3. x.addr \in Addrs(m)
    BY <1>1 DEF Addrs
  <2> QED
    BY <2>1, <2>2, <2>3
<1> QED
  BY <1>1, <1>3, <1>4 DEF m

\* checkalarms() takes the head: nothing on the list is due before it.
LEMMA ExpireInv ==
  ASSUME Inv, Expire
  PROVE  /\ Inv'
         /\ pc = "alarms" /\ cb = NoCall /\ cb' # NoCall
         /\ cb' \in Asked(tlist) /\ Asked(tlist') = Asked(tlist) \ {cb'}
         /\ cb'.due <= hz_200
         /\ \A q \in Asked(tlist) : cb'.due <= q.due
<1> USE TimeoutAssumption
<1> DEFINE t == tlist[1]
<1>0. /\ tlist \in Seq(Timeout) /\ Distinct(tlist) /\ hz_200 \in Int /\ Times(tlist, hz_200)
      /\ expire_list \in Seq(Timeout) /\ Distinct(expire_list)
      /\ pc = "alarms" /\ node = Null /\ chain = <<>> /\ cb = NoCall
  <2>1. pc = "alarms"
    BY DEF Expire
  <2> QED
    BY <2>1 DEF Inv, TypeOK, PoolOK, Stages, TimesOK
<1>1. /\ tlist # <<>> /\ t.when <= 0
      /\ tlist' = Unlink(tlist, 1)
      /\ expire_list' = <<[addr |-> t.addr, proc |-> t.proc, func |-> t.func,
                         when |-> hz_200 + Keep, due |-> 0]>> \o expire_list
      /\ cb' = [addr |-> t.addr, proc |-> t.proc, func |-> t.func, due |-> t.due]
      /\ held' = IF t.func \in Clearing /\ held[t.proc][t.func] = t.addr
                 THEN [held EXCEPT ![t.proc][t.func] = Null] ELSE held
      /\ pc' = "callback"
      /\ UNCHANGED <<hz_200, used, req, node, chain, at, dead>>
  <2>1. tlist # <<>>
    BY DEF Expire
  <2>2. Head(tlist) = tlist[1]
    BY <1>0, <2>1
  <2> QED
    BY <2>1, <2>2 DEF Expire, Pop
<1>2. 1 \in 1..Len(tlist) /\ DOMAIN tlist = 1..Len(tlist)
  BY <1>0, <1>1
<1>3. /\ t \in Timeout /\ t.addr \in Addr /\ t.proc \in Proc /\ t.func \in Func /\ t.due \in Int
      /\ t.when \in Int /\ t.addr \in Addrs(tlist)
  BY <1>0, <1>2, WhenInt
<1> DEFINE x == [addr |-> t.addr, proc |-> t.proc, func |-> t.func,
                 when |-> hz_200 + Keep, due |-> 0]
<1>4. x \in Timeout /\ x.addr = t.addr
  <2>1. hz_200 + Keep \in Int
    BY <1>0
  <2> HIDE DEF t
  <2> QED
    BY <1>3, <2>1 DEF Timeout
<1>5. /\ tlist' \in Seq(Timeout) /\ Distinct(tlist') /\ Times(tlist', hz_200)
      /\ Addrs(tlist') = Addrs(tlist) \ {t.addr}
      /\ \A n \in DOMAIN tlist' : \E o \in DOMAIN tlist : tlist'[n].proc = tlist[o].proc
  <2>1. LET m == Unlink(tlist, 1) IN
        /\ m \in Seq(Timeout) /\ Distinct(m) /\ Times(m, hz_200)
        /\ Addrs(m) = Addrs(tlist) \ {tlist[1].addr}
        /\ \A n \in DOMAIN m : \E o \in DOMAIN tlist : m[n].proc = tlist[o].proc
    BY <1>0, <1>2, UnlinkProcs
  <2> QED
    BY <1>1, <2>1
<1>6. Asked(tlist') = Asked(tlist) \ {cb'} /\ cb' \in Asked(tlist)
  <2>1. Asked(tlist') = Asked(tlist) \ {cb'}
    BY <1>0, <1>1, <1>2, UnlinkAsked
  <2>2. cb' \in Asked(tlist)
    BY <1>1, <1>2 DEF Asked
  <2> QED
    BY <2>1, <2>2
<1>7. t.addr \notin Addrs(expire_list) /\ t.addr \notin InHand /\ t.addr \notin InChain
  BY <1>3 DEF Inv, PoolOK
<1>8. /\ expire_list' \in Seq(Timeout) /\ Distinct(expire_list')
      /\ Addrs(expire_list') = Addrs(expire_list) \cup {t.addr}
  <2>1. expire_list' = <<x>> \o expire_list
    BY <1>1
  <2>2. x.addr \notin Addrs(expire_list)
    BY <1>4, <1>7
  <2> HIDE DEF x
  <2>3. LET m == <<x>> \o expire_list IN
        /\ m \in Seq(Timeout) /\ Distinct(m) /\ Addrs(m) = Addrs(expire_list) \cup {x.addr}
    BY <1>0, <1>4, <2>2, ConsLemma
  <2> QED
    BY <1>4, <2>1, <2>3
<1> HIDE DEF t, x
<1>9. TypeOK'
  <2>1. held' \in [Proc -> [Func -> Addr \cup {Null}]]
    BY <1>1, <1>3 DEF Inv, TypeOK
  <2>2. cb' \in [addr : Addr, proc : Proc, func : Func, due : Int]
    BY <1>1, <1>3
  <2> QED
    BY <1>1, <1>5, <1>8, <2>1, <2>2 DEF Inv, TypeOK, Places
<1>10. cb' # NoCall
  BY <1>1, <1>3
<1>11. PoolOK'
  <2>1. InHand' = InHand /\ InChain' = InChain /\ chain' = chain
    BY <1>1 DEF InHand, InChain
  <2> QED
    BY <1>1, <1>3, <1>5, <1>7, <1>8, <2>1 DEF Inv, PoolOK
<1>12. Stages' /\ TimesOK' /\ Living' /\ Walk' /\ DeadHaveNone'
  BY <1>0, <1>1, <1>5, <1>10 DEF Inv, Stages, TimesOK, Living, Walk, DeadHaveNone
<1>13. cb'.due <= hz_200
  <2>1. tlist[1].when = tlist[1].due - hz_200
    BY <1>0, <1>1 DEF Times
  <2>2. cb'.due = tlist[1].due
    BY <1>1 DEF t
  <2> QED
    BY <1>0, <1>1, <1>3, <2>1, <2>2 DEF t
<1>14. \A q \in Asked(tlist) : cb'.due <= q.due
  <2> SUFFICES ASSUME NEW q \in Asked(tlist) PROVE cb'.due <= q.due
    OBVIOUS
  <2>1. PICK i \in 1..Len(tlist) : q.due = tlist[i].due
    BY <1>2 DEF Asked
  <2>2. tlist[1].due <= tlist[i].due
    BY <1>0, <1>2, <2>1 DEF Times
  <2> QED
    BY <1>1, <2>1, <2>2 DEF t
<1> QED
  BY <1>0, <1>6, <1>9, <1>10, <1>11, <1>12, <1>13, <1>14 DEF Inv

-----------------------------------------------------------------------------
(* cancelalltimeouts().                                                      *)

\* Where the pointer `prev' is.
LEMMA PlaceLemma ==
  ASSUME NEW l \in Seq(Timeout), NEW a
  PROVE  /\ Place(l, a) \in 0..Len(l)
         /\ a \notin Addrs(l) => Place(l, a) = 0
         /\ a \in Addrs(l) => Place(l, a) \in 1..Len(l) /\ l[Place(l, a)].addr = a
<1>1. Len(l) \in Nat /\ DOMAIN l = 1..Len(l)
  OBVIOUS
<1>2. CASE a \in Addrs(l)
  <2>1. \E i \in DOMAIN l : l[i].addr = a
    BY <1>2 DEF Addrs
  <2>2. Place(l, a) = CHOOSE i \in DOMAIN l : l[i].addr = a
    BY <1>2 DEF Place
  <2>3. Place(l, a) \in DOMAIN l /\ l[Place(l, a)].addr = a
    BY <2>1, <2>2
  <2> QED
    BY <1>1, <1>2, <2>3
<1>3. CASE a \notin Addrs(l)
  BY <1>1, <1>3 DEF Place
<1> QED
  BY <1>2, <1>3

\* The walk over tlist takes the next node of the process, or there is none left.
LEMMA CancelTlistInv ==
  ASSUME Inv, CancelTlist
  PROVE  /\ Inv'
         /\ \/ Asked(tlist') = Asked(tlist)
            \/ \E q \in Asked(tlist) : Asked(tlist') = Asked(tlist) \ {q}
<1> USE TimeoutAssumption
<1> DEFINE P == Place(tlist, at)
           own == req.proc
<1>0. /\ tlist \in Seq(Timeout) /\ Distinct(tlist) /\ hz_200 \in Int /\ Times(tlist, hz_200)
      /\ pc = "cancel tlist" /\ node = Null /\ chain = <<>> /\ cb = NoCall
  <2>1. pc = "cancel tlist"
    BY DEF CancelTlist
  <2>2. node = Null /\ chain = <<>> /\ cb = NoCall
    BY <2>1 DEF Inv, Stages
  <2>3. tlist \in Seq(Timeout) /\ hz_200 \in Int
    BY DEF Inv, TypeOK
  <2>4. Distinct(tlist) /\ Times(tlist, hz_200)
    BY DEF Inv, PoolOK, TimesOK
  <2> QED
    BY <2>1, <2>2, <2>3, <2>4
<1>00. /\ DOMAIN tlist = 1..Len(tlist) /\ Len(tlist) \in Nat
       /\ InHand = {} /\ InChain = {}
  <2>1. node = Null /\ chain = <<>>
    BY <1>0
  <2>2. InHand = {} /\ InChain = {}
    BY <2>1 DEF InHand, InChain
  <2> QED
    BY <1>0, <2>2, SeqDomain
<1>1. \A j \in 1..Len(tlist) : tlist[j].addr # Null
  <2>1. \A j \in 1..Len(tlist) : tlist[j].addr \in Addr
    BY <1>0, WhenInt
  <2>2. Null \notin Addr
    OBVIOUS
  <2> QED
    BY <2>1, <2>2
<1>2. P \in 0..Len(tlist) /\ \A j \in 1..P : tlist[j].proc # own
  <2>1. P \in 0..Len(tlist)
    BY <1>0, PlaceLemma
  <2>2. CASE at \in Addrs(tlist)
    <3>1. P \in 1..Len(tlist) /\ tlist[P].addr = at
      BY <1>0, <2>2, PlaceLemma
    <3>2. \A i, j \in DOMAIN tlist : tlist[j].addr = at /\ i <= j => tlist[i].proc # own
      BY <1>0 DEF Inv, Walk
    <3> QED
      BY <1>00, <2>1, <3>1, <3>2
  <2>3. CASE at \notin Addrs(tlist)
    <3>1. P = 0
      BY <1>0, <2>3, PlaceLemma
    <3> QED
      BY <1>00, <3>1
  <2> QED
    BY <2>1, <2>2, <2>3
<1> HIDE DEF P
<1>3. NextOwn(tlist, own) = {i \in 1..Len(tlist) :
          /\ i > P /\ tlist[i].proc = own
          /\ \A j \in (P + 1)..(i - 1) : tlist[j].proc # own}
  BY <1>00 DEF NextOwn, P
<1>4. UNCHANGED <<hz_200, expire_list, used, req, node, cb, held, dead>> /\ InHand' = InHand
  BY DEF CancelTlist, InHand
<1>5. CASE \E i \in NextOwn(tlist, req.proc) :
             /\ tlist' = Unlink(tlist, i)
             /\ chain' = <<tlist[i].addr>>
             /\ at' = Before(tlist, i)
             /\ pc' = "dispose tlist"
  <2>1. PICK i \in 1..Len(tlist) :
             /\ i > P /\ tlist[i].proc = own
             /\ \A j \in (P + 1)..(i - 1) : tlist[j].proc # own
             /\ tlist' = Unlink(tlist, i)
             /\ chain' = <<tlist[i].addr>>
             /\ at' = Before(tlist, i)
             /\ pc' = "dispose tlist"
    BY <1>3, <1>5
  <2>2. \A j \in 1..(i - 1) : tlist[j].proc # own
    <3> SUFFICES ASSUME NEW j \in 1..(i - 1) PROVE tlist[j].proc # own
      OBVIOUS
    <3>1. j \in 1..P \/ j \in (P + 1)..(i - 1)
      BY <1>00, <1>2
    <3> QED
      BY <1>2, <2>1, <3>1
  <2> DEFINE a == tlist[i].addr
  <2>a. i \in 1..Len(tlist) /\ chain' = <<a>> /\ at' = Before(tlist, i)
    BY <2>1
  <2>3. a \in Addr /\ a \in Addrs(tlist)
    BY <1>0, <2>a, WhenInt
  <2>4. /\ tlist' \in Seq(Timeout) /\ Distinct(tlist') /\ Times(tlist', hz_200)
        /\ Addrs(tlist') = Addrs(tlist) \ {a}
        /\ \A n \in DOMAIN tlist' : \E o \in DOMAIN tlist : tlist'[n].proc = tlist[o].proc
        /\ \A n, j \in DOMAIN tlist' : n <= j =>
             \E o, q \in DOMAIN tlist : /\ o <= q /\ tlist'[n].proc = tlist[o].proc
                                        /\ tlist'[j].addr = tlist[q].addr
    <3> DEFINE m == Unlink(tlist, i)
    <3> HIDE DEF a, own
    <3>1. /\ m \in Seq(Timeout) /\ Distinct(m) /\ Times(m, hz_200)
          /\ Addrs(m) = Addrs(tlist) \ {tlist[i].addr}
          /\ \A n \in DOMAIN m : \E o \in DOMAIN tlist : m[n].proc = tlist[o].proc
      BY <1>0, <2>a, UnlinkProcs
    <3>2. \A n, j \in DOMAIN m : n <= j =>
               \E o, q \in DOMAIN tlist : /\ o <= q /\ m[n].proc = tlist[o].proc
                                          /\ m[j].addr = tlist[q].addr
      <4> DEFINE J(n) == IF n < i THEN n ELSE n + 1
      <4>1. /\ m \in Seq(Timeout) /\ Len(m) = Len(tlist) - 1
            /\ \A n \in 1..Len(m) : m[n].addr = tlist[J(n)].addr /\ m[n].proc = tlist[J(n)].proc
        BY <1>0, <2>a, UnlinkLemma, ZenonT(60)
      <4>2. DOMAIN m = 1..Len(m)
        BY <4>1, SeqDomain
      <4> HIDE DEF m
      <4>3. \A n, j \in DOMAIN m : n <= j => J(n) <= J(j) /\ J(n) \in DOMAIN tlist /\ J(j) \in DOMAIN tlist
        BY <1>00, <2>a, <4>1, <4>2
      <4> HIDE DEF J
      <4> QED
        BY <4>1, <4>2, <4>3
    <3>3. tlist' = m /\ tlist[i].addr = a
      BY <2>1 DEF a
    <3> HIDE DEF m
    <3> QED
      BY <3>1, <3>2, <3>3
  <2>5. /\ chain' \in Seq(Addr) /\ InChain' = {a} /\ chain' # <<>>
        /\ \A j, k \in DOMAIN chain' : chain'[j] = chain'[k] => j = k
    <3> HIDE DEF a
    <3> QED
      BY <2>a, <2>3, Single DEF InChain
  <2>6. /\ at' \in Addr \cup {Null}
        /\ at' \in Addrs(tlist') \cup {Null}
        /\ at' # Null => i - 1 \in 1..Len(tlist) /\ at' = tlist[i - 1].addr
    <3>1. CASE i = 1
      BY <2>1, <3>1 DEF Before
    <3>2. CASE i # 1
      <4>1. i - 1 \in 1..Len(tlist) /\ at' = tlist[i - 1].addr
        BY <1>00, <2>a, <3>2 DEF Before
      <4>2. at' \in Addr /\ at' \in Addrs(tlist)
        BY <1>0, <4>1, WhenInt
      <4>3. at' # a
        <5>1. i - 1 \in DOMAIN tlist /\ i \in DOMAIN tlist /\ i - 1 # i
          BY <1>00, <2>a, <4>1
        <5> QED
          BY <1>0, <4>1, <5>1 DEF Distinct
      <4> QED
        BY <2>4, <4>1, <4>2, <4>3
    <3> QED
      BY <3>1, <3>2
  <2>7. \A n, j \in DOMAIN tlist' : tlist'[j].addr = at' /\ n <= j => tlist'[n].proc # own
    <3> SUFFICES ASSUME NEW n \in DOMAIN tlist', NEW j \in DOMAIN tlist',
                        tlist'[j].addr = at', n <= j
                 PROVE  tlist'[n].proc # own
      OBVIOUS
    <3>1. PICK o \in 1..Len(tlist), q \in 1..Len(tlist) :
               o <= q /\ tlist'[n].proc = tlist[o].proc /\ tlist'[j].addr = tlist[q].addr
      <4>1. \E o, q \in DOMAIN tlist :
               o <= q /\ tlist'[n].proc = tlist[o].proc /\ tlist'[j].addr = tlist[q].addr
        BY <2>4
      <4> QED
        BY <1>00, <4>1
    <3>2. at' # Null /\ i - 1 \in 1..Len(tlist) /\ tlist[q].addr = tlist[i - 1].addr
      BY <1>1, <2>6, <3>1
    <3>3. q = i - 1
      BY <1>0, <1>00, <3>2 DEF Distinct
    <3> QED
      BY <1>00, <2>2, <3>1, <3>3
  <2>8. TypeOK'
    BY <1>4, <2>1, <2>4, <2>5, <2>6 DEF Inv, TypeOK, Places
  <2>9. PoolOK'
    <3>1. expire_list' = expire_list /\ used' = used
      BY <1>4
    <3> HIDE DEF a
    <3> QED
      BY <1>00, <1>4, <2>3, <2>4, <2>5, <3>1 DEF Inv, PoolOK
  <2>10. Stages'
    <3>1. node' = Null /\ cb' = NoCall /\ pc' = "dispose tlist" /\ chain' # <<>>
      BY <1>0, <1>4, <2>1, <2>5 DEF Inv, Stages
    <3> QED
      BY <3>1 DEF Stages
  <2>11. TimesOK' /\ DeadHaveNone' /\ Living'
    BY <1>0, <1>4, <2>1, <2>4 DEF Inv, TimesOK, DeadHaveNone, Living
  <2>12. Walk'
    <3>1. req' = req /\ pc' = "dispose tlist" /\ req.proc # Root
      BY <1>0, <1>4, <2>1 DEF Inv, Walk
    <3> QED
      BY <2>6, <2>7, <3>1 DEF Walk
  <2>13. \E q \in Asked(tlist) : Asked(tlist') = Asked(tlist) \ {q}
    <3> DEFINE q == [addr |-> tlist[i].addr, proc |-> tlist[i].proc,
                     func |-> tlist[i].func, due |-> tlist[i].due]
    <3>1. q \in Asked(tlist)
      BY <1>00 DEF Asked
    <3>2. Asked(tlist') = Asked(tlist) \ {q}
      BY <1>0, <2>1, UnlinkAsked
    <3> QED
      BY <3>1, <3>2
  <2> QED
    BY <2>8, <2>9, <2>10, <2>11, <2>12, <2>13 DEF Inv
<1>6. CASE /\ NextOwn(tlist, req.proc) = {}
           /\ at' = Null /\ pc' = "cancel expired"
           /\ UNCHANGED <<tlist, chain>>
  <2>1. \A i \in 1..Len(tlist) : tlist[i].proc # own
    <3> DEFINE T == {i \in 1..Len(tlist) : tlist[i].proc = own}
    <3> SUFFICES ASSUME NEW x \in T PROVE FALSE
      OBVIOUS
    <3>1. T \in SUBSET Nat
      OBVIOUS
    <3>2. PICK i \in T : \A k \in T : i <= k
      BY <3>1, LeastNat
    <3>3. \A j \in 1..(i - 1) : tlist[j].proc # own
      <4> SUFFICES ASSUME NEW j \in 1..(i - 1), tlist[j].proc = own PROVE FALSE
        OBVIOUS
      <4>1. j \in T /\ ~(i <= j)
        BY <1>00
      <4> QED
        BY <3>2, <4>1
    <3>4. i > P
      BY <1>00, <1>2, <3>2
    <3>5. i \in NextOwn(tlist, own)
      <4>1. \A j \in (P + 1)..(i - 1) : tlist[j].proc # own
        BY <1>00, <1>2, <3>3
      <4> QED
        BY <1>3, <3>2, <3>4, <4>1
    <3> QED
      BY <1>6, <3>5
  <2>2. TypeOK'
    BY <1>4, <1>6 DEF Inv, TypeOK, Places
  <2>3. InChain' = InChain
    BY <1>6 DEF InChain
  <2>4. PoolOK'
    BY <1>4, <1>6, <2>3 DEF Inv, PoolOK
  <2>5. Stages' /\ TimesOK' /\ DeadHaveNone' /\ Living'
    BY <1>0, <1>4, <1>6 DEF Inv, Stages, TimesOK, DeadHaveNone, Living
  <2>6. Walk'
    BY <1>0, <1>00, <1>4, <1>6, <2>1 DEF Inv, Walk
  <2> QED
    BY <1>6, <2>2, <2>4, <2>5, <2>6 DEF Inv
<1> QED
  BY <1>5, <1>6 DEF CancelTlist

\* The walk over expire_list: if it goes astray it finds nothing on tlist, and
\* the process has no timeout when it is dead.
LEMMA CancelExpiredInv ==
  ASSUME Inv, CancelExpired
  PROVE  Inv' /\ UNCHANGED tlist
<1> USE TimeoutAssumption
<1> DEFINE astray == at # Null /\ at \notin Addrs(expire_list)
           l == IF astray THEN tlist ELSE expire_list
<1>0. /\ tlist \in Seq(Timeout)
      /\ expire_list \in Seq(Timeout) /\ Distinct(expire_list)
      /\ pc = "cancel expired" /\ node = Null /\ chain = <<>> /\ cb = NoCall
      /\ \A i \in DOMAIN tlist : tlist[i].proc # req.proc
      /\ req.proc # Root /\ req.proc \in Proc
  <2>1. pc = "cancel expired"
    BY DEF CancelExpired
  <2> QED
    BY <2>1 DEF Inv, TypeOK, PoolOK, Stages, Walk, Request
<1>00. /\ DOMAIN expire_list = 1..Len(expire_list) /\ Len(expire_list) \in Nat
       /\ InHand = {} /\ InChain = {}
  <2>1. node = Null /\ chain = <<>>
    BY <1>0
  <2>2. InHand = {} /\ InChain = {}
    BY <2>1 DEF InHand, InChain
  <2> QED
    BY <1>0, <2>2, SeqDomain
<1>1. UNCHANGED <<hz_200, used, node, cb, held>> /\ InHand' = InHand
  BY DEF CancelExpired, InHand
<1>2. \/ /\ ~astray
         /\ \E i \in NextOwn(expire_list, req.proc) :
              /\ expire_list' = RemoveAt(expire_list, i)
              /\ tlist' = tlist
              /\ chain' = <<expire_list[i].addr>>
              /\ at' = Before(expire_list, i)
              /\ pc' = "dispose expired"
              /\ UNCHANGED <<req, dead>>
      \/ /\ at' = Null /\ pc' = "run" /\ req' = NoReq
         /\ dead' = dead \cup {req.proc}
         /\ UNCHANGED <<lists, chain>>
  <2>1. CASE astray
    <3>1. NextOwn(tlist, req.proc) = {}
      BY <1>0 DEF NextOwn
    <3> QED
      BY <2>1, <3>1 DEF CancelExpired
  <2>2. CASE ~astray
    BY <2>2 DEF CancelExpired
  <2> QED
    BY <2>1, <2>2
<1> HIDE DEF astray
<1>3. CASE \E i \in NextOwn(expire_list, req.proc) :
              /\ expire_list' = RemoveAt(expire_list, i)
              /\ tlist' = tlist
              /\ chain' = <<expire_list[i].addr>>
              /\ at' = Before(expire_list, i)
              /\ pc' = "dispose expired"
              /\ UNCHANGED <<req, dead>>
  <2>1. PICK i \in 1..Len(expire_list) :
              /\ expire_list' = RemoveAt(expire_list, i)
              /\ tlist' = tlist
              /\ chain' = <<expire_list[i].addr>>
              /\ at' = Before(expire_list, i)
              /\ pc' = "dispose expired"
              /\ UNCHANGED <<req, dead>>
    BY <1>00, <1>3 DEF NextOwn
  <2> DEFINE a == expire_list[i].addr
  <2>a. i \in 1..Len(expire_list) /\ chain' = <<a>> /\ at' = Before(expire_list, i)
    BY <2>1
  <2>2. a \in Addr /\ a \in Addrs(expire_list)
    BY <1>0, <2>a, WhenInt
  <2>3. /\ expire_list' \in Seq(Timeout) /\ Distinct(expire_list')
        /\ Addrs(expire_list') = Addrs(expire_list) \ {a}
    BY <1>0, <2>1, RemoveAtLemma
  <2>4. /\ chain' \in Seq(Addr) /\ InChain' = {a} /\ chain' # <<>>
        /\ \A j, k \in DOMAIN chain' : chain'[j] = chain'[k] => j = k
    <3> HIDE DEF a
    <3> QED
      BY <2>a, <2>2, Single DEF InChain
  <2>5. at' \in Addr \cup {Null}
    <3>1. CASE i = 1
      BY <2>1, <3>1 DEF Before
    <3>2. CASE i # 1
      <4>1. i - 1 \in 1..Len(expire_list) /\ at' = expire_list[i - 1].addr
        BY <1>00, <2>a, <3>2 DEF Before
      <4> QED
        BY <1>0, <4>1, WhenInt
    <3> QED
      BY <3>1, <3>2
  <2>6. TypeOK'
    BY <1>1, <2>1, <2>3, <2>4, <2>5 DEF Inv, TypeOK, Places
  <2>7. PoolOK'
    <3>1. tlist' = tlist /\ used' = used
      BY <1>1, <2>1
    <3> HIDE DEF a
    <3> QED
      BY <1>00, <1>1, <2>2, <2>3, <2>4, <3>1 DEF Inv, PoolOK
  <2>8. Stages'
    <3>1. node' = Null /\ cb' = NoCall /\ pc' = "dispose expired" /\ chain' # <<>>
      BY <1>0, <1>1, <2>1, <2>4 DEF Inv, Stages
    <3> QED
      BY <3>1 DEF Stages
  <2>9. TimesOK' /\ DeadHaveNone' /\ Living' /\ Walk'
    BY <1>0, <1>1, <2>1 DEF Inv, TimesOK, DeadHaveNone, Living, Walk
  <2> QED
    BY <2>1, <2>6, <2>7, <2>8, <2>9 DEF Inv
<1>4. CASE /\ at' = Null /\ pc' = "run" /\ req' = NoReq
           /\ dead' = dead \cup {req.proc}
           /\ UNCHANGED <<lists, chain>>
  <2>1. /\ UNCHANGED <<tlist, expire_list, chain>> /\ InChain' = InChain
        /\ NoReq \in Request /\ NoReq.delta = 0
    BY <1>4 DEF lists, InChain, NoReq, Request
  <2>2. TypeOK'
    BY <1>0, <1>1, <1>4, <2>1 DEF Inv, TypeOK, Places
  <2>3. PoolOK'
    BY <1>1, <1>4, <2>1 DEF Inv, PoolOK
  <2>4. Stages'
    <3>1. node' = Null /\ cb' = NoCall /\ pc' = "run" /\ chain' = <<>> /\ at' = Null
      <4>1. req' = NoReq /\ node' = node /\ cb' = cb /\ chain' = chain
        BY <1>1, <1>4, <2>1
      <4>2. node = Null /\ cb = NoCall /\ chain = <<>>
        BY <1>0
      <4> QED
        BY <1>4, <4>1, <4>2
    <3> QED
      BY <3>1 DEF Stages
  <2>5. TimesOK' /\ DeadHaveNone' /\ Living' /\ Walk'
    BY <1>0, <1>1, <1>4, <2>1 DEF Inv, TimesOK, DeadHaveNone, Living, Walk
  <2> QED
    BY <2>1, <2>2, <2>3, <2>4, <2>5 DEF Inv
<1> QED
  BY <1>2, <1>3, <1>4

-----------------------------------------------------------------------------
(* dispose_old_timeouts().                                                   *)

\* Cutting a list before its i-th node.
LEMMA CutLemma ==
  ASSUME NEW l \in Seq(Timeout), Distinct(l), NEW i \in 1..Len(l)
  PROVE  LET m == SubSeq(l, 1, i - 1)
             c == [j \in 1..(Len(l) - i + 1) |-> l[i + j - 1].addr]
             C == {c[j] : j \in DOMAIN c}
         IN  /\ m \in Seq(Timeout) /\ Distinct(m)
             /\ c \in Seq(Addr) /\ c # <<>>
             /\ \A j, k \in DOMAIN c : c[j] = c[k] => j = k
             /\ Addrs(m) \cap C = {} /\ Addrs(m) \cup C = Addrs(l)
<1> DEFINE m == SubSeq(l, 1, i - 1)
           N == Len(l) - i + 1
           c == [j \in 1..N |-> l[i + j - 1].addr]
           C == {c[j] : j \in DOMAIN c}
<1>0. Len(l) \in Nat /\ i \in Nat /\ 1 <= i /\ i <= Len(l) /\ DOMAIN l = 1..Len(l)
  BY SeqDomain
<1>1. /\ m \in Seq(Timeout) /\ Len(m) = i - 1
      /\ \A j \in 1..(i - 1) : m[j] = l[j]
  BY <1>0
<1>2. DOMAIN m = 1..(i - 1)
  BY <1>1, SeqDomain
<1>3. N \in Nat /\ N >= 1 /\ \A j \in 1..N : i + j - 1 \in 1..Len(l)
  BY <1>0
<1>4. \A j \in 1..N : l[i + j - 1].addr \in Addr
  BY <1>3, WhenInt
<1>5. DOMAIN c = 1..N /\ \A j \in 1..N : c[j] = l[i + j - 1].addr
  OBVIOUS
<1>6. c \in Seq(Addr) /\ c # <<>>
  <2>1. c \in Seq(Addr) /\ Len(c) = N
    <3> HIDE DEF N
    <3> QED
      BY <1>3, <1>4
  <2> HIDE DEF c, N
  <2> QED
    BY <1>3, <2>1
<1>7. \A j, k \in 1..Len(l) : l[j].addr = l[k].addr => j = k
  BY <1>0 DEF Distinct
<1> HIDE DEF m, c, N
<1>8. Distinct(m)
  <2> SUFFICES ASSUME NEW j \in 1..(i - 1), NEW k \in 1..(i - 1), m[j].addr = m[k].addr
               PROVE  j = k
    BY <1>2 DEF Distinct
  <2>1. j \in 1..Len(l) /\ k \in 1..Len(l) /\ l[j].addr = l[k].addr
    BY <1>0, <1>1
  <2> QED
    BY <1>7, <2>1
<1>9. \A j, k \in DOMAIN c : c[j] = c[k] => j = k
  <2> SUFFICES ASSUME NEW j \in 1..N, NEW k \in 1..N, c[j] = c[k]
               PROVE  j = k
    BY <1>5
  <2>1. i + j - 1 = i + k - 1
    BY <1>3, <1>5, <1>7, ZenonT(60)
  <2> QED
    BY <1>0, <2>1
<1>10. Addrs(m) = {l[j].addr : j \in 1..(i - 1)}
  BY <1>1, <1>2 DEF Addrs
<1>11. C = {l[j].addr : j \in i..Len(l)}
  <2>1. ASSUME NEW x \in C PROVE x \in {l[j].addr : j \in i..Len(l)}
    <3>1. PICK j \in 1..N : x = l[i + j - 1].addr
      BY <1>5
    <3>2. i + j - 1 \in i..Len(l)
      BY <1>0, <1>3, <3>1
    <3> QED
      BY <3>1, <3>2
  <2>2. ASSUME NEW j \in i..Len(l) PROVE l[j].addr \in C
    <3>1. j - i + 1 \in 1..N /\ i + (j - i + 1) - 1 = j
      BY <1>0 DEF N
    <3>2. c[j - i + 1] = l[j].addr
      BY <1>5, <3>1
    <3> QED
      BY <1>5, <3>1, <3>2
  <2> QED
    BY <2>1, <2>2
<1>12. Addrs(l) = {l[j].addr : j \in 1..Len(l)}
  BY <1>0 DEF Addrs
<1>13. \A j \in 1..(i - 1), k \in i..Len(l) : l[j].addr # l[k].addr
  <2> SUFFICES ASSUME NEW j \in 1..(i - 1), NEW k \in i..Len(l), l[j].addr = l[k].addr
               PROVE  FALSE
    OBVIOUS
  <2>1. j \in 1..Len(l) /\ k \in 1..Len(l) /\ j # k
    BY <1>0
  <2> QED
    BY <1>7, <2>1
<1>14. Addrs(m) \cap C = {}
  BY <1>10, <1>11, <1>13
<1>15. Addrs(m) \cup C = Addrs(l)
  <2>1. 1..Len(l) = (1..(i - 1)) \cup (i..Len(l))
    BY <1>0
  <2> QED
    BY <1>10, <1>11, <1>12, <2>1
<1> QED
  BY <1>1, <1>6, <1>8, <1>9, <1>14, <1>15 DEF m, c, N

\* dispose_old_timeouts() leaves tlist alone.
LEMMA DisposeOldInv ==
  ASSUME Inv, DisposeOld
  PROVE  Inv' /\ UNCHANGED tlist
<1> USE TimeoutAssumption
<1>0. /\ expire_list \in Seq(Timeout) /\ Distinct(expire_list)
      /\ pc = "old" /\ node = Null /\ chain = <<>> /\ cb = NoCall
      /\ UNCHANGED <<hz_200, tlist, used, req, node, at, cb, held, dead>>
  <2>1. pc = "old" /\ UNCHANGED <<hz_200, tlist, used, req, node, at, cb, held, dead>>
    BY DEF DisposeOld
  <2>2. node = Null /\ chain = <<>> /\ cb = NoCall
    BY <2>1 DEF Inv, Stages
  <2> QED
    BY <2>1, <2>2 DEF Inv, TypeOK, PoolOK
<1>00. InHand = {} /\ InChain = {} /\ InHand' = {}
  <2>1. node = Null /\ chain = <<>> /\ node' = Null
    BY <1>0
  <2> QED
    BY <2>1 DEF InHand, InChain
<1>1. CASE \E i \in DOMAIN expire_list :
             /\ expire_list' = SubSeq(expire_list, 1, i - 1)
             /\ chain' = [j \in 1..(Len(expire_list) - i + 1) |-> expire_list[i + j - 1].addr]
             /\ pc' = "dispose"
  <2>0. DOMAIN expire_list = 1..Len(expire_list)
    BY <1>0, SeqDomain
  <2>1. PICK i \in 1..Len(expire_list) :
             /\ expire_list' = SubSeq(expire_list, 1, i - 1)
             /\ chain' = [j \in 1..(Len(expire_list) - i + 1) |-> expire_list[i + j - 1].addr]
             /\ pc' = "dispose"
    BY <1>1, <2>0
  <2>2. /\ expire_list' \in Seq(Timeout) /\ Distinct(expire_list')
        /\ chain' \in Seq(Addr) /\ chain' # <<>>
        /\ \A j, k \in DOMAIN chain' : chain'[j] = chain'[k] => j = k
        /\ Addrs(expire_list') \cap InChain' = {}
        /\ Addrs(expire_list') \cup InChain' = Addrs(expire_list)
    <3> DEFINE c == [j \in 1..(Len(expire_list) - i + 1) |-> expire_list[i + j - 1].addr]
               m == SubSeq(expire_list, 1, i - 1)
    <3>1. /\ m \in Seq(Timeout) /\ Distinct(m)
          /\ c \in Seq(Addr) /\ c # <<>>
          /\ \A j, k \in DOMAIN c : c[j] = c[k] => j = k
          /\ Addrs(m) \cap {c[j] : j \in DOMAIN c} = {}
          /\ Addrs(m) \cup {c[j] : j \in DOMAIN c} = Addrs(expire_list)
      BY <1>0, <2>1, CutLemma
    <3>2. expire_list' = m /\ chain' = c
      BY <2>1
    <3>3. InChain' = {chain'[j] : j \in DOMAIN chain'}
      BY DEF InChain
    <3> HIDE DEF c, m
    <3> QED
      BY <3>1, <3>2, <3>3
  <2>3. TypeOK'
    BY <1>0, <2>1, <2>2 DEF Inv, TypeOK, Places
  <2>4. PoolOK'
    BY <1>0, <1>00, <2>2 DEF Inv, PoolOK
  <2>5. Stages'
    <3>1. /\ node' = Null /\ cb' = NoCall /\ pc' = "dispose" /\ chain' # <<>>
          /\ at' = Null
      BY <1>0, <2>1, <2>2 DEF Inv, Stages
    <3> QED
      BY <3>1 DEF Stages
  <2>6. TimesOK' /\ DeadHaveNone' /\ Living' /\ Walk'
    BY <1>0, <2>1 DEF Inv, TimesOK, DeadHaveNone, Living, Walk
  <2> QED
    BY <1>0, <2>3, <2>4, <2>5, <2>6 DEF Inv
<1>2. CASE pc' = "run" /\ UNCHANGED <<expire_list, chain>>
  <2>1. InChain' = InChain
    BY <1>2 DEF InChain
  <2>2. TypeOK'
    BY <1>0, <1>2 DEF Inv, TypeOK, Places
  <2>3. PoolOK'
    BY <1>0, <1>00, <1>2, <2>1 DEF Inv, PoolOK
  <2>4. Stages'
    <3>1. /\ node' = Null /\ cb' = NoCall /\ pc' = "run" /\ chain' = <<>>
          /\ at' = Null
      BY <1>0, <1>2 DEF Inv, Stages
    <3> QED
      BY <3>1 DEF Stages
  <2>5. TimesOK' /\ DeadHaveNone' /\ Living' /\ Walk'
    BY <1>0, <1>2 DEF Inv, TimesOK, DeadHaveNone, Living, Walk
  <2> QED
    BY <1>0, <2>2, <2>3, <2>4, <2>5 DEF Inv
<1> QED
  BY <1>1, <1>2 DEF DisposeOld

-----------------------------------------------------------------------------
(* The theorems.                                                             *)

\* Every step of the kernel and of an interrupt keeps the invariant.
LEMMA NextInv ==
  ASSUME Inv, [Next]_vars, ~AssertFails
  PROVE  Inv'
<1>1. \A u \in Uses : u[1] \in Proc /\ u[2] \in Func /\ u[3] \in Int
  BY TimeoutAssumption
<1>2. CASE UNCHANGED vars
  BY <1>2, StutterInv
<1>3. CASE Tick
  BY <1>3, TickInv
<1>4. CASE \E u \in Uses : IntAddroottimeout(u[1], u[2], u[3]) \/ Addtimeout(u[1], u[2], u[3])
  BY <1>1, <1>4, IntAddInv, AddtimeoutInv
<1>5. CASE Newtimeout \/ Inserttimeout \/ Disposetimeout
  BY <1>5, NewtimeoutInv, InserttimeoutInv, DisposetimeoutInv
<1>6. CASE \E p \in Proc, f \in Func : Canceltimeout(p, f)
  BY <1>6, CanceltimeoutInv
<1>7. CASE \E p \in Proc : Cancelalltimeouts(p) \/ Fork(p)
  BY <1>7, StartInv, ForkInv
<1>8. CASE CancelTlist \/ CancelExpired
  BY <1>8, CancelTlistInv, CancelExpiredInv
<1>9. CASE Checkalarms \/ CallbackReturns \/ AlarmsDone
  BY <1>9, StartInv
<1>10. CASE Expire \/ DisposeOld
  BY <1>10, ExpireInv, DisposeOldInv
<1> QED
  BY <1>2, <1>3, <1>4, <1>5, <1>6, <1>7, <1>8, <1>9, <1>10 DEF Next

\* The assertion fails on an empty list.
LEMMA FailsStop ==
  ASSUME Inv, AssertFails
  PROVE  Stopped' /\ tlist = <<>>
<1> USE TimeoutAssumption
<1>1. /\ tlist \in Seq(Timeout) /\ hz_200 \in Int /\ Times(tlist, hz_200) /\ req.delta \in Int
  BY DEF Inv, TypeOK, TimesOK, Request
<1>2. PICK d \in Inserted : Fails(d)
  BY DEF AssertFails
<1>3. d = req.delta \/ \E u \in Handlers : d = u[3]
  BY <1>2 DEF Inserted
<1>4. d \in Int
  BY <1>1, <1>3 DEF Handlers
<1>5. StopsAt(tlist, d, Len(tlist) + 1) /\ Left(tlist, d)[Len(tlist)] < 0
  <2>1. PICK k \in 1..(Len(tlist) + 1) :
          StopsAt(tlist, d, k) /\ k = Len(tlist) + 1 /\ Left(tlist, d)[k - 1] < 0
    BY <1>2 DEF Fails
  <2>2. Len(tlist) \in Nat /\ k - 1 = Len(tlist)
    BY <1>1, <2>1
  <2> QED
    BY <2>1, <2>2
<1>6. tlist = <<>> /\ d < 0
  BY <1>1, <1>4, <1>5, FailsLast
<1>7. /\ UNCHANGED <<hz_200, tlist, expire_list, used, req, node, chain, at, cb, held, dead>>
      /\ pc' = "fatal"
  BY DEF AssertFails, lists
<1>8. TypeOK' /\ PoolOK' /\ DeadHaveNone'
  <2>1. TypeOK'
    BY <1>7 DEF Inv, TypeOK, Places
  <2>2. PoolOK'
    BY <1>7 DEF Inv, PoolOK, InHand, InChain
  <2>3. DeadHaveNone'
    BY <1>7 DEF Inv, DeadHaveNone
  <2> QED
    BY <2>1, <2>2, <2>3
<1>9. FatalOnlyIfNegative'
  BY <1>3, <1>6, <1>7 DEF FatalOnlyIfNegative
<1> QED
  BY <1>6, <1>7, <1>8, <1>9 DEF Stopped

\* Then nothing happens any more.
LEMMA StoppedStays ==
  ASSUME Stopped, [Next]_vars
  PROVE  UNCHANGED vars
<1>1. pc = "fatal"
  BY DEF Stopped
<1> QED
  BY <1>1 DEF Next, Tick, IntAddroottimeout, Addtimeout, Kernel, Newtimeout, Inserttimeout, AssertFails,
              Canceltimeout, Disposetimeout, Cancelalltimeouts, Fork, CancelTlist, CancelExpired,
              Checkalarms, Expire, CallbackReturns, AlarmsDone, DisposeOld

LEMMA StoppedStutter ==
  ASSUME Stopped, UNCHANGED vars
  PROVE  Stopped'
  BY DEF Stopped, vars, TypeOK, PoolOK, DeadHaveNone, FatalOnlyIfNegative, InHand, InChain

\* The machine runs and the invariant holds, or it has stopped at the assertion.
Sound == Inv \/ Stopped

LEMMA Invariant == Spec => []Sound
<1>1. Init => Sound
  BY InitInv DEF Sound
<1>2. Sound /\ [Next]_vars => Sound'
  BY NextInv, FailsStop, StoppedStays, StoppedStutter DEF Sound
<1> QED
  BY <1>1, <1>2, PTL DEF Spec

\* The variables keep their types through every call and interrupt of timeout.c.
THEOREM TypeCorrect == Spec => []TypeOK
<1>1. Sound => TypeOK
  BY DEF Sound, Inv, Stopped
<1> QED
  BY <1>1, Invariant, PTL

\* newtimeout() and disposetimeout() never lose a structure or hand it out twice,
\* wherever interrupts come.
THEOREM PoolCorrect == Spec => []PoolOK
<1>1. Sound => PoolOK
  BY DEF Sound, Inv, Stopped
<1> QED
  BY <1>1, Invariant, PTL

\* The differences of inserttimeout() and __canceltimeout() add up to the times
\* that were asked for.
THEOREM DeltasCorrect == Spec => []DeltasRight
<1>1. ASSUME Inv PROVE DeltasRight
  <2>1. tlist \in Seq(Timeout) /\ hz_200 \in Int /\ Times(tlist, hz_200)
    BY <1>1, TimeoutAssumption DEF Inv, TypeOK, TimesOK
  <2>2. \A k \in 1..Len(tlist) : Left(tlist, 0)[k] = 0 + hz_200 - tlist[k].due
    BY <2>1, LeftIsDue
  <2>3. \A k \in 1..Len(tlist) : tlist[k].due \in Int
    BY <2>1, WhenInt
  <2>4. DOMAIN tlist = 1..Len(tlist)
    BY <2>1, SeqDomain
  <2> QED
    BY <2>1, <2>2, <2>3, <2>4 DEF DeltasRight
<1>2. ASSUME Stopped PROVE DeltasRight
  BY <1>2 DEF Stopped, FatalOnlyIfNegative, DeltasRight
<1>3. Sound => DeltasRight
  BY <1>1, <1>2 DEF Sound
<1> QED
  BY <1>3, Invariant, PTL

\* The assertion of inserttimeout() fails in no other case than a negative time that
\* finds the list empty, whatever is overdue, cancelled or inserted by interrupts.
THEOREM AssertFailsRightly == Spec => []FatalOnlyIfNegative
<1>1. Inv => FatalOnlyIfNegative
  BY DEF Inv, Stages, FatalOnlyIfNegative
<1>2. Sound => FatalOnlyIfNegative
  BY <1>1 DEF Sound, Stopped
<1> QED
  BY <1>2, Invariant, PTL

\* A process that went through cancelalltimeouts() has no pending timeout, although
\* interrupts change the lists during the walk.
THEOREM DeadSafe == Spec => []DeadHaveNone
<1>1. Sound => DeadHaveNone
  BY DEF Sound, Inv, Stopped
<1> QED
  BY <1>1, Invariant, PTL

-----------------------------------------------------------------------------
(* The list of differences implements Alarm.                                 *)

\* The time in the request of an addtimeout() under way is one that was asked for.
AskedFor == pc \in {"alloc", "insert"} => \E u \in Uses : req.delta = u[3]

\* Only addtimeout() changes the request.
LEMMA AskedForInv ==
  ASSUME Inv, AskedFor, [Next]_vars
  PROVE  AskedFor'
<1>1. CASE \E u \in Uses : Addtimeout(u[1], u[2], u[3])
  <2>1. PICK u \in Uses : Addtimeout(u[1], u[2], u[3])
    BY <1>1
  <2>2. req'.delta = u[3]
    BY <2>1 DEF Addtimeout
  <2> QED
    BY <2>1, <2>2 DEF AskedFor
<1>2. CASE \E u \in Uses : IntAddroottimeout(u[1], u[2], u[3])
  <2>1. UNCHANGED req /\ pc' = pc
    BY <1>2 DEF IntAddroottimeout, Insert
  <2> QED
    BY <2>1 DEF AskedFor
<1>3. CASE Tick \/ UNCHANGED vars \/ Newtimeout \/ \E p \in Proc : Fork(p)
  BY <1>3 DEF Tick, vars, Newtimeout, Fork, AskedFor, Back
<1>4. CASE Inserttimeout \/ AssertFails
  BY <1>4 DEF Inserttimeout, Insert, AssertFails, AskedFor, Back
<1>5. CASE Disposetimeout
  <2>1. pc' \notin {"alloc", "insert"}
    BY <1>5 DEF Disposetimeout, Back
  <2> QED
    BY <2>1 DEF AskedFor
<1>6. CASE \E p \in Proc, f \in Func : Canceltimeout(p, f)
  <2>1. pc' \notin {"alloc", "insert"}
    BY <1>6 DEF Canceltimeout, Kernel
  <2> QED
    BY <2>1 DEF AskedFor
<1>7. CASE \/ \E p \in Proc : Cancelalltimeouts(p)
           \/ CancelTlist \/ CancelExpired
           \/ Checkalarms \/ Expire \/ CallbackReturns \/ AlarmsDone \/ DisposeOld
  <2>1. pc' \notin {"alloc", "insert"}
    BY <1>7 DEF Cancelalltimeouts, CancelTlist, CancelExpired, Checkalarms, Expire,
                CallbackReturns, AlarmsDone, DisposeOld
  <2> QED
    BY <2>1 DEF AskedFor
<1> QED
  BY <1>1, <1>2, <1>3, <1>4, <1>5, <1>6, <1>7 DEF Next

\* The abstract requests are those on the list.
MapsTo == Pending = Asked(tlist)

\* The refinement mapping reads the absolute times off the list.
LEMMA PendingIsAsked ==
  ASSUME Inv
  PROVE  MapsTo
<1>1. tlist \in Seq(Timeout) /\ hz_200 \in Int /\ Times(tlist, hz_200)
  BY TimeoutAssumption DEF Inv, TypeOK, TimesOK
<1>2. \A k \in 1..Len(tlist) : Left(tlist, 0)[k] = 0 + hz_200 - tlist[k].due
  BY <1>1, LeftIsDue
<1>3. \A k \in 1..Len(tlist) : tlist[k].due \in Int
  BY <1>1, WhenInt
<1>4. DOMAIN tlist = 1..Len(tlist)
  BY <1>1, SeqDomain
<1>5. \A k \in DOMAIN tlist : hz_200 - Left(tlist, 0)[k] = tlist[k].due
  BY <1>1, <1>2, <1>3, <1>4
<1> QED
  BY <1>5 DEF Pending, Asked, MapsTo

\* A request on the list is one of the abstract ones.
LEMMA AskedAddr ==
  ASSUME Inv, NEW q \in Asked(tlist)
  PROVE  q.addr \in Addrs(tlist) /\ \E i \in 1..Len(tlist) : q.due = tlist[i].due
<1>1. tlist \in Seq(Timeout)
  BY DEF Inv, TypeOK
<1>2. DOMAIN tlist = 1..Len(tlist)
  BY <1>1, SeqDomain
<1> QED
  BY <1>2 DEF Asked, Addrs

\* The end of checkalarms(): the head is not due, so nothing is.
LEMMA NothingDue ==
  ASSUME Inv, AlarmsDone, NEW q \in Asked(tlist)
  PROVE  q.due > hz_200
<1>1. tlist \in Seq(Timeout) /\ hz_200 \in Int /\ Times(tlist, hz_200)
  BY TimeoutAssumption DEF Inv, TypeOK, TimesOK
<1>2. PICK i \in 1..Len(tlist) : q.due = tlist[i].due
  BY AskedAddr
<1>3. tlist # <<>> /\ 1 \in 1..Len(tlist)
  BY <1>1, <1>2
<1>4. Head(tlist) = tlist[1] /\ tlist[1].when > 0
  <2>1. Head(tlist) = tlist[1]
    BY <1>1, <1>3
  <2> QED
    BY <1>3, <2>1 DEF AlarmsDone
<1>5. tlist[1].when = tlist[1].due - hz_200 /\ tlist[1].due <= tlist[i].due
  BY <1>2, <1>3 , <1>1 DEF Times
<1>6. tlist[1].due \in Int /\ tlist[i].due \in Int
  BY <1>1, <1>2, <1>3, WhenInt
<1> QED
  BY <1>1, <1>2, <1>4, <1>5, <1>6

\* Every step is a step of Alarm or leaves its variables alone.
LEMMA StepRefines ==
  ASSUME Inv, MapsTo, MapsTo', AskedFor, [Next]_vars
  PROVE  [A!AlarmNext]_(A!alarmVars)
<1> USE TimeoutAssumption
<1> DEFINE checking == pc = "alarms" \/ cb # NoCall
           Deltas == {u[3] : u \in Uses}
<1>1. Pending = Asked(tlist) /\ Pending' = Asked(tlist')
  BY DEF MapsTo, Asked
<1>2. \A u \in Uses : u[1] \in Proc /\ u[2] \in Func /\ u[3] \in Int
  OBVIOUS
<1>3. /\ cb # NoCall => pc \in {"callback", "alloc", "insert", "dispose"}
      /\ pc = "callback" => cb # NoCall
  BY DEF Inv, Stages
<1>4. ASSUME hz_200' = hz_200, cb' = cb, checking' = checking, Asked(tlist') = Asked(tlist)
      PROVE  [A!AlarmNext]_(A!alarmVars)
  BY <1>1, <1>4 DEF A!alarmVars
<1>5. ASSUME hz_200' = hz_200, cb' = cb, checking' = checking,
             NEW q \in Asked(tlist), Asked(tlist') = Asked(tlist) \ {q}
      PROVE  [A!AlarmNext]_(A!alarmVars)
  <2>1. q \in Pending /\ A!Cancel(q)
    BY <1>1, <1>5 DEF A!Cancel
  <2> QED
    BY <2>1 DEF A!AlarmNext
<1>6. ASSUME hz_200' = hz_200, cb' = cb, checking' = checking,
             NEW a \in Addr, NEW p \in Proc, NEW f \in Func, NEW d \in Deltas,
             a \notin Addrs(tlist),
             Asked(tlist') = Asked(tlist) \cup {[addr |-> a, proc |-> p, func |-> f, due |-> hz_200 + d]}
      PROVE  [A!AlarmNext]_(A!alarmVars)
  <2>1. \A q \in Pending : q.addr # a
    BY <1>1, <1>6, AskedAddr
  <2>2. A!Install(a, p, f, d)
    BY <1>1, <1>6, <2>1 DEF A!Install
  <2> QED
    BY <2>2 DEF A!AlarmNext
<1>7. CASE UNCHANGED vars
  BY <1>4, <1>7 DEF vars
<1>8. CASE Tick
  <2>1. Asked(tlist') = Asked(tlist)
    BY <1>8, TickInv
  <2>2. A!Advance
    BY <1>1, <1>8, <2>1 DEF A!Advance, Tick
  <2> QED
    BY <2>2 DEF A!AlarmNext
<1>9. CASE \E u \in Uses : IntAddroottimeout(u[1], u[2], u[3])
  <2>1. PICK u \in Uses : IntAddroottimeout(u[1], u[2], u[3])
    BY <1>9
  <2>2. u[1] \in Proc /\ u[2] \in Func /\ u[3] \in Int /\ u[3] \in Deltas
    BY <1>2, <2>1
  <2>3. Inv' /\ \E a \in Addr :
           /\ a \notin Addrs(tlist)
           /\ Asked(tlist') = Asked(tlist) \cup
                {[addr |-> a, proc |-> u[1], func |-> u[2], due |-> hz_200 + u[3]]}
    BY <2>1, <2>2, IntAddInv
  <2>4. hz_200' = hz_200 /\ cb' = cb /\ pc' = pc
    BY <2>1 DEF IntAddroottimeout, Insert
  <2>5. checking' = checking
    BY <2>4
  <2> QED
    BY <1>6, <2>2, <2>3, <2>4, <2>5
<1>10. CASE \E u \in Uses : Addtimeout(u[1], u[2], u[3])
  <2>1. /\ hz_200' = hz_200 /\ cb' = cb /\ tlist' = tlist
        /\ pc \in {"run", "callback"} /\ pc' \in {"insert", "alloc"}
    BY <1>10 DEF Addtimeout, Kernel
  <2> QED
    BY <1>4, <2>1
<1>11. CASE Newtimeout
  <2>1. /\ hz_200' = hz_200 /\ cb' = cb /\ tlist' = tlist
        /\ pc = "alloc" /\ pc' \in {"insert", "run", "callback"}
    BY <1>11 DEF Newtimeout, Back
  <2> QED
    BY <1>4, <2>1
<1>12. CASE Inserttimeout
  <2>1. /\ Inv' /\ node \in Addr /\ node \notin Addrs(tlist)
        /\ Asked(tlist') = Asked(tlist) \cup {[addr |-> node, proc |-> req.proc,
                               func |-> req.func, due |-> hz_200 + req.delta]}
    BY <1>12, InserttimeoutInv
  <2>2. req.proc \in Proc /\ req.func \in Func
    BY DEF Inv, TypeOK, Request
  <2>3. pc = "insert" /\ hz_200' = hz_200 /\ cb' = cb /\ pc' # "alarms"
    BY <1>12 DEF Inserttimeout, Insert, Back
  <2>4. req.delta \in Deltas
    BY <2>3 DEF AskedFor
  <2> QED
    BY <1>6, <2>1, <2>2, <2>3, <2>4
<1>13. CASE \E p \in Proc, f \in Func : Canceltimeout(p, f)
  <2>1. PICK p \in Proc, f \in Func : Canceltimeout(p, f)
    BY <1>13
  <2>2. hz_200' = hz_200 /\ cb' = cb /\ pc # "alarms" /\ pc' # "alarms"
    BY <2>1 DEF Canceltimeout, Kernel
  <2>3. \/ Asked(tlist') = Asked(tlist)
        \/ \E q \in Asked(tlist) : Asked(tlist') = Asked(tlist) \ {q}
    BY <2>1, CanceltimeoutInv
  <2> QED
    BY <1>4, <1>5, <2>2, <2>3
<1>14. CASE CancelTlist
  <2>2. hz_200' = hz_200 /\ cb' = cb /\ pc # "alarms" /\ pc' # "alarms"
    BY <1>14 DEF CancelTlist
  <2>3. \/ Asked(tlist') = Asked(tlist)
        \/ \E q \in Asked(tlist) : Asked(tlist') = Asked(tlist) \ {q}
    BY <1>14, CancelTlistInv
  <2> QED
    BY <1>4, <1>5, <2>2, <2>3
<1>15. CASE CancelExpired \/ DisposeOld
  <2>1. tlist' = tlist
    BY <1>15, CancelExpiredInv, DisposeOldInv
  <2>2. hz_200' = hz_200 /\ cb' = cb /\ pc # "alarms" /\ pc' # "alarms"
    BY <1>15 DEF CancelExpired, DisposeOld
  <2> QED
    BY <1>4, <2>1, <2>2
<1>16. CASE Disposetimeout
  <2>1. tlist' = tlist /\ hz_200' = hz_200 /\ cb' = cb /\ pc # "alarms"
    BY <1>16 DEF Disposetimeout, lists
  <2>2. pc' # "alarms"
    BY <1>16 DEF Disposetimeout, Back
  <2> QED
    BY <1>4, <2>1, <2>2
<1>17. CASE \E p \in Proc : Cancelalltimeouts(p) \/ Fork(p)
  <2>1. tlist' = tlist /\ hz_200' = hz_200 /\ cb' = cb /\ pc # "alarms" /\ pc' # "alarms"
    BY <1>17 DEF Cancelalltimeouts, Fork, lists
  <2> QED
    BY <1>4, <2>1
<1>18. CASE Checkalarms
  <2>1. /\ tlist' = tlist /\ hz_200' = hz_200 /\ cb' = cb /\ pc = "run" /\ pc' = "alarms"
    BY <1>18 DEF Checkalarms, lists
  <2>2. A!Check
    BY <1>1, <1>3, <2>1 DEF A!Check
  <2> QED
    BY <2>2 DEF A!AlarmNext
<1>19. CASE Expire
  <2>1. /\ pc = "alarms" /\ cb = NoCall /\ cb' # NoCall
        /\ cb' \in Asked(tlist) /\ Asked(tlist') = Asked(tlist) \ {cb'}
        /\ cb'.due <= hz_200
        /\ \A q \in Asked(tlist) : cb'.due <= q.due
    BY <1>19, ExpireInv
  <2>2. hz_200' = hz_200
    BY <1>19 DEF Expire
  <2>3. cb' \in Pending /\ A!Fire(cb')
    BY <1>1, <2>1, <2>2 DEF A!Fire
  <2> QED
    BY <2>3 DEF A!AlarmNext
<1>20. CASE CallbackReturns
  <2>1. /\ tlist' = tlist /\ hz_200' = hz_200 /\ cb' = NoCall /\ pc = "callback" /\ pc' = "alarms"
    BY <1>20 DEF CallbackReturns, lists
  <2>2. A!Return
    BY <1>1, <1>3, <2>1 DEF A!Return
  <2> QED
    BY <2>2 DEF A!AlarmNext
<1>21. CASE AlarmsDone
  <2>1. /\ tlist' = tlist /\ hz_200' = hz_200 /\ cb' = cb /\ pc = "alarms" /\ pc' = "old"
    BY <1>21 DEF AlarmsDone, lists
  <2>2. \A q \in Pending : q.due > hz_200
    BY <1>1, <1>21, NothingDue
  <2>3. A!Done
    BY <1>1, <1>3, <2>1, <2>2 DEF A!Done
  <2> QED
    BY <2>3 DEF A!AlarmNext
<1>22. CASE AssertFails
  <2>1. tlist' = tlist /\ hz_200' = hz_200 /\ cb' = cb /\ pc' = "fatal" /\ tlist = <<>>
    BY <1>22, FailsStop DEF AssertFails, lists
  <2>2. CASE pc = "alarms"
    <3>1. Pending = {} /\ Pending' = {}
      BY <1>1, <2>1 DEF Asked
    <3>2. A!Done
      BY <1>3, <2>1, <2>2, <3>1 DEF A!Done
    <3> QED
      BY <3>2 DEF A!AlarmNext
  <2>3. CASE pc # "alarms"
    BY <1>4, <2>1, <2>3
  <2> QED
    BY <2>2, <2>3
<1> QED
  BY <1>7, <1>8, <1>9, <1>10, <1>11, <1>12, <1>13, <1>14, <1>15, <1>16, <1>17, <1>18,
     <1>19, <1>20, <1>21, <1>22 DEF Next

\* timeout.c implements Alarm: a function is called once, not before its time, not
\* before one that is due earlier and not after it was cancelled, and
\* checkalarms() leaves nothing behind that is due.
THEOREM Refinement == Spec => KeepsTime
<1>1. Init => A!AlarmInit
  <2> SUFFICES ASSUME Init PROVE A!AlarmInit
    OBVIOUS
  <2>1. tlist = <<>> /\ hz_200 = 0 /\ pc = "run" /\ cb = NoCall
    BY DEF Init
  <2>2. Pending = {}
    BY <2>1 DEF Pending
  <2> QED
    BY <2>1, <2>2 DEF A!AlarmInit
<1>2. Init => AskedFor
  BY DEF Init, AskedFor
<1>3. Sound /\ AskedFor /\ [Next]_vars => AskedFor'
  <2>1. Stopped /\ UNCHANGED vars => AskedFor'
    BY DEF Stopped, vars, AskedFor
  <2> QED
    BY <2>1, AskedForInv, StoppedStays DEF Sound
<1>4. Sound => MapsTo
  <2>1. Stopped => MapsTo
    BY DEF Stopped, FatalOnlyIfNegative, MapsTo, Pending, Asked
  <2> QED
    BY <2>1, PendingIsAsked DEF Sound
<1>5. Sound /\ MapsTo /\ MapsTo' /\ AskedFor /\ [Next]_vars => [A!AlarmNext]_(A!alarmVars)
  <2>1. UNCHANGED vars => [A!AlarmNext]_(A!alarmVars)
    BY DEF vars, Pending, A!alarmVars
  <2> QED
    BY <2>1, StepRefines, StoppedStays DEF Sound
<1>6. Spec => []Sound
  BY Invariant
<1> QED
  BY <1>1, <1>2, <1>3, <1>4, <1>5, <1>6, PTL DEF Spec, KeepsTime, A!AlarmSpec

-----------------------------------------------------------------------------
(* The pointers of callers.                                                  *)

\* The list l holds the structure a, for process p and function f.
On(l, a, p, f) == \E i \in DOMAIN l : l[i].addr = a /\ l[i].proc = p /\ l[i].func = f

\* So does what it asks for.
LEMMA OnAsked ==
  ASSUME NEW l, NEW a, NEW p, NEW f
  PROVE  On(l, a, p, f) <=> \E q \in Asked(l) : q.addr = a /\ q.proc = p /\ q.func = f
<1>1. ASSUME NEW i \in DOMAIN l, l[i].addr = a, l[i].proc = p, l[i].func = f
      PROVE  \E q \in Asked(l) : q.addr = a /\ q.proc = p /\ q.func = f
  <2> PICK r : r = [addr |-> l[i].addr, proc |-> l[i].proc, func |-> l[i].func, due |-> l[i].due]
    OBVIOUS
  <2>1. r \in Asked(l)
    BY DEF Asked
  <2> QED
    BY <1>1, <2>1
<1>2. ASSUME NEW q \in Asked(l), q.addr = a, q.proc = p, q.func = f
      PROVE  On(l, a, p, f)
  <2>1. PICK i \in DOMAIN l : q = [addr |-> l[i].addr, proc |-> l[i].proc, func |-> l[i].func,
                                   due |-> l[i].due]
    BY <1>2 DEF Asked
  <2> QED
    BY <1>2, <2>1 DEF On
<1> QED
  BY <1>1, <1>2 DEF On

\* A structure is on a list once.
LEMMA OnOnce ==
  ASSUME NEW l \in Seq(Timeout), Distinct(l), NEW k \in DOMAIN l, NEW p, NEW f,
         On(l, l[k].addr, p, f)
  PROVE  l[k].proc = p /\ l[k].func = f
  BY DEF On, Distinct

\* One of another process is a different one.
LEMMA OnOther ==
  ASSUME NEW l \in Seq(Timeout), Distinct(l), NEW k \in DOMAIN l, NEW a, NEW p, NEW f,
         On(l, a, p, f), l[k].proc # p
  PROVE  a # l[k].addr
  BY DEF On, Distinct

LEMMA OnRemoveAt ==
  ASSUME NEW l \in Seq(Timeout), Distinct(l), NEW k \in DOMAIN l, NEW a, NEW p, NEW f,
         On(l, a, p, f), a # l[k].addr
  PROVE  On(RemoveAt(l, k), a, p, f)
<1> PICK m : m = RemoveAt(l, k)
  OBVIOUS
<1>1. DOMAIN l = 1..Len(l) /\ Len(l) \in Nat
  BY SeqDomain
<1>2. /\ m \in Seq(Timeout) /\ Len(m) = Len(l) - 1
      /\ \A i \in 1..Len(m) : m[i] = l[IF i < k THEN i ELSE i + 1]
  BY <1>1, RemoveAtLemma, ZenonT(60)
<1>3. PICK j \in 1..Len(l) : l[j].addr = a /\ l[j].proc = p /\ l[j].func = f
  BY <1>1 DEF On
<1> PICK i : i = IF j < k THEN j ELSE j - 1
  OBVIOUS
<1>4. j # k
  BY <1>3
<1>5. i \in 1..Len(m) /\ (IF i < k THEN i ELSE i + 1) = j
  BY <1>1, <1>2, <1>4
<1>6. m[i] = l[j] /\ DOMAIN m = 1..Len(m)
  BY <1>2, <1>5, SeqDomain
<1> QED
  BY <1>3, <1>5, <1>6 DEF On

LEMMA OnUnlink ==
  ASSUME NEW l \in Seq(Timeout), Distinct(l), NEW k \in DOMAIN l, NEW a, NEW p, NEW f,
         On(l, a, p, f), a # l[k].addr
  PROVE  On(Unlink(l, k), a, p, f)
<1> PICK r : r = [addr |-> l[k].addr, proc |-> l[k].proc, func |-> l[k].func, due |-> l[k].due]
  OBVIOUS
<1>1. k \in 1..Len(l)
  BY SeqDomain
<1>2. Asked(Unlink(l, k)) = Asked(l) \ {r}
  BY <1>1, UnlinkAsked
<1>3. PICK q \in Asked(l) : q.addr = a /\ q.proc = p /\ q.func = f
  BY OnAsked
<1>4. q # r
  BY <1>3
<1> QED
  BY <1>2, <1>3, <1>4, OnAsked

\* The times on the list l fall, and none is beyond n.
Falling(l, n) ==
  /\ \A i, j \in DOMAIN l : i < j => l[i].when >= l[j].when
  /\ \A i \in DOMAIN l : l[i].when <= n

\* expire_list has the latest first, none of them kept longer than the grace time;
\* and cancelalltimeouts() is for a process that holds no pointer.
Grace ==
  /\ Falling(expire_list, hz_200 + Keep)
  /\ pc \in {"cancel tlist", "dispose tlist", "cancel expired", "dispose expired"}
       => \A f \in Func : held[req.proc][f] = Null

LEMMA FallingRemoveAt ==
  ASSUME NEW l \in Seq(Timeout), Distinct(l), NEW k \in DOMAIN l, NEW n, Falling(l, n)
  PROVE  Falling(RemoveAt(l, k), n)
<1> PICK m : m = RemoveAt(l, k)
  OBVIOUS
<1>1. DOMAIN l = 1..Len(l) /\ Len(l) \in Nat
  BY SeqDomain
<1>2. /\ m \in Seq(Timeout) /\ Len(m) = Len(l) - 1
      /\ \A i \in 1..Len(m) : m[i] = l[IF i < k THEN i ELSE i + 1]
  BY <1>1, RemoveAtLemma, ZenonT(60)
<1>3. DOMAIN m = 1..Len(m)
  BY <1>2, SeqDomain
<1>4. ASSUME NEW i \in DOMAIN m, NEW j \in DOMAIN m
      PROVE  (i < j => m[i].when >= m[j].when) /\ m[i].when <= n
  <2> PICK I : I = IF i < k THEN i ELSE i + 1
    OBVIOUS
  <2> PICK J : J = IF j < k THEN j ELSE j + 1
    OBVIOUS
  <2>1. I \in DOMAIN l /\ J \in DOMAIN l /\ (i < j => I < J)
    BY <1>1, <1>2, <1>3
  <2>2. m[i] = l[I] /\ m[j] = l[J]
    BY <1>2, <1>3
  <2> QED
    BY <2>1, <2>2 DEF Falling
<1> QED
  BY <1>4 DEF Falling

LEMMA FallingCons ==
  ASSUME NEW l \in Seq(Timeout), NEW n \in Int, Falling(l, n), NEW x \in Timeout, x.when = n
  PROVE  Falling(<<x>> \o l, n)
<1> PICK m : m = <<x>> \o l
  OBVIOUS
<1>1. /\ m \in Seq(Timeout) /\ Len(m) = Len(l) + 1 /\ m[1] = x /\ Len(l) \in Nat
      /\ DOMAIN l = 1..Len(l) /\ DOMAIN m = 1..(Len(l) + 1)
      /\ \A i \in DOMAIN m : i # 1 => i - 1 \in DOMAIN l /\ m[i] = l[i - 1]
  OBVIOUS
<1>2. \A i \in DOMAIN m : m[i].when <= n
  BY <1>1 DEF Falling
<1>3. ASSUME NEW i \in DOMAIN m, NEW j \in DOMAIN m, i < j PROVE m[i].when >= m[j].when
  <2>1. j # 1 /\ m[j].when \in Int
    BY <1>1, <1>3, WhenInt
  <2>2. CASE i = 1
    BY <1>1, <1>2, <2>1, <2>2
  <2>3. CASE i # 1
    <3>1. i - 1 < j - 1
      BY <1>1, <1>3
    <3> QED
      BY <1>1, <2>1, <2>3, <3>1 DEF Falling
  <2> QED
    BY <2>2, <2>3
<1> QED
  BY <1>2, <1>3 DEF Falling

LEMMA FallingLater ==
  ASSUME NEW l \in Seq(Timeout), NEW n \in Int, Falling(l, n)
  PROVE  Falling(l, n + 1)
<1>1. \A i \in DOMAIN l : l[i].when \in Int
  BY SeqDomain, WhenInt
<1> QED
  BY <1>1 DEF Falling

LEMMA InitGrace == Init => Grace
  BY DEF Init, Grace, Falling

\* The steps that change expire_list, the clock or the pointers.
LEMMA GraceStep ==
  ASSUME Inv, Grace, Next
  PROVE  Grace'
<1> USE TimeoutAssumption
<1>1. /\ expire_list \in Seq(Timeout) /\ Distinct(expire_list) /\ hz_200 \in Int
      /\ hz_200 + Keep \in Int /\ req \in Request
      /\ held \in [Proc -> [Func -> Addr \cup {Null}]] /\ Falling(expire_list, hz_200 + Keep)
  <2>1. /\ expire_list \in Seq(Timeout) /\ Distinct(expire_list) /\ hz_200 \in 0..MaxTime
        /\ req \in Request /\ held \in [Proc -> [Func -> Addr \cup {Null}]]
    BY DEF Inv, TypeOK, PoolOK
  <2>2. MaxTime \in Nat /\ Keep \in Nat
    OBVIOUS
  <2>3. hz_200 \in Int /\ hz_200 + Keep \in Int
    BY <2>1, <2>2
  <2>4. Falling(expire_list, hz_200 + Keep)
    BY DEF Grace
  <2> QED
    BY <2>1, <2>3, <2>4
<1> DEFINE Ending == {"cancel tlist", "dispose tlist", "cancel expired", "dispose expired"}
           List == Falling(expire_list', hz_200' + Keep)
           Bare == pc' \in Ending => \A f \in Func : held'[req'.proc][f] = Null
<1>2. ASSUME UNCHANGED <<expire_list, hz_200>> PROVE List
  BY <1>1, <1>2
<1>3. ASSUME pc \in Ending, UNCHANGED <<held, req>> PROVE Bare
  BY <1>3 DEF Grace
<1>4. ASSUME NEW i \in DOMAIN expire_list, expire_list' = RemoveAt(expire_list, i), UNCHANGED hz_200
      PROVE  List
  BY <1>1, <1>4, FallingRemoveAt
<1>5. List /\ Bare => Grace'
  BY DEF Grace
<1> HIDE DEF List, Bare
<1>6. CASE Tick
  <2>1. List
    <3>1. hz_200' + Keep = (hz_200 + Keep) + 1 /\ expire_list' = expire_list
      BY <1>1, <1>6 DEF Tick
    <3> QED
      BY <1>1, <3>1, FallingLater DEF List
  <2>2. Bare
    BY <1>6 DEF Tick, Grace, Bare
  <2> QED
    BY <1>5, <2>1, <2>2
<1>7. ASSUME NEW u \in Uses, IntAddroottimeout(u[1], u[2], u[3])
      PROVE  Grace'
  <2>1. List
    BY <1>2, <1>4, <1>7 DEF IntAddroottimeout, Reusable
  <2>2. UNCHANGED req /\ pc' = pc /\ \E a : held' = [held EXCEPT ![Root][u[2]] = a]
    BY <1>7 DEF IntAddroottimeout, Insert
  <2>3. ASSUME pc \in Ending PROVE \A f \in Func : held'[req.proc][f] = Null
    <3>1. req.proc # Root /\ req.proc \in Proc /\ \A f \in Func : held[req.proc][f] = Null
      BY <1>1, <2>3 DEF Inv, Walk, Request, Grace
    <3> QED
      BY <1>1, <2>2, <3>1
  <2>4. Bare
    BY <2>2, <2>3 DEF Bare
  <2> QED
    BY <1>5, <2>1, <2>4
<1>8. ASSUME NEW u \in Uses, Addtimeout(u[1], u[2], u[3])
      PROVE  Grace'
  <2>1. List
    BY <1>2, <1>4, <1>8 DEF Addtimeout, Reusable
  <2>2. Bare
    BY <1>8 DEF Addtimeout, Bare
  <2> QED
    BY <1>5, <2>1, <2>2
<1>9. CASE Newtimeout \/ Inserttimeout \/ AssertFails
  <2>1. pc' \notin Ending /\ UNCHANGED <<expire_list, hz_200>>
    BY <1>9 DEF Newtimeout, Inserttimeout, Insert, AssertFails, lists, Back
  <2> QED
    BY <1>2, <1>5, <2>1 DEF Bare
<1>10. ASSUME NEW p \in Proc, NEW f \in Func, Canceltimeout(p, f)
       PROVE  Grace'
  <2>1. List
    BY <1>2, <1>4, <1>10 DEF Canceltimeout, Named, lists
  <2>2. pc' \notin Ending
    BY <1>10 DEF Canceltimeout, Kernel
  <2> QED
    BY <1>5, <2>1, <2>2 DEF Bare
<1>11. CASE Disposetimeout
  <2>1. UNCHANGED <<expire_list, hz_200, held, req>> /\ (pc' \in Ending => pc \in Ending)
    BY <1>11 DEF Disposetimeout, lists, Back
  <2> QED
    BY <1>2, <1>3, <1>5, <2>1 DEF Bare
<1>12. ASSUME NEW p \in Proc, Cancelalltimeouts(p)
       PROVE  Grace'
  <2>1. UNCHANGED <<expire_list, hz_200>>
    BY <1>12 DEF Cancelalltimeouts, lists
  <2>2. req'.proc = p
    BY <1>1, <1>12 DEF Cancelalltimeouts, Request
  <2>3. \A f \in Func : held'[p][f] = Null
    BY <1>1, <1>12 DEF Cancelalltimeouts
  <2> QED
    BY <1>2, <1>5, <2>1, <2>2, <2>3 DEF Bare
<1>13. CASE Checkalarms \/ CallbackReturns \/ AlarmsDone \/ \E p \in Proc : Fork(p)
  <2>1. UNCHANGED <<expire_list, hz_200>> /\ pc' \notin Ending
    BY <1>13 DEF Checkalarms, CallbackReturns, AlarmsDone, Fork, lists
  <2> QED
    BY <1>2, <1>5, <2>1 DEF Bare
<1>14. CASE CancelTlist
  <2>1. UNCHANGED <<expire_list, hz_200, held, req>> /\ pc \in Ending
    BY <1>14 DEF CancelTlist
  <2> QED
    BY <1>2, <1>3, <1>5, <2>1
<1>15. CASE CancelExpired
  <2>1. /\ pc \in Ending /\ UNCHANGED <<held, hz_200>> /\ (pc' \in Ending => UNCHANGED req)
        /\ \/ UNCHANGED expire_list
           \/ \E i \in DOMAIN expire_list : expire_list' = RemoveAt(expire_list, i)
    BY <1>15 DEF CancelExpired, NextOwn, lists
  <2>2. List
    BY <1>2, <1>4, <2>1
  <2>3. Bare
    BY <1>3, <2>1 DEF Bare
  <2> QED
    BY <1>5, <2>2, <2>3
<1>16. CASE Expire
  <2> PICK x : x = [addr |-> Head(tlist).addr, proc |-> Head(tlist).proc, func |-> Head(tlist).func,
                    when |-> hz_200 + Keep, due |-> 0]
    OBVIOUS
  <2>1. expire_list' = <<x>> \o expire_list /\ hz_200' = hz_200 /\ pc' = "callback" /\ tlist # <<>>
    BY <1>16 DEF Expire
  <2>2. x \in Timeout
    <3>1. tlist \in Seq(Timeout)
      BY DEF Inv, TypeOK
    <3>2. Head(tlist) \in Timeout
      BY <2>1, <3>1
    <3> QED
      BY <1>1, <3>2 DEF Timeout
  <2>3. List
    BY <1>1, <2>1, <2>2, FallingCons DEF List
  <2> QED
    BY <1>5, <2>1, <2>3 DEF Bare
<1>17. CASE DisposeOld
  <2>1. /\ pc' \notin Ending /\ hz_200' = hz_200
        /\ \/ UNCHANGED expire_list
           \/ \E i \in DOMAIN expire_list : expire_list' = SubSeq(expire_list, 1, i - 1)
    BY <1>17 DEF DisposeOld
  <2>2. ASSUME NEW i \in DOMAIN expire_list, expire_list' = SubSeq(expire_list, 1, i - 1)
        PROVE  List
    <3>1. /\ DOMAIN expire_list' = 1..(i - 1) /\ DOMAIN expire_list = 1..Len(expire_list)
          /\ \A j \in 1..(i - 1) : j \in DOMAIN expire_list /\ expire_list'[j] = expire_list[j]
      BY <1>1, <2>2
    <3>2. \A j, k \in DOMAIN expire_list' : j < k => expire_list'[j].when >= expire_list'[k].when
      BY <1>1, <3>1 DEF Falling
    <3>3. \A j \in DOMAIN expire_list' : expire_list'[j].when <= hz_200' + Keep
      BY <1>1, <2>1, <3>1 DEF Falling
    <3> QED
      BY <3>2, <3>3 DEF List, Falling
  <2>3. List
    BY <1>2, <2>1, <2>2
  <2> QED
    BY <1>5, <2>1, <2>3 DEF Bare
<1> QED
  BY <1>6, <1>7, <1>8, <1>9, <1>10, <1>11, <1>12, <1>13, <1>14, <1>15, <1>16, <1>17 DEF Next

\* The structure a is pending, expired or in the hands of __addtimeout() for process
\* p and function f.
Kept(a, p, f) ==
  On(tlist, a, p, f) \/ On(expire_list, a, p, f) \/ (a = node /\ req.proc = p /\ req.func = f)

LEMMA OwnsKept ==
  ASSUME NEW p \in Proc, NEW f \in Func
  PROVE  Owns(p, f) <=> (held[p][f] # Null => Kept(held[p][f], p, f))
  BY DEF Owns, Kept, On

\* inserttimeout() leaves what was on tlist there.
LEMMA InsertKeeps ==
  ASSUME Inv, NEW b \in Addr, b \notin Addrs(tlist), NEW q \in Proc, NEW g \in Func,
         NEW d \in Int, NEW next, Insert(Node(b, q, g, d), d, next)
  PROVE  /\ On(tlist', b, q, g)
         /\ \A a, p, f : On(tlist, a, p, f) => On(tlist', a, p, f)
<1> PICK t : t = Node(b, q, g, d)
  OBVIOUS
<1>1. tlist \in Seq(Timeout) /\ Distinct(tlist) /\ hz_200 \in 0..MaxTime /\ MaxTime \in Nat /\ TimesOK
  BY TimeoutAssumption DEF Inv, TypeOK, PoolOK
<1>2. t \in Timeout /\ t.addr = b /\ t.proc = q /\ t.func = g /\ t.due = hz_200 + d
  BY <1>1 DEF Node, Timeout
<1>3. Asked(tlist') = Asked(tlist) \cup {[addr |-> b, proc |-> q, func |-> g, due |-> hz_200 + d]}
  <2>1. Insert(t, d, next) /\ t.addr \notin Addrs(tlist) /\ hz_200 \in Int
    BY <1>1, <1>2
  <2>2. Asked(tlist') = Asked(tlist) \cup
              {[addr |-> t.addr, proc |-> t.proc, func |-> t.func, due |-> t.due]}
    BY <1>1, <1>2, <2>1, InsertLemma
  <2> QED
    BY <1>2, <2>2
<1>4. On(tlist', b, q, g)
  <2> PICK r : r = [addr |-> b, proc |-> q, func |-> g, due |-> hz_200 + d]
    OBVIOUS
  <2>1. r \in Asked(tlist') /\ r.addr = b /\ r.proc = q /\ r.func = g
    BY <1>3
  <2> QED
    BY <2>1, OnAsked
<1>5. ASSUME NEW a, NEW p, NEW f, On(tlist, a, p, f) PROVE On(tlist', a, p, f)
  <2>1. PICK r \in Asked(tlist) : r.addr = a /\ r.proc = p /\ r.func = f
    BY <1>5, OnAsked
  <2> QED
    BY <1>3, <2>1, OnAsked
<1> QED
  BY <1>4, <1>5

\* What addroottimeout() in an interrupt does to the structures and pointers.
LEMMA IntAddKeeps ==
  ASSUME Inv, NEW g \in Func, NEW d \in Int, IntAddroottimeout(Root, g, d)
  PROVE  \E b \in Addr :
           /\ held' = [held EXCEPT ![Root][g] = b] /\ On(tlist', b, Root, g)
           /\ \A a, p, f : On(tlist, a, p, f) => On(tlist', a, p, f)
           /\ \A a, p, f : On(expire_list, a, p, f)
                             => On(expire_list', a, p, f) \/ (a = b /\ p = Root /\ f = g)
           /\ UNCHANGED <<node, req>>
<1> USE TimeoutAssumption
<1>1. expire_list \in Seq(Timeout) /\ Distinct(expire_list)
  BY DEF Inv, TypeOK, PoolOK
<1>2. UNCHANGED <<node, req>>
  BY DEF IntAddroottimeout
<1>3. ASSUME NEW i \in Reusable(Root, g), expire_list' = RemoveAt(expire_list, i),
             Insert(Node(expire_list[i].addr, Root, g, d), d, pc),
             held' = [held EXCEPT ![Root][g] = expire_list[i].addr]
      PROVE  \E b \in Addr :
               /\ held' = [held EXCEPT ![Root][g] = b] /\ On(tlist', b, Root, g)
               /\ \A a, p, f : On(tlist, a, p, f) => On(tlist', a, p, f)
               /\ \A a, p, f : On(expire_list, a, p, f)
                                 => On(expire_list', a, p, f) \/ (a = b /\ p = Root /\ f = g)
  <2>1. /\ i \in DOMAIN expire_list /\ i \in 1..Len(expire_list)
        /\ expire_list[i].proc = Root /\ expire_list[i].func = g
    BY <1>1, SeqDomain DEF Reusable, SameFunc
  <2> PICK b : b = expire_list[i].addr
    OBVIOUS
  <2>2. b \in Addr /\ b \in Addrs(expire_list)
    BY <1>1, <2>1, WhenInt
  <2>3. b \notin Addrs(tlist)
    BY <2>2 DEF Inv, PoolOK
  <2>4. On(tlist', b, Root, g) /\ \A a, p, f : On(tlist, a, p, f) => On(tlist', a, p, f)
    BY <1>3, <2>2, <2>3, InsertKeeps
  <2>5. ASSUME NEW a, NEW p, NEW f, On(expire_list, a, p, f)
        PROVE  On(expire_list', a, p, f) \/ (a = b /\ p = Root /\ f = g)
    BY <1>1, <1>3, <2>1, <2>5, OnOnce, OnRemoveAt
  <2> QED
    BY <1>3, <2>2, <2>4, <2>5
<1>4. ASSUME NEW b \in Static \ used, UNCHANGED expire_list, Insert(Node(b, Root, g, d), d, pc),
             held' = [held EXCEPT ![Root][g] = b]
      PROVE  \E c \in Addr :
               /\ held' = [held EXCEPT ![Root][g] = c] /\ On(tlist', c, Root, g)
               /\ \A a, p, f : On(tlist, a, p, f) => On(tlist', a, p, f)
               /\ \A a, p, f : On(expire_list, a, p, f)
                                 => On(expire_list', a, p, f) \/ (a = c /\ p = Root /\ f = g)
  <2>1. b \in Addr /\ b \notin Addrs(tlist)
    BY DEF Addr, Inv, PoolOK
  <2>2. On(tlist', b, Root, g) /\ \A a, p, f : On(tlist, a, p, f) => On(tlist', a, p, f)
    BY <1>4, <2>1, InsertKeeps
  <2> QED
    BY <1>4, <2>1, <2>2
<1>5. \/ \E i \in Reusable(Root, g) :
            /\ expire_list' = RemoveAt(expire_list, i)
            /\ Insert(Node(expire_list[i].addr, Root, g, d), d, pc)
            /\ held' = [held EXCEPT ![Root][g] = expire_list[i].addr]
      \/ \E b \in Static \ used : /\ UNCHANGED expire_list /\ Insert(Node(b, Root, g, d), d, pc)
                                  /\ held' = [held EXCEPT ![Root][g] = b]
  BY DEF IntAddroottimeout
<1> QED
  BY <1>2, <1>3, <1>4, <1>5

\* A new pointer is to a structure that has just been put on tlist.
LEMMA HeldNew ==
  ASSUME Inv, Next, NEW p \in Proc, NEW f \in Func,
         NEW a \in Addr, held'[p][f] = a, held[p][f] # a
  PROVE  Kept(a, p, f)'
<1> USE TimeoutAssumption
<1>1. /\ held \in [Proc -> [Func -> Addr \cup {Null}]]
      /\ \A u \in Uses : u[1] \in Proc /\ u[2] \in Func /\ u[3] \in Int
  BY DEF Inv, TypeOK
<1>2. \A q \in Proc, g \in Func, b \in Addr :
        held' = [held EXCEPT ![q][g] = b] => b = a /\ q = p /\ g = f
  BY <1>1
<1>3. CASE \E u \in Uses : IntAddroottimeout(u[1], u[2], u[3])
  <2>1. PICK u \in Uses : IntAddroottimeout(u[1], u[2], u[3])
    BY <1>3
  <2>2. u[1] = Root
    BY <2>1 DEF IntAddroottimeout
  <2>3. PICK b \in Addr : held' = [held EXCEPT ![Root][u[2]] = b] /\ On(tlist', b, Root, u[2])
    BY <1>1, <2>1, <2>2, IntAddKeeps
  <2>4. b = a /\ Root = p /\ u[2] = f
    BY <1>1, <1>2, <2>3
  <2> QED
    BY <2>3, <2>4 DEF Kept
<1>4. CASE Inserttimeout
  <2>1. /\ node \in Addr /\ node \notin Addrs(tlist) /\ req.proc \in Proc /\ req.func \in Func
        /\ req.delta \in Int
    BY <1>4, InserttimeoutInv DEF Inv, Stages, TypeOK, Request
  <2>2. /\ Insert(Node(node, req.proc, req.func, req.delta), req.delta, Back)
        /\ held' = [held EXCEPT ![req.proc][req.func] = node]
    BY <1>4 DEF Inserttimeout
  <2>3. On(tlist', node, req.proc, req.func)
    BY <2>1, <2>2, InsertKeeps
  <2>4. node = a /\ req.proc = p /\ req.func = f
    BY <1>2, <2>1, <2>2
  <2> QED
    BY <2>3, <2>4 DEF Kept
<1>5. CASE \/ Newtimeout \/ Expire
           \/ \E q \in Proc, g \in Func : Canceltimeout(q, g)
           \/ \E q \in Proc : Cancelalltimeouts(q)
  <2>1. \/ UNCHANGED held
        \/ \E q \in Proc, g \in Func : held' = [held EXCEPT ![q][g] = Null]
        \/ \E q \in Proc : held' = [held EXCEPT ![q] = [g \in Func |-> Null]]
    <3>1. CASE Newtimeout
      <4>1. req.proc \in Proc /\ req.func \in Func
        BY DEF Inv, TypeOK, Request
      <4> QED
        BY <3>1, <4>1 DEF Newtimeout
    <3>2. CASE Expire
      <4>1. tlist # <<>> /\ tlist \in Seq(Timeout)
        BY <3>2 DEF Expire, Inv, TypeOK
      <4>2. Head(tlist) \in Timeout
        BY <4>1
      <4>3. Head(tlist).proc \in Proc /\ Head(tlist).func \in Func
        BY <4>2 DEF Timeout
      <4> QED
        BY <3>2, <4>3 DEF Expire
    <3>3. CASE \E q \in Proc, g \in Func : Canceltimeout(q, g)
      BY <3>3 DEF Canceltimeout
    <3>4. CASE \E q \in Proc : Cancelalltimeouts(q)
      BY <3>4 DEF Cancelalltimeouts
    <3> QED
      BY <1>5, <3>1, <3>2, <3>3, <3>4
  <2>2. held'[p][f] = held[p][f] \/ held'[p][f] = Null
    BY <1>1, <2>1
  <2> QED
    BY <2>2
<1>6. CASE \/ Tick \/ AssertFails \/ Disposetimeout \/ CancelTlist \/ CancelExpired
           \/ Checkalarms \/ CallbackReturns \/ AlarmsDone \/ DisposeOld
           \/ \E u \in Uses : Addtimeout(u[1], u[2], u[3])
           \/ \E q \in Proc : Fork(q)
  <2>1. UNCHANGED held
    BY <1>6 DEF Tick, AssertFails, Disposetimeout, CancelTlist, CancelExpired, Checkalarms, CallbackReturns,
                AlarmsDone, DisposeOld, Addtimeout, Fork
  <2> QED
    BY <2>1
<1> QED
  BY <1>3, <1>4, <1>5, <1>6 DEF Next

\* The structure behind a pointer leaves its owner only when it has been expired for the
\* grace time, or when the owner cancels through a second pointer to it.
Released(a, p, f) ==
  \/ held'[p][f] # a
  \/ \E i \in DOMAIN expire_list : expire_list[i].addr = a /\ expire_list[i].when < hz_200
  \/ \E g \in Func \ {f} : held[p][g] = a /\ held'[p][g] = Null

\* The routines that remove a structure.
LEMMA KeptCancel ==
  ASSUME Inv, NEW p \in Proc, NEW f \in Func, NEW a \in Addr, held[p][f] = a, Kept(a, p, f),
         NEW q \in Proc, NEW g \in Func, Canceltimeout(q, g)
  PROVE  Kept(a, p, f)' \/ Released(a, p, f)
<1> USE TimeoutAssumption
<1>1. /\ tlist \in Seq(Timeout) /\ Distinct(tlist)
      /\ expire_list \in Seq(Timeout) /\ Distinct(expire_list)
      /\ held \in [Proc -> [Func -> Addr \cup {Null}]]
      /\ Addrs(tlist) \cap Addrs(expire_list) = {} /\ node = Null
  BY DEF Inv, TypeOK, PoolOK, Stages, Canceltimeout, Kernel
<1>2. On(tlist, a, p, f) \/ On(expire_list, a, p, f)
  BY <1>1 DEF Kept
<1> PICK b : b = held[q][g]
  OBVIOUS
<1>3. /\ held' = [held EXCEPT ![q][g] = Null]
      /\ \/ \E i \in Named(expire_list, b, q) :
              expire_list' = RemoveAt(expire_list, i) /\ UNCHANGED tlist
         \/ \E i \in Named(tlist, b, q) : tlist' = Unlink(tlist, i) /\ UNCHANGED expire_list
         \/ UNCHANGED <<tlist, expire_list>>
  BY DEF Canceltimeout, lists
<1>4. CASE q = p /\ b = a
  <2>1. held'[p][g] = Null /\ held[p][g] = a
    BY <1>1, <1>3, <1>4
  <2> QED
    BY <2>1 DEF Released
<1>5. ASSUME q # p \/ b # a PROVE Kept(a, p, f)'
  <2>1. ASSUME NEW i \in Named(expire_list, b, q), expire_list' = RemoveAt(expire_list, i), UNCHANGED tlist
        PROVE  Kept(a, p, f)'
    <3>1. i \in DOMAIN expire_list /\ expire_list[i].addr = b /\ expire_list[i].proc = q
      BY DEF Named
    <3>2. ASSUME On(expire_list, a, p, f) PROVE a # b
      BY <1>1, <1>5, <3>1, <3>2, OnOther
    <3>3. On(expire_list, a, p, f) => On(expire_list', a, p, f)
      BY <1>1, <2>1, <3>1, <3>2, OnRemoveAt
    <3> QED
      BY <1>2, <2>1, <3>3 DEF Kept
  <2>2. ASSUME NEW i \in Named(tlist, b, q), tlist' = Unlink(tlist, i), UNCHANGED expire_list
        PROVE  Kept(a, p, f)'
    <3>1. i \in DOMAIN tlist /\ tlist[i].addr = b /\ tlist[i].proc = q
      BY DEF Named
    <3>2. ASSUME On(tlist, a, p, f) PROVE a # b
      BY <1>1, <1>5, <3>1, <3>2, OnOther
    <3>3. On(tlist, a, p, f) => On(tlist', a, p, f)
      BY <1>1, <2>2, <3>1, <3>2, OnUnlink
    <3> QED
      BY <1>2, <2>2, <3>3 DEF Kept
  <2> QED
    BY <1>2, <1>3, <2>1, <2>2 DEF Kept
<1> QED
  BY <1>4, <1>5

LEMMA KeptEnding ==
  ASSUME Inv, Grace, NEW p \in Proc, NEW f \in Func, NEW a \in Addr, held[p][f] = a, Kept(a, p, f),
         CancelTlist \/ CancelExpired
  PROVE  Kept(a, p, f)'
<1> USE TimeoutAssumption
<1>1. /\ tlist \in Seq(Timeout) /\ Distinct(tlist)
      /\ expire_list \in Seq(Timeout) /\ Distinct(expire_list)
      /\ node = Null /\ p # req.proc
  BY DEF Inv, TypeOK, PoolOK, Stages, Grace, CancelTlist, CancelExpired
<1>2. On(tlist, a, p, f) \/ On(expire_list, a, p, f)
  BY <1>1 DEF Kept
<1>3. CASE CancelTlist
  <2>1. /\ UNCHANGED expire_list
        /\ \/ UNCHANGED tlist
           \/ \E i \in DOMAIN tlist : tlist[i].proc = req.proc /\ tlist' = Unlink(tlist, i)
    BY <1>3 DEF CancelTlist, NextOwn
  <2>2. ASSUME NEW i \in DOMAIN tlist, tlist[i].proc = req.proc, tlist' = Unlink(tlist, i),
               On(tlist, a, p, f)
        PROVE  On(tlist', a, p, f)
    <3>1. a # tlist[i].addr
      BY <1>1, <2>2, OnOther
    <3> QED
      BY <1>1, <2>2, <3>1, OnUnlink
  <2> QED
    BY <1>2, <2>1, <2>2 DEF Kept
<1>4. CASE CancelExpired
  <2>1. UNCHANGED tlist
    BY <1>4, CancelExpiredInv
  <2>2. \/ UNCHANGED expire_list
        \/ \E i \in DOMAIN expire_list : /\ expire_list[i].proc = req.proc
                                         /\ expire_list' = RemoveAt(expire_list, i)
    BY <1>4 DEF CancelExpired, NextOwn, lists
  <2>3. ASSUME NEW i \in DOMAIN expire_list, expire_list[i].proc = req.proc,
               expire_list' = RemoveAt(expire_list, i), On(expire_list, a, p, f)
        PROVE  On(expire_list', a, p, f)
    <3>1. a # expire_list[i].addr
      BY <1>1, <2>3, OnOther
    <3> QED
      BY <1>1, <2>3, <3>1, OnRemoveAt
  <2> QED
    BY <1>2, <2>1, <2>2, <2>3 DEF Kept
<1> QED
  BY <1>3, <1>4

LEMMA KeptExpire ==
  ASSUME Inv, NEW p \in Proc, NEW f \in Func, NEW a \in Addr, Kept(a, p, f), Expire
  PROVE  Kept(a, p, f)'
<1> USE TimeoutAssumption
<1>1. /\ tlist \in Seq(Timeout) /\ Distinct(tlist) /\ tlist # <<>>
      /\ expire_list \in Seq(Timeout) /\ node = Null
  BY DEF Inv, TypeOK, PoolOK, Stages, Expire
<1> PICK x : x = [addr |-> tlist[1].addr, proc |-> tlist[1].proc, func |-> tlist[1].func,
                  when |-> hz_200 + Keep, due |-> 0]
  OBVIOUS
<1>2. 1 \in DOMAIN tlist /\ Head(tlist) = tlist[1]
  BY <1>1
<1>3. tlist' = Unlink(tlist, 1) /\ expire_list' = <<x>> \o expire_list
  BY <1>2 DEF Expire, Pop
<1>4. /\ 1 \in DOMAIN expire_list' /\ expire_list'[1] = x
      /\ \A i \in DOMAIN expire_list : i + 1 \in DOMAIN expire_list' /\ expire_list'[i + 1] = expire_list[i]
  <2> PICK l : l = expire_list
    OBVIOUS
  <2>1. l \in Seq(Timeout)
    BY <1>1
  <2>2. /\ 1 \in DOMAIN (<<x>> \o l) /\ (<<x>> \o l)[1] = x
        /\ \A i \in DOMAIN l : i + 1 \in DOMAIN (<<x>> \o l) /\ (<<x>> \o l)[i + 1] = l[i]
    BY <2>1
  <2> QED
    BY <1>3, <2>2
<1>5. CASE On(expire_list, a, p, f)
  <2>1. On(expire_list', a, p, f)
    BY <1>4, <1>5 DEF On
  <2> QED
    BY <2>1 DEF Kept
<1>6. CASE On(tlist, a, p, f) /\ a = tlist[1].addr
  <2>1. tlist[1].proc = p /\ tlist[1].func = f
    BY <1>1, <1>2, <1>6, OnOnce
  <2>2. x.addr = a /\ x.proc = p /\ x.func = f
    BY <1>6, <2>1
  <2>3. On(expire_list', a, p, f)
    BY <1>4, <2>2 DEF On
  <2> QED
    BY <2>3 DEF Kept
<1>7. CASE On(tlist, a, p, f) /\ a # tlist[1].addr
  <2>1. On(tlist', a, p, f)
    BY <1>1, <1>2, <1>3, <1>7, OnUnlink
  <2> QED
    BY <2>1 DEF Kept
<1> QED
  BY <1>1, <1>5, <1>6, <1>7 DEF Kept

LEMMA KeptOld ==
  ASSUME Inv, Grace, NEW p \in Proc, NEW f \in Func, NEW a \in Addr, Kept(a, p, f), DisposeOld
  PROVE  Kept(a, p, f)' \/ Released(a, p, f)
<1> USE TimeoutAssumption
<1>1. /\ expire_list \in Seq(Timeout) /\ node = Null /\ UNCHANGED tlist /\ hz_200 \in Int
  BY DEF Inv, TypeOK, Stages, DisposeOld
<1>2. CASE On(tlist, a, p, f) \/ UNCHANGED expire_list
  BY <1>1, <1>2 DEF Kept
<1>3. ASSUME NEW i \in DOMAIN expire_list, Old(expire_list[i]),
             expire_list' = SubSeq(expire_list, 1, i - 1), On(expire_list, a, p, f)
      PROVE  Kept(a, p, f)' \/ Released(a, p, f)
  <2>1. PICK k \in DOMAIN expire_list :
          expire_list[k].addr = a /\ expire_list[k].proc = p /\ expire_list[k].func = f
    BY <1>3 DEF On
  <2>2. /\ DOMAIN expire_list = 1..Len(expire_list) /\ Len(expire_list) \in Nat
        /\ DOMAIN expire_list' = 1..(i - 1)
        /\ \A j \in 1..(i - 1) : expire_list'[j] = expire_list[j]
    BY <1>1, <1>3
  <2>3. expire_list[k].when \in Int /\ expire_list[i].when \in Int
    BY <1>1, <2>2, WhenInt
  <2>4. CASE k < i
    <3>1. k \in 1..(i - 1)
      BY <2>2, <2>4
    <3>2. On(expire_list', a, p, f)
      BY <2>1, <2>2, <3>1 DEF On
    <3> QED
      BY <3>2 DEF Kept
  <2>5. CASE k >= i
    <3>1. expire_list[k].when <= expire_list[i].when
      <4>1. i < k => expire_list[i].when >= expire_list[k].when
        BY DEF Grace, Falling
      <4>2. i < k \/ i = k
        BY <2>2, <2>5
      <4> QED
        BY <2>3, <4>1, <4>2
    <3>2. expire_list[k].when < hz_200
      BY <1>1, <1>3, <2>3, <3>1 DEF Old
    <3> QED
      BY <2>1, <3>2 DEF Released
  <2> QED
    BY <2>2, <2>4, <2>5
<1>4. \/ UNCHANGED expire_list
      \/ \E i \in DOMAIN expire_list : Old(expire_list[i]) /\ expire_list' = SubSeq(expire_list, 1, i - 1)
  BY DEF DisposeOld
<1> QED
  BY <1>1, <1>2, <1>3, <1>4 DEF Kept

\* The other routines move a structure at most from one place to another.
LEMMA KeptStep ==
  ASSUME Inv, Grace, Next, NEW p \in Proc, NEW f \in Func, NEW a \in Addr,
         held[p][f] = a, Kept(a, p, f)
  PROVE  Kept(a, p, f)' \/ Released(a, p, f)
<1> USE TimeoutAssumption
<1>1. /\ expire_list \in Seq(Timeout) /\ Distinct(expire_list)
      /\ \A u \in Uses : u[1] \in Proc /\ u[2] \in Func /\ u[3] \in Int
  BY DEF Inv, TypeOK, PoolOK
<1>2. CASE Tick
  <2>1. Asked(tlist') = Asked(tlist) /\ UNCHANGED <<expire_list, node, req>>
    BY <1>2, TickInv DEF Tick
  <2>2. On(tlist', a, p, f) <=> On(tlist, a, p, f)
    BY <2>1, OnAsked
  <2> QED
    BY <2>1, <2>2 DEF Kept
<1>3. CASE \E u \in Uses : IntAddroottimeout(u[1], u[2], u[3])
  <2>1. PICK u \in Uses : IntAddroottimeout(u[1], u[2], u[3])
    BY <1>3
  <2>2. u[1] = Root
    BY <2>1 DEF IntAddroottimeout
  <2>3. PICK b \in Addr :
           /\ On(tlist', b, Root, u[2])
           /\ On(tlist, a, p, f) => On(tlist', a, p, f)
           /\ On(expire_list, a, p, f)
                => On(expire_list', a, p, f) \/ (a = b /\ p = Root /\ f = u[2])
           /\ UNCHANGED <<node, req>>
    BY <1>1, <2>1, <2>2, IntAddKeeps
  <2> QED
    BY <2>3 DEF Kept
<1>4. CASE \E u \in Uses : Addtimeout(u[1], u[2], u[3])
  <2>1. PICK u \in Uses : Addtimeout(u[1], u[2], u[3])
    BY <1>4
  <2>2. /\ UNCHANGED tlist /\ req'.proc = u[1] /\ req'.func = u[2]
        /\ \/ UNCHANGED expire_list
           \/ \E i \in Reusable(u[1], u[2]) :
                node' = expire_list[i].addr /\ expire_list' = RemoveAt(expire_list, i)
    BY <2>1 DEF Addtimeout
  <2>3. node = Null
    BY <2>1 DEF Addtimeout, Kernel, Inv, Stages
  <2>4. ASSUME NEW i \in Reusable(u[1], u[2]), node' = expire_list[i].addr,
               expire_list' = RemoveAt(expire_list, i), On(expire_list, a, p, f)
        PROVE  Kept(a, p, f)'
    <3>1. i \in DOMAIN expire_list /\ expire_list[i].proc = u[1] /\ expire_list[i].func = u[2]
      BY DEF Reusable, SameFunc
    <3>2. CASE a = expire_list[i].addr
      <4>1. On(expire_list, expire_list[i].addr, p, f)
        BY <2>4, <3>2
      <4>2. expire_list[i].proc = p /\ expire_list[i].func = f
        BY <1>1, <3>1, <4>1, OnOnce
      <4>3. u[1] = p /\ u[2] = f
        BY <3>1, <4>2
      <4> QED
        BY <2>2, <2>4, <3>2, <4>3 DEF Kept
    <3>3. CASE a # expire_list[i].addr
      <4>1. On(expire_list', a, p, f)
        BY <1>1, <2>4, <3>1, <3>3, OnRemoveAt
      <4> QED
        BY <4>1 DEF Kept
    <3> QED
      BY <3>2, <3>3
  <2> QED
    BY <2>2, <2>3, <2>4 DEF Kept
<1>5. CASE Newtimeout
  <2>1. node = Null /\ UNCHANGED <<tlist, expire_list>>
    BY <1>5 DEF Newtimeout, Inv, Stages
  <2> QED
    BY <2>1 DEF Kept
<1>6. CASE Inserttimeout
  <2>1. /\ node \in Addr /\ node \notin Addrs(tlist) /\ req.proc \in Proc /\ req.func \in Func
        /\ req.delta \in Int
    BY <1>6, InserttimeoutInv DEF Inv, Stages, TypeOK, Request
  <2>2. /\ Insert(Node(node, req.proc, req.func, req.delta), req.delta, Back)
        /\ UNCHANGED expire_list
    BY <1>6 DEF Inserttimeout
  <2>3. On(tlist', node, req.proc, req.func) /\ (On(tlist, a, p, f) => On(tlist', a, p, f))
    BY <2>1, <2>2, InsertKeeps
  <2> QED
    BY <2>2, <2>3 DEF Kept
<1>7. CASE \E q \in Proc, g \in Func : Canceltimeout(q, g)
  BY <1>7, KeptCancel
<1>8. CASE CancelTlist \/ CancelExpired
  BY <1>8, KeptEnding
<1>9. CASE Expire \/ DisposeOld
  BY <1>9, KeptExpire, KeptOld
<1>10. CASE \E q \in Proc : Cancelalltimeouts(q)
  <2>1. node = Null /\ UNCHANGED <<tlist, expire_list>>
    BY <1>10 DEF Cancelalltimeouts, lists, Inv, Stages
  <2> QED
    BY <2>1 DEF Kept
<1>11. CASE \/ AssertFails \/ Disposetimeout \/ Checkalarms \/ CallbackReturns \/ AlarmsDone
            \/ \E q \in Proc : Fork(q)
  <2>1. UNCHANGED <<tlist, expire_list, node, req>>
    BY <1>11 DEF AssertFails, Disposetimeout, Checkalarms, CallbackReturns, AlarmsDone, Fork, lists
  <2> QED
    BY <2>1 DEF Kept
<1> QED
  BY <1>2, <1>3, <1>4, <1>5, <1>6, <1>7, <1>8, <1>9, <1>10, <1>11 DEF Next

\* The structure a caller of addtimeout() has a pointer to stays its own, wherever interrupts
\* come, until it is cancelled or has been on expire_list for TIMEOUT_EXPIRE_LIMIT.
THEOREM HoldersKept == Spec => HolderKept
<1>1. Init => Grace
  BY InitGrace
<1>2. Sound /\ Grace /\ [Next]_vars => Grace'
  <2>1. UNCHANGED vars /\ Grace => Grace'
    BY DEF vars, Grace
  <2> QED
    BY <2>1, GraceStep, StoppedStays DEF Sound
<1>3. ASSUME Inv, Sound', Grace, [Next]_vars, NEW p \in Proc, NEW f \in Func, Owns(p, f), ~Owns(p, f)'
      PROVE  \/ \E i \in DOMAIN expire_list :
                  expire_list[i].addr = held[p][f] /\ expire_list[i].when < hz_200
             \/ \E g \in Func \ {f} : held[p][g] = held[p][f] /\ held'[p][g] = Null
  <2> PICK a : a = held'[p][f]
    OBVIOUS
  <2>1. a \in Addr \cup {Null}
    BY <1>3 DEF Sound, Stopped, Inv, TypeOK
  <2>2. Owns(p, f)' <=> (a # Null => Kept(a, p, f)')
    BY DEF Owns, Kept, On
  <2>3. a \in Addr /\ ~Kept(a, p, f)'
    BY <1>3, <2>1, <2>2
  <2>4. Next
    <3>1. ASSUME UNCHANGED vars PROVE Owns(p, f)' <=> Owns(p, f)
      BY <3>1 DEF vars, Owns
    <3> QED
      BY <1>3, <3>1
  <2>5. held[p][f] = a
    BY <1>3, <2>3, <2>4, HeldNew
  <2>6. Kept(a, p, f)
    BY <1>3, <2>3, <2>5, OwnsKept, TimeoutAssumption
  <2>7. Released(a, p, f)
    BY <1>3, <2>3, <2>4, <2>5, <2>6, KeptStep
  <2> QED
    BY <2>5, <2>7 DEF Released
<1>4. Sound /\ Sound' /\ Grace /\ [Next]_vars
        => [\A p \in Proc, f \in Func :
              Owns(p, f) /\ ~Owns(p, f)'
                => \/ \E i \in DOMAIN expire_list :
                        expire_list[i].addr = held[p][f] /\ expire_list[i].when < hz_200
                   \/ \E g \in Func \ {f} : held[p][g] = held[p][f] /\ held'[p][g] = Null]_vars
  <2>1. CASE Stopped /\ [Next]_vars
    BY <2>1, StoppedStays
  <2> QED
    BY <1>3, <2>1 DEF Sound
<1>5. Spec => []Sound
  BY Invariant
<1> QED
  BY <1>1, <1>2, <1>4, <1>5, PTL DEF Spec, HolderKept
=============================================================================
