----------------------------- MODULE PipeProofs -----------------------------
(***************************************************************************)
(* Proofs about Pipe for every set of processes and file pointers, every    *)
(* size of the ring buffers, and every mix of attributes, operations and     *)
(* message lengths: the counts are right, nobody sleeps who could go on, a   *)
(* lock stays with its owner, and a fifo implements two queues of bytes.     *)
(***************************************************************************)
EXTENDS Pipe, FiniteSetTheorems, SequenceTheorems, TLAPS

-----------------------------------------------------------------------------
(* The invariant.                                                          *)

\* A process in a call has the file pointer; what is left of a read or write is
\* part of it, and all of it for a short message.
CallOK(p) ==
  /\ pc[p] \in Calling \cup {"stray"} => p \in file[job[p].f].holders
  /\ pc[p] = "new" => p \in New /\ "fork" \in attr.ops
  /\ pc[p] = "read" => job[p].left \in 1..job[p].n
  /\ pc[p] = "write" => /\ job[p].left \in 1..job[p].n /\ job[p].n \in attr.lengths
                        /\ job[p].n <= PipeBuf => job[p].left = job[p].n
  /\ pc[p] \in {"select", "coll"} => job[p].dir \in {"r", "w"}

CallsOK == \A p \in Proc : CallOK(p)

\* Before the fifo is there nobody uses it.
BeforeOK ==
  fifo = "none" =>
    /\ \A f \in File : file[f].holders = {}
    /\ lock.on = FALSE
    /\ pipe = [e \in End |-> Fresh(0, 0)]
    /\ \A p \in Proc : pc[p] \in {"new", "user", "exit"}

\* pipe_close() of the head subtracts what pipe_creat() has added.
HeadOK == HeadOpen => file[Server].mode = attr.mode

\* Who is registered for Fselect() is in it, for this buffer and direction, or
\* was killed there and has not closed the file yet.
Registered ==
  \A e \in End :
    /\ pipe[e].rsel # Nobody =>
         /\ pc[pipe[e].rsel] \in {"select", "exit"}
         /\ pc[pipe[e].rsel] = "select" =>
              job[pipe[e].rsel].dir = "r" /\ Rd(job[pipe[e].rsel].f) = e
    /\ pipe[e].wsel # Nobody =>
         /\ pc[pipe[e].wsel] \in {"select", "exit"}
         /\ pc[pipe[e].wsel] = "select" =>
              job[pipe[e].wsel].dir = "w" /\ Wr(job[pipe[e].wsel].f) = e

NotForked == "fork" \in attr.ops => \A q \in New : pc[q] = "new"

\* Only fork() shares a file pointer.
OneHolder == NotForked => \A f \in File : \A p, q \in file[f].holders : p = q

\* One sleeper of NoLostWakeup, and one of SelectMissesNothing.
SleepsWell(p) ==
  /\ pc[p] = "read" => pipe[Channel(p)].len = 0 /\ ~Eof(Channel(p))
  /\ pc[p] = "write" => Room(Channel(p), job[p].left, job[p].n) = 0 /\ ~Broken(Channel(p))
  /\ pc[p] = "setlk" => Taken(p)

SelectsWell(p) ==
  LET e == Side(job[p].f, job[p].dir)
      s == Selecting(e, job[p].dir)
  IN  /\ pc[p] = "select" => s = p /\ (Ready(e, job[p].dir) => job[p].missed)
      /\ pc[p] = "coll" => s # Nobody /\ pc[s] \in {"select", "exit"}

IInv ==
  /\ TypeOK /\ CallsOK /\ BeforeOK /\ HeadOK /\ OneHolder /\ CountsRight
  /\ Registered /\ NoLostWakeup /\ SelectMissesNothing /\ NotFreedInUse /\ LockOwned

-----------------------------------------------------------------------------
(* The ring buffers.                                                       *)

Ring == [readers : Nat, writers : Nat, start : 0..(PipeSiz - 1), len : 0..PipeSiz,
         rsel : Proc \cup {Nobody}, wsel : Proc \cup {Nobody}]
Bytes == [0..(PipeSiz - 1) -> Byte \cup {Empty}]
Filep == [holders : SUBSET Proc, mode : Mode, ndelay : BOOLEAN, lock : BOOLEAN]
Task == [f : File, left : Nat, n : Nat, dir : {"none", "r", "w"}, missed : BOOLEAN]

LEMMA TypeParts ==
  ASSUME TypeOK
  PROVE  /\ pipe \in [End -> Ring] /\ buf \in [End -> Bytes] /\ file \in [File -> Filep]
         /\ job \in [Proc -> Task]
  BY DEF TypeOK, Ring, Bytes, Filep, Task

LEMMA SidesAreEnds ==
  ASSUME NEW f
  PROVE  Wr(f) \in End /\ Rd(f) \in End /\ Wr(f) # Rd(f)
  BY DEF Wr, Rd, End

LEMMA RingField ==
  ASSUME NEW P \in [End -> Ring], NEW e \in End
  PROVE  /\ P[e].readers \in Nat /\ P[e].writers \in Nat
         /\ P[e].start \in 0..(PipeSiz - 1) /\ P[e].len \in 0..PipeSiz
         /\ P[e].rsel \in Proc \cup {Nobody} /\ P[e].wsel \in Proc \cup {Nobody}
         /\ P[e] \in Ring
  BY DEF Ring

LEMMA RoomBounds ==
  ASSUME TypeOK, NEW e \in End, NEW n \in Nat, NEW left \in 1..n
  PROVE  /\ Room(e, left, n) \in 0..left
         /\ pipe[e].len + Room(e, left, n) \in 0..PipeSiz
         /\ n <= PipeBuf => Room(e, left, n) \in {0, left}
  BY TypeParts, RingField, PipeAssumption DEF Room, Min2

\* pipe_write() leaves what is in the buffer alone and puts the first m bytes
\* of s behind it, across the end of the buffer if need be.
LEMMA StoredLemma ==
  ASSUME TypeOK, NEW e \in End, NEW k \in Nat, NEW s \in [1..k -> Byte],
         NEW m \in 0..k, pipe[e].len + m <= PipeSiz
  PROVE  /\ Stored(e, s, m) \in Bytes
         /\ \A i \in 1..(pipe[e].len + m) :
              Stored(e, s, m)[Wrap(pipe[e].start + i - 1)]
                = IF i <= pipe[e].len THEN buf[e][Wrap(pipe[e].start + i - 1)]
                  ELSE s[i - pipe[e].len]
<1> DEFINE st == pipe[e].start  ln == pipe[e].len
           at == Wrap(st + ln)  j == Min2(PipeSiz - at, m)
           b == Stored(e, s, m)
<1>1. /\ st \in 0..(PipeSiz - 1) /\ ln \in 0..PipeSiz /\ buf[e] \in Bytes /\ PipeSiz \in Nat
      /\ PipeSiz > 0
  BY TypeParts, RingField, PipeAssumption
<1> HIDE DEF st, ln
<1>2. at \in 0..(PipeSiz - 1) /\ at = IF st + ln >= PipeSiz THEN st + ln - PipeSiz ELSE st + ln
  BY <1>1 DEF Wrap
<1>3. j \in 0..m /\ j = IF PipeSiz - at < m THEN PipeSiz - at ELSE m
  BY <1>1, <1>2 DEF Min2
<1>4. b = [i \in 0..(PipeSiz - 1) |-> IF at <= i /\ i < at + j THEN s[i - at + 1]
                                      ELSE IF i < m - j THEN s[j + i + 1]
                                      ELSE buf[e][i]]
  BY DEF Stored, st, ln
<1>5. \A i \in Int : Wrap(i) = IF i >= PipeSiz THEN i - PipeSiz ELSE i
  BY DEF Wrap
<1> HIDE DEF at, j, b
<1>6. b \in Bytes
  <2>1. ASSUME NEW i \in 0..(PipeSiz - 1)
        PROVE  b[i] \in Byte \cup {Empty}
    <3>1. CASE at <= i /\ i < at + j
      <4>1. i - at + 1 \in 1..k
        BY <3>1, <1>1, <1>2, <1>3
      <4> QED
        BY <4>1, <3>1, <1>4
    <3>2. CASE ~(at <= i /\ i < at + j) /\ i < m - j
      <4>1. j + i + 1 \in 1..k
        BY <3>2, <1>1, <1>3
      <4> QED
        BY <4>1, <3>2, <1>4
    <3>3. CASE ~(at <= i /\ i < at + j) /\ ~(i < m - j)
      BY <3>3, <1>1, <1>4 DEF Bytes
    <3> QED
      BY <3>1, <3>2, <3>3
  <2> QED
    BY <2>1, <1>4 DEF Bytes
<1>7. ASSUME NEW i \in 1..(ln + m)
      PROVE  b[Wrap(st + i - 1)] = IF i <= ln THEN buf[e][Wrap(st + i - 1)] ELSE s[i - ln]
  <2> DEFINE x == Wrap(st + i - 1)
  <2>1. x = IF st + i - 1 >= PipeSiz THEN st + i - 1 - PipeSiz ELSE st + i - 1
    BY <1>1, <1>5
  <2> HIDE DEF x
  <2>2. x \in 0..(PipeSiz - 1) /\ ln + m <= PipeSiz
    BY <2>1, <1>1 DEF ln
  <2>3. b[x] = IF at <= x /\ x < at + j THEN s[x - at + 1]
               ELSE IF x < m - j THEN s[j + x + 1] ELSE buf[e][x]
    BY <2>2, <1>4
  <2>4. CASE i <= ln
    BY <2>1, <2>2, <2>3, <2>4, <1>1, <1>2, <1>3 DEF x
  <2>5. CASE i > ln
    <3>1. CASE at <= x /\ x < at + j
      <4>1. x - at + 1 = i - ln
        BY <2>1, <2>2, <2>5, <3>1, <1>1, <1>2, <1>3
      <4> QED
        BY <4>1, <3>1, <2>3, <2>5, <1>1 DEF x
    <3>2. CASE ~(at <= x /\ x < at + j)
      <4>1. x < m - j /\ j + x + 1 = i - ln
        BY <2>1, <2>2, <2>5, <3>2, <1>1, <1>2, <1>3
      <4> QED
        BY <4>1, <3>2, <2>3, <2>5, <1>1 DEF x
    <3> QED
      BY <3>1, <3>2
  <2> QED
    BY <2>4, <2>5, <1>1
<1> QED
  BY <1>6, <1>7 DEF st, ln, b

\* pipe_read() copies the first m bytes of the contents.
LEMMA FetchedLemma ==
  ASSUME TypeOK, NEW e \in End, NEW m \in 0..pipe[e].len
  PROVE  Fetched(e, m) = [i \in 1..m |-> buf[e][Wrap(pipe[e].start + i - 1)]]
<1>1. /\ pipe[e].start \in 0..(PipeSiz - 1) /\ pipe[e].len \in 0..PipeSiz /\ PipeSiz \in Nat
  BY TypeParts, RingField, PipeAssumption
<1> DEFINE j == Min2(PipeSiz - pipe[e].start, m)
<1>2. Fetched(e, m) = [i \in 1..m |-> buf[e][IF i <= j THEN pipe[e].start + i - 1 ELSE i - j - 1]]
  BY DEF Fetched
<1>3. ASSUME NEW i \in 1..m
      PROVE  (IF i <= j THEN pipe[e].start + i - 1 ELSE i - j - 1) = Wrap(pipe[e].start + i - 1)
  BY <1>1 DEF Min2, Wrap
<1> QED
  BY <1>2, <1>3

\* The other bytes stay, and the contents begin behind those that were read.
LEMMA ForgottenLemma ==
  ASSUME TypeOK, NEW e \in End, NEW m \in 0..pipe[e].len
  PROVE  /\ Forgotten(e, m) \in Bytes /\ StartAfter(e, m) \in 0..(PipeSiz - 1)
         /\ \A i \in 1..(pipe[e].len - m) :
              Forgotten(e, m)[Wrap((IF m = 0 THEN pipe[e].start ELSE StartAfter(e, m)) + i - 1)]
                = buf[e][Wrap(pipe[e].start + m + i - 1)]
<1> DEFINE st == pipe[e].start  ln == pipe[e].len
           j == Min2(PipeSiz - st, m)
           t == StartAfter(e, m)  b == Forgotten(e, m)
<1>1. /\ st \in 0..(PipeSiz - 1) /\ ln \in 0..PipeSiz /\ buf[e] \in Bytes /\ PipeSiz \in Nat
      /\ PipeSiz > 0 /\ m \in 0..ln
  BY TypeParts, RingField, PipeAssumption
<1>2. \A i \in Int : Wrap(i) = IF i >= PipeSiz THEN i - PipeSiz ELSE i
  BY DEF Wrap
<1>3. j \in 0..m /\ j = IF PipeSiz - st < m THEN PipeSiz - st ELSE m
  BY <1>1 DEF Min2
<1>4. t = IF ln = m \/ (IF m > j THEN m - j ELSE st + j) = PipeSiz THEN 0
          ELSE IF m > j THEN m - j ELSE st + j
  BY DEF StartAfter
<1>5. b = [i \in 0..(PipeSiz - 1) |-> IF \E k \in 0..(m - 1) : i = Wrap(st + k)
                                      THEN Empty ELSE buf[e][i]]
  BY DEF Forgotten
<1> HIDE DEF st, ln, j, t, b
<1>6. b \in Bytes
  BY <1>1, <1>5 DEF Bytes
<1>7. t \in 0..(PipeSiz - 1)
  BY <1>1, <1>3, <1>4
<1>8. ASSUME NEW i \in 1..(ln - m)
      PROVE  b[Wrap((IF m = 0 THEN st ELSE t) + i - 1)] = buf[e][Wrap(st + m + i - 1)]
  <2> DEFINE x == Wrap(st + m + i - 1)
  <2>1. x = IF st + m + i - 1 >= PipeSiz THEN st + m + i - 1 - PipeSiz ELSE st + m + i - 1
    BY <1>1, <1>2
  <2>2. Wrap((IF m = 0 THEN st ELSE t) + i - 1) = x
    <3>1. (IF m = 0 THEN st ELSE t) + i - 1 \in Int
      BY <1>1, <1>7
    <3> QED
      BY <3>1, <2>1, <1>1, <1>2, <1>3, <1>4
  <2> HIDE DEF x
  <2>3. x \in 0..(PipeSiz - 1)
    BY <2>1, <1>1
  <2>4. ASSUME NEW k \in 0..(m - 1)
        PROVE  x # Wrap(st + k)
    <3>1. Wrap(st + k) = IF st + k >= PipeSiz THEN st + k - PipeSiz ELSE st + k
      BY <1>1, <1>2
    <3> QED
      BY <3>1, <2>1, <1>1
  <2>5. b[x] = buf[e][x]
    BY <2>3, <2>4, <1>5
  <2> QED
    BY <2>2, <2>5 DEF x
<1> QED
  BY <1>6, <1>7, <1>8 DEF st, ln, t, b

-----------------------------------------------------------------------------
(* What the steps do to the ring buffers and to the calls.                  *)

\* What of a ring buffer counts for its users besides its contents.
SameCounts == \A e \in End : /\ pipe'[e].readers = pipe[e].readers
                             /\ pipe'[e].writers = pipe[e].writers

SameSel == \A e \in End : pipe'[e].rsel = pipe[e].rsel /\ pipe'[e].wsel = pipe[e].wsel

LEMMA PartType ==
  ASSUME NEW n \in Nat, NEW left \in 1..n
  PROVE  Part(n + 1 - left, n) \in [1..left -> Byte]
<1>1. Part(n + 1 - left, n) = [k \in 1..left |-> <<n - left + k, n>>]
  BY DEF Part
<1>2. \A k \in 1..left : <<n - left + k, n>> \in Byte
  BY DEF Byte
<1> QED
  BY <1>1, <1>2

LEMMA WriteEffect ==
  ASSUME TypeOK, NEW p \in Proc, NEW f \in File, NEW n \in Nat, NEW left \in 1..n,
         WriteStep(p, f, left, n)
  PROVE  /\ pipe' \in [End -> Ring] /\ buf' \in [End -> Bytes]
         /\ SameCounts /\ SameSel
         /\ \A e \in End : pipe'[e].start = pipe[e].start
         /\ \A e \in End : e # Wr(f) => pipe'[e] = pipe[e] /\ buf'[e] = buf[e]
         /\ pipe'[Wr(f)].len = pipe[Wr(f)].len + Room(Wr(f), left, n)
         /\ buf'[Wr(f)] = Stored(Wr(f), Part(n + 1 - left, n), Room(Wr(f), left, n))
<1> DEFINE e == Wr(f)  m == Room(e, left, n)  b == Stored(e, Part(n + 1 - left, n), m)
<1>1. e \in End /\ m \in 0..left /\ pipe[e].len + m \in 0..PipeSiz
  BY SidesAreEnds, RoomBounds
<1>2. b \in Bytes
  <2>1. Part(n + 1 - left, n) \in [1..left -> Byte] /\ left \in Nat
    BY PartType
  <2>2. pipe[e].len + m <= PipeSiz
    BY <1>1, PipeAssumption
  <2> HIDE DEF e, m
  <2> QED
    BY <1>1, <2>1, <2>2, StoredLemma
<1>3. pipe \in [End -> Ring] /\ buf \in [End -> Bytes]
  BY TypeParts
<1>4. pipe' = [pipe EXCEPT ![e].len = @ + m] /\ buf' = [buf EXCEPT ![e] = b]
  BY DEF WriteStep
<1> DEFINE u == [pipe[e] EXCEPT !.len = @ + m]
<1>5. /\ u \in Ring /\ u.readers = pipe[e].readers /\ u.writers = pipe[e].writers
      /\ u.start = pipe[e].start /\ u.len = pipe[e].len + m
      /\ u.rsel = pipe[e].rsel /\ u.wsel = pipe[e].wsel
  <2>1. pipe[e] \in Ring
    BY <1>1, <1>3
  <2> HIDE DEF m, e
  <2> QED
    BY <2>1, <1>1 DEF Ring
<1>6. pipe' = [pipe EXCEPT ![e] = u]
  BY <1>1, <1>3, <1>4
<1> HIDE DEF u, m, e, b
<1>7. pipe' \in [End -> Ring] /\ buf' \in [End -> Bytes]
  BY <1>1, <1>2, <1>3, <1>4, <1>5, <1>6
<1>8. pipe'[e] = u /\ buf'[e] = b
  BY <1>1, <1>3, <1>4, <1>6
<1>9. \A d \in End : d # e => pipe'[d] = pipe[d] /\ buf'[d] = buf[d]
  BY <1>3, <1>4, <1>6
<1> QED
  BY <1>1, <1>5, <1>7, <1>8, <1>9 DEF SameCounts, SameSel, e, m, b

LEMMA ReadEffect ==
  ASSUME TypeOK, NEW p \in Proc, NEW f \in File, NEW n \in Nat, NEW left \in 1..n,
         ReadStep(p, f, left, n),
         NEW m, m = Min2(pipe[Rd(f)].len, left)
  PROVE  /\ m \in 0..pipe[Rd(f)].len /\ m \in 0..left
         /\ pipe' \in [End -> Ring] /\ buf' \in [End -> Bytes]
         /\ SameCounts /\ SameSel
         /\ \A e \in End : e # Rd(f) => pipe'[e] = pipe[e] /\ buf'[e] = buf[e]
         /\ pipe'[Rd(f)].len = pipe[Rd(f)].len - m
         /\ pipe'[Rd(f)].start = IF m = 0 THEN pipe[Rd(f)].start ELSE StartAfter(Rd(f), m)
         /\ buf'[Rd(f)] = Forgotten(Rd(f), m)
<1> DEFINE e == Rd(f)  b == Forgotten(e, m)
           t == IF m = 0 THEN pipe[e].start ELSE StartAfter(e, m)
<1>1. e \in End /\ pipe \in [End -> Ring] /\ buf \in [End -> Bytes]
  BY SidesAreEnds, TypeParts
<1>2. pipe[e].len \in 0..PipeSiz /\ pipe[e].start \in 0..(PipeSiz - 1)
  BY <1>1, RingField
<1>3. m \in 0..pipe[e].len /\ m \in 0..left
  BY <1>2, PipeAssumption DEF Min2
<1>4. b \in Bytes /\ t \in 0..(PipeSiz - 1)
  BY <1>1, <1>2, <1>3, ForgottenLemma
<1>5. /\ pipe' = [pipe EXCEPT ![e].len = @ - m, ![e].start = IF m = 0 THEN @ ELSE StartAfter(e, m)]
      /\ buf' = [buf EXCEPT ![e] = b]
  BY DEF ReadStep
<1> DEFINE u == [pipe[e] EXCEPT !.len = @ - m, !.start = t]
<1>6. /\ u \in Ring /\ u.readers = pipe[e].readers /\ u.writers = pipe[e].writers
      /\ u.start = t /\ u.len = pipe[e].len - m
      /\ u.rsel = pipe[e].rsel /\ u.wsel = pipe[e].wsel
  <2>1. pipe[e] \in Ring /\ pipe[e].len - m \in 0..PipeSiz
    BY <1>1, <1>2, <1>3, PipeAssumption
  <2> HIDE DEF t, e
  <2> QED
    BY <2>1, <1>4 DEF Ring
<1>7. pipe' = [pipe EXCEPT ![e] = u]
  BY <1>1, <1>5 DEF Ring
<1> HIDE DEF u, e, b, t
<1>8. pipe' \in [End -> Ring] /\ buf' \in [End -> Bytes]
  BY <1>1, <1>4, <1>5, <1>6, <1>7
<1>9. pipe'[e] = u /\ buf'[e] = b
  BY <1>1, <1>5, <1>7
<1>10. \A d \in End : d # e => pipe'[d] = pipe[d] /\ buf'[d] = buf[d]
  BY <1>1, <1>5, <1>7
<1> QED
  BY <1>1, <1>3, <1>6, <1>8, <1>9, <1>10 DEF SameCounts, SameSel, e, b, t

\* pipe_unselect() forgets the process for what the file pointer reads and writes.
LEMMA UnselectEffect ==
  ASSUME NEW P \in [End -> Ring], NEW f \in File, NEW p \in Proc,
         NEW U, U = Unselect(P, f, p)
  PROVE  /\ U \in [End -> Ring]
         /\ \A e \in End :
              /\ U[e].readers = P[e].readers /\ U[e].writers = P[e].writers
              /\ U[e].start = P[e].start /\ U[e].len = P[e].len
              /\ U[e].rsel = IF e = Rd(f) /\ P[e].rsel = p THEN Nobody ELSE P[e].rsel
              /\ U[e].wsel = IF e = Wr(f) /\ P[e].wsel = p THEN Nobody ELSE P[e].wsel
<1> DEFINE r == Rd(f)  w == Wr(f)
           u == [P[r] EXCEPT !.rsel = IF @ = p THEN Nobody ELSE @]
           v == [P[w] EXCEPT !.wsel = IF @ = p THEN Nobody ELSE @]
<1>1. r \in End /\ w \in End /\ r # w /\ End = {r, w}
  BY SidesAreEnds DEF Rd, Wr, End
<1>2. U = [P EXCEPT ![r] = u, ![w] = v]
  BY <1>1 DEF Unselect
<1>3. P[r] \in Ring /\ P[w] \in Ring
  BY <1>1
<1> HIDE DEF r, w
<1>4. /\ u \in Ring /\ u.readers = P[r].readers /\ u.writers = P[r].writers
      /\ u.start = P[r].start /\ u.len = P[r].len /\ u.wsel = P[r].wsel
      /\ u.rsel = IF P[r].rsel = p THEN Nobody ELSE P[r].rsel
  BY <1>3 DEF Ring
<1>5. /\ v \in Ring /\ v.readers = P[w].readers /\ v.writers = P[w].writers
      /\ v.start = P[w].start /\ v.len = P[w].len /\ v.rsel = P[w].rsel
      /\ v.wsel = IF P[w].wsel = p THEN Nobody ELSE P[w].wsel
  BY <1>3 DEF Ring
<1> HIDE DEF u, v
<1>6. U \in [End -> Ring] /\ U[r] = u /\ U[w] = v
  BY <1>1, <1>2, <1>4, <1>5
<1> QED
  BY <1>1, <1>4, <1>5, <1>6 DEF r, w

LEMMA RegisterEffect ==
  ASSUME NEW e \in End, NEW dir \in {"r", "w"}, NEW p \in Proc, pipe \in [End -> Ring],
         pipe' = Register(e, dir, p)
  PROVE  /\ pipe' \in [End -> Ring]
         /\ \A d \in End :
              /\ pipe'[d].readers = pipe[d].readers /\ pipe'[d].writers = pipe[d].writers
              /\ pipe'[d].start = pipe[d].start /\ pipe'[d].len = pipe[d].len
              /\ pipe'[d].rsel = IF d = e /\ dir = "r" THEN p ELSE pipe[d].rsel
              /\ pipe'[d].wsel = IF d = e /\ dir = "w" THEN p ELSE pipe[d].wsel
<1> DEFINE u == IF dir = "r" THEN [pipe[e] EXCEPT !.rsel = p] ELSE [pipe[e] EXCEPT !.wsel = p]
<1>1. pipe' = [pipe EXCEPT ![e] = u]
  BY DEF Register
<1>2. pipe[e] \in Ring
  OBVIOUS
<1>3. /\ u \in Ring /\ u.readers = pipe[e].readers /\ u.writers = pipe[e].writers
      /\ u.start = pipe[e].start /\ u.len = pipe[e].len
      /\ u.rsel = IF dir = "r" THEN p ELSE pipe[e].rsel
      /\ u.wsel = IF dir = "w" THEN p ELSE pipe[e].wsel
  <2>1. CASE dir = "r"
    BY <1>2, <2>1 DEF Ring
  <2>2. CASE dir = "w"
    BY <1>2, <2>2 DEF Ring
  <2> QED
    BY <2>1, <2>2
<1> HIDE DEF u
<1>4. pipe' \in [End -> Ring] /\ pipe'[e] = u /\ \A d \in End : d # e => pipe'[d] = pipe[d]
  BY <1>1, <1>3
<1> QED
  BY <1>3, <1>4

LEMMA OpenEffect ==
  ASSUME TypeOK, NEW p \in Proc, NEW f \in File, NEW mode \in Mode, NEW nd \in BOOLEAN,
         Open(p, f, mode, nd)
  PROVE  /\ pipe' \in [End -> Ring] /\ file' \in [File -> Filep]
         /\ SameSel
         /\ \A e \in End : pipe'[e].start = pipe[e].start /\ pipe'[e].len = pipe[e].len
         /\ pipe'["inp"].readers = IF Reads(mode) THEN More(pipe["inp"].readers)
                                   ELSE pipe["inp"].readers
         /\ pipe'["outp"].readers = pipe["outp"].readers
         /\ pipe'["inp"].writers = pipe["inp"].writers
         /\ pipe'["outp"].writers = IF Writes(mode) /\ Exists("outp")
                                    THEN More(pipe["outp"].writers) ELSE pipe["outp"].writers
         /\ file'[f].holders = {p} /\ file'[f].mode = mode /\ file'[f].lock = lock.on
         /\ \A g \in File : g # f => file'[g] = file[g]
<1>1. pipe \in [End -> Ring] /\ file \in [File -> Filep] /\ lock.on \in BOOLEAN
  BY TypeParts DEF TypeOK
<1>2. "inp" \in End /\ "outp" \in End /\ \A e \in End : e = "inp" \/ e = "outp"
  BY DEF End
<1> DEFINE u == [pipe["inp"] EXCEPT !.readers = IF Reads(mode) THEN More(@) ELSE @]
           v == [pipe["outp"] EXCEPT !.writers = IF Writes(mode) /\ Exists("outp")
                                                 THEN More(@) ELSE @]
<1>3. pipe' = [pipe EXCEPT !["inp"] = u, !["outp"] = v]
  BY DEF Open
<1>4. pipe["inp"] \in Ring /\ pipe["outp"] \in Ring /\ \A k \in Nat : More(k) \in Nat
  BY <1>1, <1>2 DEF More
<1>5. /\ u \in Ring /\ u.writers = pipe["inp"].writers
      /\ u.readers = IF Reads(mode) THEN More(pipe["inp"].readers) ELSE pipe["inp"].readers
      /\ u.start = pipe["inp"].start /\ u.len = pipe["inp"].len
      /\ u.rsel = pipe["inp"].rsel /\ u.wsel = pipe["inp"].wsel
  BY <1>4 DEF Ring
<1>6. /\ v \in Ring /\ v.readers = pipe["outp"].readers
      /\ v.writers = IF Writes(mode) /\ Exists("outp")
                     THEN More(pipe["outp"].writers) ELSE pipe["outp"].writers
      /\ v.start = pipe["outp"].start /\ v.len = pipe["outp"].len
      /\ v.rsel = pipe["outp"].rsel /\ v.wsel = pipe["outp"].wsel
  BY <1>4 DEF Ring
<1> HIDE DEF u, v
<1>7. pipe' \in [End -> Ring] /\ pipe'["inp"] = u /\ pipe'["outp"] = v
  BY <1>1, <1>2, <1>3, <1>5, <1>6
<1>8. SameSel /\ \A e \in End : pipe'[e].start = pipe[e].start /\ pipe'[e].len = pipe[e].len
  BY <1>2, <1>5, <1>6, <1>7 DEF SameSel
<1> DEFINE n == [holders |-> {p}, mode |-> mode, ndelay |-> nd, lock |-> lock.on]
<1>9. file' = [file EXCEPT ![f] = n]
  BY DEF Open
<1>10. n \in Filep /\ n.holders = {p} /\ n.mode = mode /\ n.lock = lock.on
  BY <1>1 DEF Filep
<1> HIDE DEF n
<1>11. /\ file' \in [File -> Filep] /\ file'[f] = n
       /\ \A g \in File : g # f => file'[g] = file[g]
  BY <1>1, <1>9, <1>10
<1> QED
  BY <1>5, <1>6, <1>7, <1>8, <1>10, <1>11

LEMMA CreateEffect ==
  ASSUME TypeOK, NEW p \in Proc, NEW nd \in BOOLEAN, Create(p, nd)
  PROVE  /\ pipe' \in [End -> Ring] /\ file' \in [File -> Filep]
         /\ \A e \in End : pipe'[e].len = 0 /\ pipe'[e].rsel = Nobody /\ pipe'[e].wsel = Nobody
         /\ pipe'["inp"].readers = (IF attr.hidden THEN VirginPipe ELSE 1)
         /\ pipe'["inp"].writers = 1
         /\ ~attr.oneway => /\ pipe'["outp"].readers = 1
                            /\ pipe'["outp"].writers = IF attr.hidden THEN VirginPipe ELSE 1
         /\ file'[Server].holders = {p} /\ file'[Server].mode = attr.mode
         /\ \A g \in File : g # Server => file'[g] = file[g]
<1>1. file \in [File -> Filep] /\ Server \in File /\ VirginPipe \in Nat /\ PipeSiz > 0
      /\ PipeSiz \in Nat /\ attr.mode \in Mode
  BY TypeParts, PipeAssumption DEF TypeOK
<1>2. "inp" \in End /\ "outp" \in End /\ \A e \in End : e = "inp" \/ e = "outp"
  BY DEF End
<1>3. ASSUME NEW r \in Nat, NEW w \in Nat
      PROVE  /\ Fresh(r, w) \in Ring /\ Fresh(r, w).readers = r /\ Fresh(r, w).writers = w
             /\ Fresh(r, w).len = 0 /\ Fresh(r, w).rsel = Nobody /\ Fresh(r, w).wsel = Nobody
  BY <1>1 DEF Fresh, Ring
<1> DEFINE R(e) == IF ~Exists(e) THEN 0 ELSE IF e = "inp" /\ attr.hidden THEN VirginPipe ELSE 1
           W(e) == IF ~Exists(e) THEN 0 ELSE IF e = "outp" /\ attr.hidden THEN VirginPipe ELSE 1
<1>4. \A e \in End : R(e) \in Nat /\ W(e) \in Nat
  BY <1>1
<1>5. \A e \in End : pipe'[e] = Fresh(R(e), W(e))
  BY <1>2 DEF Create
<1>6. DOMAIN pipe' = End /\ pipe' = [e \in End |-> pipe'[e]]
  BY DEF Create
<1> HIDE DEF R, W
<1>7. /\ pipe' \in [End -> Ring]
      /\ \A e \in End : /\ pipe'[e].readers = R(e) /\ pipe'[e].writers = W(e)
                        /\ pipe'[e].len = 0 /\ pipe'[e].rsel = Nobody /\ pipe'[e].wsel = Nobody
  BY <1>3, <1>4, <1>5, <1>6
<1>8. /\ R("inp") = (IF attr.hidden THEN VirginPipe ELSE 1) /\ W("inp") = 1
      /\ ~attr.oneway => R("outp") = 1 /\ W("outp") = IF attr.hidden THEN VirginPipe ELSE 1
  BY DEF R, W, Exists
<1> DEFINE n == [holders |-> {p}, mode |-> attr.mode, ndelay |-> nd, lock |-> FALSE]
<1>9. file' = [file EXCEPT ![Server] = n]
  BY DEF Create
<1>10. n \in Filep /\ n.holders = {p} /\ n.mode = attr.mode
  BY <1>1 DEF Filep
<1> HIDE DEF n
<1>11. /\ file' \in [File -> Filep] /\ file'[Server] = n
       /\ \A g \in File : g # Server => file'[g] = file[g]
  BY <1>1, <1>9, <1>10
<1> QED
  BY <1>2, <1>7, <1>8, <1>10, <1>11

\* The ring buffers with counts that may be wrong.
AnyRing == [readers : Int, writers : Int, start : 0..(PipeSiz - 1), len : 0..PipeSiz,
            rsel : Proc \cup {Nobody}, wsel : Proc \cup {Nobody}]

\* Nothing of a ring buffer but its counts differs.
Alike(r, s) == /\ r.start = s.start /\ r.len = s.len
               /\ r.rsel = s.rsel /\ r.wsel = s.wsel

LEMMA LessEffect ==
  ASSUME NEW P \in [End -> Ring], NEW f \in File, NEW L, L = Less(P, f)
  PROVE  /\ L \in [End -> AnyRing]
         /\ \A e \in End : Alike(L[e], P[e])
         /\ f # Server =>
              /\ L["inp"].readers = P["inp"].readers - One(Reads(file[f].mode))
              /\ L["inp"].writers = P["inp"].writers
              /\ L["outp"].readers = P["outp"].readers
              /\ L["outp"].writers = P["outp"].writers
                                       - One(Writes(file[f].mode) /\ ~attr.oneway)
         /\ f = Server =>
              /\ L["inp"].readers = P["inp"].readers - One(~attr.hidden)
              /\ L["inp"].writers = P["inp"].writers - One(Writes(file[f].mode))
              /\ L["outp"].readers = P["outp"].readers
                                       - One(Reads(file[f].mode) /\ ~attr.oneway)
              /\ L["outp"].writers = P["outp"].writers
<1> DEFINE i == P["inp"]  o == P["outp"]  m == file[f].mode
<1>1. "inp" \in End /\ "outp" \in End /\ \A e \in End : e = "inp" \/ e = "outp"
  BY DEF End
<1>2. i \in Ring /\ o \in Ring /\ Ring \subseteq AnyRing
  BY <1>1 DEF Ring, AnyRing
<1>3. CASE f # Server
  <2> DEFINE u == [i EXCEPT !.readers = IF Reads(m) THEN @ - 1 ELSE @]
             v == [o EXCEPT !.writers = IF Writes(m) /\ ~attr.oneway THEN @ - 1 ELSE @]
  <2>1. L = [P EXCEPT !["inp"] = u, !["outp"] = v]
    BY <1>1, <1>3 DEF Less, Rd, Wr, Exists
  <2> HIDE DEF i, o
  <2>2. u \in AnyRing /\ Alike(u, i) /\ u.writers = i.writers
        /\ u.readers = i.readers - One(Reads(m))
    BY <1>2 DEF Ring, AnyRing, Alike, One
  <2>3. v \in AnyRing /\ Alike(v, o) /\ v.readers = o.readers
        /\ v.writers = o.writers - One(Writes(m) /\ ~attr.oneway)
    BY <1>2 DEF Ring, AnyRing, Alike, One
  <2> HIDE DEF u, v
  <2>4. L["inp"] = u /\ L["outp"] = v /\ L \in [End -> AnyRing]
    BY <1>1, <1>2, <2>1, <2>2, <2>3
  <2> QED
    BY <1>1, <1>3, <2>2, <2>3, <2>4 DEF i, o
<1>4. CASE f = Server
  <2> DEFINE u == [i EXCEPT !.writers = IF Writes(m) THEN @ - 1 ELSE @]
             w == IF ~attr.hidden THEN [u EXCEPT !.readers = @ - 1] ELSE u
             v == [o EXCEPT !.readers = IF Reads(m) /\ ~attr.oneway THEN @ - 1 ELSE @]
  <2>1. L = [P EXCEPT !["inp"] = w, !["outp"] = v]
    <3> DEFINE Q == [P EXCEPT !["outp"] = v, !["inp"] = u]
    <3>1. L = IF ~attr.hidden THEN [Q EXCEPT !["inp"].readers = @ - 1] ELSE Q
      BY <1>1, <1>4 DEF Less, Rd, Wr, Exists
    <3> HIDE DEF u, v, i, o
    <3>2. Q = [P EXCEPT !["inp"] = u, !["outp"] = v]
      BY <1>1
    <3>3. [Q EXCEPT !["inp"].readers = @ - 1]
             = [P EXCEPT !["inp"] = [u EXCEPT !.readers = @ - 1], !["outp"] = v]
      BY <1>1
    <3> QED
      BY <3>1, <3>2, <3>3
  <2> HIDE DEF i, o
  <2>2. u \in AnyRing /\ Alike(u, i) /\ u.readers = i.readers
        /\ u.writers = i.writers - One(Writes(m))
    BY <1>2 DEF Ring, AnyRing, Alike, One
  <2>3. v \in AnyRing /\ Alike(v, o) /\ v.writers = o.writers
        /\ v.readers = o.readers - One(Reads(m) /\ ~attr.oneway)
    BY <1>2 DEF Ring, AnyRing, Alike, One
  <2> HIDE DEF u
  <2>4. w \in AnyRing /\ Alike(w, i) /\ w.readers = i.readers - One(~attr.hidden)
        /\ w.writers = i.writers - One(Writes(m))
    BY <1>2, <2>2 DEF Ring, AnyRing, Alike, One
  <2> HIDE DEF v, w
  <2>5. L["inp"] = w /\ L["outp"] = v /\ L \in [End -> AnyRing]
    BY <1>1, <1>2, <2>1, <2>3, <2>4
  <2> QED
    BY <1>1, <1>4, <2>3, <2>4, <2>5 DEF i, o
<1> QED
  BY <1>3, <1>4

LEMMA NotVirginEffect ==
  ASSUME NEW P \in [End -> AnyRing], NEW N, N = NotVirgin(P)
  PROVE  /\ N \in [End -> AnyRing]
         /\ \A e \in End : Alike(N[e], P[e])
         /\ N["inp"].readers = (IF P["inp"].readers = VirginPipe THEN 0 ELSE P["inp"].readers)
         /\ N["inp"].writers = (IF P["inp"].writers = VirginPipe THEN 0 ELSE P["inp"].writers)
         /\ N["outp"] = P["outp"]
<1> DEFINE r == IF P["inp"].readers = VirginPipe THEN 0 ELSE P["inp"].readers
           w == IF P["inp"].writers = VirginPipe THEN 0 ELSE P["inp"].writers
           u == [P["inp"] EXCEPT !.readers = r, !.writers = w]
<1>1. "inp" \in End /\ "outp" \in End /\ \A e \in End : e = "inp" \/ e = "outp"
  BY DEF End
<1>2. P["inp"] \in AnyRing
  BY <1>1
<1>3. N = [P EXCEPT !["inp"] = u]
  BY <1>1, <1>2 DEF NotVirgin, AnyRing
<1>4. r \in Int /\ w \in Int
  BY <1>2 DEF AnyRing
<1> HIDE DEF r, w
<1>7. u \in AnyRing /\ Alike(u, P["inp"]) /\ u.readers = r /\ u.writers = w
  BY <1>2, <1>4 DEF AnyRing, Alike
<1> HIDE DEF u
<1>5. N \in [End -> AnyRing] /\ N["inp"] = u /\ \A e \in End : e # "inp" => N[e] = P[e]
  BY <1>1, <1>3, <1>7
<1>6. "inp" # "outp"
  OBVIOUS
<1> QED
  BY <1>1, <1>5, <1>6, <1>7 DEF Alike, r, w

\* A process that is told, or not, keeps its call.
LEMMA UntoldEffect ==
  ASSUME TypeOK
  PROVE  /\ Untold \in [Proc -> Task]
         /\ \A p \in Proc : /\ Untold[p].f = job[p].f /\ Untold[p].left = job[p].left
                            /\ Untold[p].n = job[p].n /\ Untold[p].dir = job[p].dir
                            /\ job[p].missed => Untold[p].missed
                            /\ pipe["inp"].wsel = p => Untold[p].missed
<1> DEFINE w == pipe["inp"].wsel  u == [job[w] EXCEPT !.missed = TRUE]
<1>1. job \in [Proc -> Task] /\ w \in Proc \cup {Nobody} /\ Nobody \notin Proc
  BY TypeParts, RingField, PipeAssumption DEF End
<1>2. Untold = IF w = Nobody THEN job ELSE [job EXCEPT ![w] = u]
  BY DEF Untold
<1>3. CASE w = Nobody
  BY <1>1, <1>2, <1>3
<1>4. CASE w \in Proc
  <2>1. job[w] \in Task
    BY <1>1, <1>4
  <2> HIDE DEF w
  <2>2. u \in Task /\ u.f = job[w].f /\ u.left = job[w].left /\ u.n = job[w].n
        /\ u.dir = job[w].dir /\ u.missed
    BY <2>1 DEF Task
  <2> HIDE DEF u
  <2>3. Untold \in [Proc -> Task] /\ Untold[w] = u /\ \A p \in Proc : p # w => Untold[p] = job[p]
    BY <1>1, <1>2, <1>4, <2>2
  <2> QED
    BY <2>2, <2>3, <1>4 DEF w
<1> QED
  BY <1>1, <1>3, <1>4

-----------------------------------------------------------------------------
(* Readers and writers.                                                     *)

\* The file pointers besides the head that read, and those that write.
ReadersOpen == {f \in File \ {Server} : file[f].holders # {} /\ Reads(file[f].mode)}
WritersOpen == {f \in File \ {Server} : file[f].holders # {} /\ Writes(file[f].mode)}

NReaders == Cardinality(ReadersOpen) + One(HeadOpen /\ ~attr.hidden)
NWriters == Cardinality(WritersOpen) + One(~attr.hidden)

SameOpen == \A f \in File : /\ file'[f].holders = {} <=> file[f].holders = {}
                            /\ file'[f].mode = file[f].mode

Counted ==
  fifo = "live" =>
    /\ pipe["inp"].readers = NReaders \/ (NReaders = 0 /\ pipe["inp"].readers = VirginPipe)
    /\ pipe["inp"].writers = One(HeadOpen \/ attr.mode = "r")
    /\ ~attr.oneway =>
         /\ pipe["outp"].writers = NWriters
              \/ (NWriters = 0 /\ pipe["outp"].writers = VirginPipe)
         /\ pipe["outp"].readers = One(HeadOpen \/ attr.mode = "w")
    /\ (\A f \in File : file[f].holders = {}) => attr.mode = "r"

\* CountsRight, in these names.
LEMMA CountsForm == (CountsRight <=> Counted) /\ (CountsRight' <=> Counted')
<1>1. CountsRight <=> Counted
  BY DEF CountsRight, Counted, NReaders, NWriters, ReadersOpen, WritersOpen, Openers
<1>2. CountsRight' <=> Counted'
  BY DEF CountsRight, Counted, NReaders, NWriters, ReadersOpen, WritersOpen, Openers
<1> QED
  BY <1>1, <1>2

LEMMA CountsBound ==
  /\ IsFiniteSet(ReadersOpen) /\ IsFiniteSet(WritersOpen)
  /\ Cardinality(ReadersOpen) \in Nat /\ Cardinality(WritersOpen) \in Nat
  /\ NReaders \in Nat /\ NWriters \in Nat
  /\ NReaders + 1 < VirginPipe /\ NWriters + 1 < VirginPipe
  /\ VirginPipe \in Nat /\ VirginPipe > 1
<1> DEFINE Others == File \ {Server}
<1>1. IsFiniteSet(File) /\ Server \in File /\ ReadersOpen \subseteq Others
      /\ WritersOpen \subseteq Others
  BY PipeAssumption DEF ReadersOpen, WritersOpen
<1>2. IsFiniteSet(Others) /\ Cardinality(Others) = Cardinality(File) - 1
  BY <1>1, FS_RemoveElement
<1> HIDE DEF Others
<1>3. /\ IsFiniteSet(ReadersOpen) /\ Cardinality(ReadersOpen) <= Cardinality(Others)
      /\ IsFiniteSet(WritersOpen) /\ Cardinality(WritersOpen) <= Cardinality(Others)
  BY <1>1, <1>2, FS_Subset
<1>4. /\ Cardinality(ReadersOpen) \in Nat /\ Cardinality(WritersOpen) \in Nat
      /\ Cardinality(File) \in Nat /\ Cardinality(Others) \in Nat
  BY <1>1, <1>2, <1>3, FS_CardinalityType
<1>5. VirginPipe \in Nat /\ VirginPipe > Cardinality(File) + 1
  BY PipeAssumption
<1> QED
  BY <1>2, <1>3, <1>4, <1>5 DEF NReaders, NWriters, One

\* Closing the last link or opening anew counts one file pointer.
LEMMA CountOne ==
  ASSUME NEW f \in File, f # Server,
         \A g \in File : g # f => file'[g] = file[g],
         file[f].holders = {}, file'[f].holders # {}
  PROVE  /\ ReadersOpen' = IF Reads(file'[f].mode) THEN ReadersOpen \cup {f} ELSE ReadersOpen
         /\ WritersOpen' = IF Writes(file'[f].mode) THEN WritersOpen \cup {f} ELSE WritersOpen
         /\ f \notin ReadersOpen /\ f \notin WritersOpen
  BY DEF ReadersOpen, WritersOpen

LEMMA UncountOne ==
  ASSUME NEW f \in File, f # Server,
         \A g \in File : g # f => file'[g] = file[g],
         file[f].holders # {}, file'[f].holders = {}
  PROVE  /\ ReadersOpen' = IF Reads(file[f].mode) THEN ReadersOpen \ {f} ELSE ReadersOpen
         /\ WritersOpen' = IF Writes(file[f].mode) THEN WritersOpen \ {f} ELSE WritersOpen
         /\ Reads(file[f].mode) => f \in ReadersOpen
         /\ Writes(file[f].mode) => f \in WritersOpen
  BY DEF ReadersOpen, WritersOpen

LEMMA CountsFrame ==
  ASSUME CountsRight, SameOpen, SameCounts, attr' = attr, fifo' = fifo
  PROVE  CountsRight'
<1>1. ReadersOpen' = ReadersOpen /\ WritersOpen' = WritersOpen
  BY DEF SameOpen, ReadersOpen, WritersOpen
<1>2. HeadOpen' <=> HeadOpen
  BY PipeAssumption DEF SameOpen, HeadOpen
<1>3. NReaders' = NReaders /\ NWriters' = NWriters
  BY <1>1, <1>2 DEF NReaders, NWriters
<1>4. (\A f \in File : file'[f].holders = {}) <=> (\A f \in File : file[f].holders = {})
  BY DEF SameOpen
<1>5. /\ pipe'["inp"].readers = pipe["inp"].readers /\ pipe'["inp"].writers = pipe["inp"].writers
      /\ pipe'["outp"].readers = pipe["outp"].readers
      /\ pipe'["outp"].writers = pipe["outp"].writers
  BY DEF SameCounts, End
<1>6. One(HeadOpen \/ attr.mode = "r")' = One(HeadOpen \/ attr.mode = "r")
      /\ One(HeadOpen \/ attr.mode = "w")' = One(HeadOpen \/ attr.mode = "w")
  BY <1>2 DEF One
<1> QED
  BY <1>3, <1>4, <1>5, <1>6, CountsForm DEF Counted

LEMMA CreateCounts ==
  ASSUME TypeOK, BeforeOK, NEW p \in Proc, NEW nd \in BOOLEAN, Create(p, nd)
  PROVE  CountsRight'
<1>1. /\ attr' = attr /\ fifo = "none" /\ Server \in File
      /\ pipe'["inp"].readers = (IF attr.hidden THEN VirginPipe ELSE 1)
      /\ pipe'["inp"].writers = 1
      /\ ~attr.oneway => /\ pipe'["outp"].readers = 1
                         /\ pipe'["outp"].writers = IF attr.hidden THEN VirginPipe ELSE 1
      /\ file'[Server].holders = {p}
      /\ \A g \in File : g # Server => file'[g] = file[g]
  BY CreateEffect, PipeAssumption DEF Create
<1>2. ReadersOpen' = {} /\ WritersOpen' = {}
  BY <1>1 DEF ReadersOpen, WritersOpen, BeforeOK
<1>3. Cardinality(ReadersOpen)' = 0 /\ Cardinality(WritersOpen)' = 0
  BY <1>2, FS_EmptySet
<1>4. HeadOpen'
  BY <1>1 DEF HeadOpen
<1>5. NReaders' = One(~attr.hidden) /\ NWriters' = One(~attr.hidden)
  BY <1>1, <1>3, <1>4 DEF NReaders, NWriters, One
<1> QED
  BY <1>1, <1>4, <1>5, CountsForm DEF Counted, HeadOpen, One

LEMMA OpenCounts ==
  ASSUME TypeOK, CountsRight, NEW p \in Proc, NEW f \in File, NEW mode \in Mode,
         NEW nd \in BOOLEAN, Open(p, f, mode, nd)
  PROVE  CountsRight'
<1>1. /\ attr' = attr /\ fifo = "live" /\ fifo' = fifo /\ f # Server /\ file[f].holders = {}
      /\ Server \in File
  BY PipeAssumption DEF Open
<1>2. /\ pipe'["inp"].readers = IF Reads(mode) THEN More(pipe["inp"].readers)
                                ELSE pipe["inp"].readers
      /\ pipe'["outp"].readers = pipe["outp"].readers
      /\ pipe'["inp"].writers = pipe["inp"].writers
      /\ pipe'["outp"].writers = IF Writes(mode) /\ Exists("outp")
                                 THEN More(pipe["outp"].writers) ELSE pipe["outp"].writers
      /\ file'[f].holders = {p} /\ file'[f].mode = mode
      /\ \A g \in File : g # f => file'[g] = file[g]
  BY OpenEffect
<1>3. /\ ReadersOpen' = IF Reads(mode) THEN ReadersOpen \cup {f} ELSE ReadersOpen
      /\ WritersOpen' = IF Writes(mode) THEN WritersOpen \cup {f} ELSE WritersOpen
      /\ f \notin ReadersOpen /\ f \notin WritersOpen
  BY <1>1, <1>2, CountOne
<1>4. /\ Cardinality(ReadersOpen)' = Cardinality(ReadersOpen) + One(Reads(mode))
      /\ Cardinality(WritersOpen)' = Cardinality(WritersOpen) + One(Writes(mode))
  <2>1. /\ Cardinality(ReadersOpen \cup {f}) = Cardinality(ReadersOpen) + 1
        /\ Cardinality(WritersOpen \cup {f}) = Cardinality(WritersOpen) + 1
    BY <1>3, CountsBound, FS_AddElement
  <2>2. /\ Cardinality(ReadersOpen') = Cardinality(ReadersOpen) + One(Reads(mode))
        /\ Cardinality(WritersOpen') = Cardinality(WritersOpen) + One(Writes(mode))
    BY <1>3, <2>1, CountsBound DEF One
  <2> QED
    BY <2>2
<1>5. HeadOpen' <=> HeadOpen
  BY <1>1, <1>2 DEF HeadOpen
<1>6. NReaders' = NReaders + One(Reads(mode)) /\ NWriters' = NWriters + One(Writes(mode))
  BY <1>1, <1>4, <1>5, CountsBound DEF NReaders, NWriters, One
<1>7. file'[f].holders # {}
  BY <1>2
<1>8. /\ pipe["inp"].readers = NReaders \/ (NReaders = 0 /\ pipe["inp"].readers = VirginPipe)
      /\ pipe["inp"].writers = One(HeadOpen \/ attr.mode = "r")
      /\ ~attr.oneway =>
           /\ pipe["outp"].writers = NWriters
                \/ (NWriters = 0 /\ pipe["outp"].writers = VirginPipe)
           /\ pipe["outp"].readers = One(HeadOpen \/ attr.mode = "w")
  BY <1>1, CountsForm DEF Counted
<1>9. pipe'["inp"].readers = NReaders' \/ (NReaders' = 0 /\ pipe'["inp"].readers = VirginPipe)
  BY <1>2, <1>6, <1>8, CountsBound DEF More, One
<1>10. ~attr.oneway => pipe'["outp"].writers = NWriters'
                         \/ (NWriters' = 0 /\ pipe'["outp"].writers = VirginPipe)
  BY <1>2, <1>6, <1>8, CountsBound DEF More, One, Exists
<1>11. One(HeadOpen \/ attr.mode = "r")' = One(HeadOpen \/ attr.mode = "r")
      /\ One(HeadOpen \/ attr.mode = "w")' = One(HeadOpen \/ attr.mode = "w")
  BY <1>1, <1>5 DEF One
<1> QED
  BY <1>1, <1>2, <1>7, <1>8, <1>9, <1>10, <1>11, CountsForm DEF Counted

\* The counts after the last close of a file pointer, or of a link to it.
ClosedPipe(p, f) ==
  NotVirgin(IF file[f].holders = {p} THEN Less(Unselect(pipe, f, p), f)
            ELSE Unselect(pipe, f, p))

LEMMA CloseFile ==
  ASSUME TypeOK, NEW p \in Proc, NEW f \in File, Close(p, f)
  PROVE  /\ file' \in [File -> Filep]
         /\ \A g \in File : g # f => file'[g] = file[g]
         /\ file'[f].holders = file[f].holders \ {p}
         /\ file[f].holders # {p} => /\ file'[f].mode = file[f].mode
                                     /\ file'[f].lock = file[f].lock
                                     /\ file'[f].ndelay = file[f].ndelay
<1> DEFINE u == IF file[f].holders = {p} THEN Closed ELSE [file[f] EXCEPT !.holders = @ \ {p}]
<1>1. file \in [File -> Filep] /\ file[f] \in Filep
  BY TypeParts
<1>2. file' = [file EXCEPT ![f] = u]
  BY <1>1 DEF Close
<1>3. /\ u \in Filep /\ u.holders = file[f].holders \ {p}
      /\ file[f].holders # {p} => /\ u.mode = file[f].mode /\ u.lock = file[f].lock
                                  /\ u.ndelay = file[f].ndelay
  <2>1. CASE file[f].holders = {p}
    BY <2>1 DEF Closed, Filep, Mode
  <2>2. CASE file[f].holders # {p}
    BY <1>1, <2>2 DEF Filep
  <2> QED
    BY <2>1, <2>2
<1> HIDE DEF u
<1>4. file' \in [File -> Filep] /\ file'[f] = u /\ \A g \in File : g # f => file'[g] = file[g]
  BY <1>1, <1>2, <1>3
<1> QED
  BY <1>3, <1>4

LEMMA ClosedPipeCounts ==
  ASSUME TypeOK, CountsRight, HeadOK, fifo = "live",
         NEW p \in Proc, NEW f \in File, p \in file[f].holders, Close(p, f),
         NEW P, P = ClosedPipe(p, f)
  PROVE  /\ P \in [End -> Ring]
         /\ \A e \in End :
              /\ P[e].start = pipe[e].start /\ P[e].len = pipe[e].len
              /\ P[e].rsel = IF e = Rd(f) /\ pipe[e].rsel = p THEN Nobody ELSE pipe[e].rsel
              /\ P[e].wsel = IF e = Wr(f) /\ pipe[e].wsel = p THEN Nobody ELSE pipe[e].wsel
         /\ P["inp"].readers = NReaders'
         /\ P["inp"].writers = One(HeadOpen' \/ attr.mode = "r")
         /\ ~attr.oneway =>
              /\ P["outp"].writers = NWriters'
                   \/ (NWriters' = 0 /\ P["outp"].writers = VirginPipe)
              /\ P["outp"].readers = One(HeadOpen' \/ attr.mode = "w")
         /\ file[f].holders # {p} =>
              /\ P["inp"].readers = (IF pipe["inp"].readers = VirginPipe THEN 0
                                     ELSE pipe["inp"].readers)
              /\ P["inp"].writers = pipe["inp"].writers
              /\ P["outp"].readers = pipe["outp"].readers
              /\ P["outp"].writers = pipe["outp"].writers
<1> DEFINE U == Unselect(pipe, f, p)
           L == IF file[f].holders = {p} THEN Less(U, f) ELSE U
<1>1. /\ pipe \in [End -> Ring] /\ "inp" \in End /\ "outp" \in End /\ Server \in File
      /\ \A e \in End : e = "inp" \/ e = "outp"
      /\ attr' = attr
  BY TypeParts, PipeAssumption DEF End, Close
<1>2. /\ U \in [End -> Ring]
      /\ \A e \in End :
           /\ U[e].readers = pipe[e].readers /\ U[e].writers = pipe[e].writers
           /\ U[e].start = pipe[e].start /\ U[e].len = pipe[e].len
           /\ U[e].rsel = IF e = Rd(f) /\ pipe[e].rsel = p THEN Nobody ELSE pipe[e].rsel
           /\ U[e].wsel = IF e = Wr(f) /\ pipe[e].wsel = p THEN Nobody ELSE pipe[e].wsel
  BY <1>1, UnselectEffect
<1>3. [End -> Ring] \subseteq [End -> AnyRing]
  BY DEF Ring, AnyRing
<1> HIDE DEF U
<1>4. file[f].holders = {p} =>
         /\ L \in [End -> AnyRing]
         /\ \A e \in End : Alike(L[e], U[e])
         /\ f # Server =>
              /\ L["inp"].readers = U["inp"].readers - One(Reads(file[f].mode))
              /\ L["inp"].writers = U["inp"].writers
              /\ L["outp"].readers = U["outp"].readers
              /\ L["outp"].writers = U["outp"].writers
                                       - One(Writes(file[f].mode) /\ ~attr.oneway)
         /\ f = Server =>
              /\ L["inp"].readers = U["inp"].readers - One(~attr.hidden)
              /\ L["inp"].writers = U["inp"].writers - One(Writes(file[f].mode))
              /\ L["outp"].readers = U["outp"].readers
                                       - One(Reads(file[f].mode) /\ ~attr.oneway)
              /\ L["outp"].writers = U["outp"].writers
  BY <1>2, LessEffect
<1>5. file[f].holders # {p} => L \in [End -> AnyRing] /\ L = U
  BY <1>2, <1>3
<1>6. P = NotVirgin(L)
  BY DEF ClosedPipe, U
<1> HIDE DEF L
<1>7. L \in [End -> AnyRing] /\ \A e \in End : Alike(L[e], U[e])
  BY <1>4, <1>5 DEF Alike
<1>8. /\ P \in [End -> AnyRing]
      /\ \A e \in End : Alike(P[e], L[e])
      /\ P["inp"].readers = (IF L["inp"].readers = VirginPipe THEN 0 ELSE L["inp"].readers)
      /\ P["inp"].writers = (IF L["inp"].writers = VirginPipe THEN 0 ELSE L["inp"].writers)
      /\ P["outp"] = L["outp"]
  BY <1>6, <1>7, NotVirginEffect
<1>9. \A e \in End :
           /\ P[e].start = pipe[e].start /\ P[e].len = pipe[e].len
           /\ P[e].rsel = IF e = Rd(f) /\ pipe[e].rsel = p THEN Nobody ELSE pipe[e].rsel
           /\ P[e].wsel = IF e = Wr(f) /\ pipe[e].wsel = p THEN Nobody ELSE pipe[e].wsel
  BY <1>2, <1>7, <1>8 DEF Alike
<1>10. /\ pipe["inp"].readers = NReaders \/ (NReaders = 0 /\ pipe["inp"].readers = VirginPipe)
       /\ pipe["inp"].writers = One(HeadOpen \/ attr.mode = "r")
       /\ ~attr.oneway =>
            /\ pipe["outp"].writers = NWriters
                 \/ (NWriters = 0 /\ pipe["outp"].writers = VirginPipe)
            /\ pipe["outp"].readers = One(HeadOpen \/ attr.mode = "w")
       /\ \A e \in End : pipe[e].readers \in Nat /\ pipe[e].writers \in Nat
  BY <1>1, CountsForm, RingField DEF Counted
<1>11. /\ \A g \in File : g # f => file'[g] = file[g]
       /\ file'[f].holders = file[f].holders \ {p}
       /\ file[f].holders # {p} => file'[f].mode = file[f].mode
       /\ file[f].mode \in Mode
  BY CloseFile, TypeParts DEF Filep
<1>12. CASE file[f].holders # {p}
  <2>1. SameOpen
    BY <1>11, <1>12 DEF SameOpen
  <2>2. ReadersOpen' = ReadersOpen /\ WritersOpen' = WritersOpen
    BY <2>1 DEF SameOpen, ReadersOpen, WritersOpen
  <2>3. HeadOpen' <=> HeadOpen
    BY <2>1, <1>1 DEF SameOpen, HeadOpen
  <2>4. NReaders' = NReaders /\ NWriters' = NWriters
    BY <1>1, <2>2, <2>3 DEF NReaders, NWriters
  <2>5. pipe["inp"].writers # VirginPipe
    BY <1>10, CountsBound DEF One
  <2>6. /\ P["inp"].readers = (IF pipe["inp"].readers = VirginPipe THEN 0
                               ELSE pipe["inp"].readers)
        /\ P["inp"].writers = pipe["inp"].writers
        /\ P["outp"].readers = pipe["outp"].readers
        /\ P["outp"].writers = pipe["outp"].writers
    BY <1>1, <1>2, <1>5, <1>8, <1>12, <2>5
  <2>7. P["inp"].readers = NReaders'
    BY <1>10, <2>4, <2>6, CountsBound
  <2>8. P \in [End -> Ring]
    <3>1. \A e \in End : P[e] \in AnyRing /\ P[e].readers \in Nat /\ P[e].writers \in Nat
      BY <1>1, <1>8, <1>10, <2>6
    <3> QED
      BY <3>1, <1>8 DEF AnyRing, Ring
  <2>9. One(HeadOpen' \/ attr.mode = "r") = One(HeadOpen \/ attr.mode = "r")
        /\ One(HeadOpen' \/ attr.mode = "w") = One(HeadOpen \/ attr.mode = "w")
    BY <2>3 DEF One
  <2> QED
    BY <1>9, <1>10, <1>12, <2>4, <2>6, <2>7, <2>8, <2>9
<1>13. CASE file[f].holders = {p} /\ f # Server
  <2>1. file[f].holders # {} /\ file'[f].holders = {}
    BY <1>11, <1>13
  <2>2. /\ ReadersOpen' = IF Reads(file[f].mode) THEN ReadersOpen \ {f} ELSE ReadersOpen
        /\ WritersOpen' = IF Writes(file[f].mode) THEN WritersOpen \ {f} ELSE WritersOpen
        /\ Reads(file[f].mode) => f \in ReadersOpen
        /\ Writes(file[f].mode) => f \in WritersOpen
    BY <1>11, <1>13, <2>1, UncountOne
  <2>3. /\ Reads(file[f].mode) => Cardinality(ReadersOpen \ {f}) = Cardinality(ReadersOpen) - 1
        /\ Writes(file[f].mode) => Cardinality(WritersOpen \ {f}) = Cardinality(WritersOpen) - 1
    BY <2>2, CountsBound, FS_RemoveElement
  <2>4. /\ Cardinality(ReadersOpen') = Cardinality(ReadersOpen) - One(Reads(file[f].mode))
        /\ Cardinality(WritersOpen') = Cardinality(WritersOpen) - One(Writes(file[f].mode))
    BY <2>2, <2>3, CountsBound DEF One
  <2>5. HeadOpen' <=> HeadOpen
    BY <1>1, <1>11, <1>13 DEF HeadOpen
  <2>6. /\ NReaders' = NReaders - One(Reads(file[f].mode))
        /\ NWriters' = NWriters - One(Writes(file[f].mode))
    BY <1>1, <2>4, <2>5, CountsBound DEF NReaders, NWriters, One
  <2>7. /\ Reads(file[f].mode) => NReaders > 0
        /\ Writes(file[f].mode) => NWriters > 0
    <3>1. /\ Reads(file[f].mode) => Cardinality(ReadersOpen) # 0
          /\ Writes(file[f].mode) => Cardinality(WritersOpen) # 0
      BY <2>2, CountsBound, FS_EmptySet
    <3> QED
      BY <3>1, CountsBound DEF NReaders, NWriters, One
  <2>8. /\ L["inp"].readers = pipe["inp"].readers - One(Reads(file[f].mode))
        /\ L["inp"].writers = pipe["inp"].writers
        /\ L["outp"].readers = pipe["outp"].readers
        /\ L["outp"].writers = pipe["outp"].writers - One(Writes(file[f].mode) /\ ~attr.oneway)
    BY <1>1, <1>2, <1>4, <1>13
  <2>9. P["inp"].readers = NReaders'
    BY <1>8, <1>10, <2>6, <2>7, <2>8, CountsBound DEF One
  <2>10. P["inp"].writers = pipe["inp"].writers
    BY <1>8, <1>10, <2>8, CountsBound DEF One
  <2>11. P["outp"].readers = pipe["outp"].readers
    BY <1>8, <2>8
  <2>12. ~attr.oneway => P["outp"].writers = NWriters'
                           \/ (NWriters' = 0 /\ P["outp"].writers = VirginPipe)
    BY <1>8, <1>10, <2>6, <2>7, <2>8, CountsBound DEF One
  <2>13. P["outp"].writers \in Nat
    BY <1>1, <1>8, <1>10, <2>6, <2>7, <2>8, CountsBound DEF One
  <2>14. P["inp"].readers \in Nat
    BY <2>6, <2>7, <2>9, CountsBound DEF One
  <2>15. P \in [End -> Ring]
    <3>1. \A e \in End : P[e] \in AnyRing /\ P[e].readers \in Nat /\ P[e].writers \in Nat
      BY <1>1, <1>8, <1>10, <2>10, <2>11, <2>13, <2>14
    <3> QED
      BY <3>1, <1>8 DEF AnyRing, Ring
  <2>16. One(HeadOpen' \/ attr.mode = "r") = One(HeadOpen \/ attr.mode = "r")
        /\ One(HeadOpen' \/ attr.mode = "w") = One(HeadOpen \/ attr.mode = "w")
    BY <2>5 DEF One
  <2> QED
    BY <1>9, <1>10, <1>13, <2>9, <2>10, <2>11, <2>12, <2>15, <2>16
<1>14. CASE file[f].holders = {p} /\ f = Server
  <2>1. HeadOpen /\ ~HeadOpen' /\ file[Server].mode = attr.mode
    BY <1>11, <1>14 DEF HeadOpen, HeadOK
  <2>2. ReadersOpen' = ReadersOpen /\ WritersOpen' = WritersOpen
    BY <1>11, <1>14 DEF ReadersOpen, WritersOpen
  <2>3. NReaders' = NReaders - One(~attr.hidden) /\ NWriters' = NWriters
    BY <1>1, <2>1, <2>2, CountsBound DEF NReaders, NWriters, One
  <2>4. /\ L["inp"].readers = pipe["inp"].readers - One(~attr.hidden)
        /\ L["inp"].writers = pipe["inp"].writers - One(Writes(attr.mode))
        /\ L["outp"].readers = pipe["outp"].readers - One(Reads(attr.mode) /\ ~attr.oneway)
        /\ L["outp"].writers = pipe["outp"].writers
    BY <1>1, <1>2, <1>4, <1>14, <2>1
  <2>5. ~attr.hidden => NReaders > 0
    BY <2>1, CountsBound DEF NReaders, One
  <2>6. P["inp"].readers = NReaders' /\ P["inp"].readers \in Nat
    BY <1>8, <1>10, <2>3, <2>4, <2>5, CountsBound DEF One
  <2>7. attr.mode \in Mode
    BY <1>11, <1>14, <2>1
  <2>8. P["inp"].writers = One(HeadOpen' \/ attr.mode = "r") /\ P["inp"].writers \in Nat
    BY <1>8, <1>10, <2>1, <2>4, <2>7, CountsBound DEF One, Mode, Writes
  <2>9. /\ ~attr.oneway => P["outp"].readers = One(HeadOpen' \/ attr.mode = "w")
        /\ P["outp"].readers \in Nat
    BY <1>1, <1>8, <1>10, <2>1, <2>4, <2>7, CountsBound DEF One, Mode, Reads
  <2>10. P["outp"].writers = pipe["outp"].writers
    BY <1>8, <2>4
  <2>11. P \in [End -> Ring]
    <3>1. \A e \in End : P[e] \in AnyRing /\ P[e].readers \in Nat /\ P[e].writers \in Nat
      BY <1>1, <1>8, <1>10, <2>6, <2>8, <2>9, <2>10
    <3> QED
      BY <3>1, <1>8 DEF AnyRing, Ring
  <2> QED
    BY <1>9, <1>10, <1>14, <2>3, <2>6, <2>8, <2>9, <2>10, <2>11
<1> QED
  BY <1>12, <1>13, <1>14

-----------------------------------------------------------------------------
(* The calls.                                                               *)

Places == {"new", "user", "exit", "stray"} \cup Calling

\* The call of q is the same one.
SameCall(q) == /\ pc'[q] = pc[q]
               /\ job'[q].f = job[q].f /\ job'[q].left = job[q].left
               /\ job'[q].n = job[q].n /\ job'[q].dir = job[q].dir
               /\ job[q].missed => job'[q].missed

LEMMA JobType ==
  ASSUME NEW f \in File, NEW left \in Nat, NEW n \in Nat, NEW dir \in {"none", "r", "w"}
  PROVE  /\ Job(f, left, n, dir) \in Task
         /\ Job(f, left, n, dir).f = f /\ Job(f, left, n, dir).left = left
         /\ Job(f, left, n, dir).n = n /\ Job(f, left, n, dir).dir = dir
         /\ Job(f, left, n, dir).missed = FALSE
  BY DEF Job, Task

LEMMA NoJobType == NoJob \in Task
  BY JobType, PipeAssumption DEF NoJob

LEMMA ProcsType ==
  ASSUME TypeOK
  PROVE  pc \in [Proc -> Places] /\ job \in [Proc -> Task]
  BY TypeParts DEF TypeOK, Places

LEMMA StayEffect ==
  ASSUME TypeOK, NEW p \in Proc, NEW c \in Places, NEW j \in Task,
         pc' = [pc EXCEPT ![p] = c], job' = [job EXCEPT ![p] = j]
  PROVE  /\ pc' \in [Proc -> Places] /\ job' \in [Proc -> Task]
         /\ pc'[p] = c /\ job'[p] = j
         /\ \A q \in Proc \ {p} : SameCall(q)
<1>1. pc \in [Proc -> Places] /\ job \in [Proc -> Task]
  BY ProcsType
<1>2. /\ pc' \in [Proc -> Places] /\ job' \in [Proc -> Task]
      /\ pc'[p] = c /\ job'[p] = j
      /\ \A q \in Proc \ {p} : pc'[q] = pc[q] /\ job'[q] = job[q]
  BY <1>1
<1> QED
  BY <1>2 DEF SameCall

LEMMA ReturnEffect ==
  ASSUME TypeOK, NEW p \in Proc, Return(p)
  PROVE  /\ pc' \in [Proc -> Places] /\ job' \in [Proc -> Task]
         /\ pc'[p] = "user"
         /\ \A q \in Proc \ {p} : SameCall(q)
  BY StayEffect, NoJobType DEF Return, Places

\* pipe_write() returns, kills its caller or waits for room, and has told
\* everybody if it has copied something.
LEMMA WriteOutcome ==
  ASSUME TypeOK, NEW p \in Proc, NEW f \in File, NEW n \in Nat, NEW left \in 1..n,
         WriteStep(p, f, left, n),
         NEW m, m = Room(Wr(f), left, n)
  PROVE  /\ pc' \in [Proc -> Places] /\ job' \in [Proc -> Task]
         /\ \A q \in Proc \ {p} : SameCall(q)
         /\ asleep' \subseteq asleep \cup {p}
         /\ m > 0 => \A q \in asleep' : q \in WakeReaders(Wr(f)) => q = p
         /\ \/ pc'[p] \in {"user", "exit"} /\ p \notin asleep'
            \/ /\ pc'[p] = "write" /\ job'[p] = Job(f, left - m, n, "w")
               /\ m < left /\ ~Broken(Wr(f))
<1>1. m \in 0..left
  BY RoomBounds, SidesAreEnds
<1>2. NoJob \in Task /\ Job(f, left - m, n, "w") \in Task
  <2>1. left - m \in Nat
    BY <1>1
  <2> QED
    BY <2>1, NoJobType, JobType
<1>3. {"user", "exit", "write"} \subseteq Places
  BY DEF Places, Calling
<1> DEFINE e == Wr(f)
<1>4. \/ /\ pc' = [pc EXCEPT ![p] = "user"] /\ job' = [job EXCEPT ![p] = NoJob]
         /\ asleep' = asleep \ (WakeReaders(e) \cup {p})
      \/ /\ pc' = [pc EXCEPT ![p] = "user"] \/ pc' = [pc EXCEPT ![p] = "exit"]
         /\ job' = [job EXCEPT ![p] = NoJob]
         /\ asleep' = asleep \ ((IF m > 0 THEN WakeReaders(e) ELSE {}) \cup {p})
      \/ /\ m < left /\ ~Broken(e)
         /\ pc' = [pc EXCEPT ![p] = "write"]
         /\ job' = [job EXCEPT ![p] = Job(f, left - m, n, "w")]
         /\ asleep' = (asleep \ WakeReaders(e)) \cup {p}
  BY DEF WriteStep, Return, Stay
<1> HIDE DEF e
<1>5. CASE /\ pc' = [pc EXCEPT ![p] = "user"] \/ pc' = [pc EXCEPT ![p] = "exit"]
           /\ job' = [job EXCEPT ![p] = NoJob]
           /\ asleep' = asleep \ ((IF m > 0 THEN WakeReaders(e) ELSE {}) \cup {p})
                \/ asleep' = asleep \ (WakeReaders(e) \cup {p})
  <2>1. /\ pc' \in [Proc -> Places] /\ job' \in [Proc -> Task]
        /\ \A q \in Proc \ {p} : SameCall(q)
        /\ pc'[p] \in {"user", "exit"}
    BY <1>2, <1>3, <1>5, StayEffect
  <2> QED
    BY <2>1, <1>5 DEF e
<1>6. CASE /\ m < left /\ ~Broken(e)
           /\ pc' = [pc EXCEPT ![p] = "write"]
           /\ job' = [job EXCEPT ![p] = Job(f, left - m, n, "w")]
           /\ asleep' = (asleep \ WakeReaders(e)) \cup {p}
  <2>1. /\ pc' \in [Proc -> Places] /\ job' \in [Proc -> Task]
        /\ \A q \in Proc \ {p} : SameCall(q)
        /\ pc'[p] = "write" /\ job'[p] = Job(f, left - m, n, "w")
    BY <1>2, <1>3, <1>6, StayEffect
  <2> QED
    BY <2>1, <1>6 DEF e
<1> QED
  BY <1>4, <1>5, <1>6

LEMMA ReadOutcome ==
  ASSUME TypeOK, NEW p \in Proc, NEW f \in File, NEW n \in Nat, NEW left \in 1..n,
         ReadStep(p, f, left, n),
         NEW m, m = Min2(pipe[Rd(f)].len, left)
  PROVE  /\ pc' \in [Proc -> Places] /\ job' \in [Proc -> Task]
         /\ \A q \in Proc \ {p} : SameCall(q)
         /\ asleep' \subseteq asleep \cup {p}
         /\ \A q \in asleep' : q \in WakeWriters(Rd(f)) => q = p
         /\ \/ pc'[p] = "user" /\ p \notin asleep'
            \/ /\ pc'[p] = "read" /\ job'[p] = Job(f, left - m, n, "r")
               /\ m < left /\ ~Eof(Rd(f))
<1>1. m \in 0..left
  BY ReadEffect
<1>2. NoJob \in Task /\ Job(f, left - m, n, "r") \in Task
  <2>1. left - m \in Nat
    BY <1>1
  <2> QED
    BY <2>1, NoJobType, JobType
<1>3. {"user", "read"} \subseteq Places
  BY DEF Places, Calling
<1> DEFINE e == Rd(f)
<1>4. \/ /\ pc' = [pc EXCEPT ![p] = "user"] /\ job' = [job EXCEPT ![p] = NoJob]
         /\ asleep' = asleep \ (WakeWriters(e) \cup {p})
      \/ /\ m # left /\ ~Eof(e)
         /\ pc' = [pc EXCEPT ![p] = "read"]
         /\ job' = [job EXCEPT ![p] = Job(f, left - m, n, "r")]
         /\ asleep' = (asleep \ WakeWriters(e)) \cup {p}
  BY DEF ReadStep, Return, Stay
<1> HIDE DEF e
<1>5. CASE /\ pc' = [pc EXCEPT ![p] = "user"] /\ job' = [job EXCEPT ![p] = NoJob]
           /\ asleep' = asleep \ (WakeWriters(e) \cup {p})
  <2>1. /\ pc' \in [Proc -> Places] /\ job' \in [Proc -> Task]
        /\ \A q \in Proc \ {p} : SameCall(q)
        /\ pc'[p] = "user"
    BY <1>2, <1>3, <1>5, StayEffect
  <2> QED
    BY <2>1, <1>5 DEF e
<1>6. CASE /\ m # left /\ ~Eof(e)
           /\ pc' = [pc EXCEPT ![p] = "read"]
           /\ job' = [job EXCEPT ![p] = Job(f, left - m, n, "r")]
           /\ asleep' = (asleep \ WakeWriters(e)) \cup {p}
  <2>0. m < left
    BY <1>1, <1>6
  <2>1. /\ pc' \in [Proc -> Places] /\ job' \in [Proc -> Task]
        /\ \A q \in Proc \ {p} : SameCall(q)
        /\ pc'[p] = "read" /\ job'[p] = Job(f, left - m, n, "r")
    BY <1>2, <1>3, <1>6, <2>0, StayEffect
  <2> QED
    BY <2>0, <2>1, <1>6 DEF e
<1> QED
  BY <1>4, <1>5, <1>6

-----------------------------------------------------------------------------
(* What a step that leaves something alone preserves.                        *)

SameHolders == \A f \in File : /\ file'[f].holders = file[f].holders
                               /\ file'[f].mode = file[f].mode

SameLocks == lock' = lock /\ \A f \in File : file'[f].lock = file[f].lock

InUse == {"read", "write", "setlk", "stray"}

LEMMA TypeFrame ==
  ASSUME fifo' \in {"none", "live", "gone"}, attr' \in Attrs, pipe' \in [End -> Ring],
         buf' \in [End -> Bytes], file' \in [File -> Filep],
         lock' \in [on : BOOLEAN, pid : Proc \cup {Nobody}],
         pc' \in [Proc -> Places], job' \in [Proc -> Task],
         \A q \in asleep' : q \in Proc /\ pc'[q] \in Calling
  PROVE  TypeOK'
  BY DEF TypeOK, Ring, Bytes, Filep, Places, Task

\* The sleepers are still in their calls.
LEMMA AsleepFrame ==
  ASSUME TypeOK, NEW p \in Proc, asleep' \subseteq asleep \cup {p},
         \A q \in Proc \ {p} : SameCall(q),
         p \in asleep' => pc'[p] \in Calling
  PROVE  \A q \in asleep' : q \in Proc /\ pc'[q] \in Calling
  BY DEF TypeOK, SameCall

\* A step that changes the call of one process, but not who has which file.
LEMMA OneCallKeeps ==
  ASSUME IInv, NEW p \in Proc, fifo' = fifo, attr' = attr, SameHolders, SameCounts,
         \A q \in Proc \ {p} : SameCall(q),
         pc[p] # "new", pc'[p] # "new", CallOK(p)',
         fifo = "none" => pc'[p] \in {"user", "exit"} /\ lock' = lock /\ pipe' = pipe,
         fifo = "gone" /\ pc'[p] \in InUse => pc[p] \in InUse /\ job'[p].f = job[p].f
  PROVE  /\ CallsOK' /\ BeforeOK' /\ HeadOK' /\ OneHolder' /\ CountsRight'
         /\ NotFreedInUse'
<1>1. job \in [Proc -> Task] /\ \A q \in Proc : job[q].f \in File
  BY TypeParts DEF IInv, Task
<1>2. CallsOK'
  <2>1. ASSUME NEW q \in Proc, q # p PROVE CallOK(q)'
    <3>1. CallOK(q) /\ SameCall(q) /\ job[q].f \in File
      BY <2>1, <1>1 DEF IInv, CallsOK
    <3> QED
      BY <3>1 DEF CallOK, SameCall, SameHolders
  <2> QED
    BY <2>1 DEF CallsOK
<1>3. BeforeOK'
  <2> SUFFICES ASSUME fifo = "none" PROVE BeforeOK'
    BY DEF BeforeOK
  <2>1. /\ \A f \in File : file'[f].holders = {}
        /\ lock'.on = FALSE /\ pipe' = [e \in End |-> Fresh(0, 0)]
    BY DEF IInv, BeforeOK, SameHolders
  <2>2. \A q \in Proc : pc'[q] \in {"new", "user", "exit"}
    BY DEF IInv, BeforeOK, SameCall
  <2> QED
    BY <2>1, <2>2 DEF BeforeOK
<1>4. HeadOK'
  BY PipeAssumption DEF IInv, HeadOK, HeadOpen, SameHolders
<1>5. OneHolder'
  <2>1. NotForked' => NotForked
    <3>1. \A q \in New : pc'[q] = "new" => pc[q] = "new"
      BY PipeAssumption DEF SameCall
    <3> QED
      BY <3>1 DEF NotForked
  <2> QED
    BY <2>1 DEF IInv, OneHolder, SameHolders
<1>6. CountsRight'
  BY CountsFrame DEF IInv, SameHolders, SameOpen
<1>7. NotFreedInUse'
  <2> SUFFICES ASSUME fifo = "gone", NEW q \in Proc, pc'[q] \in InUse
               PROVE  job'[q].f # Server /\ file'[job'[q].f].mode = "w"
    BY DEF NotFreedInUse, InUse
  <2>1. pc[q] \in InUse /\ job'[q].f = job[q].f
    BY DEF SameCall
  <2>2. job[q].f # Server /\ file[job[q].f].mode = "w" /\ job[q].f \in File
    BY <2>1, <1>1 DEF IInv, NotFreedInUse, InUse
  <2> QED
    BY <2>1, <2>2 DEF SameHolders
<1> QED
  BY <1>2, <1>3, <1>4, <1>5, <1>6, <1>7

\* A lock stays with its owner as long as nobody closes, locks or forks.
LEMMA LockFrame ==
  ASSUME LockOwned, SameLocks, SameHolders, fifo' = fifo, attr' = attr,
         \A q \in New : pc'[q] = "new" => pc[q] = "new"
  PROVE  LockOwned'
<1> SUFFICES ASSUME fifo = "live", lock.on, NotForked'
             PROVE  \E f \in File : lock'.pid \in file'[f].holders /\ file'[f].lock
  BY DEF LockOwned, NotForked, SameLocks
<1>1. NotForked
  BY DEF NotForked
<1>2. PICK f \in File : lock.pid \in file[f].holders /\ file[f].lock
  BY <1>1 DEF LockOwned, NotForked
<1> QED
  BY <1>2 DEF SameLocks, SameHolders

LEMMA SleepersForm ==
  /\ NoLostWakeup <=> (fifo = "live" => \A q \in asleep : SleepsWell(q))
  /\ NoLostWakeup' <=> (fifo' = "live" => \A q \in asleep' : SleepsWell(q)')
  /\ SelectMissesNothing <=> (fifo = "live" => \A q \in asleep : SelectsWell(q))
  /\ SelectMissesNothing' <=> (fifo' = "live" => \A q \in asleep' : SelectsWell(q)')
<1>1. NoLostWakeup <=> (fifo = "live" => \A q \in asleep : SleepsWell(q))
  BY DEF NoLostWakeup, SleepsWell
<1>2. NoLostWakeup' <=> (fifo' = "live" => \A q \in asleep' : SleepsWell(q)')
  BY DEF NoLostWakeup, SleepsWell
<1>3. SelectMissesNothing <=> (fifo = "live" => \A q \in asleep : SelectsWell(q))
  BY DEF SelectMissesNothing, SelectsWell
<1>4. SelectMissesNothing' <=> (fifo' = "live" => \A q \in asleep' : SelectsWell(q)')
  BY DEF SelectMissesNothing, SelectsWell
<1> QED
  BY <1>1, <1>2, <1>3, <1>4

\* What lets a process go on sleeping in Fread(), Fwrite() and Fcntl(F_SETLKW).
LEMMA SleepFrame ==
  ASSUME NEW q \in Proc, SleepsWell(q), SameCall(q),
         pc[q] \in {"read", "write"} =>
           /\ pipe'[Channel(q)].len = pipe[Channel(q)].len
           /\ Eof(Channel(q))' => Eof(Channel(q))
           /\ Broken(Channel(q))' => Broken(Channel(q)),
         pc[q] = "setlk" /\ Taken(q) => Taken(q)'
  PROVE  SleepsWell(q)'
<1>1. Channel(q)' = Channel(q)
  BY DEF Channel, SameCall, Rd, Wr
<1>2. CASE pc[q] = "read"
  BY <1>1, <1>2 DEF SleepsWell, SameCall, Eof, Channel
<1>3. CASE pc[q] = "write"
  BY <1>1, <1>3 DEF SleepsWell, SameCall, Broken, Channel, Room
<1>4. CASE pc[q] \notin {"read", "write"}
  BY <1>4 DEF SleepsWell, SameCall
<1> QED
  BY <1>2, <1>3, <1>4

LEMMA SelectFrame ==
  ASSUME NEW q \in Proc, SelectsWell(q), SameCall(q),
         NEW e, e = Side(job[q].f, job[q].dir), NEW d, d = job[q].dir,
         pc[q] = "select" =>
           /\ Selecting(e, d) = q => Selecting(e, d)' = q
           /\ Ready(e, d)' => Ready(e, d) \/ job'[q].missed,
         pc[q] = "coll" =>
           /\ Selecting(e, d)' = Selecting(e, d)
           /\ pc'[Selecting(e, d)] \in {"select", "exit"}
  PROVE  SelectsWell(q)'
<1>1. e = Side(job'[q].f, job'[q].dir) /\ d = job'[q].dir
  BY DEF SameCall, Side, Rd, Wr
<1>2. CASE pc[q] = "select"
  BY <1>1, <1>2 DEF SelectsWell, SameCall, Selecting, Ready, Side, Rd, Wr
<1>3. CASE pc[q] = "coll"
  BY <1>1, <1>3 DEF SelectsWell, SameCall, Selecting, Side, Rd, Wr
<1>4. CASE pc[q] \notin {"select", "coll"}
  BY <1>4 DEF SelectsWell, SameCall
<1> QED
  BY <1>2, <1>3, <1>4

LEMMA RegisteredFrame ==
  ASSUME TypeOK, Registered, SameSel, NEW p \in Proc, \A q \in Proc \ {p} : SameCall(q),
         pc[p] \in {"select", "exit"} => pc'[p] = "exit" \/ SameCall(p)
  PROVE  Registered'
<1> SUFFICES ASSUME NEW e \in End
             PROVE  /\ pipe'[e].rsel # Nobody =>
                         /\ pc'[pipe'[e].rsel] \in {"select", "exit"}
                         /\ pc'[pipe'[e].rsel] = "select" =>
                              job'[pipe'[e].rsel].dir = "r" /\ Rd(job'[pipe'[e].rsel].f) = e
                    /\ pipe'[e].wsel # Nobody =>
                         /\ pc'[pipe'[e].wsel] \in {"select", "exit"}
                         /\ pc'[pipe'[e].wsel] = "select" =>
                              job'[pipe'[e].wsel].dir = "w" /\ Wr(job'[pipe'[e].wsel].f) = e
  BY DEF Registered, Rd, Wr
<1>1. /\ pipe'[e].rsel = pipe[e].rsel /\ pipe'[e].wsel = pipe[e].wsel
      /\ pipe[e].rsel \in Proc \cup {Nobody} /\ pipe[e].wsel \in Proc \cup {Nobody}
  BY TypeParts, RingField DEF SameSel
<1>2. ASSUME NEW s \in Proc, pc[s] \in {"select", "exit"}
      PROVE  /\ pc'[s] \in {"select", "exit"}
             /\ pc'[s] = "select" => /\ pc[s] = "select" /\ job'[s].dir = job[s].dir
                                     /\ job'[s].f = job[s].f
  BY <1>2 DEF SameCall
<1>3. pipe[e].rsel # Nobody =>
        /\ pc'[pipe'[e].rsel] \in {"select", "exit"}
        /\ pc'[pipe'[e].rsel] = "select" =>
             job'[pipe'[e].rsel].dir = "r" /\ Rd(job'[pipe'[e].rsel].f) = e
  BY <1>1, <1>2 DEF Registered
<1>4. pipe[e].wsel # Nobody =>
        /\ pc'[pipe'[e].wsel] \in {"select", "exit"}
        /\ pc'[pipe'[e].wsel] = "select" =>
             job'[pipe'[e].wsel].dir = "w" /\ Wr(job'[pipe'[e].wsel].f) = e
  BY <1>1, <1>2 DEF Registered
<1> QED
  BY <1>1, <1>3, <1>4

LEMMA SideType ==
  ASSUME IInv, NEW q \in Proc
  PROVE  Side(job[q].f, job[q].dir) \in End /\ job[q].f \in File
  BY TypeParts DEF IInv, Task, Side, Rd, Wr, End

LEMMA SelectingType ==
  ASSUME IInv, NEW e \in End, NEW d
  PROVE  /\ Selecting(e, d) \in Proc \cup {Nobody}
         /\ Selecting(e, d) # Nobody => /\ Selecting(e, d) \in Proc
                                        /\ pc[Selecting(e, d)] \in {"select", "exit"}
<1>1. pipe[e].rsel \in Proc \cup {Nobody} /\ pipe[e].wsel \in Proc \cup {Nobody}
  BY TypeParts, RingField DEF IInv
<1> QED
  BY <1>1 DEF IInv, Registered, Selecting

\* The other sleepers in Fselect() when nobody leaves it.
LEMMA OthersSelect ==
  ASSUME IInv, fifo = "live", NEW p \in Proc, SameSel,
         \A q \in Proc \ {p} : SameCall(q),
         pc[p] \in {"select", "exit"} => pc'[p] \in {"select", "exit"},
         NEW q \in asleep, q # p,
         NEW e, e = Side(job[q].f, job[q].dir), NEW d, d = job[q].dir,
         pc[q] = "select" /\ Selecting(e, d) = q /\ Ready(e, d)'
           => Ready(e, d) \/ job'[q].missed
  PROVE  SelectsWell(q)'
<1>1. q \in Proc /\ pc[q] \in Calling /\ e \in End
  BY SideType DEF IInv, TypeOK
<1>2. SelectsWell(q) /\ SameCall(q)
  BY <1>1, SleepersForm DEF IInv
<1>3. Selecting(e, d)' = Selecting(e, d)
  BY <1>1 DEF SameSel, Selecting
<1>4. pc[q] = "coll" => pc'[Selecting(e, d)] \in {"select", "exit"}
  <2> SUFFICES ASSUME pc[q] = "coll" PROVE pc'[Selecting(e, d)] \in {"select", "exit"}
    OBVIOUS
  <2>1. Selecting(e, d) # Nobody
    BY <1>2 DEF SelectsWell
  <2>2. Selecting(e, d) \in Proc /\ pc[Selecting(e, d)] \in {"select", "exit"}
    BY <1>1, <2>1, SelectingType
  <2> QED
    BY <2>2 DEF SameCall
<1>5. pc[q] = "select" => Selecting(e, d) = q
  BY <1>2 DEF SelectsWell
<1> QED
  BY <1>1, <1>2, <1>3, <1>4, <1>5, SelectFrame

LEMMA WriteKeeps ==
  ASSUME IInv, NEW p \in Proc, NEW f \in File, NEW n \in Nat, NEW left \in 1..n,
         WriteStep(p, f, left, n), fifo = "live", pc[p] \in {"user", "write"}, p \notin asleep,
         p \in file[f].holders, n \in attr.lengths, n <= PipeBuf => left = n
  PROVE  IInv'
<1> DEFINE e == Wr(f)  m == Room(e, left, n)
<1>1. TypeOK /\ e \in End /\ m \in 0..left /\ (n <= PipeBuf => m \in {0, left})
      /\ fifo' = fifo /\ attr' = attr /\ file' = file /\ lock' = lock
  BY RoomBounds, SidesAreEnds DEF WriteStep, IInv
<1>2. /\ pipe' \in [End -> Ring] /\ buf' \in [End -> Bytes]
      /\ SameCounts /\ SameSel
      /\ \A d \in End : d # e => pipe'[d] = pipe[d] /\ buf'[d] = buf[d]
      /\ pipe'[e].len = pipe[e].len + m
  BY <1>1, WriteEffect
<1>3. /\ pc' \in [Proc -> Places] /\ job' \in [Proc -> Task]
      /\ \A q \in Proc \ {p} : SameCall(q)
      /\ asleep' \subseteq asleep \cup {p}
      /\ m > 0 => \A q \in asleep' : q \in WakeReaders(e) => q = p
      /\ \/ pc'[p] \in {"user", "exit"} /\ p \notin asleep'
         \/ /\ pc'[p] = "write" /\ job'[p] = Job(f, left - m, n, "w")
            /\ m < left /\ ~Broken(e)
  BY <1>1, WriteOutcome
<1>4. pipe \in [End -> Ring] /\ pipe[e].len \in 0..PipeSiz /\ PipeSiz \in Nat
  BY <1>1, TypeParts, RingField, PipeAssumption
<1>5. pc'[p] = "write" =>
        job'[p].f = f /\ job'[p].left = left - m /\ job'[p].n = n /\ left - m \in 1..n
  <2> SUFFICES ASSUME pc'[p] = "write"
               PROVE  job'[p].f = f /\ job'[p].left = left - m /\ job'[p].n = n /\ left - m \in 1..n
    OBVIOUS
  <2> HIDE DEF m
  <2>1. left - m \in 1..n /\ left - m \in Nat
    BY <1>1, <1>3
  <2>2. job'[p] = Job(f, left - m, n, "w")
    BY <1>3
  <2> QED
    BY <2>1, <2>2 DEF Job
<1> HIDE DEF m, e
<1>6. TypeOK'
  <2>1. p \in asleep' => pc'[p] \in Calling
    BY <1>3 DEF Calling
  <2>2. \A q \in asleep' : q \in Proc /\ pc'[q] \in Calling
    BY <1>1, <1>3, <2>1, AsleepFrame
  <2> QED
    BY <1>1, <1>2, <1>3, <2>2, TypeFrame, TypeParts DEF TypeOK
<1>7. CallOK(p)'
  <2>1. CASE pc'[p] \in {"user", "exit"}
    BY <2>1 DEF CallOK, Calling
  <2>2. CASE pc'[p] = "write"
    BY <1>1, <1>3, <1>5, <2>2 DEF CallOK, Calling
  <2> QED
    BY <1>3, <2>1, <2>2
<1>8. SameHolders /\ SameLocks
  BY <1>1 DEF SameHolders, SameLocks
<1>9. CallsOK' /\ BeforeOK' /\ HeadOK' /\ OneHolder' /\ CountsRight' /\ NotFreedInUse'
  BY <1>1, <1>2, <1>3, <1>7, <1>8, OneCallKeeps
<1>10. LockOwned'
  <2>1. \A q \in New : pc'[q] = "new" => pc[q] = "new"
    BY <1>3, PipeAssumption DEF SameCall
  <2> QED
    BY <1>1, <1>8, <2>1, LockFrame DEF IInv
<1>11. Registered'
  BY <1>1, <1>2, <1>3, RegisteredFrame DEF IInv
<1>12. ASSUME NEW q \in asleep', q # p
       PROVE  SleepsWell(q)'
  <2>1. q \in Proc /\ q \in asleep /\ SleepsWell(q) /\ SameCall(q)
    BY <1>3, <1>12, SleepersForm DEF IInv, TypeOK
  <2>2. pc[q] \in {"read", "write"} =>
          /\ Channel(q) \in End
          /\ pipe'[Channel(q)].len = pipe[Channel(q)].len
    <3>1. pc[q] \in {"read", "write"} /\ Channel(q) = e => ~(m > 0)
      BY <1>3, <1>12, <2>1 DEF WakeReaders, OnPipe
    <3> QED
      BY <1>1, <1>2, <1>4, <3>1 DEF Channel, Rd, Wr, End
  <2>3. Channel(q)' = Channel(q)
    BY <2>1 DEF SameCall, Channel, Rd, Wr
  <2>4. pc[q] \in {"read", "write"} =>
           /\ Eof(Channel(q))' => Eof(Channel(q))
           /\ Broken(Channel(q))' => Broken(Channel(q))
    BY <1>2, <2>2, <2>3 DEF Eof, Broken, SameCounts
  <2>5. Taken(q) => Taken(q)'
    BY <1>1 DEF Taken
  <2> QED
    BY <2>1, <2>2, <2>4, <2>5, SleepFrame
<1>13. p \in asleep' => SleepsWell(p)'
  <2> SUFFICES ASSUME p \in asleep' PROVE SleepsWell(p)'
    OBVIOUS
  <2>1. pc'[p] = "write" /\ m < left /\ ~Broken(e)
    BY <1>3
  <2>2. Channel(p)' = e
    BY <2>1, <1>5 DEF Channel, e, Wr
  <2>3. ~Broken(e)'
    BY <1>1, <1>2, <2>1 DEF Broken, SameCounts
  <2>4. m = IF n <= PipeBuf /\ PipeSiz - pipe[e].len < left THEN 0
            ELSE IF PipeSiz - pipe[e].len < left THEN PipeSiz - pipe[e].len ELSE left
    BY DEF m, Room, Min2
  <2>5. (IF n <= PipeBuf /\ PipeSiz - pipe'[e].len < left - m THEN 0
            ELSE IF PipeSiz - pipe'[e].len < left - m THEN PipeSiz - pipe'[e].len ELSE left - m) = 0
    BY <1>1, <1>2, <1>4, <2>1, <2>4, PipeAssumption
  <2>6. Room(e, job[p].left, job[p].n)' = 0
    BY <1>5, <2>1, <2>5 DEF Room, Min2
  <2> QED
    BY <2>1, <2>2, <2>3, <2>6 DEF SleepsWell
<1>14. NoLostWakeup'
  BY <1>12, <1>13, SleepersForm
<1>15. ASSUME NEW q \in asleep', q # p
       PROVE  SelectsWell(q)'
  <2> PICK c : c = Side(job[q].f, job[q].dir)
    OBVIOUS
  <2> PICK d : d = job[q].dir
    OBVIOUS
  <2>1. q \in Proc /\ q \in asleep /\ c \in End
    BY <1>3, <1>15, SideType DEF IInv, TypeOK
  <2>2. CallOK(q)
    BY <2>1 DEF IInv, CallsOK
  <2>3. ASSUME pc[q] = "select", Selecting(c, d) = q, Ready(c, d)'
        PROVE  Ready(c, d)
    <3>1. d \in {"r", "w"}
      BY <2>2, <2>3 DEF CallOK
    <3>2. pipe'[c].readers = pipe[c].readers /\ pipe'[c].writers = pipe[c].writers
      BY <2>1, <1>2 DEF SameCounts
    <3>3. CASE d = "w"
      <4>1. pipe'[c].len \in Int /\ pipe[c].len \in Int /\ pipe'[c].len >= pipe[c].len
        BY <2>1, <1>1, <1>2, <1>4, RingField
      <4> QED
        BY <2>3, <3>2, <3>3, <4>1, <1>4 DEF Ready
    <3>4. CASE d = "r"
      <4>1. pipe'[c].len = pipe[c].len
        <5>1. CASE c = e
          <6>1. pipe[e].rsel = q
            BY <2>3, <3>4, <5>1 DEF Selecting
          <6>2. ~(m > 0)
            BY <6>1, <1>3, <1>15 DEF WakeReaders
          <6> QED
            BY <5>1, <6>2, <1>1, <1>2, <1>4
        <5>2. CASE c # e
          BY <5>2, <2>1, <1>2
        <5> QED
          BY <5>1, <5>2
      <4> QED
        BY <2>3, <3>2, <3>4, <4>1 DEF Ready
    <3> QED
      BY <3>1, <3>3, <3>4
  <2> QED
    BY <1>2, <1>3, <1>15, <2>1, <2>3, OthersSelect
<1>16. p \in asleep' => SelectsWell(p)'
  BY <1>3 DEF SelectsWell
<1>17. SelectMissesNothing'
  BY <1>15, <1>16, SleepersForm
<1> QED
  BY <1>6, <1>9, <1>10, <1>11, <1>14, <1>17 DEF IInv

LEMMA ReadKeeps ==
  ASSUME IInv, NEW p \in Proc, NEW f \in File, NEW n \in Nat, NEW left \in 1..n,
         ReadStep(p, f, left, n), fifo = "live", pc[p] \in {"user", "read"}, p \notin asleep,
         p \in file[f].holders
  PROVE  IInv'
<1> DEFINE e == Rd(f)  m == Min2(pipe[e].len, left)
<1>1. TypeOK /\ e \in End
      /\ fifo' = fifo /\ attr' = attr /\ file' = file /\ lock' = lock
  BY SidesAreEnds DEF ReadStep, IInv
<1>2. /\ m \in 0..pipe[e].len /\ m \in 0..left
      /\ pipe' \in [End -> Ring] /\ buf' \in [End -> Bytes]
      /\ SameCounts /\ SameSel
      /\ \A d \in End : d # e => pipe'[d] = pipe[d] /\ buf'[d] = buf[d]
      /\ pipe'[e].len = pipe[e].len - m
  BY <1>1, ReadEffect
<1>3. /\ pc' \in [Proc -> Places] /\ job' \in [Proc -> Task]
      /\ \A q \in Proc \ {p} : SameCall(q)
      /\ asleep' \subseteq asleep \cup {p}
      /\ \A q \in asleep' : q \in WakeWriters(e) => q = p
      /\ \/ pc'[p] = "user" /\ p \notin asleep'
         \/ /\ pc'[p] = "read" /\ job'[p] = Job(f, left - m, n, "r")
            /\ m < left /\ ~Eof(e)
  BY <1>1, ReadOutcome
<1>4. pipe \in [End -> Ring] /\ pipe[e].len \in 0..PipeSiz /\ PipeSiz \in Nat
  BY <1>1, TypeParts, RingField, PipeAssumption
<1>5. m = IF pipe[e].len < left THEN pipe[e].len ELSE left
  BY DEF Min2
<1> HIDE DEF m, e
<1>6. pc'[p] = "read" =>
        job'[p].f = f /\ job'[p].left = left - m /\ job'[p].n = n /\ left - m \in 1..n
  <2> SUFFICES ASSUME pc'[p] = "read"
               PROVE  job'[p].f = f /\ job'[p].left = left - m /\ job'[p].n = n /\ left - m \in 1..n
    OBVIOUS
  <2>1. left - m \in 1..n /\ left - m \in Nat
    BY <1>2, <1>3
  <2>2. job'[p] = Job(f, left - m, n, "r")
    BY <1>3
  <2> QED
    BY <2>1, <2>2 DEF Job
<1>7. TypeOK'
  <2>1. p \in asleep' => pc'[p] \in Calling
    BY <1>3 DEF Calling
  <2>2. \A q \in asleep' : q \in Proc /\ pc'[q] \in Calling
    BY <1>1, <1>3, <2>1, AsleepFrame
  <2> QED
    BY <1>1, <1>2, <1>3, <2>2, TypeFrame, TypeParts DEF TypeOK
<1>8. CallOK(p)'
  <2>1. CASE pc'[p] = "user"
    BY <2>1 DEF CallOK, Calling
  <2>2. CASE pc'[p] = "read"
    BY <1>1, <1>3, <1>6, <2>2 DEF CallOK, Calling
  <2> QED
    BY <1>3, <2>1, <2>2
<1>9. SameHolders /\ SameLocks
  BY <1>1 DEF SameHolders, SameLocks
<1>10. CallsOK' /\ BeforeOK' /\ HeadOK' /\ OneHolder' /\ CountsRight' /\ NotFreedInUse'
  BY <1>1, <1>2, <1>3, <1>8, <1>9, OneCallKeeps
<1>11. LockOwned'
  <2>1. \A q \in New : pc'[q] = "new" => pc[q] = "new"
    BY <1>3, PipeAssumption DEF SameCall
  <2> QED
    BY <1>1, <1>9, <2>1, LockFrame DEF IInv
<1>12. Registered'
  BY <1>1, <1>2, <1>3, RegisteredFrame DEF IInv
<1>13. ASSUME NEW q \in asleep', q # p
       PROVE  SleepsWell(q)'
  <2>1. q \in Proc /\ q \in asleep /\ SleepsWell(q) /\ SameCall(q)
    BY <1>3, <1>13, SleepersForm DEF IInv, TypeOK
  <2>2. pc[q] \in {"read", "write"} =>
          /\ Channel(q) \in End
          /\ pipe'[Channel(q)].len = pipe[Channel(q)].len
    <3>1. ~(pc[q] \in {"read", "write"} /\ Channel(q) = e)
      BY <1>3, <1>13, <2>1 DEF WakeWriters, OnPipe
    <3> QED
      BY <1>2, <3>1 DEF Channel, Rd, Wr, End
  <2>3. Channel(q)' = Channel(q)
    BY <2>1 DEF SameCall, Channel, Rd, Wr
  <2>4. pc[q] \in {"read", "write"} =>
           /\ Eof(Channel(q))' => Eof(Channel(q))
           /\ Broken(Channel(q))' => Broken(Channel(q))
    BY <1>2, <2>2, <2>3 DEF Eof, Broken, SameCounts
  <2>5. Taken(q) => Taken(q)'
    BY <1>1 DEF Taken
  <2> QED
    BY <2>1, <2>2, <2>4, <2>5, SleepFrame
<1>14. p \in asleep' => SleepsWell(p)'
  <2> SUFFICES ASSUME p \in asleep' PROVE SleepsWell(p)'
    OBVIOUS
  <2>1. pc'[p] = "read" /\ m < left /\ ~Eof(e)
    BY <1>3
  <2>2. Channel(p)' = e
    BY <2>1, <1>6 DEF Channel, e, Rd
  <2>3. ~Eof(e)'
    BY <1>1, <1>2, <2>1 DEF Eof, SameCounts
  <2>4. pipe'[e].len = 0
    BY <1>2, <1>4, <1>5, <2>1
  <2> QED
    BY <2>1, <2>2, <2>3, <2>4 DEF SleepsWell
<1>15. NoLostWakeup'
  BY <1>13, <1>14, SleepersForm
<1>16. ASSUME NEW q \in asleep', q # p
       PROVE  SelectsWell(q)'
  <2> PICK c : c = Side(job[q].f, job[q].dir)
    OBVIOUS
  <2> PICK d : d = job[q].dir
    OBVIOUS
  <2>1. q \in Proc /\ q \in asleep /\ c \in End
    BY <1>3, <1>16, SideType DEF IInv, TypeOK
  <2>2. CallOK(q)
    BY <2>1 DEF IInv, CallsOK
  <2>3. ASSUME pc[q] = "select", Selecting(c, d) = q, Ready(c, d)'
        PROVE  Ready(c, d)
    <3>1. d \in {"r", "w"}
      BY <2>2, <2>3 DEF CallOK
    <3>2. pipe'[c].readers = pipe[c].readers /\ pipe'[c].writers = pipe[c].writers
      BY <2>1, <1>2 DEF SameCounts
    <3>3. CASE d = "r"
      <4>1. pipe'[c].len \in Int /\ pipe[c].len \in Int /\ pipe'[c].len <= pipe[c].len
        BY <2>1, <1>2, <1>4, RingField
      <4> QED
        BY <2>3, <3>2, <3>3, <4>1, <1>4 DEF Ready
    <3>4. CASE d = "w"
      <4>1. c # e
        <5> SUFFICES ASSUME c = e PROVE FALSE
          OBVIOUS
        <5>1. pipe[e].wsel = q
          BY <2>3, <3>4 DEF Selecting
        <5> QED
          BY <5>1, <1>3, <1>16 DEF WakeWriters
      <4> QED
        BY <2>1, <2>3, <3>2, <3>4, <4>1, <1>2 DEF Ready
    <3> QED
      BY <3>1, <3>3, <3>4
  <2> QED
    BY <1>2, <1>3, <1>16, <2>1, <2>3, OthersSelect
<1>17. p \in asleep' => SelectsWell(p)'
  BY <1>3 DEF SelectsWell
<1>18. SelectMissesNothing'
  BY <1>16, <1>17, SleepersForm
<1> QED
  BY <1>7, <1>10, <1>11, <1>12, <1>15, <1>18 DEF IInv

\* A step at which the file pointers and ring buffers do not change: one
\* process leaves its call or goes to sleep, others may be woken.
LEMMA ProcKeeps ==
  ASSUME IInv, NEW p \in Proc, UNCHANGED <<fifo, attr, pipe, buf, lock>>,
         file' \in [File -> Filep], SameHolders, SameLocks,
         pc' \in [Proc -> Places], job' \in [Proc -> Task],
         \A q \in Proc \ {p} : SameCall(q),
         asleep' \subseteq asleep \cup {p}, p \in asleep' => pc'[p] \in Calling,
         pc[p] # "new", pc'[p] # "new", CallOK(p)',
         fifo = "none" => pc'[p] \in {"user", "exit"},
         fifo = "gone" /\ pc'[p] \in InUse => pc[p] \in InUse /\ job'[p].f = job[p].f,
         pc[p] \in {"select", "exit"} => pc'[p] = "exit" \/ SameCall(p),
         fifo = "live" /\ p \in asleep' => SleepsWell(p)' /\ SelectsWell(p)'
  PROVE  IInv'
<1>1. TypeOK /\ SameCounts /\ SameSel
  BY DEF IInv, SameCounts, SameSel
<1>2. TypeOK'
  <2>1. \A q \in asleep' : q \in Proc /\ pc'[q] \in Calling
    BY <1>1, AsleepFrame
  <2> QED
    BY <1>1, <2>1, TypeFrame, TypeParts DEF TypeOK
<1>3. CallsOK' /\ BeforeOK' /\ HeadOK' /\ OneHolder' /\ CountsRight' /\ NotFreedInUse'
  BY <1>1, OneCallKeeps
<1>4. LockOwned'
  <2>1. \A q \in New : pc'[q] = "new" => pc[q] = "new"
    BY PipeAssumption DEF SameCall
  <2> QED
    BY <2>1, LockFrame DEF IInv
<1>5. Registered'
  BY <1>1, RegisteredFrame DEF IInv
<1>6. ASSUME NEW q \in asleep', q # p, fifo = "live"
      PROVE  SleepsWell(q)'
  <2>1. q \in Proc /\ SleepsWell(q) /\ SameCall(q)
    BY <1>6, SleepersForm DEF IInv, TypeOK
  <2>2. Channel(q)' = Channel(q)
    BY <2>1 DEF SameCall, Channel, Rd, Wr
  <2>3. /\ Eof(Channel(q))' => Eof(Channel(q))
        /\ Broken(Channel(q))' => Broken(Channel(q))
    BY <2>2 DEF Eof, Broken
  <2>4. Taken(q) => Taken(q)'
    BY DEF Taken
  <2> QED
    BY <2>1, <2>3, <2>4, SleepFrame
<1>7. NoLostWakeup'
  BY <1>6, SleepersForm
<1>8. ASSUME NEW q \in asleep', q # p, fifo = "live"
      PROVE  SelectsWell(q)'
  <2> PICK c : c = Side(job[q].f, job[q].dir)
    OBVIOUS
  <2> PICK d : d = job[q].dir
    OBVIOUS
  <2>1. Ready(c, d)' => Ready(c, d)
    BY DEF Ready
  <2>2. q \in asleep
    BY <1>8
  <2>3. pc[p] \in {"select", "exit"} => pc'[p] \in {"select", "exit"}
    BY DEF SameCall
  <2> QED
    BY <1>1, <1>8, <2>1, <2>2, <2>3, OthersSelect
<1>9. SelectMissesNothing'
  BY <1>8, SleepersForm
<1> QED
  BY <1>2, <1>3, <1>4, <1>5, <1>7, <1>9 DEF IInv

-----------------------------------------------------------------------------
(* Each action keeps the invariant.                                         *)

LEMMA UsersKnow ==
  ASSUME IInv, NEW p \in Proc
  PROVE  /\ pc[p] \in Calling \cup {"stray"} =>
              job[p].f \in File /\ p \in file[job[p].f].holders /\ fifo # "none"
         /\ \A f \in File : p \in file[f].holders => fifo # "none"
<1>1. job[p].f \in File
  BY TypeParts DEF IInv, Task
<1>2. CallOK(p)
  BY DEF IInv, CallsOK
<1> QED
  BY <1>1, <1>2 DEF IInv, BeforeOK, CallOK

LEMMA SameFiles ==
  ASSUME file' = file, lock' = lock
  PROVE  SameHolders /\ SameLocks
  BY DEF SameHolders, SameLocks

LEMMA StrayKeeps ==
  ASSUME IInv, NEW p \in Proc, Stray(p)
  PROVE  IInv'
<1>1. /\ UNCHANGED <<fifo, attr, pipe, buf, file, lock, job, asleep>> /\ fifo = "gone"
      /\ pc[p] \in {"read", "write", "setlk"} /\ p \notin asleep
      /\ pc' = [pc EXCEPT ![p] = "stray"]
  BY DEF Stray
<1>2. pc \in [Proc -> Places] /\ job \in [Proc -> Task] /\ file \in [File -> Filep]
  BY TypeParts, ProcsType DEF IInv
<1>3. /\ pc' \in [Proc -> Places] /\ pc'[p] = "stray"
      /\ \A q \in Proc \ {p} : pc'[q] = pc[q]
  BY <1>1, <1>2 DEF Places
<1>4. \A q \in Proc \ {p} : SameCall(q)
  BY <1>1, <1>3 DEF SameCall
<1>5. CallOK(p)'
  BY <1>1, <1>3, UsersKnow DEF CallOK, Calling
<1> QED
  BY <1>1, <1>2, <1>3, <1>4, <1>5, SameFiles, ProcKeeps DEF InUse

LEMMA ExitKeeps ==
  ASSUME IInv, NEW p \in Proc, Exit(p)
  PROVE  IInv'
<1>1. /\ UNCHANGED <<fifo, attr, pipe, buf, file, lock>> /\ asleep' = asleep \ {p}
      /\ pc[p] # "new"
      /\ pc' = [pc EXCEPT ![p] = "exit"] /\ job' = [job EXCEPT ![p] = NoJob]
  BY DEF Exit
<1>2. file \in [File -> Filep] /\ TypeOK
  BY TypeParts DEF IInv
<1>3. /\ pc' \in [Proc -> Places] /\ job' \in [Proc -> Task] /\ pc'[p] = "exit"
      /\ \A q \in Proc \ {p} : SameCall(q)
  BY <1>1, <1>2, NoJobType, StayEffect DEF Places
<1>4. CallOK(p)'
  BY <1>3 DEF CallOK, Calling
<1> QED
  BY <1>1, <1>2, <1>3, <1>4, SameFiles, ProcKeeps DEF InUse

\* Fselect() is left.
LEMMA SelectReturnsKeeps ==
  ASSUME IInv, NEW p \in Proc, NEW f \in File, SelectReturns(p, f),
         UNCHANGED <<fifo, attr, buf, file, lock>>, fifo # "none",
         pc[p] \in {"user", "select", "coll"}, pc[p] = "select" => f = job[p].f
  PROVE  IInv'
<1>1. TypeOK /\ pipe \in [End -> Ring] /\ file \in [File -> Filep] /\ buf \in [End -> Bytes]
  BY TypeParts DEF IInv
<1>2. /\ pipe' \in [End -> Ring]
      /\ \A e \in End :
           /\ pipe'[e].readers = pipe[e].readers /\ pipe'[e].writers = pipe[e].writers
           /\ pipe'[e].start = pipe[e].start /\ pipe'[e].len = pipe[e].len
           /\ pipe'[e].rsel = IF e = Rd(f) /\ pipe[e].rsel = p THEN Nobody ELSE pipe[e].rsel
           /\ pipe'[e].wsel = IF e = Wr(f) /\ pipe[e].wsel = p THEN Nobody ELSE pipe[e].wsel
  BY <1>1, UnselectEffect DEF SelectReturns
<1>3. /\ pc' \in [Proc -> Places] /\ job' \in [Proc -> Task] /\ pc'[p] = "user"
      /\ \A q \in Proc \ {p} : SameCall(q)
  BY <1>1, ReturnEffect DEF SelectReturns
<1>4. asleep' = asleep \ (OnColl \cup {p})
  BY DEF SelectReturns
<1>5. SameCounts /\ SameHolders /\ SameLocks
  BY <1>2, SameFiles DEF SameCounts
<1>6. CallOK(p)'
  BY <1>3 DEF CallOK, Calling
<1>7. TypeOK'
  <2>1. \A q \in asleep' : q \in Proc /\ pc'[q] \in Calling
    BY <1>1, <1>3, <1>4, AsleepFrame
  <2> QED
    BY <1>1, <1>2, <1>3, <2>1, TypeFrame DEF TypeOK
<1>8. CallsOK' /\ BeforeOK' /\ HeadOK' /\ OneHolder' /\ CountsRight' /\ NotFreedInUse'
  BY <1>3, <1>5, <1>6, OneCallKeeps DEF InUse
<1>9. LockOwned'
  <2>1. \A q \in New : pc'[q] = "new" => pc[q] = "new"
    BY <1>3, PipeAssumption DEF SameCall
  <2> QED
    BY <1>5, <2>1, LockFrame DEF IInv
<1>10. Registered'
  <2> SUFFICES ASSUME NEW e \in End
               PROVE  /\ pipe'[e].rsel # Nobody =>
                         /\ pc'[pipe'[e].rsel] \in {"select", "exit"}
                         /\ pc'[pipe'[e].rsel] = "select" =>
                              job'[pipe'[e].rsel].dir = "r" /\ Rd(job'[pipe'[e].rsel].f) = e
                      /\ pipe'[e].wsel # Nobody =>
                         /\ pc'[pipe'[e].wsel] \in {"select", "exit"}
                         /\ pc'[pipe'[e].wsel] = "select" =>
                              job'[pipe'[e].wsel].dir = "w" /\ Wr(job'[pipe'[e].wsel].f) = e
    BY DEF Registered, Rd, Wr
  <2>1. /\ pipe[e].rsel \in Proc \cup {Nobody} /\ pipe[e].wsel \in Proc \cup {Nobody}
    BY <1>1, RingField
  <2>4. /\ pipe'[e].rsel # Nobody =>
           /\ pc'[pipe'[e].rsel] \in {"select", "exit"}
           /\ pc'[pipe'[e].rsel] = "select" =>
                job'[pipe'[e].rsel].dir = "r" /\ Rd(job'[pipe'[e].rsel].f) = e
    <3> SUFFICES ASSUME pipe'[e].rsel # Nobody
                 PROVE  /\ pc'[pipe'[e].rsel] \in {"select", "exit"}
                        /\ pc'[pipe'[e].rsel] = "select" =>
                             job'[pipe'[e].rsel].dir = "r" /\ Rd(job'[pipe'[e].rsel].f) = e
      OBVIOUS
    <3>1. pipe'[e].rsel = pipe[e].rsel /\ pipe[e].rsel # p
      BY <1>2 DEF IInv, Registered
    <3> QED
      BY <1>3, <2>1, <3>1 DEF IInv, Registered, SameCall
  <2>5. /\ pipe'[e].wsel # Nobody =>
           /\ pc'[pipe'[e].wsel] \in {"select", "exit"}
           /\ pc'[pipe'[e].wsel] = "select" =>
                job'[pipe'[e].wsel].dir = "w" /\ Wr(job'[pipe'[e].wsel].f) = e
    <3> SUFFICES ASSUME pipe'[e].wsel # Nobody
                 PROVE  /\ pc'[pipe'[e].wsel] \in {"select", "exit"}
                        /\ pc'[pipe'[e].wsel] = "select" =>
                             job'[pipe'[e].wsel].dir = "w" /\ Wr(job'[pipe'[e].wsel].f) = e
      OBVIOUS
    <3>1. pipe'[e].wsel = pipe[e].wsel /\ pipe[e].wsel # p
      BY <1>2 DEF IInv, Registered
    <3> QED
      BY <1>3, <2>1, <3>1 DEF IInv, Registered, SameCall
  <2> QED
    BY <2>4, <2>5
<1>11. ASSUME NEW q \in asleep', fifo = "live"
       PROVE  SleepsWell(q)'
  <2>1. q \in Proc /\ q # p /\ SleepsWell(q) /\ SameCall(q)
    BY <1>3, <1>4, <1>11, SleepersForm DEF IInv, TypeOK
  <2>2. Channel(q)' = Channel(q) /\ Channel(q) \in End
    BY <2>1 DEF SameCall, Channel, Rd, Wr, End
  <2>3. /\ Eof(Channel(q))' => Eof(Channel(q))
        /\ Broken(Channel(q))' => Broken(Channel(q))
    BY <2>2, <1>2 DEF Eof, Broken
  <2>4. Taken(q) => Taken(q)'
    BY DEF Taken
  <2> QED
    BY <1>2, <2>1, <2>2, <2>3, <2>4, SleepFrame
<1>12. ASSUME NEW q \in asleep', fifo = "live"
       PROVE  SelectsWell(q)'
  <2> PICK c : c = Side(job[q].f, job[q].dir)
    OBVIOUS
  <2> PICK d : d = job[q].dir
    OBVIOUS
  <2>1. q \in Proc /\ q # p /\ SelectsWell(q) /\ SameCall(q) /\ pc[q] # "coll" /\ c \in End
    BY <1>3, <1>4, <1>12, SleepersForm, SideType DEF IInv, TypeOK, OnColl
  <2>2. Selecting(c, d) = q => Selecting(c, d)' = q
    BY <1>2, <2>1 DEF Selecting
  <2>3. Ready(c, d)' => Ready(c, d)
    BY <1>2, <2>1 DEF Ready
  <2> QED
    BY <2>1, <2>2, <2>3, SelectFrame
<1>13. NoLostWakeup' /\ SelectMissesNothing'
  BY <1>11, <1>12, SleepersForm
<1> QED
  BY <1>7, <1>8, <1>9, <1>10, <1>13 DEF IInv

\* Fselect() goes to sleep as the first one.
LEMMA RegisterKeeps ==
  ASSUME IInv, NEW p \in Proc, NEW f \in File, NEW dir \in {"r", "w"},
         NEW e, e = Side(f, dir),
         fifo = "live", ~Ready(e, dir), Selecting(e, dir) = Nobody,
         Stay(p, "select", Job(f, 0, 0, dir)), asleep' = asleep \cup {p},
         pipe' = Register(e, dir, p), UNCHANGED <<fifo, attr, buf, file, lock>>,
         pc[p] \in {"user", "coll"}, p \in file[f].holders
  PROVE  IInv'
<1>1. /\ TypeOK /\ pipe \in [End -> Ring] /\ file \in [File -> Filep] /\ buf \in [End -> Bytes]
      /\ e \in End
  BY TypeParts DEF IInv, Side, Rd, Wr, End
<1>2. /\ pipe' \in [End -> Ring]
      /\ \A d \in End :
              /\ pipe'[d].readers = pipe[d].readers /\ pipe'[d].writers = pipe[d].writers
              /\ pipe'[d].start = pipe[d].start /\ pipe'[d].len = pipe[d].len
              /\ pipe'[d].rsel = IF d = e /\ dir = "r" THEN p ELSE pipe[d].rsel
              /\ pipe'[d].wsel = IF d = e /\ dir = "w" THEN p ELSE pipe[d].wsel
  BY <1>1, RegisterEffect
<1>3. /\ pc' \in [Proc -> Places] /\ job' \in [Proc -> Task] /\ pc'[p] = "select"
      /\ job'[p].f = f /\ job'[p].dir = dir
      /\ \A q \in Proc \ {p} : SameCall(q)
  <2>1. /\ Job(f, 0, 0, dir) \in Task
        /\ Job(f, 0, 0, dir).f = f /\ Job(f, 0, 0, dir).dir = dir
    BY DEF Job, Task
  <2>2. "select" \in Places
    BY DEF Places, Calling
  <2> QED
    BY <1>1, <2>1, <2>2, StayEffect DEF Stay
<1>4. SameCounts /\ SameHolders /\ SameLocks
  BY <1>2, SameFiles DEF SameCounts
<1>5. CallOK(p)'
  BY <1>3 DEF CallOK, Calling
<1>6. TypeOK'
  <2>1. \A q \in asleep' : q \in Proc /\ pc'[q] \in Calling
    BY <1>1, <1>3, AsleepFrame DEF Calling
  <2> QED
    BY <1>1, <1>2, <1>3, <2>1, TypeFrame DEF TypeOK
<1>7. CallsOK' /\ BeforeOK' /\ HeadOK' /\ OneHolder' /\ CountsRight' /\ NotFreedInUse'
  BY <1>3, <1>4, <1>5, OneCallKeeps DEF InUse
<1>8. LockOwned'
  <2>1. \A q \in New : pc'[q] = "new" => pc[q] = "new"
    BY <1>3, PipeAssumption DEF SameCall
  <2> QED
    BY <1>4, <2>1, LockFrame DEF IInv
<1>9. Registered'
  <2> SUFFICES ASSUME NEW d \in End
               PROVE  /\ pipe'[d].rsel # Nobody =>
                         /\ pc'[pipe'[d].rsel] \in {"select", "exit"}
                         /\ pc'[pipe'[d].rsel] = "select" =>
                              job'[pipe'[d].rsel].dir = "r" /\ Rd(job'[pipe'[d].rsel].f) = d
                      /\ pipe'[d].wsel # Nobody =>
                         /\ pc'[pipe'[d].wsel] \in {"select", "exit"}
                         /\ pc'[pipe'[d].wsel] = "select" =>
                              job'[pipe'[d].wsel].dir = "w" /\ Wr(job'[pipe'[d].wsel].f) = d
    BY DEF Registered, Rd, Wr
  <2>1. /\ pipe[d].rsel \in Proc \cup {Nobody} /\ pipe[d].wsel \in Proc \cup {Nobody}
    BY <1>1, RingField
  <2>2. /\ pipe'[d].rsel # Nobody =>
           /\ pc'[pipe'[d].rsel] \in {"select", "exit"}
           /\ pc'[pipe'[d].rsel] = "select" =>
                job'[pipe'[d].rsel].dir = "r" /\ Rd(job'[pipe'[d].rsel].f) = d
    <3>1. CASE d = e /\ dir = "r"
      BY <1>2, <1>3, <3>1 DEF Side
    <3>2. CASE ~(d = e /\ dir = "r")
      <4>1. pipe'[d].rsel = pipe[d].rsel /\ (pipe[d].rsel # Nobody => pipe[d].rsel # p)
        BY <1>2, <3>2 DEF IInv, Registered
      <4> QED
        BY <1>3, <2>1, <4>1 DEF IInv, Registered, SameCall
    <3> QED
      BY <3>1, <3>2
  <2>3. /\ pipe'[d].wsel # Nobody =>
           /\ pc'[pipe'[d].wsel] \in {"select", "exit"}
           /\ pc'[pipe'[d].wsel] = "select" =>
                job'[pipe'[d].wsel].dir = "w" /\ Wr(job'[pipe'[d].wsel].f) = d
    <3>1. CASE d = e /\ dir = "w"
      BY <1>2, <1>3, <3>1 DEF Side
    <3>2. CASE ~(d = e /\ dir = "w")
      <4>1. pipe'[d].wsel = pipe[d].wsel /\ (pipe[d].wsel # Nobody => pipe[d].wsel # p)
        BY <1>2, <3>2 DEF IInv, Registered
      <4> QED
        BY <1>3, <2>1, <4>1 DEF IInv, Registered, SameCall
    <3> QED
      BY <3>1, <3>2
  <2> QED
    BY <2>2, <2>3
<1>10. ASSUME NEW q \in asleep', q # p
       PROVE  SleepsWell(q)'
  <2>1. q \in Proc /\ SleepsWell(q) /\ SameCall(q)
    BY <1>3, <1>10, SleepersForm DEF IInv, TypeOK
  <2>2. Channel(q)' = Channel(q) /\ Channel(q) \in End
    BY <2>1 DEF SameCall, Channel, Rd, Wr, End
  <2>3. /\ Eof(Channel(q))' => Eof(Channel(q))
        /\ Broken(Channel(q))' => Broken(Channel(q))
    BY <2>2, <1>2 DEF Eof, Broken
  <2>4. Taken(q) => Taken(q)'
    BY DEF Taken
  <2> QED
    BY <1>2, <2>1, <2>2, <2>3, <2>4, SleepFrame
<1>11. SleepsWell(p)'
  BY <1>3 DEF SleepsWell
<1>12. ASSUME NEW q \in asleep', q # p
       PROVE  SelectsWell(q)'
  <2> PICK c : c = Side(job[q].f, job[q].dir)
    OBVIOUS
  <2> PICK d : d = job[q].dir
    OBVIOUS
  <2>1. q \in Proc /\ SelectsWell(q) /\ SameCall(q) /\ c \in End /\ CallOK(q)
    BY <1>3, <1>12, SleepersForm, SideType DEF IInv, TypeOK, CallsOK
  <2>2. Ready(c, d)' => Ready(c, d)
    BY <1>2, <2>1 DEF Ready
  <2>3. pc[q] \in {"select", "coll"} => d \in {"r", "w"}
    BY <2>1 DEF CallOK
  <2>4. pc[q] \in {"select", "coll"} => Selecting(c, d) # Nobody
    BY <2>1, PipeAssumption DEF SelectsWell
  <2>5. pc[q] \in {"select", "coll"} => ~(c = e /\ d = dir)
    BY <2>4
  <2>6. pc[q] \in {"select", "coll"} => Selecting(c, d)' = Selecting(c, d)
    BY <1>2, <2>1, <2>3, <2>5 DEF Selecting
  <2>7. pc[q] = "coll" => pc'[Selecting(c, d)] \in {"select", "exit"}
    BY <1>3, <2>1, <2>4, SelectingType DEF SameCall
  <2> QED
    BY <2>1, <2>2, <2>6, <2>7, SelectFrame
<1>13. SelectsWell(p)'
  <2>1. Side(job[p].f, job[p].dir)' = e
    BY <1>3 DEF Side, Rd, Wr
  <2>2. Selecting(e, dir)' = p
    BY <1>1, <1>2 DEF Selecting
  <2>3. ~Ready(e, dir)'
    BY <1>1, <1>2 DEF Ready
  <2> QED
    BY <1>3, <2>1, <2>2, <2>3 DEF SelectsWell, Selecting, Ready
<1>14. NoLostWakeup' /\ SelectMissesNothing'
  BY <1>10, <1>11, <1>12, <1>13, SleepersForm
<1> QED
  BY <1>6, <1>7, <1>8, <1>9, <1>14 DEF IInv

LEMMA SelectStepKeeps ==
  ASSUME IInv, NEW p \in Proc, NEW f \in File, NEW dir \in {"r", "w"},
         SelectStep(p, f, dir), pc[p] \in {"user", "coll"}, p \in file[f].holders
  PROVE  IInv'
<1> PICK e : e = Side(f, dir)
  OBVIOUS
<1>1. UNCHANGED <<fifo, attr, buf, file, lock>> /\ fifo # "none" /\ e \in End
  BY UsersKnow DEF SelectStep, Side, Rd, Wr, End
<1>2. TypeOK /\ file \in [File -> Filep]
  BY TypeParts DEF IInv
<1>3. CASE SelectReturns(p, f)
  BY <1>1, <1>3, SelectReturnsKeeps
<1>4. ASSUME NEW c \in {"select", "coll"}, Stay(p, c, Job(f, 0, 0, dir)),
             asleep' = asleep \cup {p}, pipe' = pipe,
             fifo = "live" => SelectsWell(p)'
      PROVE  IInv'
  <2>1. /\ pc' \in [Proc -> Places] /\ job' \in [Proc -> Task] /\ pc'[p] = c
        /\ job'[p].f = f /\ job'[p].dir = dir
        /\ \A q \in Proc \ {p} : SameCall(q)
    <3>1. /\ Job(f, 0, 0, dir) \in Task
          /\ Job(f, 0, 0, dir).f = f /\ Job(f, 0, 0, dir).dir = dir
      BY DEF Job, Task
    <3>2. c \in Places
      BY DEF Places, Calling
    <3> QED
      BY <1>2, <1>4, <3>1, <3>2, StayEffect DEF Stay
  <2>2. CallOK(p)'
    BY <1>1, <2>1 DEF CallOK, Calling
  <2>3. SleepsWell(p)'
    BY <2>1 DEF SleepsWell
  <2>4. pc'[p] \in Calling /\ pc'[p] \notin InUse
    BY <2>1 DEF Calling, InUse
  <2> QED
    BY <1>1, <1>2, <1>4, <2>1, <2>2, <2>3, <2>4, SameFiles, ProcKeeps
<1>5. CASE /\ fifo = "gone"
           /\ Stay(p, "select", Job(f, 0, 0, dir))
           /\ asleep' = asleep \cup {p} /\ UNCHANGED pipe
  BY <1>4, <1>5
<1>6. CASE /\ fifo = "live" /\ ~Ready(e, dir) /\ Selecting(e, dir) # Nobody
           /\ Stay(p, "coll", Job(f, 0, 0, dir))
           /\ asleep' = asleep \cup {p} /\ UNCHANGED pipe
  <2>1. pc' = [pc EXCEPT ![p] = "coll"] /\ job' = [job EXCEPT ![p] = Job(f, 0, 0, dir)]
    BY <1>6 DEF Stay
  <2>2. /\ pc \in [Proc -> Places] /\ job \in [Proc -> Task]
        /\ Job(f, 0, 0, dir).f = f /\ Job(f, 0, 0, dir).dir = dir
    BY <1>2, ProcsType DEF Job
  <2>3. pc'[p] = "coll" /\ job'[p].f = f /\ job'[p].dir = dir
    BY <2>1, <2>2
  <2>4. Selecting(e, dir) \in Proc /\ pc[Selecting(e, dir)] \in {"select", "exit"}
    BY <1>1, <1>6, SelectingType
  <2>5. pc'[Selecting(e, dir)] \in {"select", "exit"}
    BY <2>1, <2>2, <2>4
  <2>6. Side(job[p].f, job[p].dir)' = e /\ Selecting(e, dir)' = Selecting(e, dir)
    BY <2>3, <1>6 DEF Side, Rd, Wr, Selecting
  <2>7. SelectsWell(p)'
    BY <1>6, <2>3, <2>5, <2>6 DEF SelectsWell, Selecting
  <2> QED
    BY <1>4, <1>6, <2>7
<1>7. CASE /\ fifo = "live" /\ ~Ready(e, dir) /\ Selecting(e, dir) = Nobody
           /\ Stay(p, "select", Job(f, 0, 0, dir))
           /\ asleep' = asleep \cup {p} /\ pipe' = Register(e, dir, p)
  BY <1>1, <1>7, RegisterKeeps
<1> QED
  BY <1>3, <1>5, <1>6, <1>7 DEF SelectStep

LEMMA SelectEndsKeeps ==
  ASSUME IInv, NEW p \in Proc, SelectEnds(p)
  PROVE  IInv'
<1>1. /\ pc[p] \in {"select", "coll"} /\ SelectReturns(p, job[p].f)
      /\ UNCHANGED <<fifo, attr, buf, file, lock>>
  BY DEF SelectEnds
<1>2. job[p].f \in File /\ fifo # "none"
  BY <1>1, UsersKnow DEF Calling
<1> QED
  BY <1>1, <1>2, SelectReturnsKeeps

LEMMA InterruptKeeps ==
  ASSUME IInv, NEW p \in Proc, Interrupt(p)
  PROVE  IInv'
<1>1. CASE /\ pc[p] \in {"read", "write", "setlk"} /\ Return(p)
           /\ asleep' = asleep \ {p} /\ UNCHANGED pipe
           /\ UNCHANGED <<fifo, attr, buf, file, lock>>
  <2>1. file \in [File -> Filep] /\ TypeOK
    BY TypeParts DEF IInv
  <2>2. /\ pc' \in [Proc -> Places] /\ job' \in [Proc -> Task] /\ pc'[p] = "user"
        /\ \A q \in Proc \ {p} : SameCall(q)
    BY <1>1, <2>1, ReturnEffect
  <2>3. CallOK(p)'
    BY <2>2 DEF CallOK, Calling
  <2> QED
    BY <1>1, <2>1, <2>2, <2>3, SameFiles, ProcKeeps DEF InUse
<1>2. CASE /\ pc[p] \in {"select", "coll"} /\ SelectReturns(p, job[p].f)
           /\ UNCHANGED <<fifo, attr, buf, file, lock>>
  <2>1. job[p].f \in File /\ fifo # "none"
    BY <1>2, UsersKnow DEF Calling
  <2> QED
    BY <1>2, <2>1, SelectReturnsKeeps
<1> QED
  BY <1>1, <1>2 DEF Interrupt

\* A lock is taken or given back.
LEMMA LockStepKeeps ==
  ASSUME IInv, NEW p \in Proc, UNCHANGED <<fifo, attr, pipe, buf>>, fifo = "live",
         file' \in [File -> Filep], SameHolders,
         lock' \in [on : BOOLEAN, pid : Proc \cup {Nobody}],
         pc' \in [Proc -> Places], job' \in [Proc -> Task],
         \A q \in Proc \ {p} : SameCall(q),
         pc[p] \in {"user", "setlk"}, pc'[p] = "user",
         asleep' \subseteq asleep \ {p}, LockOwned',
         \A q \in asleep' : pc[q] = "setlk" => Taken(q)'
  PROVE  IInv'
<1>1. TypeOK /\ SameCounts /\ SameSel /\ CallOK(p)'
  BY DEF IInv, SameCounts, SameSel, CallOK, Calling
<1>2. TypeOK'
  <2>1. \A q \in asleep' : q \in Proc /\ pc'[q] \in Calling
    BY <1>1, AsleepFrame
  <2> QED
    BY <1>1, <2>1, TypeFrame, TypeParts DEF TypeOK
<1>3. CallsOK' /\ BeforeOK' /\ HeadOK' /\ OneHolder' /\ CountsRight' /\ NotFreedInUse'
  BY <1>1, OneCallKeeps DEF InUse
<1>4. Registered'
  BY <1>1, RegisteredFrame DEF IInv
<1>5. ASSUME NEW q \in asleep'
      PROVE  SleepsWell(q)' /\ SelectsWell(q)'
  <2>1. q \in Proc /\ q # p /\ q \in asleep /\ SleepsWell(q) /\ SameCall(q)
    BY <1>5, SleepersForm DEF IInv, TypeOK
  <2>2. Channel(q)' = Channel(q)
    BY <2>1 DEF SameCall, Channel, Rd, Wr
  <2>3. /\ Eof(Channel(q))' => Eof(Channel(q))
        /\ Broken(Channel(q))' => Broken(Channel(q))
    BY <2>2 DEF Eof, Broken
  <2>4. SleepsWell(q)'
    BY <1>5, <2>1, <2>3, SleepFrame
  <2> PICK c : c = Side(job[q].f, job[q].dir)
    OBVIOUS
  <2> PICK d : d = job[q].dir
    OBVIOUS
  <2>5. Ready(c, d)' => Ready(c, d)
    BY DEF Ready
  <2>6. SelectsWell(q)'
    BY <1>1, <2>1, <2>5, OthersSelect
  <2> QED
    BY <2>4, <2>6
<1>6. NoLostWakeup' /\ SelectMissesNothing'
  BY <1>5, SleepersForm
<1> QED
  BY <1>2, <1>3, <1>4, <1>6 DEF IInv

LEMMA SetLkKeeps ==
  ASSUME IInv, NEW p \in Proc, NEW f \in File, SetLk(p, f)
  PROVE  IInv'
<1>1. /\ fifo = "live" /\ pc[p] \in {"user", "setlk"} /\ p \in file[f].holders
      /\ UNCHANGED <<fifo, attr, pipe, buf>>
  <2>1. UNCHANGED <<fifo, attr, pipe, buf>>
    BY DEF SetLk
  <2>2. CASE Calls(p, f)
    BY <2>1, <2>2 DEF Calls
  <2>3. CASE pc[p] = "setlk" /\ f = job[p].f /\ fifo = "live"
    BY <2>1, <2>3, UsersKnow DEF Calling
  <2> QED
    BY <2>2, <2>3 DEF SetLk
<1>2. TypeOK /\ file \in [File -> Filep]
  BY TypeParts DEF IInv
<1>3. CASE /\ Taken(p) /\ Stay(p, "setlk", Job(f, 0, 0, "none"))
           /\ asleep' = asleep \cup {p} /\ UNCHANGED <<lock, file>>
  <2>1. /\ pc' \in [Proc -> Places] /\ job' \in [Proc -> Task] /\ pc'[p] = "setlk"
        /\ job'[p].f = f
        /\ \A q \in Proc \ {p} : SameCall(q)
    <3>1. Job(f, 0, 0, "none") \in Task /\ Job(f, 0, 0, "none").f = f
      BY DEF Job, Task
    <3>2. "setlk" \in Places
      BY DEF Places, Calling
    <3> QED
      BY <1>2, <1>3, <3>1, <3>2, StayEffect DEF Stay
  <2>2. CallOK(p)'
    BY <1>1, <1>3, <2>1 DEF CallOK, Calling
  <2>3. SleepsWell(p)' /\ SelectsWell(p)'
    BY <1>3, <2>1 DEF SleepsWell, SelectsWell, Taken
  <2>4. pc'[p] \in Calling
    BY <2>1 DEF Calling
  <2> QED
    BY <1>1, <1>2, <1>3, <2>1, <2>2, <2>3, <2>4, SameFiles, ProcKeeps
<1>4. CASE /\ lock' = [on |-> TRUE, pid |-> p]
           /\ file' = [file EXCEPT ![f].lock = TRUE]
           /\ Return(p) /\ asleep' = asleep \ {p}
  <2>1. /\ pc' \in [Proc -> Places] /\ job' \in [Proc -> Task] /\ pc'[p] = "user"
        /\ \A q \in Proc \ {p} : SameCall(q)
    BY <1>2, <1>4, ReturnEffect
  <2>2. file' \in [File -> Filep] /\ SameHolders /\ file'[f].lock
    BY <1>2, <1>4 DEF Filep, SameHolders
  <2>3. lock' \in [on : BOOLEAN, pid : Proc \cup {Nobody}] /\ lock'.on /\ lock'.pid = p
    BY <1>4
  <2>4. LockOwned'
    BY <1>1, <2>2, <2>3 DEF LockOwned, SameHolders
  <2>5. \A q \in asleep' : Taken(q)'
    BY <1>4, <2>3 DEF Taken
  <2> QED
    BY <1>1, <1>4, <2>1, <2>2, <2>3, <2>4, <2>5, LockStepKeeps
<1> QED
  BY <1>3, <1>4 DEF SetLk

LEMMA UnLkKeeps ==
  ASSUME IInv, NEW p \in Proc, NEW f \in File, UnLk(p, f)
  PROVE  IInv'
<1>1. /\ fifo = "live" /\ pc[p] = "user" /\ UNCHANGED <<fifo, attr, pipe, buf, pc, job>>
      /\ lock' = [on |-> FALSE, pid |-> Nobody]
      /\ file' = [file EXCEPT ![f].lock = FALSE]
      /\ asleep' = asleep \ OnLock
  BY DEF UnLk, Calls, procs
<1>2. TypeOK /\ file \in [File -> Filep] /\ pc \in [Proc -> Places] /\ job \in [Proc -> Task]
  BY TypeParts, ProcsType DEF IInv
<1>3. \A q \in Proc : SameCall(q)
  BY <1>1 DEF SameCall
<1>4. file' \in [File -> Filep] /\ SameHolders
  BY <1>1, <1>2 DEF Filep, SameHolders
<1>5. lock' \in [on : BOOLEAN, pid : Proc \cup {Nobody}] /\ lock'.on = FALSE
  BY <1>1
<1>6. LockOwned'
  BY <1>5 DEF LockOwned
<1>7. p \notin asleep
  BY <1>1 DEF IInv, TypeOK, Calling
<1>8. \A q \in asleep' : pc[q] # "setlk"
  BY <1>1 DEF OnLock
<1> QED
  BY <1>1, <1>2, <1>3, <1>4, <1>5, <1>6, <1>7, <1>8, LockStepKeeps

LEMMA FlushKeeps ==
  ASSUME IInv, NEW p \in Proc, NEW f \in File, NEW E \in SUBSET End, Flush(p, f, E)
  PROVE  IInv'
<1>1. /\ fifo = "live" /\ pc[p] = "user" /\ UNCHANGED <<fifo, attr, file, lock, pc>>
      /\ pipe' = [e \in End |-> IF e \in E THEN [pipe[e] EXCEPT !.start = 0, !.len = 0]
                                ELSE pipe[e]]
      /\ asleep' \subseteq asleep
      /\ \A q \in asleep', e \in E : q \notin OnPipe(e)
      /\ "outp" \in E => pipe["outp"].wsel \notin asleep'
      /\ buf' = [e \in End |-> IF e \in E THEN Blank ELSE buf[e]]
      /\ job' = IF "inp" \in E THEN Untold ELSE job
  <2> DEFINE U == UNION {OnPipe(e) : e \in E}
             W == IF "outp" \in E THEN {pipe["outp"].wsel} ELSE {}
  <2>1. asleep' = asleep \ (U \cup W)
    BY DEF Flush
  <2>2. \A e \in E : OnPipe(e) \subseteq U
    OBVIOUS
  <2>3. "outp" \in E => pipe["outp"].wsel \in W
    OBVIOUS
  <2> HIDE DEF U, W
  <2>5. asleep' \subseteq asleep /\ \A q \in asleep', e \in E : q \notin OnPipe(e)
    BY <2>1, <2>2
  <2>6. "outp" \in E => pipe["outp"].wsel \notin asleep'
    BY <2>1, <2>3
  <2>4. /\ fifo = "live" /\ pc[p] = "user" /\ UNCHANGED <<fifo, attr, file, lock, pc>>
        /\ pipe' = [e \in End |-> IF e \in E THEN [pipe[e] EXCEPT !.start = 0, !.len = 0]
                                  ELSE pipe[e]]
        /\ buf' = [e \in End |-> IF e \in E THEN Blank ELSE buf[e]]
        /\ job' = IF "inp" \in E THEN Untold ELSE job
    BY DEF Flush, Calls
  <2> QED
    BY <2>4, <2>5, <2>6
<1>2. /\ TypeOK /\ file \in [File -> Filep] /\ pc \in [Proc -> Places] /\ job \in [Proc -> Task]
      /\ pipe \in [End -> Ring] /\ buf \in [End -> Bytes]
  BY TypeParts, ProcsType DEF IInv
<1>3. /\ pipe' \in [End -> Ring]
      /\ \A e \in End :
           /\ pipe'[e].readers = pipe[e].readers /\ pipe'[e].writers = pipe[e].writers
           /\ pipe'[e].rsel = pipe[e].rsel /\ pipe'[e].wsel = pipe[e].wsel
           /\ e \in E => pipe'[e].len = 0
           /\ e \notin E => pipe'[e].len = pipe[e].len
  <2>1. ASSUME NEW r \in Ring
        PROVE  LET u == [r EXCEPT !.start = 0, !.len = 0] IN
               /\ u \in Ring /\ u.readers = r.readers /\ u.writers = r.writers
               /\ u.rsel = r.rsel /\ u.wsel = r.wsel /\ u.len = 0
    <3>1. 0 \in 0..(PipeSiz - 1) /\ 0 \in 0..PipeSiz
      BY PipeAssumption
    <3> QED
      BY <3>1 DEF Ring
  <2>2. \A e \in End : pipe[e] \in Ring
    BY <1>2
  <2> QED
    BY <1>1, <2>1, <2>2
<1>4. buf' \in [End -> Bytes]
  <2>1. Blank \in Bytes
    BY DEF Blank, Bytes
  <2> QED
    BY <1>1, <1>2, <2>1
<1>5. /\ job' \in [Proc -> Task]
      /\ \A q \in Proc : SameCall(q)
      /\ "inp" \in E => \A q \in Proc : pipe["inp"].wsel = q => job'[q].missed
  BY <1>1, <1>2, UntoldEffect DEF SameCall
<1>6. SameCounts /\ SameSel /\ SameHolders /\ SameLocks
  BY <1>1, <1>3, SameFiles DEF SameCounts, SameSel
<1>7. p \notin asleep /\ asleep' \subseteq asleep
  BY <1>1 DEF IInv, TypeOK, Calling
<1>8. TypeOK'
  <2>1. \A q \in asleep' : q \in Proc /\ pc'[q] \in Calling
    BY <1>1, <1>7 DEF IInv, TypeOK
  <2> QED
    BY <1>1, <1>2, <1>3, <1>4, <1>5, <2>1, TypeFrame DEF TypeOK
<1>9. CallOK(p)'
  BY <1>1 DEF CallOK, Calling
<1>10. CallsOK' /\ BeforeOK' /\ HeadOK' /\ OneHolder' /\ CountsRight' /\ NotFreedInUse'
  BY <1>1, <1>5, <1>6, <1>9, OneCallKeeps DEF InUse
<1>11. LockOwned'
  BY <1>1, <1>6, LockFrame DEF IInv
<1>12. Registered'
  BY <1>1, <1>2, <1>5, <1>6, RegisteredFrame DEF IInv
<1>13. ASSUME NEW q \in asleep'
       PROVE  SleepsWell(q)' /\ SelectsWell(q)'
  <2>1. q \in Proc /\ q # p /\ q \in asleep /\ SleepsWell(q) /\ SameCall(q)
    BY <1>1, <1>5, <1>7, <1>13, SleepersForm DEF IInv, TypeOK
  <2>2. Channel(q)' = Channel(q) /\ Channel(q) \in End
    BY <2>1 DEF SameCall, Channel, Rd, Wr, End
  <2>3. /\ Eof(Channel(q))' => Eof(Channel(q))
        /\ Broken(Channel(q))' => Broken(Channel(q))
    BY <1>3, <2>2 DEF Eof, Broken
  <2>4. pc[q] \in {"read", "write"} => Channel(q) \notin E
    BY <1>1, <1>13, <2>1 DEF OnPipe
  <2>5. Taken(q) => Taken(q)'
    BY <1>1 DEF Taken
  <2>6. SleepsWell(q)'
    BY <1>3, <2>1, <2>2, <2>3, <2>4, <2>5, SleepFrame
  <2> PICK c : c = Side(job[q].f, job[q].dir)
    OBVIOUS
  <2> PICK d : d = job[q].dir
    OBVIOUS
  <2>7. c \in End /\ CallOK(q)
    BY <2>1, SideType DEF IInv, CallsOK
  <2>8. ASSUME pc[q] = "select", Selecting(c, d) = q, Ready(c, d)'
        PROVE  Ready(c, d) \/ job'[q].missed
    <3>1. d \in {"r", "w"}
      BY <2>7, <2>8 DEF CallOK
    <3>2. CASE d = "r"
      <4>1. pipe'[c].len > 0 => pipe[c].len > 0
        BY <1>3, <2>7
      <4> QED
        BY <1>3, <2>7, <2>8, <3>2, <4>1 DEF Ready
    <3>3. CASE d = "w" /\ c \notin E
      BY <1>3, <2>7, <2>8, <3>3 DEF Ready
    <3>4. CASE d = "w" /\ c \in E
      <4>1. pipe[c].wsel = q
        BY <2>8, <3>4 DEF Selecting
      <4>2. c # "outp"
        BY <1>1, <1>13, <3>4, <4>1
      <4>3. c = "inp"
        BY <2>7, <4>2 DEF End
      <4> QED
        BY <1>5, <2>1, <3>4, <4>1, <4>3
    <3> QED
      BY <3>1, <3>2, <3>3, <3>4
  <2>9. SelectsWell(q)'
    BY <1>1, <1>5, <1>6, <2>1, <2>8, OthersSelect
  <2> QED
    BY <2>6, <2>9
<1>14. NoLostWakeup' /\ SelectMissesNothing'
  BY <1>13, SleepersForm
<1> QED
  BY <1>8, <1>10, <1>11, <1>12, <1>14 DEF IInv

LEMMA ForkKeeps ==
  ASSUME IInv, NEW p \in Proc, NEW q \in Proc, Fork(p, q)
  PROVE  IInv'
<1>1. /\ UNCHANGED <<fifo, attr, pipe, buf, lock, job, asleep>>
      /\ pc[q] = "new" /\ pc' = [pc EXCEPT ![q] = "user"]
      /\ file' = [f \in File |-> IF p \in file[f].holders
                                 THEN [file[f] EXCEPT !.holders = @ \cup {q}] ELSE file[f]]
  BY DEF Fork
<1>2. /\ TypeOK /\ file \in [File -> Filep] /\ pc \in [Proc -> Places] /\ job \in [Proc -> Task]
      /\ pipe \in [End -> Ring] /\ buf \in [End -> Bytes]
  BY TypeParts, ProcsType DEF IInv
<1>3. /\ pc' \in [Proc -> Places] /\ pc'[q] = "user"
      /\ \A r \in Proc \ {q} : pc'[r] = pc[r]
  BY <1>1, <1>2 DEF Places
<1>4. \A r \in Proc \ {q} : SameCall(r)
  BY <1>1, <1>3 DEF SameCall
<1>5. /\ file' \in [File -> Filep]
      /\ \A f \in File : /\ file[f].holders \subseteq file'[f].holders
                         /\ file[f].holders = {} => file'[f].holders = {}
                         /\ file'[f].mode = file[f].mode
  <2>1. ASSUME NEW f \in File
        PROVE  /\ file'[f] \in Filep
               /\ file[f].holders \subseteq file'[f].holders
               /\ file[f].holders = {} => file'[f].holders = {}
               /\ file'[f].mode = file[f].mode
    <3>1. file[f] \in Filep
      BY <1>2
    <3>2. CASE p \in file[f].holders
      <4> DEFINE u == [file[f] EXCEPT !.holders = @ \cup {q}]
      <4>1. u \in Filep /\ u.holders = file[f].holders \cup {q} /\ u.mode = file[f].mode
        BY <3>1 DEF Filep
      <4>2. file'[f] = u
        BY <1>1, <3>2
      <4> QED
        BY <3>2, <4>1, <4>2
    <3>3. CASE p \notin file[f].holders
      BY <1>1, <3>1, <3>3
    <3> QED
      BY <3>2, <3>3
  <2>2. file' = [f \in File |-> file'[f]]
    BY <1>1
  <2> QED
    BY <2>1, <2>2
<1>6. q \in New /\ "fork" \in attr.ops /\ q \notin asleep
  BY <1>1 DEF IInv, CallsOK, CallOK, TypeOK, Calling
<1>7. SameOpen /\ SameCounts /\ SameSel
  BY <1>1, <1>5 DEF SameOpen, SameCounts, SameSel
<1>8. TypeOK'
  <2>1. \A r \in asleep' : r \in Proc /\ pc'[r] \in Calling
    BY <1>1, <1>3, <1>6 DEF IInv, TypeOK
  <2> QED
    BY <1>1, <1>2, <1>3, <1>5, <2>1, TypeFrame DEF TypeOK
<1>9. CallsOK'
  <2>1. ASSUME NEW r \in Proc, r # q PROVE CallOK(r)'
    <3>1. CallOK(r) /\ SameCall(r) /\ job[r].f \in File
      BY <1>2, <1>4, <2>1 DEF IInv, CallsOK, Task
    <3> QED
      BY <1>1, <1>5, <3>1 DEF CallOK, SameCall
  <2>2. CallOK(q)'
    BY <1>3 DEF CallOK, Calling
  <2> QED
    BY <2>1, <2>2 DEF CallsOK
<1>10. BeforeOK'
  BY <1>1, <1>3, <1>5 DEF IInv, BeforeOK
<1>11. HeadOK'
  BY <1>1, <1>5, PipeAssumption DEF IInv, HeadOK, HeadOpen
<1>12. ~NotForked'
  BY <1>1, <1>3, <1>6 DEF NotForked
<1>13. OneHolder' /\ LockOwned'
  BY <1>12 DEF OneHolder, LockOwned, NotForked
<1>14. CountsRight'
  BY <1>1, <1>7, CountsFrame DEF IInv
<1>15. Registered'
  BY <1>1, <1>2, <1>4, <1>7, RegisteredFrame DEF IInv
<1>16. NotFreedInUse'
  <2> SUFFICES ASSUME fifo = "gone", NEW r \in Proc, pc'[r] \in InUse
               PROVE  job'[r].f # Server /\ file'[job'[r].f].mode = "w"
    BY <1>1 DEF NotFreedInUse, InUse
  <2>1. pc[r] \in InUse /\ job'[r].f = job[r].f /\ job[r].f \in File
    BY <1>1, <1>2, <1>3 DEF InUse, Task
  <2> QED
    BY <1>5, <2>1 DEF IInv, NotFreedInUse, InUse
<1>17. ASSUME NEW r \in asleep', fifo = "live"
       PROVE  SleepsWell(r)' /\ SelectsWell(r)'
  <2>1. r \in Proc /\ r # q /\ r \in asleep /\ SleepsWell(r) /\ SameCall(r)
    BY <1>1, <1>4, <1>6, <1>17, SleepersForm DEF IInv, TypeOK
  <2>2. Channel(r)' = Channel(r)
    BY <2>1 DEF SameCall, Channel, Rd, Wr
  <2>3. /\ Eof(Channel(r))' => Eof(Channel(r))
        /\ Broken(Channel(r))' => Broken(Channel(r))
    BY <1>1, <2>2 DEF Eof, Broken
  <2>4. Taken(r) => Taken(r)'
    BY <1>1 DEF Taken
  <2>5. SleepsWell(r)'
    BY <1>1, <2>1, <2>3, <2>4, SleepFrame
  <2> PICK c : c = Side(job[r].f, job[r].dir)
    OBVIOUS
  <2> PICK d : d = job[r].dir
    OBVIOUS
  <2>6. Ready(c, d)' => Ready(c, d)
    BY <1>1 DEF Ready
  <2>7. SelectsWell(r)'
    BY <1>1, <1>4, <1>7, <1>17, <2>1, <2>6, OthersSelect
  <2> QED
    BY <2>5, <2>7
<1>18. NoLostWakeup' /\ SelectMissesNothing'
  BY <1>1, <1>17, SleepersForm
<1> QED
  BY <1>8, <1>9, <1>10, <1>11, <1>13, <1>14, <1>15, <1>16, <1>18 DEF IInv

LEMMA CreateKeeps ==
  ASSUME IInv, NEW p \in Proc, NEW nd \in BOOLEAN, Create(p, nd)
  PROVE  IInv'
<1>1. /\ fifo = "none" /\ fifo' = "live" /\ UNCHANGED <<attr, buf, lock, pc, job, asleep>>
  BY DEF Create, procs
<1>2. /\ TypeOK /\ file \in [File -> Filep] /\ pc \in [Proc -> Places] /\ job \in [Proc -> Task]
      /\ pipe \in [End -> Ring] /\ buf \in [End -> Bytes] /\ Server \in File
  BY TypeParts, ProcsType, PipeAssumption DEF IInv
<1>3. /\ pipe' \in [End -> Ring] /\ file' \in [File -> Filep]
      /\ \A e \in End : pipe'[e].len = 0 /\ pipe'[e].rsel = Nobody /\ pipe'[e].wsel = Nobody
      /\ file'[Server].holders = {p} /\ file'[Server].mode = attr.mode
      /\ \A g \in File : g # Server => file'[g] = file[g]
  BY <1>2, CreateEffect
<1>4. /\ \A f \in File : file[f].holders = {}
      /\ lock.on = FALSE /\ \A q \in Proc : pc[q] \in {"new", "user", "exit"}
  BY <1>1 DEF IInv, BeforeOK
<1>5. asleep = {}
  BY <1>4 DEF IInv, TypeOK, Calling
<1>6. TypeOK'
  BY <1>1, <1>2, <1>3, <1>5, TypeFrame DEF TypeOK
<1>7. CallsOK'
  BY <1>1, <1>4 DEF IInv, CallsOK, CallOK, Calling
<1>8. BeforeOK' /\ NotFreedInUse'
  BY <1>1 DEF BeforeOK, NotFreedInUse
<1>9. HeadOK'
  BY <1>1, <1>3 DEF HeadOK
<1>10. OneHolder'
  BY <1>3, <1>4 DEF OneHolder
<1>11. CountsRight'
  BY <1>2, CreateCounts DEF IInv
<1>12. Registered'
  BY <1>3 DEF Registered
<1>13. NoLostWakeup' /\ SelectMissesNothing' /\ LockOwned'
  BY <1>1, <1>4, <1>5 DEF NoLostWakeup, SelectMissesNothing, LockOwned
<1> QED
  BY <1>6, <1>7, <1>8, <1>9, <1>10, <1>11, <1>12, <1>13 DEF IInv

LEMMA OpenKeeps ==
  ASSUME IInv, NEW p \in Proc, NEW f \in File, NEW mode \in Mode, NEW nd \in BOOLEAN,
         Open(p, f, mode, nd)
  PROVE  IInv'
<1>1. /\ fifo = "live" /\ UNCHANGED <<fifo, attr, buf, lock, pc, job, asleep>>
      /\ f # Server /\ file[f].holders = {}
  BY DEF Open, procs
<1>2. /\ TypeOK /\ pc \in [Proc -> Places] /\ job \in [Proc -> Task]
      /\ pipe \in [End -> Ring] /\ buf \in [End -> Bytes] /\ Server \in File
      /\ "inp" \in End /\ "outp" \in End /\ \A e \in End : e = "inp" \/ e = "outp"
  BY TypeParts, ProcsType, PipeAssumption DEF IInv, End
<1>3. /\ pipe' \in [End -> Ring] /\ file' \in [File -> Filep]
      /\ SameSel
      /\ \A e \in End : pipe'[e].start = pipe[e].start /\ pipe'[e].len = pipe[e].len
      /\ pipe'["inp"].readers = IF Reads(mode) THEN More(pipe["inp"].readers)
                                ELSE pipe["inp"].readers
      /\ pipe'["outp"].readers = pipe["outp"].readers
      /\ pipe'["inp"].writers = pipe["inp"].writers
      /\ pipe'["outp"].writers = IF Writes(mode) /\ Exists("outp")
                                 THEN More(pipe["outp"].writers) ELSE pipe["outp"].writers
      /\ file'[f].holders = {p} /\ file'[f].mode = mode /\ file'[f].lock = lock.on
      /\ \A g \in File : g # f => file'[g] = file[g]
  BY <1>2, OpenEffect
<1>4. \A q \in Proc : SameCall(q) /\ job[q].f \in File
  BY <1>1, <1>2 DEF SameCall, Task
<1>5. TypeOK'
  BY <1>1, <1>2, <1>3, TypeFrame DEF TypeOK
<1>6. CallsOK'
  <2>1. ASSUME NEW q \in Proc PROVE CallOK(q)'
    BY <1>1, <1>3, <1>4 DEF IInv, CallsOK, CallOK
  <2> QED
    BY <2>1 DEF CallsOK
<1>7. BeforeOK' /\ NotFreedInUse'
  BY <1>1 DEF BeforeOK, NotFreedInUse
<1>8. HeadOK'
  BY <1>1, <1>2, <1>3 DEF IInv, HeadOK, HeadOpen
<1>9. OneHolder'
  BY <1>1, <1>3 DEF IInv, OneHolder, NotForked
<1>10. CountsRight'
  BY <1>2, OpenCounts DEF IInv
<1>11. Registered'
  BY <1>2, <1>3, <1>4, RegisteredFrame DEF IInv
<1>12. LockOwned'
  <2> SUFFICES ASSUME lock.on, NotForked
               PROVE  \E g \in File : lock'.pid \in file'[g].holders /\ file'[g].lock
    BY <1>1 DEF LockOwned, NotForked
  <2>1. PICK g \in File : lock.pid \in file[g].holders /\ file[g].lock
    BY <1>1 DEF IInv, LockOwned, NotForked
  <2>2. g # f
    BY <1>1, <2>1
  <2> QED
    BY <1>1, <1>3, <2>1, <2>2
<1>13. /\ pipe["inp"].readers = NReaders \/ pipe["inp"].readers = VirginPipe
       /\ ~attr.oneway => pipe["outp"].writers = NWriters \/ pipe["outp"].writers = VirginPipe
  BY <1>1, CountsForm DEF Counted, IInv
<1>14. ASSUME NEW e \in End
       PROVE  /\ pipe'[e].readers = pipe[e].readers
                   \/ (pipe'[e].readers > 0 /\ pipe'[e].readers # VirginPipe)
              /\ pipe'[e].writers = pipe[e].writers
                   \/ (pipe'[e].writers > 0 /\ pipe'[e].writers # VirginPipe)
  <2>1. \A k \in {NReaders, NWriters, VirginPipe} : More(k) > 0 /\ More(k) # VirginPipe
    BY CountsBound DEF More
  <2>2. CASE e = "inp"
    BY <1>3, <1>13, <2>1, <2>2
  <2>3. CASE e = "outp"
    BY <1>3, <1>13, <2>1, <2>3 DEF Exists
  <2> QED
    BY <1>2, <2>2, <2>3
<1>15. ASSUME NEW q \in asleep'
       PROVE  SleepsWell(q)' /\ SelectsWell(q)'
  <2>1. q \in Proc /\ q \in asleep /\ SleepsWell(q) /\ SelectsWell(q) /\ SameCall(q)
    BY <1>1, <1>4, <1>15, SleepersForm DEF IInv, TypeOK
  <2>2. Channel(q)' = Channel(q) /\ Channel(q) \in End
    BY <2>1 DEF SameCall, Channel, Rd, Wr, End
  <2>3. /\ Eof(Channel(q))' => Eof(Channel(q))
        /\ Broken(Channel(q))' => Broken(Channel(q))
    BY <1>14, <2>2 DEF Eof, Broken
  <2>4. Taken(q) => Taken(q)'
    BY <1>1 DEF Taken
  <2>5. SleepsWell(q)'
    BY <1>3, <2>1, <2>2, <2>3, <2>4, SleepFrame
  <2> PICK c : c = Side(job[q].f, job[q].dir)
    OBVIOUS
  <2> PICK d : d = job[q].dir
    OBVIOUS
  <2>6. c \in End
    BY <2>1, SideType
  <2>7. Ready(c, d)' => Ready(c, d)
    <3>1. pipe'[c].readers \in Nat /\ pipe'[c].writers \in Nat
      BY <1>3, <2>6, RingField
    <3> QED
      BY <1>3, <1>14, <2>6, <3>1 DEF Ready
  <2>8. Selecting(c, d)' = Selecting(c, d)
    BY <1>3, <2>6 DEF Selecting, SameSel
  <2>9. pc[q] = "coll" => pc'[Selecting(c, d)] \in {"select", "exit"}
    BY <1>1, <2>1 DEF SelectsWell
  <2>10. SelectsWell(q)'
    BY <2>1, <2>7, <2>8, <2>9, SelectFrame
  <2> QED
    BY <2>5, <2>10
<1>16. NoLostWakeup' /\ SelectMissesNothing'
  BY <1>15, SleepersForm
<1> QED
  BY <1>5, <1>6, <1>7, <1>8, <1>9, <1>10, <1>11, <1>12, <1>16 DEF IInv

\* pipe_close() and what is left of do_close() when the fifo is gone.
LEMMA CloseKeeps ==
  ASSUME IInv, NEW p \in Proc, NEW f \in File, Close(p, f)
  PROVE  IInv'
<1>1. /\ pc[p] \in {"user", "exit"} /\ p \in file[f].holders /\ UNCHANGED <<attr, pc>>
      /\ buf' = (IF fifo' = "gone" THEN [e \in End |-> Blank] ELSE buf)
      /\ job' = IF file[f].holders # {p} /\ pipe["inp"].readers = VirginPipe
                THEN Untold ELSE job
      /\ \/ fifo = "live" /\ CloseLive(p, f)
         \/ fifo = "gone" /\ asleep' = asleep \ OnColl /\ UNCHANGED <<fifo, pipe, lock>>
  BY DEF Close
<1>2. /\ TypeOK /\ pc \in [Proc -> Places] /\ job \in [Proc -> Task]
      /\ pipe \in [End -> Ring] /\ buf \in [End -> Bytes] /\ Server \in File
      /\ "inp" \in End /\ "outp" \in End /\ \A e \in End : e = "inp" \/ e = "outp"
      /\ lock \in [on : BOOLEAN, pid : Proc \cup {Nobody}] /\ attr \in Attrs
  BY TypeParts, ProcsType, PipeAssumption DEF IInv, End, TypeOK
<1>3. /\ file' \in [File -> Filep]
      /\ \A g \in File : g # f => file'[g] = file[g]
      /\ file'[f].holders = file[f].holders \ {p}
      /\ file[f].holders # {p} => /\ file'[f].mode = file[f].mode
                                  /\ file'[f].lock = file[f].lock
  BY <1>2, CloseFile
<1>4. /\ job' \in [Proc -> Task]
      /\ \A q \in Proc : SameCall(q) /\ job[q].f \in File
      /\ file[f].holders # {p} /\ pipe["inp"].readers = VirginPipe =>
           \A q \in Proc : pipe["inp"].wsel = q => job'[q].missed
  BY <1>1, <1>2, UntoldEffect DEF SameCall, Task
<1>5. buf' \in [End -> Bytes]
  <2>1. Blank \in Bytes
    BY DEF Blank, Bytes
  <2> QED
    BY <1>1, <1>2, <2>1
<1>6. p \notin asleep
  BY <1>1 DEF IInv, TypeOK, Calling
<1>7. CallsOK'
  <2>1. ASSUME NEW q \in Proc PROVE CallOK(q)'
    <3>1. CallOK(q) /\ SameCall(q) /\ job[q].f \in File
      BY <1>4 DEF IInv, CallsOK
    <3>2. pc[q] \in Calling \cup {"stray"} => q # p
      BY <1>1 DEF Calling
    <3>3. pc[q] \in Calling \cup {"stray"} => q \in file'[job[q].f].holders
      BY <1>3, <3>1, <3>2 DEF CallOK
    <3> QED
      BY <1>1, <3>1, <3>3 DEF CallOK, SameCall
  <2> QED
    BY <2>1 DEF CallsOK
<1>8. HeadOK'
  <2> SUFFICES ASSUME HeadOpen' PROVE file'[Server].mode = attr.mode
    BY <1>1 DEF HeadOK
  <2>1. HeadOpen /\ file'[Server].mode = file[Server].mode
    BY <1>2, <1>3 DEF HeadOpen
  <2> QED
    BY <2>1 DEF IInv, HeadOK
<1>9. OneHolder'
  <2>1. NotForked' => NotForked
    BY <1>1 DEF NotForked
  <2> QED
    BY <1>3, <2>1 DEF IInv, OneHolder
<1>10. ASSUME NEW q \in Proc, pc[q] \in InUse
       PROVE  /\ q \in file'[job[q].f].holders
              /\ file'[job[q].f].mode = file[job[q].f].mode
              /\ job'[q].f = job[q].f /\ job[q].f \in File
  <2>1. q # p /\ q \in file[job[q].f].holders /\ job[q].f \in File /\ SameCall(q)
    BY <1>1, <1>4, <1>10, UsersKnow DEF InUse, Calling
  <2> QED
    BY <1>3, <2>1 DEF SameCall
<1>11. CASE fifo = "gone" /\ asleep' = asleep \ OnColl /\ UNCHANGED <<fifo, pipe, lock>>
  <2>1. TypeOK'
    <3>1. \A q \in asleep' : q \in Proc /\ pc'[q] \in Calling
      BY <1>1, <1>11 DEF IInv, TypeOK
    <3> QED
      BY <1>1, <1>2, <1>3, <1>4, <1>5, <1>11, <3>1, TypeFrame DEF TypeOK
  <2>2. BeforeOK' /\ CountsRight' /\ NoLostWakeup' /\ SelectMissesNothing' /\ LockOwned'
    BY <1>11 DEF BeforeOK, CountsRight, NoLostWakeup, SelectMissesNothing, LockOwned
  <2>3. NotFreedInUse'
    BY <1>1, <1>10, <1>11 DEF IInv, NotFreedInUse, InUse
  <2>4. Registered'
    BY <1>2, <1>4, <1>11, RegisteredFrame DEF IInv, SameSel
  <2> QED
    BY <1>7, <1>8, <1>9, <2>1, <2>2, <2>3, <2>4 DEF IInv
<1>12. CASE fifo = "live" /\ CloseLive(p, f)
  <2> PICK P : P = ClosedPipe(p, f)
    OBVIOUS
  <2> DEFINE last == file[f].holders = {p}
             unlocks == last /\ Unlocked(p, f)
  <2>1. /\ fifo' = (IF Finished(P) THEN "gone" ELSE "live")
        /\ pipe' = (IF Finished(P) THEN [e \in End |-> Fresh(0, 0)] ELSE P)
        /\ lock' = (IF Finished(P) THEN [on |-> FALSE, pid |-> Nobody]
                    ELSE IF unlocks THEN [lock EXCEPT !.on = FALSE] ELSE lock)
        /\ asleep' = asleep \ (OnColl \cup (IF last THEN WokenByClose(f) ELSE {})
                                      \cup (IF unlocks THEN OnLock ELSE {}))
    BY <1>12 DEF CloseLive, ClosedPipe
  <2>2. /\ P \in [End -> Ring]
        /\ \A e \in End :
             /\ P[e].start = pipe[e].start /\ P[e].len = pipe[e].len
             /\ P[e].rsel = IF e = Rd(f) /\ pipe[e].rsel = p THEN Nobody ELSE pipe[e].rsel
             /\ P[e].wsel = IF e = Wr(f) /\ pipe[e].wsel = p THEN Nobody ELSE pipe[e].wsel
        /\ P["inp"].readers = NReaders'
        /\ P["inp"].writers = One(HeadOpen' \/ attr.mode = "r")
        /\ ~attr.oneway =>
             /\ P["outp"].writers = NWriters'
                  \/ (NWriters' = 0 /\ P["outp"].writers = VirginPipe)
             /\ P["outp"].readers = One(HeadOpen' \/ attr.mode = "w")
        /\ file[f].holders # {p} =>
             /\ P["inp"].readers = (IF pipe["inp"].readers = VirginPipe THEN 0
                                    ELSE pipe["inp"].readers)
             /\ P["inp"].writers = pipe["inp"].writers
             /\ P["outp"].readers = pipe["outp"].readers
             /\ P["outp"].writers = pipe["outp"].writers
    BY <1>1, <1>12, ClosedPipeCounts DEF IInv
  <2>3. /\ asleep' \subseteq asleep
        /\ \A q \in asleep' : q \notin OnColl
        /\ last => \A q \in asleep' : q \notin WokenByClose(f)
        /\ unlocks => \A q \in asleep' : q \notin OnLock
    <3> DEFINE W == IF last THEN WokenByClose(f) ELSE {}
               L == IF unlocks THEN OnLock ELSE {}
    <3>1. asleep' = asleep \ (OnColl \cup W \cup L)
      BY <2>1
    <3>2. (last => W = WokenByClose(f)) /\ (unlocks => L = OnLock)
      OBVIOUS
    <3> HIDE DEF W, L, last, unlocks
    <3> QED
      BY <3>1, <3>2
  <2> HIDE DEF last, unlocks
  <2>4. Finished(P) <=> NReaders' = 0 /\ ~HeadOpen' /\ attr.mode # "r"
    <3>1. P["inp"].readers \in Nat /\ P["inp"].writers \in Nat
      BY <1>2, <2>2, RingField
    <3> QED
      BY <2>2, <3>1 DEF Finished, One
  <2>5. pipe' \in [End -> Ring]
    <3>1. Fresh(0, 0) \in Ring
      BY PipeAssumption DEF Fresh, Ring
    <3> QED
      BY <2>1, <2>2, <3>1
  <2>6. lock' \in [on : BOOLEAN, pid : Proc \cup {Nobody}]
    BY <1>2, <2>1
  <2>7. TypeOK'
    <3>1. \A q \in asleep' : q \in Proc /\ pc'[q] \in Calling
      BY <1>1, <2>3 DEF IInv, TypeOK
    <3>2. fifo' \in {"none", "live", "gone"}
      BY <2>1
    <3> QED
      BY <1>1, <1>2, <1>3, <1>4, <1>5, <2>5, <2>6, <3>1, <3>2, TypeFrame
  <2>8. fifo' # "none" /\ (fifo' = "live" <=> ~Finished(P)) /\ (fifo' = "gone" <=> Finished(P))
    BY <2>1
  <2>9. BeforeOK'
    BY <2>8 DEF BeforeOK
  <2>10. CountsRight'
    <3> SUFFICES ASSUME ~Finished(P) PROVE CountsRight'
      BY <2>8 DEF CountsRight
    <3>1. pipe' = P /\ attr' = attr
      BY <1>1, <2>1
    <3>2. ASSUME \A g \in File : file'[g].holders = {} PROVE attr.mode = "r"
      <4>1. ReadersOpen' = {} /\ ~HeadOpen'
        BY <1>2, <3>2 DEF ReadersOpen, HeadOpen
      <4>2. Cardinality(ReadersOpen') = 0
        BY <4>1, FS_EmptySet
      <4>3. NReaders' = 0
        BY <4>1, <4>2 DEF NReaders, One
      <4> QED
        BY <2>4, <4>1, <4>3
    <3>3. One(HeadOpen \/ attr.mode = "r")' = One(HeadOpen' \/ attr.mode = "r")
          /\ One(HeadOpen \/ attr.mode = "w")' = One(HeadOpen' \/ attr.mode = "w")
      BY <3>1 DEF One
    <3> QED
      BY <2>2, <3>1, <3>2, <3>3, CountsForm DEF Counted
  <2>11. NotFreedInUse'
    <3> SUFFICES ASSUME Finished(P), NEW q \in Proc, pc[q] \in InUse
                 PROVE  job[q].f # Server /\ file'[job[q].f].mode = "w" /\ job'[q].f = job[q].f
      BY <1>1, <2>8 DEF NotFreedInUse, InUse
    <3>1. NReaders' = 0 /\ ~HeadOpen'
      BY <2>4
    <3>2. job'[q].f = job[q].f /\ job[q].f \in File /\ file'[job[q].f].holders # {}
      BY <1>10
    <3>3. job[q].f # Server
      BY <3>1, <3>2 DEF HeadOpen
    <3>4. ReadersOpen' = {}
      <4>1. ReadersOpen' \subseteq File /\ IsFiniteSet(File)
        BY PipeAssumption DEF ReadersOpen
      <4>2. IsFiniteSet(ReadersOpen') /\ Cardinality(ReadersOpen') \in Nat
        BY <4>1, FS_Subset, FS_CardinalityType
      <4>3. Cardinality(ReadersOpen') = 0
        BY <3>1, <4>2 DEF NReaders, One
      <4> QED
        BY <4>2, <4>3, FS_EmptySet
    <3>5. ~Reads(file'[job[q].f].mode)
      BY <3>2, <3>3, <3>4 DEF ReadersOpen
    <3>6. file'[job[q].f].mode \in Mode
      BY <1>3, <3>2 DEF Filep
    <3> QED
      BY <3>2, <3>3, <3>5, <3>6 DEF Reads, Mode
  <2>12. Registered'
    <3>1. CASE Finished(P)
      <4>1. \A e \in End : pipe'[e].rsel = Nobody /\ pipe'[e].wsel = Nobody
        BY <2>1, <3>1 DEF Fresh
      <4> QED
        BY <4>1 DEF Registered
    <3>2. CASE ~Finished(P)
      <4>1. \A e \in End : /\ pipe'[e].rsel \in {pipe[e].rsel, Nobody}
                           /\ pipe'[e].wsel \in {pipe[e].wsel, Nobody}
                           /\ pipe[e].rsel \in Proc \cup {Nobody}
                           /\ pipe[e].wsel \in Proc \cup {Nobody}
        BY <1>2, <2>1, <2>2, <3>2, RingField
      <4>2. ASSUME NEW e \in End
            PROVE  /\ pipe'[e].rsel # Nobody =>
                      /\ pc'[pipe'[e].rsel] \in {"select", "exit"}
                      /\ pc'[pipe'[e].rsel] = "select" =>
                           job'[pipe'[e].rsel].dir = "r" /\ Rd(job'[pipe'[e].rsel].f) = e
                   /\ pipe'[e].wsel # Nobody =>
                      /\ pc'[pipe'[e].wsel] \in {"select", "exit"}
                      /\ pc'[pipe'[e].wsel] = "select" =>
                           job'[pipe'[e].wsel].dir = "w" /\ Wr(job'[pipe'[e].wsel].f) = e
        BY <1>4, <4>1 DEF IInv, Registered, SameCall
      <4> QED
        BY <4>2 DEF Registered, Rd, Wr
    <3> QED
      BY <3>1, <3>2
  <2>13. LockOwned'
    <3> SUFFICES ASSUME ~Finished(P), lock'.on, NotForked'
                 PROVE  \E g \in File : lock'.pid \in file'[g].holders /\ file'[g].lock
      BY <2>8 DEF LockOwned, NotForked
    <3>1. ~unlocks /\ lock' = lock
      BY <1>2, <2>1
    <3>2. NotForked
      BY <1>1 DEF NotForked
    <3>3. PICK g \in File : lock.pid \in file[g].holders /\ file[g].lock
      BY <1>12, <3>1, <3>2 DEF IInv, LockOwned, NotForked
    <3>4. g # f
      <4> SUFFICES ASSUME g = f PROVE FALSE
        OBVIOUS
      <4>1. lock.pid = p /\ file[f].holders = {p}
        BY <1>1, <3>2, <3>3 DEF IInv, OneHolder
      <4> QED
        BY <3>1, <3>3, <4>1 DEF unlocks, last, Unlocked
    <3> QED
      BY <1>3, <3>1, <3>3, <3>4
  <2>14. ASSUME NEW q \in asleep', ~Finished(P)
         PROVE  SleepsWell(q)' /\ SelectsWell(q)'
    <3>1. /\ q \in Proc /\ q # p /\ q \in asleep /\ SleepsWell(q) /\ SelectsWell(q)
          /\ SameCall(q) /\ CallOK(q)
      BY <1>4, <1>6, <1>12, <2>3, <2>14, SleepersForm DEF IInv, TypeOK, CallsOK
    <3>2. pipe' = P
      BY <2>1, <2>14
    <3>3. Channel(q)' = Channel(q) /\ Channel(q) \in End
      BY <3>1 DEF SameCall, Channel, Rd, Wr, End
    <3>4. pc[q] \in {"read", "write"} => ~last
      <4>1. OnPipe(Channel(q)) \subseteq WokenByClose(f)
        BY <3>3 DEF WokenByClose
      <4> QED
        BY <2>3, <2>14, <3>1, <4>1 DEF OnPipe
    <3>5. pc[q] \in {"read", "write"} =>
            /\ Eof(Channel(q))' => Eof(Channel(q))
            /\ Broken(Channel(q))' => Broken(Channel(q))
      <4> SUFFICES ASSUME ~last
                   PROVE  /\ Eof(Channel(q))' => Eof(Channel(q))
                          /\ Broken(Channel(q))' => Broken(Channel(q))
        BY <3>4
      <4>1. \A e \in End : /\ P[e].writers = pipe[e].writers
                           /\ P[e].readers = pipe[e].readers \/ pipe[e].readers = VirginPipe
        BY <1>2, <2>2 DEF last
      <4> QED
        BY <3>2, <3>3, <4>1 DEF Eof, Broken
    <3>6. pc[q] = "setlk" /\ Taken(q) => Taken(q)'
      <4> SUFFICES ASSUME pc[q] = "setlk" PROVE lock' = lock
        BY DEF Taken
      <4>1. ~unlocks
        BY <2>3, <2>14, <3>1 DEF OnLock
      <4> QED
        BY <2>1, <2>14, <4>1
    <3>7. SleepsWell(q)'
      BY <2>2, <3>1, <3>2, <3>3, <3>5, <3>6, SleepFrame
    <3> PICK c : c = Side(job[q].f, job[q].dir)
      OBVIOUS
    <3> PICK d : d = job[q].dir
      OBVIOUS
    <3>8. c \in End /\ pc[q] # "coll"
      BY <2>3, <2>14, <3>1, SideType DEF OnColl
    <3>9. ASSUME pc[q] = "select"
          PROVE  /\ Selecting(c, d) = q => Selecting(c, d)' = q
                 /\ Ready(c, d)' => Ready(c, d) \/ job'[q].missed
      <4>1. Selecting(c, d) = q /\ d \in {"r", "w"}
        BY <3>1, <3>9 DEF SelectsWell, CallOK
      <4>2. Selecting(c, d)' = q
        BY <2>2, <3>1, <3>2, <3>8, <4>1 DEF Selecting
      <4>3. ~last
        <5>1. {pipe[c].rsel, pipe[c].wsel} \subseteq WokenByClose(f)
          BY <3>8 DEF WokenByClose
        <5> QED
          BY <2>3, <2>14, <4>1, <5>1 DEF Selecting
      <4>4. /\ P[c].len = pipe[c].len /\ P[c].writers = pipe[c].writers
            /\ P[c].readers = pipe[c].readers
                 \/ (c = "inp" /\ pipe["inp"].readers = VirginPipe)
        BY <1>2, <2>2, <3>8, <4>3 DEF last
      <4>5. ASSUME c = "inp", pipe["inp"].readers = VirginPipe, d = "w"
            PROVE  job'[q].missed
        BY <1>4, <3>1, <4>1, <4>3, <4>5 DEF last, Selecting
      <4>6. Ready(c, d)' => Ready(c, d) \/ job'[q].missed
        BY <3>2, <4>1, <4>4, <4>5 DEF Ready
      <4> QED
        BY <4>2, <4>6
    <3>10. SelectsWell(q)'
      BY <3>1, <3>8, <3>9, SelectFrame
    <3> QED
      BY <3>7, <3>10
  <2>15. NoLostWakeup' /\ SelectMissesNothing'
    BY <2>8, <2>14, SleepersForm
  <2> QED
    BY <1>7, <1>8, <1>9, <2>7, <2>9, <2>10, <2>11, <2>12, <2>13, <2>15 DEF IInv
<1> QED
  BY <1>1, <1>11, <1>12

-----------------------------------------------------------------------------
(* The invariant holds.                                                    *)

\* Before the fifo is created nobody has a file pointer and nobody sleeps.
LEMMA InitIInv == Init => IInv
<1> SUFFICES ASSUME Init PROVE IInv
  OBVIOUS
<1>1. /\ Server \in File /\ PipeSiz \in Nat /\ 0 \in 0..(PipeSiz - 1) /\ 0 \in 0..PipeSiz
  BY PipeAssumption
<1>2. Fresh(0, 0) \in Ring /\ Blank \in Bytes /\ Closed \in Filep /\ NoJob \in Task
  <2>1. Fresh(0, 0) \in Ring
    BY <1>1 DEF Fresh, Ring
  <2>2. Blank \in Bytes
    BY DEF Blank, Bytes
  <2>3. Closed \in Filep
    BY DEF Closed, Filep, Mode
  <2> QED
    BY <2>1, <2>2, <2>3, NoJobType
<1>3. /\ fifo = "none" /\ attr \in Attrs
      /\ pipe = [e \in End |-> Fresh(0, 0)] /\ buf = [e \in End |-> Blank]
      /\ file = [f \in File |-> Closed] /\ lock = [on |-> FALSE, pid |-> Nobody]
      /\ pc = [p \in Proc |-> IF p \in New /\ "fork" \in attr.ops THEN "new" ELSE "user"]
      /\ job = [p \in Proc |-> NoJob] /\ asleep = {}
  BY DEF Init
<1>4. /\ \A f \in File : file[f].holders = {}
      /\ \A e \in End : pipe[e].rsel = Nobody /\ pipe[e].wsel = Nobody
      /\ \A p \in Proc : pc[p] \in {"new", "user"}
      /\ \A p \in Proc : pc[p] = "new" => p \in New /\ "fork" \in attr.ops
  BY <1>3 DEF Closed, Fresh
<1>5. TypeOK
  <2>1. pipe \in [End -> Ring] /\ buf \in [End -> Bytes] /\ file \in [File -> Filep]
        /\ job \in [Proc -> Task]
    BY <1>2, <1>3
  <2>2. pc \in [Proc -> {"new", "user", "exit", "stray"} \cup Calling]
    BY <1>3
  <2>3. lock \in [on : BOOLEAN, pid : Proc \cup {Nobody}]
    BY <1>3
  <2> QED
    BY <1>3, <2>1, <2>2, <2>3 DEF TypeOK, Ring, Bytes, Filep, Task
<1>6. CallsOK
  BY <1>4 DEF CallsOK, CallOK, Calling
<1>7. BeforeOK
  BY <1>3, <1>4 DEF BeforeOK
<1>8. HeadOK /\ OneHolder
  BY <1>1, <1>4 DEF HeadOK, HeadOpen, OneHolder
<1>9. Registered
  BY <1>4 DEF Registered
<1>10. /\ CountsRight /\ NoLostWakeup /\ SelectMissesNothing /\ NotFreedInUse /\ LockOwned
  BY <1>3 DEF CountsRight, NoLostWakeup, SelectMissesNothing, NotFreedInUse, LockOwned
<1> QED
  BY <1>5, <1>6, <1>7, <1>8, <1>9, <1>10 DEF IInv

\* A step that begins a read or write, or goes on with one.
LEMMA LengthsType ==
  ASSUME TypeOK, NEW n \in attr.lengths
  PROVE  n \in Nat /\ n \in 1..n
  BY PipeAssumption DEF TypeOK

LEMMA CallersAwake ==
  ASSUME TypeOK, NEW p \in Proc, pc[p] = "user"
  PROVE  p \notin asleep
  BY DEF TypeOK, Calling

LEMMA FwriteKeeps ==
  ASSUME IInv, NEW p \in Proc, NEW f \in File, NEW n \in attr.lengths, Fwrite(p, f, n)
  PROVE  IInv'
<1>1. TypeOK /\ n \in Nat /\ n \in 1..n
  BY LengthsType DEF IInv
<1>2. WriteStep(p, f, n, n) /\ fifo = "live" /\ pc[p] = "user" /\ p \in file[f].holders
  BY DEF Fwrite, Calls
<1> QED
  BY <1>1, <1>2, CallersAwake, WriteKeeps

LEMMA FreadKeeps ==
  ASSUME IInv, NEW p \in Proc, NEW f \in File, NEW n \in attr.lengths, Fread(p, f, n)
  PROVE  IInv'
<1>1. TypeOK /\ n \in Nat /\ n \in 1..n
  BY LengthsType DEF IInv
<1>2. ReadStep(p, f, n, n) /\ fifo = "live" /\ pc[p] = "user" /\ p \in file[f].holders
  BY DEF Fread, Calls
<1> QED
  BY <1>1, <1>2, CallersAwake, ReadKeeps

\* What a process that slept in pipe_read() or pipe_write() knows.
LEMMA ResumeFacts ==
  ASSUME IInv, NEW p \in Proc, pc[p] \in {"read", "write"}
  PROVE  /\ job[p].f \in File /\ job[p].n \in Nat /\ job[p].left \in 1..job[p].n
         /\ p \in file[job[p].f].holders
         /\ pc[p] = "write" => /\ job[p].n \in attr.lengths
                               /\ job[p].n <= PipeBuf => job[p].left = job[p].n
<1>1. job[p] \in Task /\ CallOK(p)
  BY TypeParts DEF IInv, CallsOK
<1> QED
  BY <1>1, UsersKnow DEF Task, CallOK, Calling

LEMMA ResumeKeeps ==
  ASSUME IInv, NEW p \in Proc, Resume(p)
  PROVE  IInv'
<1>1. p \notin asleep /\ fifo = "live"
  BY DEF Resume
<1>2. CASE pc[p] = "write" /\ WriteStep(p, job[p].f, job[p].left, job[p].n)
  BY <1>1, <1>2, ResumeFacts, WriteKeeps
<1>3. CASE pc[p] = "read" /\ ReadStep(p, job[p].f, job[p].left, job[p].n)
  BY <1>1, <1>3, ResumeFacts, ReadKeeps
<1> QED
  BY <1>2, <1>3 DEF Resume

LEMMA SelectAgainKeeps ==
  ASSUME IInv, NEW p \in Proc, SelectAgain(p)
  PROVE  IInv'
<1>1. pc[p] = "coll" /\ SelectStep(p, job[p].f, job[p].dir)
  BY DEF SelectAgain
<1>2. CallOK(p) /\ job[p].f \in File /\ p \in file[job[p].f].holders
  BY <1>1, UsersKnow DEF IInv, CallsOK, Calling
<1>3. job[p].dir \in {"r", "w"}
  BY <1>1, <1>2 DEF CallOK
<1> QED
  BY <1>1, <1>2, <1>3, SelectStepKeeps

\* Nothing in the invariant but the variables.
LEMMA StutterKeeps ==
  ASSUME IInv, UNCHANGED vars
  PROVE  IInv'
<1>1. UNCHANGED <<fifo, attr, pipe, buf, file, lock, pc, job, asleep, out>>
  BY DEF vars
<1>2. TypeOK' /\ CallsOK' /\ BeforeOK' /\ HeadOK' /\ OneHolder'
  BY <1>1 DEF IInv, TypeOK, CallsOK, CallOK, BeforeOK, HeadOK, HeadOpen, OneHolder, NotForked
<1>3. CountsRight'
  BY <1>1 DEF IInv, CountsRight, Openers, HeadOpen
<1>4. Registered' /\ NotFreedInUse' /\ LockOwned'
  BY <1>1 DEF IInv, Registered, NotFreedInUse, LockOwned
<1>5. NoLostWakeup'
  BY <1>1 DEF IInv, NoLostWakeup, Channel, Eof, Broken, Room, Taken
<1>6. SelectMissesNothing'
  BY <1>1 DEF IInv, SelectMissesNothing, Selecting, Ready
<1> QED
  BY <1>2, <1>3, <1>4, <1>5, <1>6 DEF IInv

LEMMA NextIInv == IInv /\ [Next]_vars => IInv'
<1> SUFFICES ASSUME IInv, [Next]_vars PROVE IInv'
  OBVIOUS
<1>1. CASE UNCHANGED vars
  BY <1>1, StutterKeeps
<1>2. CASE Next
  <2> PICK p \in Proc :
        \/ \E nd \in Ndelay : Create(p, nd)
        \/ \E f \in File, m \in Modes, nd \in Ndelay : Open(p, f, m, nd)
        \/ \E q \in Proc : Fork(p, q)
        \/ \E f \in File, n \in attr.lengths : Fwrite(p, f, n) \/ Fread(p, f, n)
        \/ Resume(p) \/ Stray(p)
        \/ \E f \in File, E \in SUBSET {e \in End : Exists(e)} : Flush(p, f, E)
        \/ \E f \in File, dir \in {"r", "w"} : Fselect(p, f, dir)
        \/ SelectAgain(p) \/ SelectEnds(p)
        \/ \E f \in File : SetLk(p, f) \/ UnLk(p, f) \/ Close(p, f)
        \/ Interrupt(p) \/ Exit(p)
    BY <1>2 DEF Next
  <2>1. Ndelay \subseteq BOOLEAN /\ Modes \subseteq Mode
    BY PipeAssumption DEF Ndelay
  <2>2. CASE \E nd \in Ndelay : Create(p, nd)
    BY <2>1, <2>2, CreateKeeps
  <2>3. CASE \E f \in File, m \in Modes, nd \in Ndelay : Open(p, f, m, nd)
    BY <2>1, <2>3, OpenKeeps
  <2>4. CASE \E q \in Proc : Fork(p, q)
    BY <2>4, ForkKeeps
  <2>5. CASE \E f \in File, n \in attr.lengths : Fwrite(p, f, n) \/ Fread(p, f, n)
    BY <2>5, FwriteKeeps, FreadKeeps
  <2>6. CASE Resume(p) \/ Stray(p)
    BY <2>6, ResumeKeeps, StrayKeeps
  <2>7. CASE \E f \in File, E \in SUBSET {e \in End : Exists(e)} : Flush(p, f, E)
    <3> PICK f \in File, E \in SUBSET {e \in End : Exists(e)} : Flush(p, f, E)
      BY <2>7
    <3>1. E \in SUBSET End
      OBVIOUS
    <3> QED
      BY <3>1, FlushKeeps
  <2>8. CASE \E f \in File, dir \in {"r", "w"} : Fselect(p, f, dir)
    <3> PICK f \in File, dir \in {"r", "w"} : Fselect(p, f, dir)
      BY <2>8
    <3>1. SelectStep(p, f, dir) /\ pc[p] = "user" /\ p \in file[f].holders
      BY DEF Fselect
    <3> QED
      BY <3>1, SelectStepKeeps
  <2>9. CASE SelectAgain(p) \/ SelectEnds(p)
    BY <2>9, SelectAgainKeeps, SelectEndsKeeps
  <2>10. CASE \E f \in File : SetLk(p, f) \/ UnLk(p, f) \/ Close(p, f)
    BY <2>10, SetLkKeeps, UnLkKeeps, CloseKeeps
  <2>11. CASE Interrupt(p) \/ Exit(p)
    BY <2>11, InterruptKeeps, ExitKeeps
  <2> QED
    BY <2>2, <2>3, <2>4, <2>5, <2>6, <2>7, <2>8, <2>9, <2>10, <2>11
<1> QED
  BY <1>1, <1>2

\* The strengthened invariant holds in every state.
LEMMA Inductive == Spec => []IInv
  BY InitIInv, NextIInv, PTL DEF Spec

\* The variables of a fifo keep their types: the counts of readers and writers in
\* struct pipe never become negative, and no sequence of pipe_write() and
\* pipe_read() moves the start of a ring buffer out of it or overfills it.
THEOREM TypeCorrect == Spec => []TypeOK
  BY Inductive, PTL DEF IInv

\* pipe_open() and pipe_close() count readers and writers right, in whatever order
\* file pointers are opened, shared by fork() and closed, and VIRGIN_PIPE never
\* passes for a count.
THEOREM CountsCorrect == Spec => []CountsRight
  BY Inductive, PTL DEF IInv

\* pipe_close() does not free the fifo while a process is in pipe_read(),
\* pipe_write() or pipe_ioctl() with the head or with a file pointer that can read.
THEOREM NeverFreedInUse == Spec => []NotFreedInUse
  BY Inductive, PTL DEF IInv

\* Without fork(), who set O_LOCK of a fifo has the file pointer with which
\* pipe_close() will take it away.
THEOREM LockStaysWithOwner == Spec => []LockOwned
  BY Inductive, PTL DEF IInv

\* The wake() calls of pipe_read(), pipe_write(), pipe_ioctl() and pipe_close()
\* reach everybody asleep in one of them whom they allow to go on.
THEOREM NoSleeperForgotten == Spec => []NoLostWakeup
  BY Inductive, PTL DEF IInv

\* wakeselect() and wake(SELECT_Q, &select_coll) reach everybody in Fselect() who
\* should know, but for a writer to inp that TIOCFLUSH or a close forgot.
THEOREM SelectToldEverything == Spec => []SelectMissesNothing
  BY Inductive, PTL DEF IInv

-----------------------------------------------------------------------------
(* A fifo implements two queues of bytes.                                  *)

Cell == Byte \cup {Empty}

\* The variables of Stream.
Queue == [e \in End |-> Contents(e)]
Rest(p) == IF pc[p] = "write" THEN Part(job[p].n + 1 - job[p].left, job[p].n) ELSE <<>>
ToDo == [p \in Proc |-> Rest(p)]

\* A fifo that was freed is empty.
GoneEmpty == fifo = "gone" => \A e \in End : pipe[e].len = 0

LEMMA IsSeq ==
  ASSUME NEW T, NEW n \in Nat, NEW s \in [1..n -> T]
  PROVE  s \in Seq(T) /\ Len(s) = n
<1>1. s \in Seq(T)
  BY SeqDef
<1>2. Len(s) \in Nat /\ DOMAIN s = 1..Len(s) /\ DOMAIN s = 1..n
  BY <1>1, LenProperties
<1> QED
  BY <1>1, <1>2

\* A sequence that consists of two.
LEMMA Joined ==
  ASSUME NEW T, NEW c \in Seq(T), NEW t \in Seq(T), NEW d \in Seq(T),
         NEW k \in Nat, NEW m \in Nat, Len(c) = k, Len(t) = m, Len(d) = k + m,
         \A i \in 1..(k + m) : d[i] = IF i <= k THEN c[i] ELSE t[i - k]
  PROVE  d = c \o t
<1>1. /\ c \o t \in Seq(T) /\ Len(c \o t) = Len(c) + Len(t)
      /\ \A i \in 1..(Len(c) + Len(t)) :
           (c \o t)[i] = IF i <= Len(c) THEN c[i] ELSE t[i - Len(c)]
  BY ConcatProperties
<1>2. Len(d) = Len(c \o t) /\ \A i \in 1..Len(d) : d[i] = (c \o t)[i]
  BY <1>1
<1> QED
  BY <1>1, <1>2, SeqEqual

\* The end of a sequence.
LEMMA Tailed ==
  ASSUME NEW T, NEW c \in Seq(T), NEW d \in Seq(T), NEW k \in Nat, NEW m \in 0..k,
         Len(c) = k, Len(d) = k - m, \A i \in 1..(k - m) : d[i] = c[m + i]
  PROVE  d = SubSeq(c, m + 1, k)
<1>1. \A i \in (m + 1)..k : c[i] \in T
  BY ElementOfSeq
<1>2. /\ SubSeq(c, m + 1, k) \in Seq(T)
      /\ Len(SubSeq(c, m + 1, k)) = (IF m + 1 <= k THEN k - (m + 1) + 1 ELSE 0)
      /\ \A i \in 1..(k - (m + 1) + 1) : SubSeq(c, m + 1, k)[i] = c[m + 1 + i - 1]
  <2>1. m + 1 \in Int /\ k \in Int
    OBVIOUS
  <2> QED
    BY <1>1, <2>1, SubSeqProperties
<1>3. /\ Len(SubSeq(c, m + 1, k)) = k - m
      /\ \A i \in 1..(k - m) : SubSeq(c, m + 1, k)[i] = c[m + i]
  BY <1>2
<1>4. Len(d) = Len(SubSeq(c, m + 1, k)) /\ \A i \in 1..Len(d) : d[i] = SubSeq(c, m + 1, k)[i]
  BY <1>3
<1> QED
  BY <1>2, <1>4, SeqEqual

LEMMA EmptyIsSeq ==
  ASSUME NEW T, NEW s \in [1..0 -> T]
  PROVE  s = <<>>
<1>1. s \in Seq(T) /\ Len(s) = 0
  BY IsSeq
<1> QED
  BY <1>1, EmptySeq

LEMMA ContentsType ==
  ASSUME TypeOK, NEW e \in End
  PROVE  /\ Contents(e) \in [1..pipe[e].len -> Cell]
         /\ Contents(e) \in Seq(Cell) /\ Len(Contents(e)) = pipe[e].len
         /\ pipe[e].len \in 0..PipeSiz
         /\ \A i \in 1..pipe[e].len : Contents(e)[i] = buf[e][Wrap(pipe[e].start + i - 1)]
         /\ pipe[e].len = 0 => Contents(e) = <<>>
<1>1. /\ pipe[e].start \in 0..(PipeSiz - 1) /\ pipe[e].len \in 0..PipeSiz /\ buf[e] \in Bytes
      /\ PipeSiz \in Nat
  BY TypeParts, RingField, PipeAssumption
<1>2. \A i \in 1..pipe[e].len : Wrap(pipe[e].start + i - 1) \in 0..(PipeSiz - 1)
  BY <1>1 DEF Wrap
<1>3. Contents(e) \in [1..pipe[e].len -> Cell]
  BY <1>1, <1>2 DEF Contents, Bytes, Cell
<1>4. Contents(e) \in Seq(Cell) /\ Len(Contents(e)) = pipe[e].len
  BY <1>1, <1>3, IsSeq
<1>5. pipe[e].len = 0 => Contents(e) = <<>>
  BY <1>3, EmptyIsSeq
<1>6. \A i \in 1..pipe[e].len : Contents(e)[i] = buf[e][Wrap(pipe[e].start + i - 1)]
  BY DEF Contents
<1> QED
  BY <1>1, <1>3, <1>4, <1>5, <1>6

\* The same for the next state.
LEMMA ContentsTypeNext ==
  ASSUME TypeOK', NEW e \in End
  PROVE  /\ Contents(e)' \in Seq(Cell) /\ Len(Contents(e)') = pipe'[e].len
         /\ \A i \in 1..pipe'[e].len : Contents(e)'[i] = buf'[e][Wrap(pipe'[e].start + i - 1)]
         /\ pipe'[e].len = 0 => Contents(e)' = <<>>
<1>1. /\ pipe' \in [End -> Ring] /\ buf' \in [End -> Bytes] /\ PipeSiz \in Nat
  BY PipeAssumption DEF TypeOK, Ring, Bytes
<1>2. /\ pipe'[e].start \in 0..(PipeSiz - 1) /\ pipe'[e].len \in 0..PipeSiz
      /\ buf'[e] \in Bytes
  BY <1>1, RingField
<1>3. \A i \in 1..pipe'[e].len : Wrap(pipe'[e].start + i - 1) \in 0..(PipeSiz - 1)
  BY <1>1, <1>2 DEF Wrap
<1>4. Contents(e)' = [i \in 1..pipe'[e].len |-> buf'[e][Wrap(pipe'[e].start + i - 1)]]
  BY DEF Contents, Wrap
<1>5. Contents(e)' \in [1..pipe'[e].len -> Cell]
  BY <1>2, <1>3, <1>4 DEF Bytes, Cell
<1>6. Contents(e)' \in Seq(Cell) /\ Len(Contents(e)') = pipe'[e].len
  BY <1>1, <1>2, <1>5, IsSeq
<1>7. pipe'[e].len = 0 => Contents(e)' = <<>>
  BY <1>5, EmptyIsSeq
<1> QED
  BY <1>4, <1>6, <1>7

LEMMA SameContents ==
  ASSUME NEW e \in End, pipe'[e].start = pipe[e].start, pipe'[e].len = pipe[e].len,
         buf'[e] = buf[e]
  PROVE  Contents(e)' = Contents(e)
  BY DEF Contents, Wrap

LEMMA SameRest ==
  ASSUME NEW p \in Proc, SameCall(p) \/ (pc[p] # "write" /\ pc'[p] # "write")
  PROVE  Rest(p)' = Rest(p)
  BY DEF Rest, SameCall, Part

\* What is left of the message of p is all that changes.
LEMMA ToDoFrame ==
  ASSUME NEW p \in Proc, \A q \in Proc \ {p} : SameCall(q)
  PROVE  ToDo' = [ToDo EXCEPT ![p] = Rest(p)']
<1>1. \A q \in Proc \ {p} : Rest(q)' = Rest(q)
  BY SameRest
<1>2. ToDo' = [q \in Proc |-> Rest(q)']
  BY DEF ToDo
<1> QED
  BY <1>1, <1>2 DEF ToDo

LEMMA ToDoSame ==
  ASSUME \A q \in Proc : Rest(q)' = Rest(q)
  PROVE  ToDo' = ToDo
  BY DEF ToDo

-----------------------------------------------------------------------------
(* The steps of Stream, in terms of Pipe.                                   *)

LEMMA PutStep ==
  ASSUME NEW p \in Proc, NEW e \in End, NEW n \in UNION {a.lengths : a \in Attrs},
         NEW i \in 1..n, NEW m \in 0..(n + 1 - i),
         ToDo[p] \in {<<>>, Part(i, n)}, ToDo[p] = <<>> => i = 1,
         n <= PipeBuf => m \in {0, n}, Len(Queue[e]) + m <= PipeSiz,
         Queue' = [Queue EXCEPT ![e] = @ \o SubSeq(Part(i, n), 1, m)],
         ToDo' \in {[ToDo EXCEPT ![p] = Part(i + m, n)], [ToDo EXCEPT ![p] = <<>>]},
         out' = <<>>
  PROVE  S!StreamNext
<1>1. S!Put(p, e, i, n, m)
  BY DEF S!Put, Queue, ToDo, Rest, S!Part, Part
<1> QED
  BY <1>1 DEF S!StreamNext

LEMMA GiveUpStep ==
  ASSUME NEW p \in Proc, out' = <<>>, ToDo' = [ToDo EXCEPT ![p] = <<>>], Queue' = Queue
  PROVE  S!StreamNext
<1>1. S!GiveUp(p)
  BY DEF S!GiveUp, Queue, ToDo, Rest
<1> QED
  BY <1>1 DEF S!StreamNext

LEMMA GetStep ==
  ASSUME NEW e \in End, NEW m \in 0..Len(Queue[e]), out' = SubSeq(Queue[e], 1, m),
         Queue' = [Queue EXCEPT ![e] = SubSeq(@, m + 1, Len(@))], ToDo' = ToDo
  PROVE  S!StreamNext
<1>1. S!Get(e, m)
  BY DEF S!Get, Queue, ToDo, Rest
<1> QED
  BY <1>1 DEF S!StreamNext, Queue

LEMMA FlushStep ==
  ASSUME NEW E \in SUBSET End, out' = <<>>, ToDo' = ToDo,
         Queue' = [e \in End |-> IF e \in E THEN <<>> ELSE Queue[e]]
  PROVE  S!StreamNext
<1>1. S!Flush(E)
  BY DEF S!Flush, Queue, ToDo, Rest
<1> QED
  BY <1>1 DEF S!StreamNext

\* A step that leaves the contents alone and gives up at most the message of p.
LEMMA QuietStep ==
  ASSUME NEW p \in Proc, out' = <<>>,
         \A e \in End : pipe'[e].start = pipe[e].start /\ pipe'[e].len = pipe[e].len
                        /\ buf'[e] = buf[e],
         \A q \in Proc \ {p} : SameCall(q), SameCall(p) \/ pc'[p] # "write"
  PROVE  S!StreamNext
<1>1. \A e \in End : Contents(e)' = Contents(e)
  BY SameContents
<1>2. Queue' = Queue
  BY <1>1 DEF Queue
<1>3. CASE pc'[p] # "write"
  <2>1. Rest(p)' = <<>>
    BY <1>3 DEF Rest
  <2>2. ToDo' = [ToDo EXCEPT ![p] = <<>>]
    BY <2>1, ToDoFrame
  <2> QED
    BY <1>2, <2>2, GiveUpStep
<1>4. CASE SameCall(p)
  <2>1. ToDo' = ToDo
    BY <1>4, SameRest, ToDoSame
  <2> PICK E \in SUBSET End : E = {}
    OBVIOUS
  <2>2. Queue' = [e \in End |-> IF e \in E THEN <<>> ELSE Queue[e]]
    BY <1>1 DEF Queue
  <2> QED
    BY <2>1, <2>2, FlushStep
<1> QED
  BY <1>3, <1>4

Extended(c, i, n, m) == c \o SubSeq(Part(i, n), 1, m)

\* pipe_write() puts the next bytes of the message behind those in the buffer.
LEMMA WrittenContents ==
  ASSUME TypeOK, TypeOK', NEW p \in Proc, NEW f \in File, NEW n \in Nat, NEW left \in 1..n,
         WriteStep(p, f, left, n), NEW e, e = Wr(f), NEW m, m = Room(e, left, n)
  PROVE  Contents(e)' = Extended(Contents(e), n + 1 - left, n, m)
<1> PICK s : s = Part(n + 1 - left, n)
  OBVIOUS
<1>1. /\ e \in End /\ m \in 0..left /\ pipe[e].len + m \in 0..PipeSiz
      /\ s \in [1..left -> Byte] /\ left \in Nat
  BY SidesAreEnds, RoomBounds, PartType
<1>2. /\ pipe'[e].start = pipe[e].start /\ pipe'[e].len = pipe[e].len + m
      /\ buf'[e] = Stored(e, s, m)
  BY <1>1, WriteEffect
<1>3. /\ Contents(e) \in Seq(Cell) /\ Len(Contents(e)) = pipe[e].len /\ pipe[e].len \in 0..PipeSiz
      /\ \A i \in 1..pipe[e].len : Contents(e)[i] = buf[e][Wrap(pipe[e].start + i - 1)]
  BY <1>1, ContentsType
<1>4. /\ Contents(e)' \in Seq(Cell) /\ Len(Contents(e)') = pipe[e].len + m
      /\ \A i \in 1..(pipe[e].len + m) :
           Contents(e)'[i] = Stored(e, s, m)[Wrap(pipe[e].start + i - 1)]
  BY <1>1, <1>2, ContentsTypeNext
<1>5. \A i \in 1..(pipe[e].len + m) :
        Stored(e, s, m)[Wrap(pipe[e].start + i - 1)]
          = IF i <= pipe[e].len THEN buf[e][Wrap(pipe[e].start + i - 1)] ELSE s[i - pipe[e].len]
  <2>1. pipe[e].len + m <= PipeSiz
    BY <1>1, PipeAssumption
  <2> QED
    BY <1>1, <2>1, StoredLemma
<1>6. /\ SubSeq(s, 1, m) \in Seq(Cell) /\ Len(SubSeq(s, 1, m)) = m
      /\ \A i \in 1..m : SubSeq(s, 1, m)[i] = s[i]
  <2>1. \A i \in 1..m : s[i] \in Cell
    BY <1>1 DEF Cell
  <2>2. 1 \in Int /\ m \in Int
    BY <1>1
  <2>3. /\ SubSeq(s, 1, m) \in Seq(Cell)
        /\ Len(SubSeq(s, 1, m)) = (IF 1 <= m THEN m - 1 + 1 ELSE 0)
        /\ \A i \in 1..(m - 1 + 1) : SubSeq(s, 1, m)[i] = s[1 + i - 1]
    BY <2>1, <2>2, SubSeqProperties
  <2> QED
    BY <2>3, <1>1
<1> PICK c : c = Contents(e)
  OBVIOUS
<1> PICK d : d = Contents(e)'
  OBVIOUS
<1> PICK t : t = SubSeq(s, 1, m)
  OBVIOUS
<1>7. ASSUME NEW i \in 1..(pipe[e].len + m)
      PROVE  d[i] = IF i <= pipe[e].len THEN c[i] ELSE t[i - pipe[e].len]
  <2>1. CASE i <= pipe[e].len
    <3>1. i \in 1..pipe[e].len
      BY <2>1, <1>3, <1>1
    <3> QED
      BY <2>1, <3>1, <1>3, <1>4, <1>5
  <2>2. CASE ~(i <= pipe[e].len)
    <3>1. i - pipe[e].len \in 1..m
      BY <2>2, <1>3, <1>1
    <3>2. t[i - pipe[e].len] = s[i - pipe[e].len]
      BY <3>1, <1>6
    <3>3. d[i] = s[i - pipe[e].len]
      BY <2>2, <1>4, <1>5
    <3> QED
      BY <2>2, <3>2, <3>3
  <2> QED
    BY <2>1, <2>2
<1> PICK k : k = pipe[e].len
  OBVIOUS
<1>8. /\ c \in Seq(Cell) /\ t \in Seq(Cell) /\ d \in Seq(Cell) /\ k \in Nat /\ m \in Nat
      /\ Len(c) = k /\ Len(t) = m /\ Len(d) = k + m
  BY <1>1, <1>3, <1>4, <1>6
<1>9. \A i \in 1..(k + m) : d[i] = IF i <= k THEN c[i] ELSE t[i - k]
  BY <1>7
<1>10. d = c \o t
  BY ONLY <1>8, <1>9, Joined
<1> QED
  BY <1>10, Zenon DEF Extended

\* pipe_read() takes bytes from the front, and the others follow.
LEMMA ReadContents ==
  ASSUME TypeOK, TypeOK', NEW p \in Proc, NEW f \in File, NEW n \in Nat, NEW left \in 1..n,
         ReadStep(p, f, left, n), NEW e, e = Rd(f), NEW m, m = Min2(pipe[e].len, left)
  PROVE  /\ m \in 0..Len(Contents(e))
         /\ out' = SubSeq(Contents(e), 1, m)
         /\ Contents(e)' = SubSeq(Contents(e), m + 1, Len(Contents(e)))
<1>1. /\ e \in End /\ m \in 0..pipe[e].len
      /\ pipe'[e].len = pipe[e].len - m
      /\ pipe'[e].start = (IF m = 0 THEN pipe[e].start ELSE StartAfter(e, m))
      /\ buf'[e] = Forgotten(e, m)
  BY SidesAreEnds, ReadEffect
<1>2. out' = Fetched(e, m)
  BY DEF ReadStep
<1> PICK c : c = Contents(e)
  OBVIOUS
<1> PICK d : d = Contents(e)'
  OBVIOUS
<1> PICK ln : ln = pipe[e].len
  OBVIOUS
<1>3. /\ c \in Seq(Cell) /\ c \in [1..ln -> Cell] /\ Len(c) = ln /\ ln \in 0..PipeSiz /\ ln \in Nat
      /\ \A i \in 1..ln : c[i] = buf[e][Wrap(pipe[e].start + i - 1)]
  BY <1>1, ContentsType, PipeAssumption
<1>4. /\ d \in Seq(Cell) /\ Len(d) = ln - m
      /\ \A i \in 1..(ln - m) : d[i] = buf'[e][Wrap(pipe'[e].start + i - 1)]
  BY <1>1, ContentsTypeNext
<1>5. out' = SubSeq(c, 1, m)
  <2>1. out' = [i \in 1..m |-> buf[e][Wrap(pipe[e].start + i - 1)]]
    BY <1>1, <1>2, FetchedLemma
  <2>2. \A i \in 1..m : i \in 1..ln
    BY <1>1, <1>3
  <2>3. out' \in [1..m -> Cell] /\ \A i \in 1..m : out'[i] = c[i]
    BY <2>1, <2>2, <1>3
  <2>4. out' \in Seq(Cell) /\ Len(out') = m /\ m \in Nat
    <3>1. m \in Nat
      BY <1>1, <1>3
    <3> QED
      BY <3>1, <2>3, IsSeq
  <2>5. /\ SubSeq(c, 1, m) \in Seq(Cell)
        /\ Len(SubSeq(c, 1, m)) = (IF 1 <= m THEN m - 1 + 1 ELSE 0)
        /\ \A i \in 1..(m - 1 + 1) : SubSeq(c, 1, m)[i] = c[1 + i - 1]
    <3>1. \A i \in 1..m : c[i] \in Cell
      BY <2>2, <1>3
    <3>2. 1 \in Int /\ m \in Int
      BY <2>4
    <3> QED
      BY <3>1, <3>2, SubSeqProperties
  <2>6. Len(SubSeq(c, 1, m)) = m /\ \A i \in 1..m : SubSeq(c, 1, m)[i] = c[i]
    BY <2>4, <2>5
  <2> QED
    BY <2>3, <2>4, <2>5, <2>6, SeqEqual
<1>6. d = SubSeq(c, m + 1, ln)
  <2>1. m \in Nat /\ m + 1 \in Int /\ ln \in Int /\ m <= ln
    BY <1>1, <1>3
  <2>2. ASSUME NEW i \in 1..(ln - m)
        PROVE  d[i] = c[m + i]
    <3>1. m + i \in 1..ln /\ pipe[e].start + (m + i) - 1 = pipe[e].start + m + i - 1
      BY <2>1, <1>1, TypeParts, RingField
    <3>2. c[m + i] = buf[e][Wrap(pipe[e].start + m + i - 1)]
      BY <3>1, <1>3
    <3>3. Forgotten(e, m)[Wrap((IF m = 0 THEN pipe[e].start ELSE StartAfter(e, m)) + i - 1)]
            = buf[e][Wrap(pipe[e].start + m + i - 1)]
      BY <1>1, ForgottenLemma
    <3> QED
      BY <3>2, <3>3, <1>1, <1>4
  <2>3. /\ c \in Seq(Cell) /\ d \in Seq(Cell) /\ ln \in Nat /\ m \in 0..ln
        /\ Len(c) = ln /\ Len(d) = ln - m
    BY <1>1, <1>3, <1>4
  <2> QED
    BY ONLY <2>2, <2>3, Tailed
<1> QED
  BY <1>1, <1>3, <1>5, <1>6

\* Where the other buffer is left alone, one queue changes.
LEMMA QueueFrame ==
  ASSUME NEW e \in End,
         \A d \in End : d # e => pipe'[d] = pipe[d] /\ buf'[d] = buf[d]
  PROVE  Queue' = [Queue EXCEPT ![e] = Contents(e)'] /\ Queue[e] = Contents(e)
<1>1. \A d \in End : d # e => Contents(d)' = Contents(d)
  BY SameContents
<1>2. Queue' = [d \in End |-> Contents(d)']
  BY DEF Queue
<1> QED
  BY <1>1, <1>2 DEF Queue

\* A step of pipe_write() is a Put.
LEMMA WriteRefines ==
  ASSUME IInv, IInv', NEW p \in Proc, NEW f \in File, NEW n \in Nat, NEW left \in 1..n,
         WriteStep(p, f, left, n), n \in attr.lengths, n <= PipeBuf => left = n,
         \/ pc[p] = "user" /\ left = n
         \/ pc[p] = "write" /\ left = job[p].left /\ n = job[p].n
  PROVE  S!StreamNext
<1> PICK e : e = Wr(f)
  OBVIOUS
<1> PICK m : m = Room(e, left, n)
  OBVIOUS
<1> PICK i : i = n + 1 - left
  OBVIOUS
<1>1. /\ TypeOK /\ TypeOK' /\ e \in End /\ m \in 0..left /\ pipe[e].len + m \in 0..PipeSiz
      /\ n <= PipeBuf => m \in {0, left}
  BY RoomBounds, SidesAreEnds DEF IInv
<1>2. i \in 1..n /\ m \in 0..(n + 1 - i) /\ n - (left - m) + 1 = i + m
      /\ n + 1 - (left - m) = i + m
  BY <1>1
<1>3. /\ Queue' = [Queue EXCEPT ![e] = Contents(e)'] /\ Queue[e] = Contents(e)
  BY <1>1, WriteEffect, QueueFrame
<1>4. Contents(e)' = Contents(e) \o SubSeq(Part(i, n), 1, m)
  <2>1. Contents(e)' = Extended(Contents(e), n + 1 - left, n, m)
    BY <1>1, WrittenContents
  <2> QED
    BY <2>1, Zenon DEF Extended
<1>5. Queue' = [Queue EXCEPT ![e] = @ \o SubSeq(Part(i, n), 1, m)]
  BY <1>3, <1>4 DEF Queue
<1>6. Len(Queue[e]) + m <= PipeSiz
  <2>1. Len(Queue[e]) = pipe[e].len
    BY <1>1, <1>3, ContentsType
  <2> QED
    BY <1>1, <2>1, PipeAssumption
<1>7. n \in UNION {a.lengths : a \in Attrs}
  BY <1>1 DEF TypeOK
<1>8. ToDo[p] = Rest(p)
  BY DEF ToDo
<1>9. ToDo[p] \in {<<>>, Part(i, n)} /\ (ToDo[p] = <<>> => i = 1)
  <2>1. CASE pc[p] = "user" /\ left = n
    BY <1>8, <2>1 DEF Rest
  <2>2. CASE pc[p] = "write" /\ left = job[p].left /\ n = job[p].n
    <3>1. ToDo[p] = Part(i, n)
      BY <1>8, <2>2 DEF Rest
    <3>2. Part(i, n) # <<>>
      <4>1. Part(n + 1 - left, n) \in [1..left -> Byte] /\ left \in Nat
        BY PartType
      <4>2. Len(Part(n + 1 - left, n)) = left
        BY <4>1, IsSeq
      <4> QED
        BY <4>2, EmptySeq
    <3> QED
      BY <3>1, <3>2
  <2> QED
    BY <2>1, <2>2
<1>10. ToDo' \in {[ToDo EXCEPT ![p] = Part(i + m, n)], [ToDo EXCEPT ![p] = <<>>]}
  <2>1. /\ \A q \in Proc \ {p} : SameCall(q)
        /\ \/ pc'[p] \in {"user", "exit"}
           \/ pc'[p] = "write" /\ job'[p] = Job(f, left - m, n, "w")
    BY <1>1, WriteOutcome
  <2>2. ToDo' = [ToDo EXCEPT ![p] = Rest(p)']
    BY <2>1, ToDoFrame
  <2>3. Rest(p)' \in {Part(i + m, n), <<>>}
    <3>1. CASE pc'[p] \in {"user", "exit"}
      BY <3>1 DEF Rest
    <3>2. CASE pc'[p] = "write" /\ job'[p] = Job(f, left - m, n, "w")
      <4>1. job'[p].n = n /\ job'[p].left = left - m
        BY <3>2 DEF Job
      <4>2. Rest(p)' = Part(n + 1 - (left - m), n)
        BY <3>2, <4>1 DEF Rest, Part
      <4> QED
        BY <4>2, <1>2
    <3> QED
      BY <2>1, <3>1, <3>2
  <2> QED
    BY <2>2, <2>3
<1>11. out' = <<>>
  BY DEF WriteStep
<1>12. n <= PipeBuf => m \in {0, n}
  BY <1>1
<1> QED
  BY <1>1, <1>2, <1>5, <1>6, <1>7, <1>9, <1>10, <1>11, <1>12, PutStep

\* A step of pipe_read() is a Get.
LEMMA ReadRefines ==
  ASSUME IInv, IInv', NEW p \in Proc, NEW f \in File, NEW n \in Nat, NEW left \in 1..n,
         ReadStep(p, f, left, n), pc[p] \in {"user", "read"}
  PROVE  S!StreamNext
<1> PICK e : e = Rd(f)
  OBVIOUS
<1> PICK m : m = Min2(pipe[e].len, left)
  OBVIOUS
<1>1. TypeOK /\ TypeOK' /\ e \in End
  BY SidesAreEnds DEF IInv
<1>2. /\ Queue' = [Queue EXCEPT ![e] = Contents(e)'] /\ Queue[e] = Contents(e)
  BY <1>1, ReadEffect, QueueFrame
<1>3. /\ m \in 0..Len(Contents(e)) /\ out' = SubSeq(Contents(e), 1, m)
      /\ Contents(e)' = SubSeq(Contents(e), m + 1, Len(Contents(e)))
  BY <1>1, ReadContents
<1>4. Queue' = [Queue EXCEPT ![e] = SubSeq(@, m + 1, Len(@))]
  BY <1>2, <1>3 DEF Queue
<1>5. ToDo' = ToDo
  <2>1. (\A q \in Proc \ {p} : SameCall(q)) /\ pc'[p] \in {"user", "read"}
    BY <1>1, ReadOutcome
  <2>2. \A q \in Proc : Rest(q)' = Rest(q)
    BY <2>1, SameRest
  <2> QED
    BY <2>2, ToDoSame
<1> QED
  BY <1>1, <1>2, <1>3, <1>4, <1>5, GetStep

\* Steps after which some buffers are empty and the others as before.
LEMMA FlushRefines ==
  ASSUME TypeOK', NEW E \in SUBSET End, out' = <<>>, \A q \in Proc : SameCall(q),
         \A e \in E : pipe'[e].len = 0,
         \A e \in End \ E : pipe'[e].start = pipe[e].start /\ pipe'[e].len = pipe[e].len
                            /\ buf'[e] = buf[e]
  PROVE  S!StreamNext
<1>1. \A e \in End : Contents(e)' = IF e \in E THEN <<>> ELSE Contents(e)
  BY SameContents, ContentsTypeNext
<1>2. Queue' = [e \in End |-> IF e \in E THEN <<>> ELSE Queue[e]]
  BY <1>1 DEF Queue
<1>3. ToDo' = ToDo
  BY SameRest, ToDoSame
<1> QED
  BY <1>2, <1>3, FlushStep

LEMMA CloseRefines ==
  ASSUME IInv, IInv', GoneEmpty, NEW p \in Proc, NEW f \in File, Close(p, f)
  PROVE  S!StreamNext /\ GoneEmpty'
<1>1. /\ p \in file[f].holders /\ pc' = pc /\ out' = <<>>
      /\ buf' = (IF fifo' = "gone" THEN [e \in End |-> Blank] ELSE buf)
      /\ job' \in {job, Untold}
      /\ \/ fifo = "live" /\ CloseLive(p, f)
         \/ fifo = "gone" /\ UNCHANGED <<fifo, pipe>>
  BY DEF Close
<1>2. TypeOK /\ TypeOK' /\ End \in SUBSET End /\ {} \in SUBSET End
  BY DEF IInv
<1>3. \A q \in Proc : SameCall(q)
  BY <1>1, <1>2, UntoldEffect DEF SameCall
<1>4. CASE fifo = "gone" /\ UNCHANGED <<fifo, pipe>>
  <2>1. \A e \in End : pipe'[e].len = 0
    BY <1>4 DEF GoneEmpty
  <2> QED
    BY <1>1, <1>2, <1>3, <2>1, FlushRefines DEF GoneEmpty
<1>5. CASE fifo = "live" /\ CloseLive(p, f)
  <2> PICK P : P = ClosedPipe(p, f)
    OBVIOUS
  <2>1. /\ fifo' = (IF Finished(P) THEN "gone" ELSE "live")
        /\ pipe' = (IF Finished(P) THEN [e \in End |-> Fresh(0, 0)] ELSE P)
    BY <1>5 DEF CloseLive, ClosedPipe
  <2>2. \A e \in End : P[e].start = pipe[e].start /\ P[e].len = pipe[e].len
    BY <1>1, <1>2, <1>5, ClosedPipeCounts DEF IInv
  <2>3. CASE Finished(P)
    <3>1. \A e \in End : pipe'[e].len = 0
      BY <2>1, <2>3 DEF Fresh
    <3> QED
      BY <1>1, <1>2, <1>3, <3>1, FlushRefines DEF GoneEmpty
  <2>4. CASE ~Finished(P)
    <3>1. fifo' = "live" /\ pipe' = P /\ buf' = buf
      BY <1>1, <2>1, <2>4
    <3>2. \A e \in End : pipe'[e].start = pipe[e].start /\ pipe'[e].len = pipe[e].len
                         /\ buf'[e] = buf[e]
      BY <3>1, <2>2
    <3> PICK E \in SUBSET End : E = {}
      OBVIOUS
    <3> QED
      BY <1>1, <1>2, <1>3, <3>1, <3>2, FlushRefines DEF GoneEmpty
  <2> QED
    BY <2>3, <2>4
<1> QED
  BY <1>1, <1>4, <1>5

\* The steps that leave the buffers alone: fork(), opening, the locks, signals and
\* termination, and Fselect().
LEMMA QuietRefines ==
  ASSUME GoneEmpty, NEW p \in Proc, fifo' = fifo, buf' = buf, out' = <<>>,
         \A e \in End : pipe'[e].start = pipe[e].start /\ pipe'[e].len = pipe[e].len,
         \A q \in Proc \ {p} : SameCall(q), SameCall(p) \/ pc'[p] # "write"
  PROVE  S!StreamNext /\ GoneEmpty'
<1>1. S!StreamNext
  BY QuietStep
<1> QED
  BY <1>1 DEF GoneEmpty

LEMMA CreateRefines ==
  ASSUME IInv, IInv', NEW p \in Proc, NEW nd \in BOOLEAN, Create(p, nd)
  PROVE  S!StreamNext /\ GoneEmpty'
<1>1. TypeOK /\ TypeOK' /\ End \in SUBSET End
  BY DEF IInv
<1>2. fifo' = "live" /\ out' = <<>> /\ pc' = pc /\ job' = job
  BY DEF Create, procs
<1>3. \A e \in End : pipe'[e].len = 0
  BY <1>1, CreateEffect
<1>4. \A q \in Proc : SameCall(q)
  BY <1>2 DEF SameCall
<1>5. S!StreamNext
  BY <1>1, <1>2, <1>3, <1>4, FlushRefines
<1> QED
  BY <1>2, <1>5 DEF GoneEmpty

LEMMA OpenRefines ==
  ASSUME IInv, GoneEmpty, NEW p \in Proc, NEW f \in File, NEW mode \in Mode, NEW nd \in BOOLEAN,
         Open(p, f, mode, nd)
  PROVE  S!StreamNext /\ GoneEmpty'
<1>1. fifo' = fifo /\ buf' = buf /\ out' = <<>> /\ pc' = pc /\ job' = job
  BY DEF Open, procs
<1>2. \A e \in End : pipe'[e].start = pipe[e].start /\ pipe'[e].len = pipe[e].len
  BY OpenEffect DEF IInv
<1>3. \A q \in Proc : SameCall(q)
  BY <1>1 DEF SameCall
<1> QED
  BY <1>1, <1>2, <1>3, QuietRefines

LEMMA ForkRefines ==
  ASSUME IInv, GoneEmpty, NEW p \in Proc, NEW q \in Proc, Fork(p, q)
  PROVE  S!StreamNext /\ GoneEmpty'
<1>1. /\ fifo' = fifo /\ buf' = buf /\ out' = <<>> /\ pipe' = pipe /\ job' = job
      /\ pc' = [pc EXCEPT ![q] = "user"]
  BY DEF Fork
<1>2. pc \in [Proc -> Places]
  BY ProcsType DEF IInv
<1>3. pc'[q] = "user" /\ \A r \in Proc \ {q} : SameCall(r)
  BY <1>1, <1>2 DEF SameCall
<1> QED
  BY <1>1, <1>3, QuietRefines

LEMMA ReturnRefines ==
  ASSUME IInv, GoneEmpty, NEW p \in Proc, UNCHANGED <<fifo, pipe, buf>>, out' = <<>>, Return(p)
  PROVE  S!StreamNext /\ GoneEmpty'
<1>1. pc'[p] = "user" /\ \A q \in Proc \ {p} : SameCall(q)
  BY ReturnEffect DEF IInv
<1> QED
  BY <1>1, QuietRefines

LEMMA ExitRefines ==
  ASSUME IInv, GoneEmpty, NEW p \in Proc, Exit(p)
  PROVE  S!StreamNext /\ GoneEmpty'
<1>1. /\ fifo' = fifo /\ pipe' = pipe /\ buf' = buf /\ out' = <<>>
      /\ pc' = [pc EXCEPT ![p] = "exit"] /\ job' = [job EXCEPT ![p] = NoJob]
  BY DEF Exit
<1>2. TypeOK /\ NoJob \in Task /\ "exit" \in Places
  BY NoJobType DEF IInv, Places
<1>3. pc'[p] = "exit" /\ \A q \in Proc \ {p} : SameCall(q)
  BY <1>1, <1>2, StayEffect
<1> QED
  BY <1>1, <1>3, QuietRefines

LEMMA StrayRefines ==
  ASSUME IInv, GoneEmpty, NEW p \in Proc, Stray(p)
  PROVE  S!StreamNext /\ GoneEmpty'
<1>1. /\ fifo' = fifo /\ pipe' = pipe /\ buf' = buf /\ out' = <<>> /\ job' = job
      /\ pc' = [pc EXCEPT ![p] = "stray"]
  BY DEF Stray
<1>2. pc \in [Proc -> Places]
  BY ProcsType DEF IInv
<1>3. pc'[p] = "stray" /\ \A q \in Proc \ {p} : SameCall(q)
  BY <1>1, <1>2 DEF SameCall
<1> QED
  BY <1>1, <1>3, QuietRefines

LEMMA SelectReturnsRefines ==
  ASSUME IInv, GoneEmpty, NEW p \in Proc, NEW f \in File, SelectReturns(p, f),
         UNCHANGED <<fifo, buf>>, out' = <<>>
  PROVE  S!StreamNext /\ GoneEmpty'
<1>1. TypeOK /\ pipe \in [End -> Ring]
  BY TypeParts DEF IInv
<1>2. \A e \in End : pipe'[e].start = pipe[e].start /\ pipe'[e].len = pipe[e].len
  BY <1>1, UnselectEffect DEF SelectReturns
<1>3. pc'[p] = "user" /\ \A q \in Proc \ {p} : SameCall(q)
  BY <1>1, ReturnEffect DEF SelectReturns
<1> QED
  BY <1>2, <1>3, QuietRefines

LEMMA SelectRefines ==
  ASSUME IInv, GoneEmpty, NEW p \in Proc, NEW f \in File, NEW dir \in {"r", "w"},
         SelectStep(p, f, dir)
  PROVE  S!StreamNext /\ GoneEmpty'
<1> PICK e : e = Side(f, dir)
  OBVIOUS
<1>1. /\ fifo' = fifo /\ buf' = buf /\ out' = <<>> /\ e \in End
      /\ TypeOK /\ pipe \in [End -> Ring]
  BY TypeParts DEF SelectStep, Side, Rd, Wr, End, IInv
<1>2. CASE SelectReturns(p, f)
  BY <1>1, <1>2, SelectReturnsRefines
<1>3. ASSUME NEW c \in {"select", "coll"}, Stay(p, c, Job(f, 0, 0, dir)),
             pipe' = pipe \/ pipe' = Register(e, dir, p)
      PROVE  S!StreamNext /\ GoneEmpty'
  <2>1. Job(f, 0, 0, dir) \in Task /\ c \in Places
    BY DEF Job, Task, Places, Calling
  <2>2. pc'[p] = c /\ \A q \in Proc \ {p} : SameCall(q)
    BY <1>1, <1>3, <2>1, StayEffect DEF Stay
  <2>3. \A d \in End : pipe'[d].start = pipe[d].start /\ pipe'[d].len = pipe[d].len
    BY <1>1, <1>3, RegisterEffect
  <2> QED
    BY <1>1, <2>2, <2>3, QuietRefines
<1>4. \/ SelectReturns(p, f)
      \/ Stay(p, "select", Job(f, 0, 0, dir)) /\ pipe' = pipe
      \/ Stay(p, "coll", Job(f, 0, 0, dir)) /\ pipe' = pipe
      \/ Stay(p, "select", Job(f, 0, 0, dir)) /\ pipe' = Register(e, dir, p)
  BY DEF SelectStep
<1> QED
  BY <1>2, <1>3, <1>4

LEMMA InterruptRefines ==
  ASSUME IInv, GoneEmpty, NEW p \in Proc, Interrupt(p)
  PROVE  S!StreamNext /\ GoneEmpty'
<1>1. fifo' = fifo /\ buf' = buf /\ out' = <<>> /\ job[p].f \in File
  BY TypeParts DEF Interrupt, IInv, Task
<1>2. CASE Return(p) /\ pipe' = pipe
  BY <1>1, <1>2, ReturnRefines
<1>3. CASE SelectReturns(p, job[p].f)
  BY <1>1, <1>3, SelectReturnsRefines
<1> QED
  BY <1>2, <1>3 DEF Interrupt

LEMMA SetLkRefines ==
  ASSUME IInv, GoneEmpty, NEW p \in Proc, NEW f \in File, SetLk(p, f)
  PROVE  S!StreamNext /\ GoneEmpty'
<1>1. fifo' = fifo /\ pipe' = pipe /\ buf' = buf /\ out' = <<>>
  BY DEF SetLk
<1>2. CASE Stay(p, "setlk", Job(f, 0, 0, "none"))
  <2>1. TypeOK /\ Job(f, 0, 0, "none") \in Task /\ "setlk" \in Places
    BY DEF IInv, Job, Task, Places, Calling
  <2>2. pc'[p] = "setlk" /\ \A q \in Proc \ {p} : SameCall(q)
    BY <1>2, <2>1, StayEffect DEF Stay
  <2> QED
    BY <1>1, <2>2, QuietRefines
<1>3. CASE Return(p)
  BY <1>1, <1>3, ReturnRefines
<1> QED
  BY <1>2, <1>3 DEF SetLk

LEMMA UnLkRefines ==
  ASSUME IInv, GoneEmpty, NEW p \in Proc, NEW f \in File, UnLk(p, f)
  PROVE  S!StreamNext /\ GoneEmpty'
<1>1. fifo' = fifo /\ pipe' = pipe /\ buf' = buf /\ out' = <<>> /\ pc' = pc /\ job' = job
  BY DEF UnLk, procs
<1>2. \A q \in Proc : SameCall(q)
  BY <1>1 DEF SameCall
<1> QED
  BY <1>1, <1>2, QuietRefines

LEMMA FlushedRefines ==
  ASSUME IInv, IInv', NEW p \in Proc, NEW f \in File, NEW E \in SUBSET End, Flush(p, f, E)
  PROVE  S!StreamNext /\ GoneEmpty'
<1>1. /\ fifo = "live" /\ fifo' = fifo /\ pc' = pc /\ job' \in {job, Untold} /\ out' = <<>>
      /\ pipe' = [e \in End |-> IF e \in E THEN [pipe[e] EXCEPT !.start = 0, !.len = 0]
                                ELSE pipe[e]]
      /\ buf' = [e \in End |-> IF e \in E THEN Blank ELSE buf[e]]
  BY DEF Flush, Calls
<1>2. TypeOK /\ TypeOK' /\ pipe \in [End -> Ring]
  BY TypeParts DEF IInv
<1>3. \A q \in Proc : SameCall(q)
  BY <1>1, <1>2, UntoldEffect DEF SameCall
<1>4. \A e \in E : pipe'[e].len = 0
  BY <1>1, <1>2 DEF Ring
<1>5. \A e \in End \ E : pipe'[e] = pipe[e] /\ buf'[e] = buf[e]
  BY <1>1
<1> QED
  BY <1>1, <1>2, <1>3, <1>4, <1>5, FlushRefines DEF GoneEmpty

\* Every step is a step of Stream or leaves its variables alone.
LEMMA StepRefines ==
  ASSUME IInv, IInv', GoneEmpty, [Next]_vars
  PROVE  [S!StreamNext]_(S!streamVars) /\ GoneEmpty'
<1>1. CASE UNCHANGED vars
  <2>1. UNCHANGED <<fifo, pipe, buf, pc, job, out>>
    BY <1>1 DEF vars
  <2>2. Queue' = Queue /\ ToDo' = ToDo
    BY <2>1 DEF Queue, Contents, Wrap, ToDo, Rest, Part
  <2>3. UNCHANGED S!streamVars
    BY <2>1, <2>2 DEF S!streamVars, Queue, ToDo, Rest
  <2> QED
    BY <2>1, <2>3 DEF GoneEmpty
<1>2. CASE Next
  <2> PICK p \in Proc :
        \/ \E nd \in Ndelay : Create(p, nd)
        \/ \E f \in File, m \in Modes, nd \in Ndelay : Open(p, f, m, nd)
        \/ \E q \in Proc : Fork(p, q)
        \/ \E f \in File, n \in attr.lengths : Fwrite(p, f, n) \/ Fread(p, f, n)
        \/ Resume(p) \/ Stray(p)
        \/ \E f \in File, E \in SUBSET {e \in End : Exists(e)} : Flush(p, f, E)
        \/ \E f \in File, dir \in {"r", "w"} : Fselect(p, f, dir)
        \/ SelectAgain(p) \/ SelectEnds(p)
        \/ \E f \in File : SetLk(p, f) \/ UnLk(p, f) \/ Close(p, f)
        \/ Interrupt(p) \/ Exit(p)
    BY <1>2 DEF Next
  <2> SUFFICES S!StreamNext /\ GoneEmpty'
    OBVIOUS
  <2>1. Ndelay \subseteq BOOLEAN /\ Modes \subseteq Mode /\ TypeOK
    BY PipeAssumption DEF Ndelay, IInv
  <2>2. CASE \E nd \in Ndelay : Create(p, nd)
    BY <2>1, <2>2, CreateRefines
  <2>3. CASE \E f \in File, m \in Modes, nd \in Ndelay : Open(p, f, m, nd)
    BY <2>1, <2>3, OpenRefines
  <2>4. CASE \E q \in Proc : Fork(p, q)
    BY <2>4, ForkRefines
  <2>5. ASSUME NEW f \in File, NEW n \in attr.lengths, Fwrite(p, f, n)
        PROVE  S!StreamNext /\ GoneEmpty'
    <3>1. WriteStep(p, f, n, n) /\ fifo = "live" /\ fifo' = fifo /\ pc[p] = "user"
      BY <2>5 DEF Fwrite, Calls, WriteStep
    <3>2. n \in Nat /\ n \in 1..n
      BY <2>1, LengthsType
    <3> QED
      BY <3>1, <3>2, WriteRefines DEF GoneEmpty
  <2>6. ASSUME NEW f \in File, NEW n \in attr.lengths, Fread(p, f, n)
        PROVE  S!StreamNext /\ GoneEmpty'
    <3>1. ReadStep(p, f, n, n) /\ fifo = "live" /\ fifo' = fifo /\ pc[p] = "user"
      BY <2>6 DEF Fread, Calls, ReadStep
    <3>2. n \in Nat /\ n \in 1..n
      BY <2>1, LengthsType
    <3> QED
      BY <3>1, <3>2, ReadRefines DEF GoneEmpty
  <2>7. CASE Resume(p)
    <3>1. fifo = "live"
      BY <2>7 DEF Resume
    <3>2. CASE pc[p] = "write" /\ WriteStep(p, job[p].f, job[p].left, job[p].n)
      <4>1. fifo' = fifo
        BY <3>2 DEF WriteStep
      <4> QED
        BY <3>1, <3>2, <4>1, ResumeFacts, WriteRefines DEF GoneEmpty
    <3>3. CASE pc[p] = "read" /\ ReadStep(p, job[p].f, job[p].left, job[p].n)
      <4>1. fifo' = fifo
        BY <3>3 DEF ReadStep
      <4> QED
        BY <3>1, <3>3, <4>1, ResumeFacts, ReadRefines DEF GoneEmpty
    <3> QED
      BY <2>7, <3>2, <3>3 DEF Resume
  <2>8. CASE Stray(p)
    BY <2>8, StrayRefines
  <2>9. CASE \E f \in File, E \in SUBSET {e \in End : Exists(e)} : Flush(p, f, E)
    <3> PICK f \in File, E \in SUBSET {e \in End : Exists(e)} : Flush(p, f, E)
      BY <2>9
    <3>1. E \in SUBSET End
      OBVIOUS
    <3> QED
      BY <3>1, FlushedRefines
  <2>10. CASE \E f \in File, dir \in {"r", "w"} : Fselect(p, f, dir)
    BY <2>10, SelectRefines DEF Fselect
  <2>11. CASE SelectAgain(p)
    <3>1. pc[p] = "coll" /\ SelectStep(p, job[p].f, job[p].dir)
      BY <2>11 DEF SelectAgain
    <3>2. CallOK(p) /\ job[p].f \in File
      BY <3>1, UsersKnow DEF IInv, CallsOK, Calling
    <3>3. job[p].dir \in {"r", "w"}
      BY <3>1, <3>2 DEF CallOK
    <3> QED
      BY <3>1, <3>2, <3>3, SelectRefines
  <2>12. CASE SelectEnds(p)
    <3>1. job[p].f \in File
      BY TypeParts DEF IInv, Task
    <3> QED
      BY <2>12, <3>1, SelectReturnsRefines DEF SelectEnds
  <2>13. CASE \E f \in File : SetLk(p, f) \/ UnLk(p, f) \/ Close(p, f)
    BY <2>13, SetLkRefines, UnLkRefines, CloseRefines
  <2>14. CASE Interrupt(p) \/ Exit(p)
    BY <2>14, InterruptRefines, ExitRefines
  <2> QED
    BY <2>2, <2>3, <2>4, <2>5, <2>6, <2>7, <2>8, <2>9, <2>10, <2>11, <2>12, <2>13, <2>14
<1> QED
  BY <1>1, <1>2

\* The ring buffers of pipefs.c implement queues of bytes: what pipe_read() copies
\* is what pipe_write() copied, in its order and once, across the end of the buffer
\* and whoever else reads or writes meanwhile; a message of at most PIPE_BUF bytes
\* is in one piece.
THEOREM ImplementsStream == Spec => IsStream
<1>1. Init => S!StreamInit /\ GoneEmpty
  <2> SUFFICES ASSUME Init PROVE S!StreamInit /\ GoneEmpty
    OBVIOUS
  <2>1. TypeOK /\ out = <<>> /\ fifo = "none"
    BY InitIInv DEF IInv, Init
  <2>2. \A e \in End : Contents(e) = <<>>
    <3>1. \A e \in End : pipe[e].len = 0
      BY DEF Init, Fresh
    <3> QED
      BY <2>1, <3>1, ContentsType
  <2>3. \A p \in Proc : pc[p] # "write"
    BY DEF Init
  <2>4. Queue = [e \in End |-> <<>>] /\ ToDo = [p \in Proc |-> <<>>]
    BY <2>2, <2>3 DEF Queue, ToDo, Rest
  <2> QED
    BY <2>1, <2>4 DEF S!StreamInit, Queue, ToDo, Rest, GoneEmpty
<1>2. Spec => []IInv
  BY Inductive
<1>3. IInv /\ IInv' /\ GoneEmpty /\ [Next]_vars => [S!StreamNext]_(S!streamVars) /\ GoneEmpty'
  BY StepRefines
<1> QED
  BY <1>1, <1>2, <1>3, PTL DEF Spec, IsStream, S!StreamSpec
=============================================================================
