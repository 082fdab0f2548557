---------------------------- MODULE SchedProofs ----------------------------
(***************************************************************************)
(* Proofs about the process queues of Sched, for every set of processes,   *)
(* every set of conditions and every setting of the scheduler.             *)
(***************************************************************************)
EXTENDS Sched, TLAPS

-----------------------------------------------------------------------------
(* Lists                                                                   *)

\* Pos(s, p) is a place of p on a list that holds p.
LEMMA PosLemma ==
  ASSUME NEW S, NEW s \in Seq(S), NEW p, p \in Listed(s)
  PROVE  Pos(s, p) \in DOMAIN s /\ s[Pos(s, p)] = p
  BY DEF Pos, Listed

\* Unlinking a process from a list of distinct processes leaves a list of
\* distinct processes that holds every other one: rm_q().
LEMMA UnlinkLemma ==
  ASSUME NEW S, NEW s \in Seq(S), Distinct(s), NEW p, p \in Listed(s)
  PROVE  /\ Unlink(s, p) \in Seq(S)
         /\ Distinct(Unlink(s, p))
         /\ \A x : x \in Listed(Unlink(s, p)) <=> x \in Listed(s) /\ x # p
<1> DEFINE k == Pos(s, p)
           u == Unlink(s, p)
<1>1. k \in 1 .. Len(s) /\ s[k] = p
  BY PosLemma
<1>2. Len(s) \in Nat /\ Len(s) >= 1 /\ DOMAIN s = 1 .. Len(s)
  BY <1>1
<1>3. u = [i \in 1 .. (Len(s) - 1) |-> IF i < k THEN s[i] ELSE s[i + 1]]
  BY DEF Unlink
<1> HIDE DEF k
<1>4. u \in Seq(S)
  <2>1. \A i \in 1 .. (Len(s) - 1) : (IF i < k THEN s[i] ELSE s[i + 1]) \in S
    BY <1>1, <1>2
  <2> QED
    BY <1>2, <1>3, <2>1
<1>5. DOMAIN u = 1 .. (Len(s) - 1)
  BY <1>3
<1>6. \A i \in DOMAIN u : u[i] = IF i < k THEN s[i] ELSE s[i + 1]
  BY <1>3
<1> HIDE DEF u
<1>7. Distinct(u)
  BY <1>1, <1>2, <1>5, <1>6 DEF Distinct
<1>8. ASSUME NEW x
      PROVE  x \in Listed(u) <=> x \in Listed(s) /\ x # p
  <2>1. ASSUME NEW i \in DOMAIN u, u[i] = x
        PROVE  x \in Listed(s) /\ x # p
    <3>1. CASE i < k
      BY <1>1, <1>2, <1>5, <1>6, <2>1, <3>1 DEF Distinct, Listed
    <3>2. CASE ~(i < k)
      <4>1. i + 1 \in DOMAIN s /\ s[i + 1] = x /\ i + 1 # k
        BY <1>1, <1>2, <1>5, <1>6, <2>1, <3>2
      <4> QED BY <4>1, <1>1, <1>2 DEF Distinct, Listed
    <3> QED BY <3>1, <3>2
  <2>2. ASSUME NEW i \in DOMAIN s, s[i] = x, x # p
        PROVE  x \in Listed(u)
    <3>1. CASE i < k
      <4>1. i \in DOMAIN u /\ u[i] = x
        BY <1>1, <1>2, <1>5, <1>6, <2>2, <3>1
      <4> QED BY <4>1 DEF Listed
    <3>2. CASE ~(i < k)
      <4>1. i - 1 \in DOMAIN u /\ u[i - 1] = x
        BY <1>1, <1>2, <1>5, <1>6, <2>2, <3>2
      <4> QED BY <4>1 DEF Listed
    <3> QED BY <3>1, <3>2
  <2> QED BY <2>1, <2>2 DEF Listed
<1> QED BY <1>4, <1>7, <1>8 DEF u

\* Appending a process that is not on the list: the end of add_q().
LEMMA AppendLemma ==
  ASSUME NEW S, NEW s \in Seq(S), Distinct(s), NEW p \in S, p \notin Listed(s)
  PROVE  /\ Append(s, p) \in Seq(S)
         /\ Distinct(Append(s, p))
         /\ \A x : x \in Listed(Append(s, p)) <=> x \in Listed(s) \/ x = p
<1> DEFINE u == Append(s, p)
<1>1. u \in Seq(S) /\ Len(u) = Len(s) + 1 /\ Len(s) \in Nat
      /\ DOMAIN s = 1 .. Len(s) /\ DOMAIN u = 1 .. (Len(s) + 1)
  OBVIOUS
<1>2. /\ \A i \in DOMAIN s : u[i] = s[i]
      /\ u[Len(s) + 1] = p
  OBVIOUS
<1> HIDE DEF u
<1>3. Distinct(u)
  BY <1>1, <1>2 DEF Distinct, Listed
<1>4. \A x : x \in Listed(u) <=> x \in Listed(s) \/ x = p
  BY <1>1, <1>2 DEF Listed
<1> QED BY <1>1, <1>3, <1>4 DEF u

\* Putting a process that is not on the list first: run_next().
LEMMA ConsLemma ==
  ASSUME NEW S, NEW s \in Seq(S), Distinct(s), NEW p \in S, p \notin Listed(s)
  PROVE  /\ <<p>> \o s \in Seq(S)
         /\ Distinct(<<p>> \o s)
         /\ \A x : x \in Listed(<<p>> \o s) <=> x \in Listed(s) \/ x = p
<1> DEFINE u == <<p>> \o s
<1>1. u \in Seq(S) /\ Len(u) = Len(s) + 1 /\ Len(s) \in Nat
      /\ DOMAIN s = 1 .. Len(s) /\ DOMAIN u = 1 .. (Len(s) + 1)
  OBVIOUS
<1>2. /\ u[1] = p
      /\ \A i \in DOMAIN s : u[i + 1] = s[i]
      /\ \A i \in DOMAIN u : i # 1 => i - 1 \in DOMAIN s /\ u[i] = s[i - 1]
  OBVIOUS
<1> HIDE DEF u
<1>3. Distinct(u)
  BY <1>1, <1>2 DEF Distinct, Listed
<1>4. \A x : x \in Listed(u) <=> x \in Listed(s) \/ x = p
  <2>1. 1 \in DOMAIN u /\ \A i \in DOMAIN s : i + 1 \in DOMAIN u
    BY <1>1
  <2> QED BY <1>2, <2>1 DEF Listed
<1> QED BY <1>1, <1>3, <1>4 DEF u

-----------------------------------------------------------------------------
(* The inductive invariant                                                 *)

\* The lists agree with wait_q.
ListsOK ==
  /\ \A q \in Queue : Distinct(sysq[q])
  /\ \A q \in Queue, p \in Proc : p \in Listed(sysq[q]) <=> wait_q[p] = q

\* A process is on no list exactly if it has the CPU or does not exist.
OwnerOK ==
  \A p \in Proc : wait_q[p] = "CURPROC_Q" <=> (p \in OffQueue \/ p \notin proclist)

\* What has the CPU exists.
OwnerExists == OffQueue \subseteq proclist

\* The root process never dies, so there is always somebody to run.
RootLives ==
  /\ Root \in proclist
  /\ wait_q[Root] # "ZOMBIE_Q"
  /\ mode \in {"poll", "test"} /\ call.que = "ZOMBIE_Q" => curproc # Root

IInv == TypeOK /\ ListsOK /\ OwnerOK /\ OwnerExists /\ RootLives

\* QueueOK is the part of the invariant that the runs check.
LEMMA IInvQueueOK == IInv => QueueOK
  BY DEF IInv, ListsOK, OwnerOK, QueueOK

\* rm_q(que, p); add_q(READY_Q, p) keeps the lists in order if p is on que,
\* which is what the assertion of rm_q() demands.
LEMMA MoveLemma ==
  ASSUME TypeOK, ListsOK, NEW p \in Proc, NEW que \in Queue, wait_q[p] = que,
         MoveToReady(que, p)
  PROVE  /\ sysq' \in [Queue -> Seq(Proc)]
         /\ wait_q' \in [Proc -> Queue \cup {"CURPROC_Q"}]
         /\ ListsOK'
         /\ \A x \in Proc : x # p => wait_q'[x] = wait_q[x]
         /\ wait_q'[p] = "READY_Q"
<1> DEFINE rm == [sysq EXCEPT ![que] = Unlink(@, p)]
<1>1. sysq \in [Queue -> Seq(Proc)] /\ "READY_Q" \in Queue
  BY DEF TypeOK, Queue
<1>2. sysq[que] \in Seq(Proc) /\ Distinct(sysq[que]) /\ p \in Listed(sysq[que])
  BY <1>1 DEF ListsOK
<1>3. /\ rm \in [Queue -> Seq(Proc)]
      /\ \A q \in Queue : Distinct(rm[q])
      /\ \A q \in Queue, x \in Proc :
           x \in Listed(rm[q]) <=> wait_q[x] = q /\ x # p
  <2>1. /\ Unlink(sysq[que], p) \in Seq(Proc)
        /\ Distinct(Unlink(sysq[que], p))
        /\ \A x : x \in Listed(Unlink(sysq[que], p))
                    <=> x \in Listed(sysq[que]) /\ x # p
    BY <1>2, UnlinkLemma
  <2>2. \A q \in Queue : rm[q] = IF q = que THEN Unlink(sysq[que], p)
                                            ELSE sysq[q]
    BY <1>1
  <2>3. rm \in [Queue -> Seq(Proc)]
    BY <1>1, <2>1
  <2> QED BY <2>1, <2>2, <2>3 DEF ListsOK
<1>4. sysq' = [rm EXCEPT !["READY_Q"] = Append(@, p)]
      /\ wait_q' = [wait_q EXCEPT ![p] = "READY_Q"]
  BY DEF MoveToReady
<1> HIDE DEF rm
<1>5. /\ Append(rm["READY_Q"], p) \in Seq(Proc)
      /\ Distinct(Append(rm["READY_Q"], p))
      /\ \A x : x \in Listed(Append(rm["READY_Q"], p))
                  <=> x \in Listed(rm["READY_Q"]) \/ x = p
  <2>1. rm["READY_Q"] \in Seq(Proc) /\ Distinct(rm["READY_Q"])
        /\ p \notin Listed(rm["READY_Q"])
    BY <1>1, <1>3
  <2> QED BY <2>1, AppendLemma
<1>6. sysq' \in [Queue -> Seq(Proc)]
  BY <1>3, <1>4, <1>5
<1>7. wait_q' \in [Proc -> Queue \cup {"CURPROC_Q"}]
      /\ \A x \in Proc : wait_q'[x] = IF x = p THEN "READY_Q" ELSE wait_q[x]
  BY <1>1, <1>4 DEF TypeOK
<1>8. \A q \in Queue : sysq'[q] = IF q = "READY_Q" THEN Append(rm[q], p)
                                                   ELSE rm[q]
  BY <1>3, <1>4, <1>1
<1>9. ListsOK'
  <2>1. \A q \in Queue : Distinct(sysq'[q])
    BY <1>3, <1>5, <1>8
  <2>2. ASSUME NEW q \in Queue, NEW x \in Proc
        PROVE  x \in Listed(sysq'[q]) <=> wait_q'[x] = q
    BY <1>3, <1>5, <1>7, <1>8
  <2> QED BY <2>1, <2>2 DEF ListsOK
<1> QED BY <1>6, <1>7, <1>9

\* add_q(que, curproc), for a current process that is on no list.
LEMMA AddLemma ==
  ASSUME TypeOK, ListsOK, NEW que \in Queue, wait_q[curproc] = "CURPROC_Q",
         AddCurrent(que), SchedAssumption
  PROVE  /\ sysq' \in [Queue -> Seq(Proc)]
         /\ wait_q' \in [Proc -> Queue \cup {"CURPROC_Q"}]
         /\ slices' \in [Proc -> Int] /\ curpri' \in [Proc -> Int]
         /\ ListsOK'
         /\ \A x \in Proc : x # curproc => wait_q'[x] = wait_q[x]
         /\ wait_q'[curproc] = que
<1>1. sysq \in [Queue -> Seq(Proc)] /\ curproc \in Proc /\ "CURPROC_Q" \notin Queue
  BY DEF TypeOK, Queue
<1>2. sysq[que] \in Seq(Proc) /\ Distinct(sysq[que])
      /\ curproc \notin Listed(sysq[que])
  BY <1>1 DEF ListsOK
<1>3. /\ Append(sysq[que], curproc) \in Seq(Proc)
      /\ Distinct(Append(sysq[que], curproc))
      /\ \A x : x \in Listed(Append(sysq[que], curproc))
                  <=> x \in Listed(sysq[que]) \/ x = curproc
  BY <1>1, <1>2, AppendLemma
<1>4. sysq' = [sysq EXCEPT ![que] = Append(@, curproc)]
      /\ wait_q' = [wait_q EXCEPT ![curproc] = que]
  BY DEF AddCurrent
<1>5. sysq' \in [Queue -> Seq(Proc)]
      /\ \A q \in Queue : sysq'[q] = IF q = que THEN Append(sysq[q], curproc)
                                                ELSE sysq[q]
  BY <1>1, <1>3, <1>4
<1>6. wait_q' \in [Proc -> Queue \cup {"CURPROC_Q"}]
      /\ \A x \in Proc : wait_q'[x] = IF x = curproc THEN que ELSE wait_q[x]
  BY <1>1, <1>4 DEF TypeOK
<1>7. ListsOK'
  <2>1. \A q \in Queue : Distinct(sysq'[q])
    BY <1>3, <1>5, ZenonT(60) DEF ListsOK
  <2>2. ASSUME NEW q \in Queue, NEW x \in Proc
        PROVE  x \in Listed(sysq'[q]) <=> wait_q'[x] = q
    <3>1. x \in Listed(sysq[q]) <=> wait_q[x] = q
      BY DEF ListsOK
    <3>2. CASE q = que
      BY <1>1, <1>3, <1>5, <1>6, <3>1, <3>2
    <3>3. CASE q # que
      BY <1>1, <1>5, <1>6, <3>1, <3>3
    <3> QED BY <3>2, <3>3
  <2> QED BY <2>1, <2>2 DEF ListsOK
<1>8. slices' \in [Proc -> Int] /\ curpri' \in [Proc -> Int]
  <2>1. pri[curproc] \in Int /\ SLICES(pri[curproc]) \in Int
    BY <1>1 DEF SchedAssumption, SLICES
  <2> QED BY <2>1 DEF AddCurrent, TypeOK, priVars
<1> QED BY <1>1, <1>5, <1>6, <1>7, <1>8

-----------------------------------------------------------------------------
(* The invariant is inductive                                              *)

\* It holds initially.
LEMMA InitIInv == Init => IInv
<1> SUFFICES ASSUME Init PROVE IInv
  OBVIOUS
<1> USE SchedAssumption DEF SchedAssumption
<1>1. TypeOK
  <2>1. \A p \in Proc : pri[p] \in Int /\ SLICES(pri[p]) \in Int
    BY DEF SLICES
  <2>2. NoWalk \in Walks /\ NoCall \in Calls
    BY DEF NoWalk, Walks, NoCall, Calls, Queue, Conds
  <2>3. slices \in [Proc -> Int] /\ curpri \in [Proc -> Int]
    BY <2>1 DEF Init
  <2> QED
    BY <2>2, <2>3 DEF Init, TypeOK, Queue, Conds, Modes
<1>2. ListsOK
  BY DEF Init, ListsOK, Distinct, Listed, Queue
<1>3. OffQueue = {Root}
  BY DEF Init, OffQueue
<1> QED
  BY <1>1, <1>2, <1>3 DEF Init, IInv, OwnerOK, OwnerExists, RootLives

\* A step that leaves the lists, the current process and the process list
\* alone, and does not move the kernel past a point where a process joins or
\* leaves a list, leaves the invariant's other parts alone.
LEMMA StillLemma ==
  ASSUME IInv, TypeOK', UNCHANGED <<queueVars, curproc, proclist>>,
         OffQueue' = OffQueue,
         mode' \in {"poll", "test"} /\ call'.que = "ZOMBIE_Q" => curproc # Root
  PROVE  IInv'
  BY DEF IInv, queueVars, ListsOK, OwnerOK, OwnerExists, RootLives

\* A step that moves one process to the ready queue and changes nothing else
\* of the control state.
LEMMA MovedLemma ==
  ASSUME IInv, TypeOK', ListsOK', NEW p \in Proc,
         wait_q[p] # "CURPROC_Q", wait_q'[p] = "READY_Q",
         \A x \in Proc : x # p => wait_q'[x] = wait_q[x],
         UNCHANGED <<curproc, proclist>>, OffQueue' = OffQueue,
         mode' \in {"poll", "test"} /\ call'.que = "ZOMBIE_Q" => curproc # Root
  PROVE  IInv'
  BY SchedAssumption DEF SchedAssumption, IInv, OwnerOK, OwnerExists, RootLives

\* Entering sleep(), for whatever queue and condition.
LEMMA SleepLemma ==
  ASSUME IInv, mode = "run", NEW que \in Queue, NEW cond \in Conds,
         NEW x100 \in BOOLEAN, Sleep(que, cond, x100),
         que = "ZOMBIE_Q" => curproc # Root,
         curpri' \in [Proc -> Int],
         UNCHANGED <<queueVars, wait_cond, slices, curproc, clockVars, proclist,
                     sigpending, fresh, walk, intr, devVars>>
  PROVE  IInv'
<1>1. TypeOK'
  BY DEF IInv, TypeOK, Sleep, Calls, Modes, queueVars, clockVars, devVars
<1>2. OffQueue' = OffQueue
  BY DEF Sleep, OffQueue
<1>3. mode' \in {"poll", "test"} /\ call'.que = "ZOMBIE_Q" => curproc # Root
  BY DEF Sleep
<1> QED
  BY <1>1, <1>2, <1>3, StillLemma

\* One turn of do_wake(), by the kernel or by an interrupt handler: what it
\* does to the lists, and where the walk stands afterwards.
LEMMA DoWakeLemma ==
  ASSUME TypeOK, ListsOK, NEW w \in Walks, DoWake(w)
  PROVE  /\ sysq' \in [Queue -> Seq(Proc)]
         /\ wait_q' \in [Proc -> Queue \cup {"CURPROC_Q"}]
         /\ ListsOK'
         /\ \/ wait_q' = wait_q
            \/ \E p \in Proc : /\ wait_q[p] # "CURPROC_Q"
                               /\ wait_q'[p] = "READY_Q"
                               /\ \A x \in Proc : x # p => wait_q'[x] = wait_q[x]
         /\ Ended(WalkStep(w)) \in Walks
<1>1. Ended(WalkStep(w)) \in Walks
  <2>1. \A q \in Queue : First(sysq[q]) \in Proc \cup {NoProc}
    BY DEF First, TypeOK
  <2>2. w.cur # NoProc => WalkOn(w, w.cur) \in Proc \cup {NoProc}
    <3> SUFFICES ASSUME w.cur \in Proc PROVE WalkOn(w, w.cur) \in Proc \cup {NoProc}
      BY DEF Walks
    <3>1. w.que \in Queue /\ sysq[w.que] \in Seq(Proc)
      BY DEF Walks, TypeOK
    <3>2. CASE wait_q[w.cur] # w.que
      BY <2>1, <3>1, <3>2 DEF WalkOn
    <3>3. CASE wait_q[w.cur] = w.que
      <4>1. w.cur \in Listed(sysq[w.que])
        BY <3>1, <3>3 DEF ListsOK
      <4>2. Pos(sysq[w.que], w.cur) \in 1 .. Len(sysq[w.que])
        BY <3>1, <4>1, PosLemma
      <4> QED BY <3>1, <3>3, <4>2 DEF WalkOn, QNext
    <3> QED BY <3>2, <3>3
  <2>3. WalkStep(w) \in Walks
    BY <2>2 DEF WalkStep, Walks
  <2>4. NoWalk \in Walks
    BY DEF NoWalk, Walks, Queue, Conds
  <2> QED BY <2>3, <2>4 DEF Ended
<1>2. CASE w.cur # NoProc /\ wait_q[w.cur] = w.que /\ wait_cond[w.cur] = w.cond
  <2>1. w.cur \in Proc /\ w.que \in Queue /\ MoveToReady(w.que, w.cur)
    BY <1>2 DEF Walks, DoWake
  <2>2. w.que # "CURPROC_Q"
    BY <2>1 DEF Queue
  <2> QED BY <1>1, <1>2, <2>1, <2>2, MoveLemma
<1>3. CASE ~(w.cur # NoProc /\ wait_q[w.cur] = w.que /\ wait_cond[w.cur] = w.cond)
  <2>1. UNCHANGED queueVars
    BY <1>3 DEF DoWake
  <2> QED BY <1>1, <2>1 DEF queueVars, TypeOK, ListsOK
<1> QED BY <1>2, <1>3

\* Taking a process off a list without putting it on another: rm_q() alone.
LEMMA RemoveLemma ==
  ASSUME TypeOK, ListsOK, NEW p \in Proc, NEW que \in Queue,
         p \in Listed(sysq[que]),
         sysq' = [sysq EXCEPT ![que] = Unlink(@, p)],
         wait_q' = [wait_q EXCEPT ![p] = "CURPROC_Q"]
  PROVE  /\ sysq' \in [Queue -> Seq(Proc)]
         /\ wait_q' \in [Proc -> Queue \cup {"CURPROC_Q"}]
         /\ ListsOK'
         /\ \A x \in Proc : wait_q'[x] = IF x = p THEN "CURPROC_Q" ELSE wait_q[x]
<1>1. sysq \in [Queue -> Seq(Proc)] /\ "CURPROC_Q" \notin Queue
  BY DEF TypeOK, Queue
<1>2. sysq[que] \in Seq(Proc) /\ Distinct(sysq[que]) /\ wait_q[p] = que
  BY <1>1 DEF ListsOK
<1>3. /\ Unlink(sysq[que], p) \in Seq(Proc)
      /\ Distinct(Unlink(sysq[que], p))
      /\ \A x : x \in Listed(Unlink(sysq[que], p))
                  <=> x \in Listed(sysq[que]) /\ x # p
  BY <1>2, UnlinkLemma
<1>4. sysq' \in [Queue -> Seq(Proc)]
      /\ \A q \in Queue : sysq'[q] = IF q = que THEN Unlink(sysq[que], p)
                                                ELSE sysq[q]
  BY <1>1, <1>3
<1>5. wait_q' \in [Proc -> Queue \cup {"CURPROC_Q"}]
      /\ \A x \in Proc : wait_q'[x] = IF x = p THEN "CURPROC_Q" ELSE wait_q[x]
  BY DEF TypeOK
<1>6. ListsOK'
  <2>1. \A q \in Queue : Distinct(sysq'[q])
    BY <1>3, <1>4 DEF ListsOK
  <2>2. ASSUME NEW q \in Queue, NEW x \in Proc
        PROVE  x \in Listed(sysq'[q]) <=> wait_q'[x] = q
    <3>1. x \in Listed(sysq[q]) <=> wait_q[x] = q
      BY DEF ListsOK
    <3>2. CASE q = que
      BY <1>1, <1>2, <1>3, <1>4, <1>5, <3>1, <3>2
    <3>3. CASE q # que
      BY <1>1, <1>2, <1>4, <1>5, <3>1, <3>3
    <3> QED BY <3>2, <3>3
  <2> QED BY <2>1, <2>2 DEF ListsOK
<1> QED BY <1>4, <1>5, <1>6

\* SLICES() of a priority, and what do_wakeup_things() makes of the slices.
LEMMA SlicesType == ASSUME NEW x \in Int PROVE SLICES(x) \in Int
  BY DEF SLICES

LEMMA ResumeClocks ==
  ASSUME TypeOK, Resume
  PROVE  /\ proc_clock' \in Nat
         /\ slices' \in [Proc -> Int] /\ curpri' \in [Proc -> Int]
<1> DEFINE sl == IF our_clock < 0 THEN ResetSlices ELSE slices
           cp == IF our_clock < 0 THEN ResetPri ELSE curpri
           owed == IF sl[curproc] >= 0 THEN 0 ELSE -sl[curproc]
           base == IF sl[curproc] >= 0 THEN cp[curproc] ELSE pri[curproc]
<1>1. time_slice \in Nat /\ pri \in [Proc -> Int]
  BY SchedAssumption DEF SchedAssumption
<1>2. ResetSlices \in [Proc -> Int] /\ ResetPri \in [Proc -> Int]
  BY <1>1, SlicesType DEF ResetSlices, ResetPri, TypeOK
<1>3. sl \in [Proc -> Int] /\ cp \in [Proc -> Int] /\ curproc \in Proc
  BY <1>2 DEF TypeOK
<1>4. owed \in Nat /\ base \in Int
  <2> HIDE DEF sl, cp
  <2> QED BY <1>1, <1>3
<1>5. SLICES(base) \in Int
  BY <1>4, SlicesType
<1>6. IF call.newslice
      THEN /\ proc_clock' = time_slice + owed
           /\ curpri' = [cp EXCEPT ![curproc] = base]
           /\ slices' = [sl EXCEPT ![curproc] = SLICES(base)]
      ELSE slices' = sl /\ curpri' = cp /\ proc_clock' = proc_clock
  BY DEF Resume
<1>7. proc_clock \in Nat
  BY DEF TypeOK
<1> HIDE DEF sl, cp, owed, base
<1> QED
  BY <1>1, <1>3, <1>4, <1>5, <1>6, <1>7

\* A new process at the head of the ready queue.
LEMMA NewProcessKeeps ==
  ASSUME IInv, NEW p \in Proc, NewProcess(p),
         mode' \in {"run", "poll"}, call' \in Calls, next' = next,
         mode' = "poll" => call'.que # "ZOMBIE_Q",
         sleepcond' \in Conds, iwakecond' = iwakecond
  PROVE  IInv'
<1> USE DEF IInv, TypeOK, OwnerOK, OwnerExists, RootLives, queueVars, priVars,
            clockVars, devVars
<1>1. mode = "run" /\ p \notin proclist /\ wait_q[p] = "CURPROC_Q"
  BY DEF NewProcess, Running
<1>2. sysq["READY_Q"] \in Seq(Proc) /\ Distinct(sysq["READY_Q"])
      /\ p \notin Listed(sysq["READY_Q"])
  BY <1>1 DEF ListsOK, Queue
<1>3. /\ <<p>> \o sysq["READY_Q"] \in Seq(Proc)
      /\ Distinct(<<p>> \o sysq["READY_Q"])
      /\ \A x : x \in Listed(<<p>> \o sysq["READY_Q"])
                  <=> x \in Listed(sysq["READY_Q"]) \/ x = p
  BY <1>2, ConsLemma
<1>4. sysq' \in [Queue -> Seq(Proc)]
      /\ \A q \in Queue : sysq'[q] = IF q = "READY_Q" THEN <<p>> \o sysq[q]
                                                      ELSE sysq[q]
  BY <1>3 DEF NewProcess, Queue
<1>5. wait_q' \in [Proc -> Queue \cup {"CURPROC_Q"}]
      /\ \A x \in Proc : wait_q'[x] = IF x = p THEN "READY_Q" ELSE wait_q[x]
  BY DEF NewProcess, Queue
<1>6. ListsOK'
  <2>1. \A q \in Queue : Distinct(sysq'[q])
    <3>1. \A q \in Queue : Distinct(sysq[q])
      BY DEF ListsOK
    <3> QED BY <1>3, <1>4, <3>1
  <2>2. ASSUME NEW q \in Queue, NEW x \in Proc
        PROVE  x \in Listed(sysq'[q]) <=> wait_q'[x] = q
    <3>1. x \in Listed(sysq[q]) <=> wait_q[x] = q
      BY DEF ListsOK
    <3>2. q # "CURPROC_Q"
      BY DEF Queue
    <3>3. CASE q = "READY_Q"
      BY <1>1, <1>3, <1>4, <1>5, <3>1, <3>3
    <3>4. CASE q # "READY_Q"
      BY <1>1, <1>4, <1>5, <3>1, <3>2, <3>4
    <3> QED BY <3>3, <3>4
  <2> QED BY <2>1, <2>2 DEF ListsOK
<1>7. slices' \in [Proc -> Int] /\ curpri' \in [Proc -> Int]
  BY SchedAssumption DEF NewProcess, SchedAssumption
<1>8. TypeOK'
  BY <1>4, <1>5, <1>7 DEF NewProcess, Modes
<1>9. proclist' = proclist \cup {p} /\ curproc' = curproc
      /\ OffQueue' = OffQueue /\ OffQueue = {curproc} /\ p # curproc
  BY <1>1 DEF NewProcess, OffQueue, OwnerExists
<1>10. OwnerOK' /\ OwnerExists' /\ RootLives'
  BY <1>1, <1>5, <1>9 DEF OwnerOK, OwnerExists, RootLives
<1> QED BY <1>6, <1>8, <1>10 DEF IInv

\* Every step of the specification preserves the invariant.
LEMMA NextIInv == IInv /\ [Next]_vars => IInv'
<1> SUFFICES ASSUME IInv, [Next]_vars PROVE IInv'
  OBVIOUS
<1> USE SchedAssumption
    DEF SchedAssumption, IInv, TypeOK, OwnerOK, OwnerExists, RootLives,
        queueVars, priVars, clockVars, condVars, devVars, ctlVars
<1>1. CASE Yield
  BY <1>1, SleepLemma
  DEF Yield, keepAll, Running, AtUser, Queue, Conds
<1>2. CASE Preempt
  <2>1. curpri' \in [Proc -> Int]
    BY <1>2 DEF Preempt, Punished
  <2> QED BY <1>2, <2>1, SleepLemma DEF Preempt, Running, AtUser, Queue
<1>3. CASE RootIdle
  BY <1>3, SleepLemma
  DEF RootIdle, keepAll, Running, AtUser, Queue, Conds
<1>4. CASE SelSleep
  BY <1>4, SleepLemma
  DEF SelSleep, keepAll, Running, AtUser, Queue, Conds
<1>5. CASE Nap
  BY <1>5, SleepLemma
  DEF Nap, keepAll, Running, AtUser, Queue, Conds
<1>6. CASE Exit
  BY <1>6, SleepLemma
  DEF Exit, keepAll, Running, AtUser, Queue, Conds
<1>7. ASSUME NEW c \in SyncCond, Block(c)
      PROVE  IInv'
  BY <1>7, SleepLemma
  DEF Block, keepAll, Running, AtUser, Queue, Conds
<1>8. ASSUME NEW d \in DevCond, DevSleep(d)
      PROVE  IInv'
  BY <1>8, SleepLemma
  DEF DevSleep, keepAll, Running, AtUser, Queue, Conds
<1>9. CASE SelArm
  <2>1. TypeOK'
    BY <1>9 DEF SelArm, Conds
  <2>2. OffQueue' = OffQueue /\ UNCHANGED <<queueVars, curproc, proclist>>
    BY <1>9 DEF SelArm, Mainline, Running, AtUser, OffQueue
  <2>3. mode' \in {"poll", "test"} /\ call'.que = "ZOMBIE_Q" => curproc # Root
    BY <1>9 DEF SelArm, Mainline, Running, AtUser
  <2> QED BY <2>1, <2>2, <2>3, StillLemma
<1>10. CASE SelLeave
  <2>1. TypeOK'
    BY <1>10 DEF SelLeave, Running
  <2>2. OffQueue' = OffQueue /\ UNCHANGED <<queueVars, curproc, proclist>>
    BY <1>10 DEF SelLeave, Mainline, Running, AtUser, OffQueue
  <2>3. mode' \in {"poll", "test"} /\ call'.que = "ZOMBIE_Q" => curproc # Root
    BY <1>10 DEF SelLeave, Mainline, Running, AtUser
  <2> QED BY <2>1, <2>2, <2>3, StillLemma
<1>11. ASSUME NEW c \in SyncCond, Take(c)
      PROVE  IInv'
  <2>1. TypeOK'
    BY <1>11 DEF Take, Running
  <2>2. OffQueue' = OffQueue /\ UNCHANGED <<queueVars, curproc, proclist>>
    BY <1>11 DEF Take, Mainline, Running, AtUser, OffQueue
  <2>3. mode' \in {"poll", "test"} /\ call'.que = "ZOMBIE_Q" => curproc # Root
    BY <1>11 DEF Take, Mainline, Running, AtUser
  <2> QED BY <2>1, <2>2, <2>3, StillLemma
<1>12. ASSUME NEW d \in DevCond, DevEnter(d)
      PROVE  IInv'
  <2>1. TypeOK'
    BY <1>12 DEF DevEnter, AtUser
  <2>2. OffQueue' = OffQueue /\ UNCHANGED <<queueVars, curproc, proclist>>
    BY <1>12 DEF DevEnter, Mainline, Running, AtUser, OffQueue
  <2>3. mode' \in {"poll", "test"} /\ call'.que = "ZOMBIE_Q" => curproc # Root
    BY <1>12 DEF DevEnter, Mainline, Running, AtUser
  <2> QED BY <2>1, <2>2, <2>3, StillLemma
<1>13. ASSUME NEW d \in DevCond, DevLeave(d)
      PROVE  IInv'
  <2>1. TypeOK'
    BY <1>13 DEF DevLeave, Running
  <2>2. OffQueue' = OffQueue /\ UNCHANGED <<queueVars, curproc, proclist>>
    BY <1>13 DEF DevLeave, Mainline, Running, AtUser, OffQueue
  <2>3. mode' \in {"poll", "test"} /\ call'.que = "ZOMBIE_Q" => curproc # Root
    BY <1>13 DEF DevLeave, Mainline, Running, AtUser
  <2> QED BY <2>1, <2>2, <2>3, StillLemma
<1>14. CASE Tick
  <2>1. TypeOK'
    BY <1>14 DEF Tick, CountDown
  <2>2. OffQueue' = OffQueue /\ UNCHANGED <<queueVars, curproc, proclist>>
    BY <1>14 DEF Tick, Mainline, Running, AtUser, OffQueue
  <2>3. mode' \in {"poll", "test"} /\ call'.que = "ZOMBIE_Q" => curproc # Root
    BY <1>14 DEF Tick, Mainline, Running, AtUser
  <2> QED BY <2>1, <2>2, <2>3, StillLemma
<1>15. CASE Exec
  <2>1. TypeOK'
    BY <1>15 DEF Exec, ResetSlices, ResetPri, SLICES
  <2>2. OffQueue' = OffQueue /\ UNCHANGED <<queueVars, curproc, proclist>>
    BY <1>15 DEF Exec, Mainline, Running, AtUser, OffQueue
  <2>3. mode' \in {"poll", "test"} /\ call'.que = "ZOMBIE_Q" => curproc # Root
    BY <1>15 DEF Exec, Mainline, Running, AtUser
  <2> QED BY <2>1, <2>2, <2>3, StillLemma
<1>16. ASSUME NEW c \in SyncCond, Post(c)
      PROVE  IInv'
  <2>1. First(sysq["WAIT_Q"]) \in Proc \cup {NoProc}
    BY DEF First, Queue
  <2>2. TypeOK'
    BY <1>16, <2>1, ZenonT(60) DEF Post, StartWake, Walks, Conds, Queue
  <2> QED BY <1>16, <2>2, StillLemma DEF Post, OffQueue
<1>17. ASSUME NEW d \in DevCond, DevIntr(d)
      PROVE  IInv'
  <2>1. First(sysq["IO_Q"]) \in Proc \cup {NoProc}
    BY DEF First, Queue
  <2>2. intr' \in Walks /\ iwakecond' \in Conds
    BY <1>17, <2>1 DEF DevIntr, Walks, Conds, Queue
  <2>3. evt' \in [SyncCond \cup DevCond -> BOOLEAN]
    BY <1>17 DEF DevIntr
  <2>4. TypeOK'
    BY <1>17, <2>2, <2>3 DEF DevIntr
  <2> QED BY <1>17, <2>4, StillLemma DEF DevIntr, OffQueue
<1>18. CASE SleepSignal
  <2>1. TypeOK'
    BY <1>18 DEF SleepSignal, Conds, Modes
  <2> QED BY <1>18, <2>1, StillLemma DEF SleepSignal, OffQueue
<1>19. CASE SleepQueued
  <2>1. First(sysq["SELECT_Q"]) \in Proc \cup {NoProc}
    BY DEF First, Queue
  <2>2. walk' \in Walks /\ sleepcond' \in Conds
    BY <1>19, <2>1 DEF SleepQueued, StartWake, Walks, Conds, Queue
  <2>3. TypeOK'
    BY <1>19, <2>2 DEF SleepQueued, Modes
  <2> QED BY <1>19, <2>3, StillLemma DEF SleepQueued, OffQueue
<1>20. CASE SleepNapped
  <2>1. TypeOK'
    BY <1>20 DEF SleepNapped, Modes
  <2> QED BY <1>20, <2>1, StillLemma DEF SleepNapped, OffQueue
<1>21. CASE Resume
  <2>2. /\ proc_clock' \in Nat
        /\ slices' \in [Proc -> Int] /\ curpri' \in [Proc -> Int]
    BY <1>21, ResumeClocks
  <2>3. our_clock' \in Int /\ sigpending' \subseteq Proc /\ call' \in Calls
    <3>1. NoCall \in Calls
      BY DEF NoCall, Calls, Queue, Conds
    <3> QED BY <1>21, <3>1 DEF Resume
  <2>4. TypeOK'
    BY <1>21, <2>2, <2>3 DEF Resume, Modes
  <2> QED BY <1>21, <2>4, StillLemma DEF Resume, OffQueue
<1>22. CASE Switch
  <2>1. next \in Proc /\ next \in proclist /\ OffQueue = {next}
    BY <1>22 DEF Switch, OffQueue, OwnerExists
  <2>2. TypeOK'
    BY <1>22, <2>1 DEF Switch, Modes, NoCall, Calls, Queue, Conds
  <2>3. OffQueue' = OffQueue
    BY <1>22, <2>1 DEF Switch, OffQueue
  <2>4. mode' \notin {"poll", "test"}
    BY <1>22 DEF Switch
  <2> QED
    BY <1>22, <2>2, <2>3, <2>4 DEF Switch, IInv, ListsOK, OwnerOK, OwnerExists, RootLives
<1>23. CASE Wake
  <2>1. DoWake(walk) /\ walk \in Walks
    BY <1>23 DEF Wake
  <2>2. TypeOK' /\ ListsOK'
    BY <1>23, <2>1, DoWakeLemma DEF Wake
  <2>3. OffQueue' = OffQueue /\ UNCHANGED <<curproc, proclist, mode, call>>
    BY <1>23 DEF Wake, OffQueue
  <2>4. CASE wait_q' = wait_q
    BY <2>2, <2>3, <2>4 DEF IInv, OwnerOK, OwnerExists, RootLives
  <2>5. CASE wait_q' # wait_q
    BY <2>1, <2>2, <2>3, <2>5, DoWakeLemma, MovedLemma
  <2> QED BY <2>4, <2>5
<1>24. CASE IntrWake
  <2>1. DoWake(intr) /\ intr \in Walks
    BY <1>24 DEF IntrWake
  <2>2. TypeOK' /\ ListsOK'
    BY <1>24, <2>1, DoWakeLemma DEF IntrWake
  <2>3. OffQueue' = OffQueue /\ UNCHANGED <<curproc, proclist, mode, call>>
    BY <1>24 DEF IntrWake, OffQueue
  <2>4. CASE wait_q' = wait_q
    BY <2>2, <2>3, <2>4 DEF IInv, OwnerOK, OwnerExists, RootLives
  <2>5. CASE wait_q' # wait_q
    BY <2>1, <2>2, <2>3, <2>5, DoWakeLemma, MovedLemma
  <2> QED BY <2>4, <2>5
<1>25. ASSUME NEW p \in Proc, WakeSelect(p)
      PROVE  IInv'
  <2>1. CASE wait_q[p] = "SELECT_Q"
    <3>1. "SELECT_Q" \in Queue /\ MoveToReady("SELECT_Q", p)
      BY <1>25, <2>1 DEF WakeSelect, Queue
    <3>2. /\ sysq' \in [Queue -> Seq(Proc)]
          /\ wait_q' \in [Proc -> Queue \cup {"CURPROC_Q"}]
          /\ ListsOK'
          /\ \A x \in Proc : x # p => wait_q'[x] = wait_q[x]
          /\ wait_q'[p] = "READY_Q"
      BY <2>1, <3>1, MoveLemma
    <3>3. TypeOK' /\ OffQueue' = OffQueue
          /\ UNCHANGED <<curproc, proclist, mode, call>>
      BY <1>25, <3>2 DEF WakeSelect, Conds, OffQueue
    <3> QED BY <2>1, <3>1, <3>2, <3>3, MovedLemma DEF Queue
  <2>2. CASE ~(wait_q[p] = "SELECT_Q")
    <3>1. TypeOK' /\ OffQueue' = OffQueue
          /\ UNCHANGED <<curproc, proclist, mode, call>> /\ UNCHANGED queueVars
      BY <1>25, <2>2 DEF WakeSelect, Conds, OffQueue
    <3> QED BY <3>1, StillLemma
  <2> QED BY <2>1, <2>2
<1>26. ASSUME NEW p \in Proc, Unnap(p)
      PROVE  IInv'
  <2>1. CASE wait_q[p] = "SELECT_Q"
    <3>1. "SELECT_Q" \in Queue /\ MoveToReady("SELECT_Q", p)
      BY <1>26, <2>1 DEF Unnap, Queue
    <3>2. /\ sysq' \in [Queue -> Seq(Proc)]
          /\ wait_q' \in [Proc -> Queue \cup {"CURPROC_Q"}]
          /\ ListsOK'
          /\ \A x \in Proc : x # p => wait_q'[x] = wait_q[x]
          /\ wait_q'[p] = "READY_Q"
      BY <2>1, <3>1, MoveLemma
    <3>3. TypeOK' /\ OffQueue' = OffQueue
          /\ UNCHANGED <<curproc, proclist, mode, call>>
      BY <1>26, <3>2 DEF Unnap, Conds, OffQueue
    <3> QED BY <2>1, <3>1, <3>2, <3>3, MovedLemma DEF Queue
  <2>2. CASE ~(wait_q[p] = "SELECT_Q")
    <3>1. TypeOK' /\ OffQueue' = OffQueue
          /\ UNCHANGED <<curproc, proclist, mode, call>> /\ UNCHANGED queueVars
      BY <1>26, <2>2 DEF Unnap, Conds, OffQueue
    <3> QED BY <3>1, StillLemma
  <2> QED BY <2>1, <2>2
<1>27. ASSUME NEW p \in Proc, PostSig(p)
      PROVE  IInv'
  <2>1. CASE wait_q[p] \notin {"CURPROC_Q", "READY_Q"}
    <3>1. wait_q[p] \in Queue /\ MoveToReady(wait_q[p], p)
      BY <1>27, <2>1 DEF PostSig, Queue
    <3>2. /\ sysq' \in [Queue -> Seq(Proc)]
          /\ wait_q' \in [Proc -> Queue \cup {"CURPROC_Q"}]
          /\ ListsOK'
          /\ \A x \in Proc : x # p => wait_q'[x] = wait_q[x]
          /\ wait_q'[p] = "READY_Q"
      BY <2>1, <3>1, MoveLemma
    <3>3. TypeOK' /\ OffQueue' = OffQueue
          /\ UNCHANGED <<curproc, proclist, mode, call>>
      BY <1>27, <3>2 DEF PostSig, Conds, OffQueue
    <3> QED BY <2>1, <3>1, <3>2, <3>3, MovedLemma DEF Queue
  <2>2. CASE ~(wait_q[p] \notin {"CURPROC_Q", "READY_Q"})
    <3>1. TypeOK' /\ OffQueue' = OffQueue
          /\ UNCHANGED <<curproc, proclist, mode, call>> /\ UNCHANGED queueVars
      BY <1>27, <2>2 DEF PostSig, Conds, OffQueue
    <3> QED BY <3>1, StillLemma
  <2> QED BY <2>1, <2>2
<1>28. CASE SleepForceRoot
  <2>1. wait_q[Root] \in Queue /\ Root \in Proc
    BY <1>28 DEF SleepForceRoot, OffQueue
  <2>2. MoveToReady(wait_q[Root], Root)
    BY <1>28 DEF SleepForceRoot
  <2>3. /\ sysq' \in [Queue -> Seq(Proc)]
        /\ wait_q' \in [Proc -> Queue \cup {"CURPROC_Q"}]
        /\ ListsOK'
        /\ \A x \in Proc : x # Root => wait_q'[x] = wait_q[x]
        /\ wait_q'[Root] = "READY_Q"
    BY <2>1, <2>2, MoveLemma
  <2>4. TypeOK' /\ OffQueue' = OffQueue /\ UNCHANGED <<curproc, proclist, call>>
        /\ mode' = "pick"
    BY <1>28, <2>3 DEF SleepForceRoot, OffQueue, Modes
  <2> QED BY <2>1, <2>3, <2>4, MovedLemma DEF Queue
<1>29. CASE SleepTest
  <2>1. OffQueue = {curproc} /\ wait_q[curproc] = "CURPROC_Q" /\ curproc \in proclist
    BY <1>29 DEF SleepTest, OffQueue
  <2>2. iwakecond' \in Conds /\ call' \in Calls /\ mode' \in Modes
    BY <1>29 DEF SleepTest, Conds, Calls, Modes
  <2>3. CASE mode' = "resume"
    <3>1. UNCHANGED <<queueVars, priVars, wait_cond>>
      BY <1>29, <2>3 DEF SleepTest
    <3>2. TypeOK'
      BY <1>29, <2>2, <3>1 DEF SleepTest
    <3>3. OffQueue' = OffQueue
      BY <1>29, <2>1, <2>3 DEF SleepTest, OffQueue
    <3> QED BY <1>29, <2>3, <3>1, <3>2, <3>3, StillLemma DEF SleepTest
  <2>4. CASE mode' # "resume"
    <3>1. mode' = "queued" /\ wait_cond' \in [Proc -> Conds]
          /\ (AddCurrent("READY_Q") \/ AddCurrent(call.que))
      BY <1>29, <2>4 DEF SleepTest, Calls
    <3>2. PICK que \in {"READY_Q", call.que} : AddCurrent(que)
      BY <3>1
    <3>3. que \in Queue /\ (que = "ZOMBIE_Q" => curproc # Root)
      BY <1>29 DEF SleepTest, Queue, Calls
    <3>4. /\ sysq' \in [Queue -> Seq(Proc)]
          /\ wait_q' \in [Proc -> Queue \cup {"CURPROC_Q"}]
          /\ slices' \in [Proc -> Int] /\ curpri' \in [Proc -> Int]
          /\ ListsOK'
          /\ \A x \in Proc : x # curproc => wait_q'[x] = wait_q[x]
          /\ wait_q'[curproc] = que
      BY <2>1, <3>2, <3>3, AddLemma
    <3>5. TypeOK'
      BY <1>29, <2>2, <3>1, <3>4 DEF SleepTest
    <3>6. OffQueue' = {}
      BY <3>1 DEF OffQueue
    <3>7. UNCHANGED <<curproc, proclist>>
      BY <1>29 DEF SleepTest
    <3>8. OwnerOK' /\ OwnerExists' /\ RootLives'
      BY <2>1, <3>1, <3>3, <3>4, <3>6, <3>7 DEF OwnerOK, OwnerExists, RootLives, Queue
    <3> QED BY <3>4, <3>5, <3>8 DEF IInv
  <2> QED BY <2>3, <2>4
<1>30. CASE Pick
  <2>1. PICK i \in DOMAIN Ready :
          /\ next' = Ready[i]
          /\ slices' = [p \in Proc |-> Left(p, i)]
          /\ sysq' = [sysq EXCEPT !["READY_Q"] = Unlink(sysq["READY_Q"], Ready[i])]
          /\ wait_q' = [wait_q EXCEPT ![Ready[i]] = "CURPROC_Q"]
    BY <1>30 DEF Pick
  <2>2. Ready \in Seq(Proc) /\ Ready[i] \in Proc /\ Ready[i] \in Listed(sysq["READY_Q"])
    BY <2>1 DEF Ready, Queue, Listed
  <2>3. /\ sysq' \in [Queue -> Seq(Proc)]
        /\ wait_q' \in [Proc -> Queue \cup {"CURPROC_Q"}]
        /\ ListsOK'
        /\ \A x \in Proc : wait_q'[x] = IF x = Ready[i] THEN "CURPROC_Q"
                                                       ELSE wait_q[x]
    BY <2>1, <2>2, RemoveLemma DEF Queue
  <2>4. slices' \in [Proc -> Int]
    <3>1. \A j \in DOMAIN Ready : Owes(j) \in Int
      BY <2>2 DEF Owes
    <3>2. \A p \in Proc : Left(p, i) \in Int
      BY <2>1, <3>1 DEF Left
    <3> QED BY <2>1, <3>2
  <2>5. wait_q[Ready[i]] = "READY_Q"
    BY <2>2 DEF ListsOK, Queue
  <2>6. OffQueue = {} /\ OffQueue' = {Ready[i]} /\ mode' = "switch"
    BY <1>30, <2>1 DEF Pick, OffQueue
  <2>7. TypeOK'
    BY <1>30, <2>1, <2>2, <2>3, <2>4 DEF Pick, Modes
  <2>8. UNCHANGED proclist
    BY <1>30 DEF Pick
  <2>9. OwnerOK' /\ OwnerExists' /\ RootLives'
    BY <2>2, <2>3, <2>5, <2>6, <2>8 DEF OwnerOK, OwnerExists, RootLives
  <2> QED BY <2>3, <2>7, <2>9 DEF IInv
<1>31. ASSUME NEW p \in Proc, Reap(p)
      PROVE  IInv'
  <2>1. p \in Listed(sysq["ZOMBIE_Q"]) /\ p # Root /\ mode = "run" /\ p # curproc
    BY <1>31 DEF Reap, Running, ListsOK, Queue, OffQueue
  <2>2. /\ sysq' \in [Queue -> Seq(Proc)]
        /\ wait_q' \in [Proc -> Queue \cup {"CURPROC_Q"}]
        /\ ListsOK'
        /\ \A x \in Proc : wait_q'[x] = IF x = p THEN "CURPROC_Q" ELSE wait_q[x]
    BY <1>31, <2>1, RemoveLemma DEF Reap, Queue
  <2>3. TypeOK' /\ proclist' = proclist \ {p} /\ UNCHANGED <<curproc, mode, call>>
    BY <1>31, <2>2 DEF Reap
  <2>4. OffQueue = {curproc} /\ OffQueue' = {curproc}
    BY <2>1, <2>3 DEF OffQueue
  <2>5. OwnerOK' /\ OwnerExists' /\ RootLives'
    BY <2>1, <2>2, <2>3, <2>4 DEF OwnerOK, OwnerExists, RootLives
  <2> QED BY <2>2, <2>3, <2>5 DEF IInv
<1>32. ASSUME NEW p \in Proc, Fork(p) \/ CreateProcess(p)
      PROVE  IInv'
  <2>1. CASE Fork(p)
    <3>1. mode' = "poll" /\ call' \in Calls /\ next' = next /\ sleepcond' = NoCond
          /\ call'.que = "READY_Q" /\ iwakecond' = iwakecond
      BY <2>1 DEF Fork, Sleep, Calls, Queue, Conds
    <3> QED
      BY <2>1, <3>1, NewProcessKeeps DEF Fork, Conds
  <2>2. CASE CreateProcess(p)
    <3>1. mode = "run" /\ UNCHANGED <<mode, call, next, sleepcond, iwakecond>>
      BY <2>2 DEF CreateProcess, NewProcess, Running
    <3> QED
      BY <2>2, <3>1, NewProcessKeeps DEF CreateProcess
  <2> QED
    BY <1>32, <2>1, <2>2
<1>33. CASE UNCHANGED vars
  BY <1>33 DEF vars, IInv, TypeOK, ListsOK, OwnerOK, OwnerExists, RootLives,
           OffQueue
<1> QED
  BY <1>1, <1>2, <1>3, <1>4, <1>5, <1>6, <1>7, <1>8, <1>9, <1>10, <1>11,
     <1>12, <1>13, <1>14, <1>15, <1>16, <1>17, <1>18, <1>19, <1>20, <1>21,
     <1>22, <1>23, <1>24, <1>25, <1>26, <1>27, <1>28, <1>29, <1>30, <1>31,
     <1>32, <1>33
  DEF Next, InSleep, Process, Interrupt

-----------------------------------------------------------------------------
(* The theorems                                                            *)

\* The scheduler's variables keep their types: in particular no walk over a
\* queue leaves the kernel with a pointer that is not a process.
THEOREM TypeCorrect == Spec => []TypeOK
<1>1. IInv => TypeOK
  BY DEF IInv
<1> QED
  BY <1>1, InitIInv, NextIInv, PTL DEF Spec

\* Whatever the interleaving of sleep() with interrupt handlers, every process
\* is on exactly the list that its wait_q names, once, and one that is on no
\* list is the running process: the assertions of add_q() and rm_q() hold.
THEOREM QueuesCorrect == Spec => []QueueOK
  BY InitIInv, NextIInv, IInvQueueOK, PTL DEF Spec

-----------------------------------------------------------------------------
(* Priorities                                                              *)

\* The steps that change slices or curpri.
LEMMA PriSteps ==
  ASSUME Next
  PROVE  \/ UNCHANGED priVars
         \/ SleepTest \/ Pick \/ Resume \/ Preempt \/ Exec
         \/ \E p \in Proc : NewProcess(p)
<1>1. CASE InSleep
  BY <1>1 DEF InSleep, SleepSignal, SleepQueued, SleepNapped, SleepForceRoot, Switch,
              Wake, IntrWake
<1>2. CASE Interrupt
  BY <1>2 DEF Interrupt, Tick, WakeSelect, PostSig, DevIntr
<1>3. CASE Process
  <2>1. Yield \/ RootIdle \/ SelSleep \/ Nap \/ Exit => UNCHANGED priVars
    BY DEF Yield, RootIdle, SelSleep, Nap, Exit, keepAll
  <2>2. SelArm \/ SelLeave => UNCHANGED priVars
    BY DEF SelArm, SelLeave
  <2>3. \A c \in SyncCond : Block(c) \/ Take(c) \/ Post(c) => UNCHANGED priVars
    BY DEF Block, Take, Post, keepAll
  <2>4. \A d \in DevCond : DevEnter(d) \/ DevSleep(d) \/ DevLeave(d) => UNCHANGED priVars
    BY DEF DevEnter, DevSleep, DevLeave, keepAll
  <2>5. \A p \in Proc : /\ Unnap(p) \/ Reap(p) => UNCHANGED priVars
                        /\ Fork(p) \/ CreateProcess(p) => NewProcess(p)
    BY DEF Unnap, Reap, Fork, CreateProcess
  <2> QED
    BY <1>3, <2>1, <2>2, <2>3, <2>4, <2>5 DEF Process
<1> QED
  BY <1>1, <1>2, <1>3 DEF Next

PriRange == (MIN_NICE - 1) .. (MAX_NICE + 1)
SliceRange == (0 - Boost) .. (1 - MIN_NICE)

LEMMA BoundedForm ==
  ASSUME TypeOK
  PROVE  PenaltyBounded <=> curpri \in [Proc -> PriRange] /\ slices \in [Proc -> SliceRange]
  BY DEF PenaltyBounded, TypeOK, PriRange, SliceRange

\* SLICES() of a priority in range, and the base priority.
LEMMA SlicesBounded ==
  /\ \A x \in PriRange : SLICES(x) \in SliceRange
  /\ \A p \in Proc : pri[p] \in PriRange /\ SLICES(pri[p]) \in SliceRange
  /\ 0 \in SliceRange /\ 0 - Boost \in SliceRange /\ -Boost \in SliceRange
  /\ MAX_NICE \in PriRange /\ MAX_NICE + 1 \in PriRange
<1>1. /\ MIN_NICE \in Int /\ MAX_NICE \in Int /\ MIN_NICE <= 0 /\ 0 <= MAX_NICE /\ Boost \in Nat
      /\ \A p \in Proc : pri[p] \in MIN_NICE..MAX_NICE
  BY SchedAssumption DEF SchedAssumption
<1>2. \A x \in PriRange : SLICES(x) \in SliceRange
  BY <1>1 DEF SLICES, PriRange, SliceRange
<1>3. ASSUME NEW p \in Proc PROVE pri[p] \in PriRange
  <2>1. pri[p] \in MIN_NICE..MAX_NICE
    BY <1>1
  <2> QED
    BY <1>1, <2>1 DEF PriRange
<1> QED
  BY <1>1, <1>2, <1>3 DEF PriRange, SliceRange

LEMMA ResetBounded ==
  ASSUME curpri \in [Proc -> PriRange], slices \in [Proc -> SliceRange]
  PROVE  ResetPri \in [Proc -> PriRange] /\ ResetSlices \in [Proc -> SliceRange]
  BY SlicesBounded DEF ResetPri, ResetSlices

\* Whom the scan of sleep() passes over pays at most what it owes.
LEMMA LeftBounded ==
  ASSUME TypeOK, NEW i \in DOMAIN Ready, Victim(i), NEW p \in Proc
  PROVE  /\ Left(p, i) \in Int /\ Left(p, i) <= slices[p]
         /\ slices[p] <= 0 => Left(p, i) = slices[p]
         /\ slices[p] > 0 => Left(p, i) >= 0
<1>1. /\ Ready \in Seq(Proc) /\ slices \in [Proc -> Int]
      /\ \A j \in DOMAIN Ready : Ready[j] \in Proc
  BY DEF TypeOK, Ready, Queue
<1>2. \A j \in DOMAIN Ready : Owes(j) = IF slices[Ready[j]] > 0 THEN slices[Ready[j]] ELSE 0
  BY DEF Owes
<1>3. Owes(i) \in Nat
  BY <1>1, <1>2
<1>4. CASE p \notin Listed(Ready)
  BY <1>1, <1>4 DEF Left
<1>5. CASE p \in Listed(Ready)
  <2> PICK j : j = Pos(Ready, p)
    OBVIOUS
  <2>1. j \in DOMAIN Ready /\ Ready[j] = p /\ j \in Nat /\ i \in Nat
    BY <1>1, <1>5 DEF Listed, Pos
  <2>2. Owes(j) = (IF slices[p] > 0 THEN slices[p] ELSE 0) /\ slices[p] \in Int
    BY <1>1, <1>2, <2>1
  <2>3. IF j < i THEN Owes(i) < Owes(j) ELSE Owes(i) <= Owes(j)
    BY <2>1 DEF Victim
  <2>4. Left(p, i) = IF j < i THEN slices[p] - Owes(i) - 1 ELSE slices[p] - Owes(i)
    BY <1>5 DEF Left
  <2> QED
    BY <1>3, <2>1, <2>2, <2>3, <2>4
<1> QED
  BY <1>4, <1>5

\* The bounds are inductive.
LEMMA NextBounded ==
  ASSUME IInv, IInv', PenaltyBounded, [Next]_vars
  PROVE  PenaltyBounded'
<1>1. TypeOK /\ TypeOK' /\ curproc \in Proc
  BY DEF IInv, TypeOK
<1>2. curpri \in [Proc -> PriRange] /\ slices \in [Proc -> SliceRange]
  BY <1>1, BoundedForm
<1>3. SUFFICES curpri' \in [Proc -> PriRange] /\ slices' \in [Proc -> SliceRange]
  BY <1>1 DEF PenaltyBounded, PriRange, SliceRange
<1>4. CASE UNCHANGED priVars
  BY <1>2, <1>4 DEF priVars
<1>5. CASE SleepTest
  <2>1. \/ UNCHANGED priVars
        \/ /\ curpri' = [curpri EXCEPT ![curproc] = pri[curproc]]
           /\ slices' = [slices EXCEPT ![curproc] = SLICES(pri[curproc])]
    BY <1>5 DEF SleepTest, AddCurrent
  <2> QED
    BY <1>1, <1>2, <1>4, <2>1, SlicesBounded
<1>6. CASE Pick
  <2> PICK i \in DOMAIN Ready : Victim(i) /\ slices' = [p \in Proc |-> Left(p, i)]
    BY <1>6 DEF Pick
  <2>1. ASSUME NEW p \in Proc PROVE Left(p, i) \in SliceRange
    <3>1. slices[p] \in SliceRange /\ Boost \in Nat /\ MIN_NICE \in Int
      BY <1>2, SchedAssumption DEF SchedAssumption
    <3> QED
      BY <1>1, <3>1, LeftBounded DEF SliceRange
  <2>2. curpri' = curpri
    BY <1>6 DEF Pick
  <2> QED
    BY <1>2, <2>1, <2>2
<1>7. CASE Resume
  <2> DEFINE sl == IF our_clock < 0 THEN ResetSlices ELSE slices
             cp == IF our_clock < 0 THEN ResetPri ELSE curpri
             base == IF sl[curproc] >= 0 THEN cp[curproc] ELSE pri[curproc]
  <2>1. \/ slices' = sl /\ curpri' = cp
        \/ /\ curpri' = [cp EXCEPT ![curproc] = base]
           /\ slices' = [sl EXCEPT ![curproc] = SLICES(base)]
    BY <1>7 DEF Resume
  <2>2. sl \in [Proc -> SliceRange] /\ cp \in [Proc -> PriRange]
    BY <1>2, ResetBounded
  <2> HIDE DEF sl, cp
  <2>3. base \in PriRange /\ SLICES(base) \in SliceRange
    BY <1>1, <2>2, SlicesBounded
  <2> HIDE DEF base
  <2> QED
    BY <1>1, <2>1, <2>2, <2>3
<1>8. CASE Preempt
  <2>1. slices' = slices /\ curpri' \in {curpri, [curpri EXCEPT ![curproc] = Punished(curproc)]}
    BY <1>8 DEF Preempt
  <2>2. Punished(curproc) \in PriRange
    <3>1. MIN_NICE \in Int /\ MAX_NICE \in Int /\ curpri[curproc] \in PriRange
      BY <1>1, <1>2, SchedAssumption DEF SchedAssumption
    <3> QED
      BY <3>1 DEF Punished, PriRange
  <2> QED
    BY <1>2, <2>1, <2>2
<1>9. CASE Exec
  BY <1>2, <1>9, ResetBounded, SlicesBounded DEF Exec
<1>10. ASSUME NEW p \in Proc, NewProcess(p)
       PROVE  curpri' \in [Proc -> PriRange] /\ slices' \in [Proc -> SliceRange]
  BY <1>2, <1>10, SlicesBounded DEF NewProcess
<1>11. CASE UNCHANGED vars
  BY <1>4, <1>11 DEF vars, priVars
<1> QED
  BY <1>4, <1>5, <1>6, <1>7, <1>8, <1>9, <1>10, <1>11, PriSteps

\* However often preempt() punishes a process, fresh_slices() and run_next() favour
\* it and reset_priorities() forgives it, curpri and slices stay in a range that
\* MIN_NICE, MAX_NICE and the slices of a new program give.
THEOREM PenaltiesBounded == Spec => []PenaltyBounded
<1>1. Init => PenaltyBounded
  <2>1. Init => curpri \in [Proc -> PriRange] /\ slices \in [Proc -> SliceRange]
    BY SlicesBounded, SchedAssumption DEF Init, SchedAssumption
  <2> QED
    BY <2>1, InitIInv, BoundedForm DEF IInv
<1> QED
  BY <1>1, InitIInv, NextIInv, NextBounded, PTL DEF Spec

-----------------------------------------------------------------------------
(* Zombies and new processes                                               *)

\* The steps that change the queues.
LEMMA QueueSteps ==
  ASSUME Next
  PROVE  \/ UNCHANGED queueVars
         \/ SleepTest \/ SleepForceRoot \/ Pick \/ Wake \/ IntrWake
         \/ \E p \in Proc : WakeSelect(p) \/ Unnap(p) \/ PostSig(p) \/ Reap(p) \/ NewProcess(p)
<1>1. CASE InSleep
  BY <1>1 DEF InSleep, SleepSignal, SleepQueued, SleepNapped, Switch, Resume
<1>2. CASE Interrupt
  BY <1>2 DEF Interrupt, Tick, DevIntr
<1>3. CASE Process
  <2>1. Yield \/ RootIdle \/ SelSleep \/ Nap \/ Exit => UNCHANGED queueVars
    BY DEF Yield, RootIdle, SelSleep, Nap, Exit, keepAll
  <2>2. SelArm \/ SelLeave \/ Preempt \/ Exec => UNCHANGED queueVars
    BY DEF SelArm, SelLeave, Preempt, Exec
  <2>3. \A c \in SyncCond : Block(c) \/ Take(c) \/ Post(c) => UNCHANGED queueVars
    BY DEF Block, Take, Post, keepAll
  <2>4. \A d \in DevCond : DevEnter(d) \/ DevSleep(d) \/ DevLeave(d) => UNCHANGED queueVars
    BY DEF DevEnter, DevSleep, DevLeave, keepAll
  <2>5. \A p \in Proc : Fork(p) \/ CreateProcess(p) => NewProcess(p)
    BY DEF Fork, CreateProcess
  <2> QED
    BY <1>3, <2>1, <2>2, <2>3, <2>4, <2>5 DEF Process
<1> QED
  BY <1>1, <1>2, <1>3 DEF Next

\* The steps that change where a do_wake() is.
LEMMA WalkSteps ==
  ASSUME Next
  PROVE  /\ walk' = walk \/ SleepQueued \/ Wake \/ \E c \in SyncCond : Post(c)
         /\ intr' = intr \/ IntrWake \/ \E d \in DevCond : DevIntr(d)
<1>1. CASE InSleep
  BY <1>1 DEF InSleep, SleepSignal, SleepTest, SleepQueued, SleepNapped, SleepForceRoot, Pick,
              Switch, Resume, Wake, IntrWake
<1>2. CASE Interrupt
  BY <1>2 DEF Interrupt, Tick, WakeSelect, PostSig, DevIntr
<1>3. CASE Process
  <2>1. Yield \/ RootIdle \/ SelSleep \/ Nap \/ Exit => UNCHANGED <<walk, intr>>
    BY DEF Yield, RootIdle, SelSleep, Nap, Exit, keepAll
  <2>2. SelArm \/ SelLeave \/ Preempt \/ Exec => UNCHANGED <<walk, intr>>
    BY DEF SelArm, SelLeave, Preempt, Exec
  <2>3. \A c \in SyncCond : /\ Block(c) \/ Take(c) => UNCHANGED <<walk, intr>>
                            /\ Post(c) => UNCHANGED intr
    BY DEF Block, Take, Post, keepAll
  <2>4. \A d \in DevCond : DevEnter(d) \/ DevSleep(d) \/ DevLeave(d) => UNCHANGED <<walk, intr>>
    BY DEF DevEnter, DevSleep, DevLeave, keepAll
  <2>5. \A p \in Proc : Unnap(p) \/ Reap(p) \/ Fork(p) \/ CreateProcess(p)
                          => UNCHANGED <<walk, intr>>
    BY DEF Unnap, Reap, Fork, CreateProcess, NewProcess
  <2> QED
    BY <1>3, <2>1, <2>2, <2>3, <2>4, <2>5 DEF Process
<1> QED
  BY <1>1, <1>2, <1>3 DEF Next

\* wake() is for WAIT_Q and SELECT_Q, iwake() for IO_Q.
WalksOK ==
  /\ walk = NoWalk \/ walk.que \in {"WAIT_Q", "SELECT_Q"}
  /\ intr = NoWalk \/ intr.que = "IO_Q"

LEMMA WalkKeepsQueue ==
  ASSUME NEW w \in Walks
  PROVE  Ended(WalkStep(w)) = NoWalk
         \/ (/\ Ended(WalkStep(w)).que = w.que /\ Ended(WalkStep(w)).cond = w.cond
             /\ w.cur # NoProc /\ Ended(WalkStep(w)).cur = WalkOn(w, w.cur)
             /\ WalkOn(w, w.cur) # NoProc)
<1> DEFINE c == IF w.cur = NoProc THEN NoProc ELSE WalkOn(w, w.cur)
           v == [w EXCEPT !.cur = c]
<1>1. WalkStep(w) = v
  BY DEF WalkStep
<1>2. v.que = w.que /\ v.cond = w.cond /\ v.cur = c
  <2> HIDE DEF c
  <2> QED BY DEF Walks
<1> HIDE DEF v
<1>3. Ended(v) = IF v.cur = NoProc THEN NoWalk ELSE v
  BY DEF Ended
<1> QED
  BY <1>1, <1>2, <1>3

LEMMA NextWalks ==
  ASSUME IInv, WalksOK, [Next]_vars
  PROVE  WalksOK'
<1>1. walk \in Walks /\ intr \in Walks
  BY DEF IInv, TypeOK
<1>2. CASE UNCHANGED vars
  BY <1>2 DEF vars, WalksOK
<1>3. CASE Next
  <2>1. walk' = NoWalk \/ walk'.que \in {"WAIT_Q", "SELECT_Q"}
    <3>1. CASE walk' = walk
      BY <3>1 DEF WalksOK
    <3>2. CASE SleepQueued \/ \E c \in SyncCond : Post(c)
      <4>1. walk' = walk \/ \E que \in {"WAIT_Q", "SELECT_Q"} : \E c : StartWake(que, c)
        BY <3>2 DEF SleepQueued, Post
      <4> QED
        BY <4>1, <3>1 DEF StartWake
    <3>3. CASE Wake
      BY <1>1, <3>3, WalkKeepsQueue DEF Wake, WalksOK
    <3> QED
      BY <1>3, <3>1, <3>2, <3>3, WalkSteps
  <2>2. intr' = NoWalk \/ intr'.que = "IO_Q"
    <3>1. CASE intr' = intr
      BY <3>1 DEF WalksOK
    <3>2. CASE \E d \in DevCond : DevIntr(d)
      BY <3>1, <3>2 DEF DevIntr
    <3>3. CASE IntrWake
      BY <1>1, <3>3, WalkKeepsQueue DEF IntrWake, WalksOK
    <3> QED
      BY <1>3, <3>1, <3>2, <3>3, WalkSteps
  <2> QED
    BY <2>1, <2>2 DEF WalksOK
<1> QED
  BY <1>2, <1>3

LEMMA InitWalks == Init => WalksOK
  BY DEF Init, WalksOK

\* A turn of do_wake() moves at most the process it is at, and only if that is on
\* its queue and waits for its condition.
LEMMA DoWakeMoves ==
  ASSUME IInv, NEW w \in Walks, DoWake(w)
  PROVE  \/ UNCHANGED queueVars
         \/ /\ w.cur \in Proc /\ wait_q[w.cur] = w.que /\ wait_cond[w.cur] = w.cond
            /\ w.que \in Queue /\ MoveToReady(w.que, w.cur)
  BY DEF DoWake, Walks

\* MoveToReady() and its effect on the queue numbers.
LEMMA MoveWaitQ ==
  ASSUME IInv, NEW p \in Proc, NEW que, MoveToReady(que, p)
  PROVE  \A x \in Proc : wait_q'[x] = IF x = p THEN "READY_Q" ELSE wait_q[x]
  BY DEF IInv, TypeOK, MoveToReady

LEMMA ZombieStep ==
  ASSUME IInv, WalksOK, Next, NEW p \in Proc, wait_q[p] = "ZOMBIE_Q"
  PROVE  wait_q'[p] = "ZOMBIE_Q" \/ p \notin proclist'
<1>1. TypeOK /\ wait_q \in [Proc -> Queue \cup {"CURPROC_Q"}] /\ walk \in Walks /\ intr \in Walks
      /\ curproc \in Proc
  BY DEF IInv, TypeOK
<1>2. ASSUME NEW q \in Proc, NEW que, MoveToReady(que, q), wait_q[q] # "ZOMBIE_Q"
      PROVE  wait_q'[p] = "ZOMBIE_Q"
  BY <1>2, MoveWaitQ
<1>3. CASE UNCHANGED queueVars
  BY <1>3 DEF queueVars
<1>4. CASE SleepTest
  <2>1. wait_q[curproc] = "CURPROC_Q"
    <3>1. mode \in {"poll", "test"}
      BY <1>4 DEF SleepTest
    <3>2. OffQueue = {curproc}
      BY <3>1 DEF OffQueue
    <3> QED
      BY <1>1, <3>2 DEF IInv, OwnerOK
  <2>2. wait_q' = wait_q \/ \E que : wait_q' = [wait_q EXCEPT ![curproc] = que]
    BY <1>4 DEF SleepTest, AddCurrent, queueVars
  <2> QED
    BY <1>1, <2>1, <2>2
<1>5. CASE SleepForceRoot
  BY <1>2, <1>5, SchedAssumption DEF SleepForceRoot, SchedAssumption, IInv, RootLives
<1>6. CASE Pick
  <2> PICK i \in DOMAIN Ready : wait_q' = [wait_q EXCEPT ![Ready[i]] = "CURPROC_Q"]
    BY <1>6 DEF Pick
  <2>1. Ready[i] \in Listed(sysq["READY_Q"]) /\ Ready[i] \in Proc
    BY DEF Ready, Listed, IInv, TypeOK, Queue
  <2>2. wait_q[Ready[i]] = "READY_Q"
    BY <2>1 DEF IInv, ListsOK, Queue
  <2> QED
    BY <1>1, <2>1, <2>2
<1>7. CASE Wake
  <2>1. DoWake(walk) /\ walk # NoWalk
    BY <1>7 DEF Wake
  <2> QED
    BY <1>1, <1>2, <1>3, <2>1, DoWakeMoves DEF WalksOK
<1>8. CASE IntrWake
  <2>1. DoWake(intr) /\ intr # NoWalk
    BY <1>8 DEF IntrWake
  <2> QED
    BY <1>1, <1>2, <1>3, <2>1, DoWakeMoves DEF WalksOK
<1>9. ASSUME NEW q \in Proc, WakeSelect(q) \/ Unnap(q)
      PROVE  wait_q'[p] = "ZOMBIE_Q" \/ p \notin proclist'
  <2>1. UNCHANGED queueVars \/ (wait_q[q] = "SELECT_Q" /\ MoveToReady("SELECT_Q", q))
    BY <1>9 DEF WakeSelect, Unnap
  <2> QED
    BY <1>2, <1>3, <2>1
<1>10. ASSUME NEW q \in Proc, PostSig(q)
       PROVE  wait_q'[p] = "ZOMBIE_Q" \/ p \notin proclist'
  <2>1. UNCHANGED queueVars \/ (wait_q[q] # "ZOMBIE_Q" /\ MoveToReady(wait_q[q], q))
    BY <1>10 DEF PostSig, AlreadyDead
  <2> QED
    BY <1>2, <1>3, <2>1
<1>11. ASSUME NEW q \in Proc, Reap(q)
       PROVE  wait_q'[p] = "ZOMBIE_Q" \/ p \notin proclist'
  BY <1>1, <1>11 DEF Reap
<1>12. ASSUME NEW q \in Proc, NewProcess(q)
       PROVE  wait_q'[p] = "ZOMBIE_Q"
  <2>1. q # p
    BY <1>12 DEF NewProcess, IInv, OwnerOK
  <2> QED
    BY <1>1, <1>12, <2>1 DEF NewProcess
<1> QED
  BY <1>3, <1>4, <1>5, <1>6, <1>7, <1>8, <1>9, <1>10, <1>11, <1>12, QueueSteps

\* Neither a late wake(), wakeselect() or timeout nor a signal takes a process off
\* the zombie queue, under which terminate() would return; only its parent does.
THEOREM DeadStayDead == Spec => ZombieStays
<1>1. IInv /\ WalksOK /\ [Next]_vars =>
        [\A p \in Proc : wait_q[p] = "ZOMBIE_Q" =>
           wait_q'[p] = "ZOMBIE_Q" \/ p \notin proclist']_vars
  BY ZombieStep
<1> QED
  BY <1>1, InitIInv, NextIInv, InitWalks, NextWalks, PTL DEF Spec, ZombieStays

\* MoveToReady() and its effect on the lists.
LEMMA MoveLists ==
  ASSUME TypeOK, NEW p \in Proc, NEW que \in Queue, MoveToReady(que, p)
  PROVE  /\ \A q \in Queue \ {"READY_Q"} :
              sysq'[q] = IF q = que THEN Unlink(sysq[q], p) ELSE sysq[q]
         /\ Ready' = Append(IF que = "READY_Q" THEN Unlink(Ready, p) ELSE Ready, p)
<1> PICK u : u = Unlink(sysq[que], p)
  OBVIOUS
<1> PICK rm : rm = [sysq EXCEPT ![que] = u]
  OBVIOUS
<1>1. sysq' = [rm EXCEPT !["READY_Q"] = Append(rm["READY_Q"], p)]
  BY DEF MoveToReady
<1>2. DOMAIN sysq = Queue /\ DOMAIN rm = Queue /\ "READY_Q" \in Queue
  BY DEF TypeOK, Queue
<1>3. \A q \in Queue : rm[q] = IF q = que THEN u ELSE sysq[q]
  BY <1>2
<1>4. \A q \in Queue : sysq'[q] = IF q = "READY_Q" THEN Append(rm["READY_Q"], p) ELSE rm[q]
  BY <1>1, <1>2
<1> QED
  BY <1>2, <1>3, <1>4 DEF Ready

\* The members of F come first on the list s.
FirstOn(s, F) == \A i, j \in DOMAIN s : i < j /\ s[j] \in F => s[i] \in F

LEMMA FirstUnlink ==
  ASSUME NEW S, NEW s \in Seq(S), NEW p, p \in Listed(s), NEW F, FirstOn(s, F)
  PROVE  FirstOn(Unlink(s, p), F)
<1> PICK k : k = Pos(s, p)
  OBVIOUS
<1> PICK u : u = Unlink(s, p)
  OBVIOUS
<1>1. k \in DOMAIN s /\ Len(s) \in Nat /\ DOMAIN s = 1 .. Len(s)
  BY PosLemma
<1>2. DOMAIN u = 1 .. (Len(s) - 1)
      /\ \A i \in DOMAIN u : u[i] = s[IF i < k THEN i ELSE i + 1]
  BY DEF Unlink
<1>3. ASSUME NEW i \in DOMAIN u, NEW j \in DOMAIN u, i < j, u[j] \in F
      PROVE  u[i] \in F
  <2> PICK a : a = IF i < k THEN i ELSE i + 1
    OBVIOUS
  <2> PICK b : b = IF j < k THEN j ELSE j + 1
    OBVIOUS
  <2>1. a \in DOMAIN s /\ b \in DOMAIN s /\ a < b
    BY <1>1, <1>2, <1>3
  <2>2. u[i] = s[a] /\ u[j] = s[b]
    BY <1>2
  <2> QED
    BY <1>3, <2>1, <2>2 DEF FirstOn
<1> QED
  BY <1>3 DEF FirstOn

LEMMA FirstAppend ==
  ASSUME NEW S, NEW s \in Seq(S), NEW p \in S, NEW F, p \notin F, FirstOn(s, F)
  PROVE  FirstOn(Append(s, p), F)
  BY DEF FirstOn

LEMMA FirstCons ==
  ASSUME NEW S, NEW s \in Seq(S), NEW p \in S, p \notin Listed(s), NEW F, FirstOn(s, F)
  PROVE  FirstOn(<<p>> \o s, F \cup {p})
<1> PICK u : u = <<p>> \o s
  OBVIOUS
<1>1. DOMAIN u = 1 .. (Len(s) + 1) /\ Len(s) \in Nat /\ DOMAIN s = 1 .. Len(s)
      /\ u[1] = p
      /\ \A i \in DOMAIN u : i # 1 => i - 1 \in DOMAIN s /\ u[i] = s[i - 1]
  OBVIOUS
<1>2. ASSUME NEW i \in DOMAIN u, NEW j \in DOMAIN u, i < j, u[j] \in F \cup {p}, i # 1
      PROVE  u[i] \in F \cup {p}
  <2>1. j # 1 /\ i - 1 < j - 1
    BY <1>1, <1>2
  <2>2. s[j - 1] \in F /\ i - 1 \in DOMAIN s /\ j - 1 \in DOMAIN s
    BY <1>1, <1>2, <2>1 DEF Listed
  <2> QED
    BY <1>1, <1>2, <2>1, <2>2 DEF FirstOn
<1> QED
  BY <1>1, <1>2 DEF FirstOn

\* The new processes: they are on the ready queue, before every other one, or just
\* chosen, and they own slices.
FreshOK ==
  /\ Root \notin fresh /\ fresh \subseteq proclist
  /\ \A p \in fresh : slices[p] < 0
  /\ \A p \in fresh : wait_q[p] = "READY_Q" \/ (mode = "switch" /\ next = p)
  /\ FirstOn(Ready, fresh)

LEMMA InitFresh == Init => FreshOK
  BY DEF Init, FreshOK, FirstOn, Ready, Queue

\* The steps that change who is new, or the choice of the next process.
LEMMA FreshSteps ==
  ASSUME Next
  PROVE  /\ UNCHANGED <<fresh, proclist>> \/ Switch
            \/ \E p \in Proc : NewProcess(p) \/ Reap(p)
         /\ UNCHANGED <<mode, next>> \/ (mode # "switch" /\ mode' # "switch") \/ Pick \/ Switch
<1>1. CASE InSleep
  BY <1>1 DEF InSleep, SleepSignal, SleepTest, SleepQueued, SleepNapped, SleepForceRoot, Pick,
              Switch, Resume, Wake, IntrWake, ctlVars
<1>2. CASE Interrupt
  BY <1>2 DEF Interrupt, Tick, WakeSelect, PostSig, DevIntr, ctlVars
<1>3. CASE Process
  <2>1. ASSUME Yield \/ RootIdle \/ SelSleep \/ Nap \/ Exit \/ Preempt
        PROVE  UNCHANGED <<fresh, proclist>> /\ mode # "switch" /\ mode' # "switch"
    BY <2>1 DEF Yield, RootIdle, SelSleep, Nap, Exit, Preempt, keepAll, Sleep, AtUser, Running
  <2>2. SelArm \/ SelLeave \/ Exec => UNCHANGED <<fresh, proclist, mode, next>>
    BY DEF SelArm, SelLeave, Exec, ctlVars
  <2>3. ASSUME NEW c \in SyncCond, Block(c) \/ Take(c) \/ Post(c)
        PROVE  /\ UNCHANGED <<fresh, proclist>>
               /\ UNCHANGED <<mode, next>> \/ (mode # "switch" /\ mode' # "switch")
    BY <2>3 DEF Block, Take, Post, keepAll, ctlVars, Sleep, AtUser, Running
  <2>4. ASSUME NEW d \in DevCond, DevEnter(d) \/ DevSleep(d) \/ DevLeave(d)
        PROVE  /\ UNCHANGED <<fresh, proclist>>
               /\ UNCHANGED <<mode, next>> \/ (mode # "switch" /\ mode' # "switch")
    BY <2>4 DEF DevEnter, DevSleep, DevLeave, keepAll, ctlVars, Sleep, AtUser, Running
  <2>5. ASSUME NEW p \in Proc, Unnap(p) \/ Reap(p) \/ Fork(p) \/ CreateProcess(p)
        PROVE  /\ UNCHANGED <<fresh, proclist>> \/ NewProcess(p) \/ Reap(p)
               /\ UNCHANGED <<mode, next>> \/ (mode # "switch" /\ mode' # "switch")
    BY <2>5 DEF Unnap, Reap, Fork, CreateProcess, NewProcess, ctlVars, Sleep, Running
  <2> QED
    BY <1>3, <2>1, <2>2, <2>3, <2>4, <2>5 DEF Process
<1> QED
  BY <1>1, <1>2, <1>3 DEF Next

\* The current process, while it executes, is not a new one.
LEMMA RunnerNotFresh ==
  ASSUME IInv, FreshOK, mode \in {"run", "poll", "test", "resume"}
  PROVE  wait_q[curproc] = "CURPROC_Q" /\ curproc \notin fresh
<1>1. OffQueue = {curproc} /\ curproc \in Proc
  BY DEF OffQueue, IInv, TypeOK
<1> QED
  BY <1>1 DEF IInv, OwnerOK, FreshOK

\* Nothing takes the slices of a new process before it runs.
LEMMA FreshSlices ==
  ASSUME IInv, FreshOK, Next, NEW p \in fresh
  PROVE  slices'[p] < 0
<1>1. TypeOK /\ p \in Proc /\ slices[p] < 0 /\ slices \in [Proc -> Int] /\ curproc \in Proc
      /\ p \in proclist
  BY DEF IInv, TypeOK, FreshOK
<1>2. CASE UNCHANGED priVars
  BY <1>1, <1>2 DEF priVars
<1>3. CASE SleepTest
  <2>1. slices' = slices \/ \E x : slices' = [slices EXCEPT ![curproc] = x]
    BY <1>3 DEF SleepTest, AddCurrent, priVars
  <2>2. curproc # p
    BY <1>3, RunnerNotFresh DEF SleepTest
  <2> QED
    BY <1>1, <2>1, <2>2
<1>4. CASE Pick
  <2> PICK i \in DOMAIN Ready : slices' = [q \in Proc |-> Left(q, i)]
    BY <1>4 DEF Pick
  <2>1. Owes(i) \in Nat
    <3>1. Ready \in Seq(Proc)
      BY <1>1 DEF TypeOK, Ready, Queue
    <3>2. Ready[i] \in Proc
      BY <3>1
    <3> QED
      BY <1>1, <3>2 DEF Owes
  <2>2. Left(p, i) < 0
    BY <1>1, <2>1 DEF Left
  <2> QED
    BY <1>1, <2>2
<1>5. CASE Resume
  <2>1. \/ slices' \in {slices, ResetSlices}
        \/ \E x : slices' \in {[slices EXCEPT ![curproc] = x], [ResetSlices EXCEPT ![curproc] = x]}
    BY <1>5 DEF Resume
  <2>2. curproc # p
    BY <1>5, RunnerNotFresh DEF Resume
  <2>3. ResetSlices[p] = slices[p] /\ DOMAIN ResetSlices = Proc
    BY <1>1 DEF ResetSlices
  <2> HIDE DEF ResetSlices
  <2> QED
    BY <1>1, <2>1, <2>2, <2>3
<1>6. CASE Preempt
  BY <1>1, <1>6 DEF Preempt
<1>7. CASE Exec
  <2>1. curproc # p
    BY <1>7, RunnerNotFresh DEF Exec, AtUser, Running
  <2>2. ResetSlices[p] = slices[p] /\ DOMAIN ResetSlices = Proc
    BY <1>1 DEF ResetSlices
  <2>3. slices' = [ResetSlices EXCEPT ![curproc] = 0]
    BY <1>7 DEF Exec
  <2> QED
    BY <1>1, <2>1, <2>2, <2>3
<1>8. ASSUME NEW q \in Proc, NewProcess(q)
      PROVE  slices'[p] < 0
  BY <1>1, <1>8 DEF NewProcess
<1> QED
  BY <1>2, <1>3, <1>4, <1>5, <1>6, <1>7, <1>8, PriSteps

\* A process that a step moves to the ready queue was asleep, and not dead; only
\* the root process may have been there already.
LEMMA QueueCases ==
  ASSUME IInv, WalksOK, Next
  PROVE  \/ UNCHANGED queueVars \/ SleepTest \/ Pick
         \/ \E p \in Proc : /\ wait_q[p] \in Queue \ {"ZOMBIE_Q"} /\ MoveToReady(wait_q[p], p)
                            /\ wait_q[p] # "READY_Q" \/ p = Root
         \/ \E p \in Proc : Reap(p) \/ NewProcess(p)
<1> DEFINE Moved == \E p \in Proc : /\ wait_q[p] \in Queue \ {"ZOMBIE_Q"}
                                    /\ MoveToReady(wait_q[p], p)
                                    /\ wait_q[p] # "READY_Q" \/ p = Root
<1>1. wait_q \in [Proc -> Queue \cup {"CURPROC_Q"}] /\ walk \in Walks /\ intr \in Walks
  BY DEF IInv, TypeOK
<1>2. SleepForceRoot => Moved
  <2> SUFFICES ASSUME SleepForceRoot PROVE Moved
    OBVIOUS
  <2>1. Root \in Proc /\ wait_q[Root] # "ZOMBIE_Q" /\ Root \in proclist
    BY SchedAssumption DEF SchedAssumption, IInv, RootLives
  <2>2. OffQueue = {}
    BY DEF SleepForceRoot, OffQueue
  <2>3. wait_q[Root] # "CURPROC_Q"
    BY <2>1, <2>2 DEF IInv, OwnerOK
  <2>4. MoveToReady(wait_q[Root], Root)
    BY DEF SleepForceRoot
  <2> QED
    BY <1>1, <2>1, <2>3, <2>4
<1>3. Wake => UNCHANGED queueVars \/ Moved
  <2> SUFFICES ASSUME Wake, ~UNCHANGED queueVars PROVE Moved
    OBVIOUS
  <2>1. /\ walk.cur \in Proc /\ wait_q[walk.cur] = walk.que
        /\ walk.que \in Queue /\ MoveToReady(walk.que, walk.cur)
    BY <1>1, DoWakeMoves DEF Wake
  <2>2. walk.que \in {"WAIT_Q", "SELECT_Q"}
    BY DEF Wake, WalksOK
  <2> QED
    BY <2>1, <2>2
<1>4. IntrWake => UNCHANGED queueVars \/ Moved
  <2> SUFFICES ASSUME IntrWake, ~UNCHANGED queueVars PROVE Moved
    OBVIOUS
  <2>1. /\ intr.cur \in Proc /\ wait_q[intr.cur] = intr.que
        /\ intr.que \in Queue /\ MoveToReady(intr.que, intr.cur)
    BY <1>1, DoWakeMoves DEF IntrWake
  <2>2. intr.que = "IO_Q"
    BY DEF IntrWake, WalksOK
  <2> QED
    BY <2>1, <2>2
<1>5. ASSUME NEW q \in Proc, WakeSelect(q) \/ Unnap(q), ~UNCHANGED queueVars
      PROVE  Moved
  <2>1. wait_q[q] = "SELECT_Q" /\ MoveToReady("SELECT_Q", q)
    BY <1>5 DEF WakeSelect, Unnap
  <2> QED
    BY <2>1 DEF Queue
<1>6. ASSUME NEW q \in Proc, PostSig(q), ~UNCHANGED queueVars
      PROVE  Moved
  <2>1. wait_q[q] \notin {"ZOMBIE_Q", "CURPROC_Q", "READY_Q"} /\ MoveToReady(wait_q[q], q)
    BY <1>6 DEF PostSig, AlreadyDead
  <2> QED
    BY <1>1, <2>1
<1> HIDE DEF Moved
<1>7. UNCHANGED queueVars \/ SleepTest \/ Pick \/ Moved \/ \E p \in Proc : Reap(p) \/ NewProcess(p)
  BY <1>2, <1>3, <1>4, <1>5, <1>6, QueueSteps
<1> QED
  BY <1>7 DEF Moved

\* A new process stays on the ready queue until it is chosen.
LEMMA FreshStays ==
  ASSUME IInv, WalksOK, FreshOK, Next, NEW p \in fresh, wait_q[p] = "READY_Q"
  PROVE  wait_q'[p] = "READY_Q" \/ (Pick /\ next' = p)
<1>1. TypeOK /\ p \in Proc /\ p \in proclist /\ wait_q \in [Proc -> Queue \cup {"CURPROC_Q"}]
      /\ curproc \in Proc
  BY DEF IInv, TypeOK, FreshOK
<1>2. CASE UNCHANGED queueVars
  BY <1>2 DEF queueVars
<1>3. CASE SleepTest
  <2>1. wait_q' = wait_q \/ \E que : wait_q' = [wait_q EXCEPT ![curproc] = que]
    BY <1>3 DEF SleepTest, AddCurrent, queueVars
  <2>2. curproc # p
    BY <1>3, RunnerNotFresh DEF SleepTest
  <2> QED
    BY <1>1, <2>1, <2>2
<1>4. CASE Pick
  BY <1>1, <1>4 DEF Pick
<1>5. ASSUME NEW q \in Proc, MoveToReady(wait_q[q], q)
      PROVE  wait_q'[p] = "READY_Q"
  BY <1>1, <1>5, MoveWaitQ
<1>6. ASSUME NEW q \in Proc, Reap(q) \/ NewProcess(q)
      PROVE  wait_q'[p] = "READY_Q"
  BY <1>1, <1>6 DEF Reap, NewProcess
<1> QED
  BY <1>2, <1>3, <1>4, <1>5, <1>6, QueueCases

\* The new processes stay first on the ready queue.
LEMMA FreshFirst ==
  ASSUME IInv, WalksOK, FreshOK, Next
  PROVE  FirstOn(Ready', fresh) \/ \E p \in Proc : NewProcess(p)
<1>1. TypeOK /\ ListsOK /\ wait_q \in [Proc -> Queue \cup {"CURPROC_Q"}]
      /\ sysq \in [Queue -> Seq(Proc)] /\ Ready \in Seq(Proc) /\ "READY_Q" \in Queue
      /\ "ZOMBIE_Q" \in Queue /\ curproc \in Proc /\ Ready = sysq["READY_Q"]
  BY DEF IInv, TypeOK, Ready, Queue
<1>2. FirstOn(Ready, fresh)
  BY DEF FreshOK
<1>3. Ready' = sysq'["READY_Q"]
  BY DEF Ready
<1>4. CASE UNCHANGED queueVars
  BY <1>1, <1>2, <1>3, <1>4 DEF queueVars
<1>5. CASE SleepTest
  <2>1. sysq' = sysq \/ \E que : sysq' = [sysq EXCEPT ![que] = Append(@, curproc)]
    BY <1>5 DEF SleepTest, AddCurrent, queueVars
  <2>2. Ready' = Ready \/ Ready' = Append(Ready, curproc)
    BY <1>1, <1>3, <2>1
  <2>3. curproc \notin fresh
    BY <1>5, RunnerNotFresh DEF SleepTest
  <2>4. FirstOn(Append(Ready, curproc), fresh)
    BY <1>1, <1>2, <2>3, FirstAppend
  <2> QED
    BY <1>2, <2>2, <2>4
<1>6. CASE Pick
  <2> PICK i \in DOMAIN Ready : sysq' = [sysq EXCEPT !["READY_Q"] = Unlink(@, Ready[i])]
    BY <1>6 DEF Pick
  <2>1. Ready' = Unlink(Ready, Ready[i]) /\ Ready[i] \in Listed(Ready)
    BY <1>1, <1>3 DEF Listed
  <2> QED
    BY <1>1, <1>2, <2>1, FirstUnlink
<1>7. ASSUME NEW q \in Proc, wait_q[q] \in Queue, MoveToReady(wait_q[q], q),
             wait_q[q] # "READY_Q" \/ q = Root
      PROVE  FirstOn(Ready', fresh)
  <2>1. q \notin fresh
    <3>1. ASSUME q \in fresh, q # Root PROVE FALSE
      <4>1. mode = "switch" /\ next = q
        BY <1>7, <3>1 DEF FreshOK
      <4>2. q \in OffQueue
        BY <4>1 DEF OffQueue
      <4> QED
        BY <1>7, <4>2 DEF IInv, OwnerOK, Queue
    <3> QED
      BY <3>1 DEF FreshOK
  <2>2. Ready' = Append(IF wait_q[q] = "READY_Q" THEN Unlink(Ready, q) ELSE Ready, q)
    BY <1>1, <1>7, MoveLists
  <2>3. CASE wait_q[q] # "READY_Q"
    BY <1>1, <1>2, <2>1, <2>2, <2>3, FirstAppend
  <2>4. CASE wait_q[q] = "READY_Q"
    <3>1. q \in Listed(Ready) /\ Distinct(Ready)
      BY <1>1, <2>4 DEF ListsOK
    <3>2. Unlink(Ready, q) \in Seq(Proc) /\ FirstOn(Unlink(Ready, q), fresh)
      BY <1>1, <1>2, <3>1, UnlinkLemma, FirstUnlink
    <3> QED
      BY <2>1, <2>2, <2>4, <3>2, FirstAppend
  <2> QED
    BY <2>3, <2>4
<1>8. ASSUME NEW q \in Proc, Reap(q)
      PROVE  FirstOn(Ready', fresh)
  <2>1. Ready' = Ready
    BY <1>1, <1>3, <1>8 DEF Reap
  <2> QED
    BY <1>2, <2>1
<1> QED
  BY <1>4, <1>5, <1>6, <1>7, <1>8, QueueCases

\* While a new process is on the ready queue, the scan of sleep() stops at its first
\* place, which a new process has.
LEMMA PickFresh ==
  ASSUME IInv, FreshOK, Pick, NEW p \in fresh, wait_q[p] = "READY_Q"
  PROVE  next' \in fresh
<1>1. TypeOK /\ ListsOK /\ p \in Proc /\ slices \in [Proc -> Int] /\ Ready \in Seq(Proc)
      /\ "READY_Q" \in Queue /\ Ready = sysq["READY_Q"]
  BY DEF IInv, TypeOK, Ready, Queue
<1> PICK i \in DOMAIN Ready : Victim(i) /\ next' = Ready[i]
  BY DEF Pick
<1>2. PICK j \in DOMAIN Ready : Ready[j] = p
  <2>1. p \in Listed(Ready)
    BY <1>1 DEF ListsOK
  <2> QED
    BY <2>1 DEF Listed
<1>3. 1 \in DOMAIN Ready /\ i \in Nat /\ j \in Nat /\ 1 <= i /\ 1 <= j
  BY <1>1
<1>4. Ready[1] \in fresh
  <2>1. CASE j = 1
    BY <1>2, <2>1
  <2>2. CASE j # 1
    <3>1. 1 < j
      BY <1>3, <2>2
    <3> QED
      BY <1>2, <1>3, <3>1 DEF FreshOK, FirstOn
  <2> QED
    BY <2>1, <2>2
<1>5. Owes(1) = 0
  <2>1. Ready[1] \in Proc /\ slices[Ready[1]] < 0
    BY <1>1, <1>3, <1>4 DEF FreshOK
  <2> QED
    BY <1>1, <2>1 DEF Owes
<1>6. Owes(i) \in Nat
  <2>1. slices[Ready[i]] \in Int
    BY <1>1
  <2> QED
    BY <2>1 DEF Owes
<1>7. i = 1
  <2>1. 1 < i => Owes(i) < Owes(1)
    BY <1>3 DEF Victim
  <2> QED
    BY <1>3, <1>5, <1>6, <2>1
<1> QED
  BY <1>4, <1>7

LEMMA NextFresh ==
  ASSUME IInv, WalksOK, FreshOK, NewProcessRunsNext, Boost > 0, [Next]_vars
  PROVE  FreshOK' /\ NewProcessRunsNext'
<1>1. CASE UNCHANGED vars
  BY <1>1 DEF vars, FreshOK, NewProcessRunsNext, Ready
<1>2. CASE Next
  <2>1. /\ fresh \subseteq Proc /\ fresh \subseteq proclist /\ Root \notin fresh
        /\ Root \in Proc /\ Root \in proclist /\ slices \in [Proc -> Int]
        /\ wait_q \in [Proc -> Queue \cup {"CURPROC_Q"}]
    BY SchedAssumption DEF SchedAssumption, IInv, TypeOK, FreshOK, RootLives
  <2>2. \A p \in fresh : slices'[p] < 0
    BY <1>2, FreshSlices
  <2>3. \A p \in fresh : wait_q[p] = "READY_Q" => wait_q'[p] = "READY_Q" \/ (Pick /\ next' = p)
    BY <1>2, FreshStays
  <2>4. \A p \in fresh : wait_q[p] = "READY_Q" \/ (mode = "switch" /\ next = p)
    BY DEF FreshOK
  <2>5. CASE Switch
    <3>1. fresh' = fresh \ {next} /\ mode' # "switch" /\ UNCHANGED <<sysq, wait_q, proclist>>
      BY <2>5 DEF Switch, queueVars
    <3>2. next \notin Listed(Ready)
      <4>1. next \in OffQueue /\ next \in proclist /\ next \in Proc
        BY <2>5 DEF Switch, OffQueue, IInv, OwnerExists, TypeOK
      <4>2. wait_q[next] # "READY_Q" /\ "READY_Q" \in Queue
        BY <4>1 DEF IInv, OwnerOK, Queue
      <4> QED
        BY <4>1, <4>2 DEF IInv, ListsOK, Ready
    <3>3. FirstOn(Ready, fresh \ {next})
      BY <3>2 DEF FreshOK, FirstOn, Listed
    <3>4. Ready' = Ready
      BY <3>1 DEF Ready
    <3> QED
      BY <2>1, <2>2, <2>4, <3>1, <3>3, <3>4 DEF FreshOK, NewProcessRunsNext
  <2>6. CASE Pick
    <3>1. UNCHANGED <<fresh, proclist>> /\ mode' = "switch"
      BY <2>6 DEF Pick
    <3>2. FirstOn(Ready', fresh)
      BY <1>2, <2>6, FreshFirst DEF Pick, NewProcess, Running
    <3>3. mode = "pick"
      BY <2>6 DEF Pick
    <3>4. FreshOK'
      BY <2>1, <2>2, <2>3, <2>4, <3>1, <3>2, <3>3 DEF FreshOK
    <3>5. NewProcessRunsNext'
      BY <2>4, <2>6, <3>1, <3>3, PickFresh DEF NewProcessRunsNext
    <3> QED
      BY <3>4, <3>5
  <2>7. ASSUME NEW q \in Proc, NewProcess(q)
        PROVE  FreshOK' /\ NewProcessRunsNext'
    <3>1. /\ fresh' = fresh \cup {q} /\ proclist' = proclist \cup {q} /\ q \notin proclist
          /\ slices' = [slices EXCEPT ![q] = -Boost]
          /\ wait_q' = [wait_q EXCEPT ![q] = "READY_Q"] /\ mode = "run"
      BY <2>7 DEF NewProcess, Running
    <3>2. mode' # "switch"
      BY <1>2, <3>1, FreshSteps DEF Pick, Switch
    <3>3. slices'[q] < 0 /\ wait_q'[q] = "READY_Q"
      BY <2>1, <3>1, SchedAssumption DEF SchedAssumption
    <3>4. FirstOn(Ready', fresh \cup {q})
      <4>1. "READY_Q" \in Queue /\ sysq \in [Queue -> Seq(Proc)]
        BY DEF IInv, TypeOK, Queue
      <4>2. Ready' = <<q>> \o Ready /\ Ready \in Seq(Proc)
        BY <2>7, <4>1 DEF NewProcess, Ready
      <4>3. wait_q[q] = "CURPROC_Q"
        BY <2>7 DEF NewProcess, IInv, OwnerOK
      <4>4. q \notin Listed(Ready)
        BY <4>1, <4>3 DEF IInv, ListsOK, Ready
      <4>5. FirstOn(Ready, fresh)
        BY DEF FreshOK
      <4> QED
        BY <4>2, <4>4, <4>5, FirstCons
    <3> QED
      BY <2>1, <2>2, <2>3, <2>4, <3>1, <3>2, <3>3, <3>4 DEF FreshOK, NewProcessRunsNext, Pick
  <2>8. ASSUME ~Switch, ~Pick, \A q \in Proc : ~NewProcess(q)
        PROVE  FreshOK' /\ NewProcessRunsNext'
    <3>1. fresh' = fresh
      BY <1>2, <2>8, FreshSteps DEF Reap
    <3>2. UNCHANGED <<mode, next>> \/ (mode # "switch" /\ mode' # "switch")
      BY <1>2, <2>8, FreshSteps
    <3>3. FirstOn(Ready', fresh)
      BY <1>2, <2>8, FreshFirst
    <3>4. fresh \subseteq proclist'
      <4>1. UNCHANGED proclist \/ \E q \in Proc : Reap(q)
        BY <1>2, <2>8, FreshSteps
      <4>2. ASSUME NEW q \in Proc, Reap(q) PROVE q \notin fresh /\ proclist' = proclist \ {q}
        BY <2>4, <4>2 DEF Reap, Running
      <4> QED
        BY <2>1, <4>1, <4>2
    <3>5. \A p \in fresh : wait_q'[p] = "READY_Q" \/ (mode' = "switch" /\ next' = p)
      BY <2>3, <2>4, <2>8, <3>2
    <3>6. FreshOK'
      BY <2>1, <2>2, <3>1, <3>3, <3>4, <3>5 DEF FreshOK
    <3>7. NewProcessRunsNext'
      BY <2>4, <3>1, <3>2 DEF NewProcessRunsNext
    <3> QED
      BY <3>6, <3>7
  <2> QED
    BY <2>5, <2>6, <2>7, <2>8
<1> QED
  BY <1>1, <1>2

\* A program that fork() or create_process() has just made is the next to run: no
\* wakeup, signal or reset of the priorities that comes before the context switch
\* puts another process first.  run_next() has to give it at least one slice, which
\* it does (3).
THEOREM NewProcessesRunNext == Boost > 0 => (Spec => []NewProcessRunsNext)
<1> SUFFICES ASSUME Boost > 0 PROVE Spec => []NewProcessRunsNext
  OBVIOUS
<1>1. Init => NewProcessRunsNext
  BY DEF Init, NewProcessRunsNext
<1> QED
  BY <1>1, InitIInv, NextIInv, InitWalks, NextWalks, InitFresh, NextFresh, PTL DEF Spec

-----------------------------------------------------------------------------
(* No lost wakeup                                                          *)

\* The walk that stands at process c of the list s has not passed p; if c has left
\* the list, the walk starts again at the head.
NotPassed(s, c, p) == c \in Listed(s) => Pos(s, c) <= Pos(s, p)

\* Places on a list of distinct processes.
LEMMA PosUnique ==
  ASSUME NEW S, NEW s \in Seq(S), Distinct(s), NEW i \in DOMAIN s
  PROVE  Pos(s, s[i]) = i
  BY PosLemma DEF Distinct, Listed

\* A process that leaves the list brings nobody past anybody else.
LEMMA NotPassedUnlink ==
  ASSUME NEW S, NEW s \in Seq(S), Distinct(s), NEW q, q \in Listed(s),
         NEW p, p \in Listed(s), p # q, NEW c, NotPassed(s, c, p)
  PROVE  NotPassed(Unlink(s, q), c, p)
<1> PICK u : u = Unlink(s, q)
  OBVIOUS
<1> PICK k : k = Pos(s, q)
  OBVIOUS
<1> SUFFICES ASSUME c \in Listed(u) PROVE Pos(u, c) <= Pos(u, p)
  BY DEF NotPassed
<1>1. /\ u \in Seq(S) /\ Distinct(u)
      /\ \A x : x \in Listed(u) <=> x \in Listed(s) /\ x # q
  BY UnlinkLemma
<1>2. k \in DOMAIN s /\ s[k] = q /\ Len(s) \in Nat /\ DOMAIN s = 1 .. Len(s)
  BY PosLemma
<1>3. DOMAIN u = 1 .. (Len(s) - 1)
      /\ \A i \in DOMAIN u : u[i] = s[IF i < k THEN i ELSE i + 1]
  BY DEF Unlink
<1>4. ASSUME NEW x, x \in Listed(u)
      PROVE  /\ Pos(u, x) \in DOMAIN u
             /\ Pos(s, x) = IF Pos(u, x) < k THEN Pos(u, x) ELSE Pos(u, x) + 1
  <2> PICK i : i = Pos(u, x)
    OBVIOUS
  <2> PICK j : j = IF i < k THEN i ELSE i + 1
    OBVIOUS
  <2>1. i \in DOMAIN u /\ u[i] = x
    BY <1>1, <1>4, PosLemma
  <2>2. j \in DOMAIN s /\ s[j] = x
    BY <1>2, <1>3, <2>1
  <2>3. Pos(s, x) = j
    BY <2>2, PosUnique
  <2> QED
    BY <2>1, <2>3
<1>5. p \in Listed(u) /\ c \in Listed(s)
  BY <1>1
<1>6. Pos(s, c) <= Pos(s, p)
  BY <1>5 DEF NotPassed
<1>7. Pos(u, c) \in Int /\ Pos(u, p) \in Int /\ k \in Int
  BY <1>2, <1>3, <1>4, <1>5
<1> QED
  BY <1>4, <1>5, <1>6, <1>7

\* A walk that starts has passed nobody.
LEMMA NotPassedFirst ==
  ASSUME NEW S, NEW s \in Seq(S), Distinct(s), NEW p, p \in Listed(s), NoProc \notin S
  PROVE  First(s) # NoProc /\ NotPassed(s, First(s), p)
<1>1. Pos(s, p) \in DOMAIN s /\ Len(s) \in Nat /\ DOMAIN s = 1 .. Len(s)
  BY PosLemma
<1>2. 1 \in DOMAIN s /\ s # <<>> /\ 1 <= Pos(s, p)
  BY <1>1
<1>3. First(s) = s[1] /\ s[1] \in S /\ Pos(s, s[1]) = 1
  BY <1>2, PosUnique DEF First
<1> QED
  BY <1>2, <1>3 DEF NotPassed

\* A walk that goes on from a process other than p does not pass p.
LEMMA NotPassedNext ==
  ASSUME NEW S, NEW s \in Seq(S), Distinct(s), NoProc \notin S, NEW p, p \in Listed(s),
         NEW c, c \in Listed(s), c # p, NotPassed(s, c, p)
  PROVE  QNext(s, c) # NoProc /\ NotPassed(s, QNext(s, c), p)
<1> PICK i : i = Pos(s, c)
  OBVIOUS
<1> PICK j : j = Pos(s, p)
  OBVIOUS
<1>1. /\ i \in DOMAIN s /\ s[i] = c /\ j \in DOMAIN s /\ s[j] = p
      /\ Len(s) \in Nat /\ DOMAIN s = 1 .. Len(s)
  BY PosLemma
<1>2. i <= j /\ i # j
  BY <1>1 DEF NotPassed
<1>3. i # Len(s) /\ i + 1 \in DOMAIN s /\ i + 1 <= j
  BY <1>1, <1>2
<1>4. QNext(s, c) = s[i + 1] /\ s[i + 1] \in S
  BY <1>3 DEF QNext
<1>5. Pos(s, s[i + 1]) = i + 1
  BY <1>3, PosUnique
<1> QED
  BY <1>3, <1>4, <1>5 DEF NotPassed

\* A process that does not exist, or is dead, is in no select() and no device read.
Unborn ==
  \A p \in Proc : p \notin proclist \/ wait_q[p] = "ZOMBIE_Q"
                    => sel[p] = "off" /\ using[p] = NoCond

\* The pid a driver passes to iwake() is the one of its only user.
OneUser ==
  /\ \A p \in Proc : using[p] # NoCond => ipid[using[p]] = p
  /\ \A d \in DevCond : ipid[d] # NoProc => using[ipid[d]] = d

\* Between the entry of sleep() and its test: if the event has come, it has left its
\* trace in sleepcond or iwakecond.
CallGood ==
  /\ call.que = "WAIT_Q" /\ call.cond \in SyncCond /\ evt[call.cond] => sleepcond # call.cond
  /\ call.que = "IO_Q" => /\ call.cond \in DevCond /\ call.cond = using[curproc]
                          /\ evt[call.cond] => sleepcond # call.cond \/ iwakecond = call.cond
  /\ call.x100 => call.cond = "wakeselect"
  /\ call.que = "SELECT_Q" \/ call.cond = "wakeselect" => call.x100 \/ sel[curproc] = "off"
  /\ call.que = "ZOMBIE_Q" => sel[curproc] = "off" /\ using[curproc] = NoCond

CallOK == mode \in {"poll", "test"} => CallGood

\* wakeselect() has changed wait_cond.
Told == \A p \in Proc : sel[p] = "hit" => wait_q[p] # "SELECT_Q" /\ wait_cond[p] # "wakeselect"

\* Who sleeps on a device uses it, and iwakecond does not stand for its event.
IOUsers ==
  \A p \in Proc : wait_q[p] = "IO_Q" =>
    wait_cond[p] \in DevCond /\ using[p] = wait_cond[p] /\ iwakecond # wait_cond[p]

\* A sleeper whose event has happened lies before the do_wake() of that event.
WaitReached ==
  \A p \in Proc : wait_q[p] = "WAIT_Q" /\ wait_cond[p] \in SyncCond /\ evt[wait_cond[p]] =>
    /\ walk.que = "WAIT_Q" /\ walk.cond = wait_cond[p] /\ walk.cur # NoProc
    /\ NotPassed(sysq["WAIT_Q"], walk.cur, p)

IOReached ==
  \A p \in Proc : wait_q[p] = "IO_Q" /\ evt[wait_cond[p]] =>
    /\ intr.que = "IO_Q" /\ intr.cond = wait_cond[p] /\ intr.cur # NoProc
    /\ NotPassed(sysq["IO_Q"], intr.cur, p)

WakeInv == Unborn /\ OneUser /\ CallOK /\ Told /\ IOUsers /\ WaitReached /\ IOReached

LEMMA InitWake == Init => WakeInv
  BY SchedAssumption DEF SchedAssumption, Init, WakeInv, Unborn, OneUser, CallOK, Told, IOUsers,
                         WaitReached, IOReached

\* The steps that change the state of select(), of the devices and of the events.
LEMMA WakeSteps ==
  ASSUME Next
  PROVE  /\ UNCHANGED <<using, ipid>> \/ \E d \in DevCond : DevEnter(d) \/ DevLeave(d)
         /\ UNCHANGED sel \/ SelArm \/ SelLeave \/ \E p \in Proc : WakeSelect(p)
         /\ UNCHANGED wait_cond \/ SleepTest \/ SelArm
            \/ \E p \in Proc : WakeSelect(p) \/ Unnap(p) \/ NewProcess(p)
         /\ UNCHANGED evt \/ (\E c \in SyncCond : Post(c) \/ Take(c))
            \/ \E d \in DevCond : DevIntr(d) \/ DevLeave(d)
         /\ UNCHANGED iwakecond \/ SleepTest \/ \E d \in DevCond : DevIntr(d)
<1>1. CASE InSleep
  BY <1>1 DEF InSleep, SleepSignal, SleepTest, SleepQueued, SleepNapped, SleepForceRoot, Pick,
              Switch, Resume, Wake, IntrWake, devVars, condVars
<1>2. CASE Interrupt
  BY <1>2 DEF Interrupt, Tick, WakeSelect, PostSig, DevIntr, devVars, condVars
<1>3. CASE Process
  <2>1. Yield \/ RootIdle \/ SelSleep \/ Nap \/ Exit \/ Preempt
          => UNCHANGED <<devVars, wait_cond, iwakecond>>
    BY DEF Yield, RootIdle, SelSleep, Nap, Exit, Preempt, keepAll, Sleep
  <2>2. /\ SelArm \/ SelLeave => UNCHANGED <<evt, using, ipid, iwakecond>>
        /\ SelLeave => UNCHANGED wait_cond
        /\ Exec => UNCHANGED <<devVars, wait_cond, iwakecond>>
    BY DEF SelArm, SelLeave, Exec, condVars
  <2>3. \A c \in SyncCond :
          /\ Block(c) => UNCHANGED <<devVars, wait_cond, iwakecond>>
          /\ Take(c) \/ Post(c) => UNCHANGED <<using, ipid, sel, wait_cond, iwakecond>>
    BY DEF Block, Take, Post, keepAll, Sleep, condVars
  <2>4. \A d \in DevCond :
          /\ DevSleep(d) => UNCHANGED <<devVars, wait_cond, iwakecond>>
          /\ DevEnter(d) => UNCHANGED <<evt, sel, wait_cond, iwakecond>>
          /\ DevLeave(d) => UNCHANGED <<sel, wait_cond, iwakecond>>
    BY DEF DevEnter, DevSleep, DevLeave, keepAll, Sleep, condVars
  <2>5. \A p \in Proc :
          /\ Reap(p) => UNCHANGED <<devVars, wait_cond, iwakecond>>
          /\ Unnap(p) => UNCHANGED <<devVars, iwakecond>>
          /\ Fork(p) \/ CreateProcess(p) => NewProcess(p) /\ UNCHANGED <<devVars, iwakecond>>
    BY DEF Unnap, Reap, Fork, CreateProcess, NewProcess, Sleep, condVars
  <2> QED
    BY <1>3, <2>1, <2>2, <2>3, <2>4, <2>5 DEF Process, devVars
<1> QED
  BY <1>1, <1>2, <1>3 DEF Next

\* The current process, while it executes, is on no list and exists.
LEMMA RunnerFacts ==
  ASSUME IInv, mode \in {"run", "poll", "test", "resume"}
  PROVE  curproc \in Proc /\ wait_q[curproc] = "CURPROC_Q" /\ curproc \in proclist
<1>1. OffQueue = {curproc} /\ curproc \in Proc
  BY DEF OffQueue, IInv, TypeOK
<1> QED
  BY <1>1 DEF IInv, OwnerOK, OwnerExists

\* sleep() is the only way onto a list other than the ready queue, for a process
\* that has not been woken already.
LEMMA Joins ==
  ASSUME IInv, WalksOK, Next, NEW p \in Proc,
         wait_q'[p] \in {"WAIT_Q", "IO_Q", "SELECT_Q", "ZOMBIE_Q"}
  PROVE  \/ wait_q[p] = wait_q'[p]
         \/ /\ SleepTest /\ p = curproc /\ ~AlreadyWoken
            /\ call.que = wait_q'[p] /\ wait_cond'[p] = call.cond
<1>1. TypeOK /\ wait_q \in [Proc -> Queue \cup {"CURPROC_Q"}] /\ curproc \in Proc
      /\ wait_cond \in [Proc -> Conds]
  BY DEF IInv, TypeOK
<1>2. CASE UNCHANGED queueVars
  BY <1>2 DEF queueVars
<1>3. CASE SleepTest
  <2>1. \/ wait_q' = wait_q
        \/ wait_q' = [wait_q EXCEPT ![curproc] = "READY_Q"]
        \/ /\ ~(AlreadyWoken /\ Ready # <<>>) /\ ~(AlreadyWoken /\ Ready = <<>>)
           /\ wait_q' = [wait_q EXCEPT ![curproc] = call.que]
           /\ wait_cond' = [wait_cond EXCEPT ![curproc] = call.cond]
    BY <1>3 DEF SleepTest, AddCurrent, queueVars
  <2> QED
    BY <1>1, <1>3, <2>1
<1>4. CASE Pick
  BY <1>1, <1>4 DEF Pick
<1>5. ASSUME NEW q \in Proc, MoveToReady(wait_q[q], q)
      PROVE  wait_q[p] = wait_q'[p]
  BY <1>5, MoveWaitQ
<1>6. ASSUME NEW q \in Proc, Reap(q) \/ NewProcess(q)
      PROVE  wait_q[p] = wait_q'[p]
  BY <1>1, <1>6 DEF Reap, NewProcess
<1> QED
  BY <1>2, <1>3, <1>4, <1>5, <1>6, QueueCases

LEMMA NextUnborn ==
  ASSUME IInv, WalksOK, WakeInv, Next
  PROVE  Unborn'
<1> SUFFICES ASSUME NEW p \in Proc, p \notin proclist' \/ wait_q'[p] = "ZOMBIE_Q"
             PROVE  sel'[p] = "off" /\ using'[p] = NoCond
  BY DEF Unborn
<1>1. sel \in [Proc -> {"off", "armed", "hit"}] /\ using \in [Proc -> DevCond \cup {NoCond}]
      /\ curproc \in Proc
  BY DEF IInv, TypeOK
<1>2. CASE SleepTest /\ p = curproc /\ call.que = "ZOMBIE_Q"
  <2>1. mode \in {"poll", "test"} /\ UNCHANGED <<sel, using>>
    BY <1>2 DEF SleepTest, devVars
  <2> QED
    BY <1>2, <2>1 DEF WakeInv, CallOK, CallGood
<1>3. CASE p \notin proclist \/ wait_q[p] = "ZOMBIE_Q"
  <2>1. sel[p] = "off" /\ using[p] = NoCond
    BY <1>3 DEF WakeInv, Unborn
  <2>2. mode \in {"run", "poll", "test", "resume"} => p # curproc
    BY <1>3, RunnerFacts
  <2>3. SelArm \/ SelLeave \/ (\E d \in DevCond : DevEnter(d) \/ DevLeave(d)) => p # curproc
    BY <2>2 DEF SelArm, SelLeave, DevEnter, DevLeave, AtUser, Running
  <2>4. sel'[p] = "off"
    <3>1. CASE SelArm \/ SelLeave
      BY <1>1, <2>1, <2>3, <3>1 DEF SelArm, SelLeave
    <3>2. ASSUME NEW q \in Proc, WakeSelect(q) PROVE sel'[p] = "off"
      BY <1>1, <2>1, <3>2 DEF WakeSelect
    <3> QED
      BY <2>1, <3>1, <3>2, WakeSteps
  <2>5. using'[p] = NoCond
    <3>1. ASSUME NEW d \in DevCond, DevEnter(d) \/ DevLeave(d) PROVE using'[p] = NoCond
      BY <1>1, <2>1, <2>3, <3>1 DEF DevEnter, DevLeave
    <3> QED
      BY <2>1, <2>3, <3>1, WakeSteps
  <2> QED
    BY <2>4, <2>5
<1>4. p \notin proclist' => p \notin proclist \/ wait_q[p] = "ZOMBIE_Q"
  BY FreshSteps DEF Switch, NewProcess, Reap
<1> QED
  BY <1>2, <1>3, <1>4, Joins

LEMMA NextOneUser ==
  ASSUME IInv, WakeInv, ~Shared, Next
  PROVE  OneUser'
<1>1. using \in [Proc -> DevCond \cup {NoCond}] /\ ipid \in [DevCond -> Proc \cup {NoProc}]
      /\ curproc \in Proc /\ NoCond \notin DevCond /\ NoProc \notin Proc
  BY SchedAssumption DEF SchedAssumption, IInv, TypeOK
<1>2. OneUser
  BY DEF WakeInv
<1>3. CASE UNCHANGED <<using, ipid>>
  BY <1>2, <1>3 DEF OneUser
<1>4. ASSUME NEW d \in DevCond, DevEnter(d) PROVE OneUser'
  <2>1. /\ using[curproc] = NoCond /\ \A p \in Proc : using[p] # d
        /\ using' = [using EXCEPT ![curproc] = d] /\ ipid' = [ipid EXCEPT ![d] = curproc]
    BY <1>4, SchedAssumption DEF SchedAssumption, DevEnter, AtUser
  <2>2. \A p \in Proc : using'[p] # NoCond => ipid'[using'[p]] = p
    BY <1>1, <1>2, <2>1 DEF OneUser
  <2>3. \A e \in DevCond : ipid'[e] # NoProc => using'[ipid'[e]] = e
    BY <1>1, <1>2, <2>1 DEF OneUser
  <2> QED
    BY <2>2, <2>3 DEF OneUser
<1>5. ASSUME NEW d \in DevCond, DevLeave(d) PROVE OneUser'
  <2>1. /\ using[curproc] = d
        /\ using' = [using EXCEPT ![curproc] = NoCond] /\ ipid' = [ipid EXCEPT ![d] = NoProc]
    BY <1>5 DEF DevLeave
  <2>2. \A p \in Proc : using'[p] # NoCond => ipid'[using'[p]] = p
    BY <1>1, <1>2, <2>1 DEF OneUser
  <2>3. \A e \in DevCond : ipid'[e] # NoProc => using'[ipid'[e]] = e
    BY <1>1, <1>2, <2>1 DEF OneUser
  <2> QED
    BY <2>2, <2>3 DEF OneUser
<1> QED
  BY <1>3, <1>4, <1>5, WakeSteps

LEMMA NextTold ==
  ASSUME IInv, WalksOK, WakeInv, Next
  PROVE  Told'
<1> SUFFICES ASSUME NEW p \in Proc, sel'[p] = "hit"
             PROVE  wait_q'[p] # "SELECT_Q" /\ wait_cond'[p] # "wakeselect"
  BY DEF Told
<1>1. sel \in [Proc -> {"off", "armed", "hit"}] /\ wait_cond \in [Proc -> Conds]
      /\ curproc \in Proc /\ wait_q \in [Proc -> Queue \cup {"CURPROC_Q"}] /\ TypeOK
  BY DEF IInv, TypeOK
<1>2. Unborn /\ CallOK /\ Told
  BY DEF WakeInv
<1>3. CASE WakeSelect(p)
  <2>1. wait_cond' = IF wait_cond[p] = "wakeselect"
                     THEN [wait_cond EXCEPT ![p] = NoCond] ELSE wait_cond
    BY <1>3 DEF WakeSelect
  <2>2. wait_cond'[p] # "wakeselect"
    BY <1>1, <2>1, SchedAssumption DEF NoCond
  <2>3. CASE wait_q[p] = "SELECT_Q"
    BY <1>3, <2>2, <2>3, MoveWaitQ DEF WakeSelect
  <2>4. CASE wait_q[p] # "SELECT_Q"
    BY <1>3, <2>2, <2>4 DEF WakeSelect, queueVars
  <2> QED
    BY <2>3, <2>4
<1>4. CASE ~WakeSelect(p)
  <2>1. sel[p] = "hit"
    <3>1. ASSUME NEW q \in Proc, WakeSelect(q) PROVE sel[p] = "hit"
      BY <1>1, <1>4, <3>1 DEF WakeSelect
    <3>2. SelArm \/ SelLeave => sel[p] = "hit"
      BY <1>1 DEF SelArm, SelLeave
    <3> QED
      BY <3>1, <3>2, WakeSteps
  <2>2. wait_q[p] # "SELECT_Q" /\ wait_cond[p] # "wakeselect"
    BY <1>2, <2>1 DEF Told
  <2>3. CASE SleepTest /\ p = curproc
    <3>1. mode \in {"poll", "test"}
      BY <2>3 DEF SleepTest
    <3>2. CallGood
      BY <1>2, <3>1 DEF CallOK
    <3>3. call.que = "SELECT_Q" \/ call.cond = "wakeselect" => AlreadyWoken
      BY <2>1, <2>2, <2>3, <3>2 DEF CallGood, AlreadyWoken
    <3>4. \/ wait_q' = wait_q /\ wait_cond' = wait_cond
          \/ wait_q' = [wait_q EXCEPT ![curproc] = "READY_Q"] /\ wait_cond' = wait_cond
          \/ /\ ~AlreadyWoken
             /\ wait_q' = [wait_q EXCEPT ![curproc] = call.que]
             /\ wait_cond' = [wait_cond EXCEPT ![curproc] = call.cond]
      BY <2>3 DEF SleepTest, AddCurrent, queueVars
    <3> QED
      BY <1>1, <2>2, <2>3, <3>3, <3>4
  <2>4. CASE ~(SleepTest /\ p = curproc)
    <3>1. wait_q'[p] # "SELECT_Q"
      BY <2>2, <2>4, Joins
    <3>2. wait_cond'[p] # "wakeselect"
      <4>1. CASE SleepTest
        <5>1. wait_cond' = wait_cond \/ \E c : wait_cond' = [wait_cond EXCEPT ![curproc] = c]
          BY <4>1 DEF SleepTest
        <5> QED
          BY <1>1, <2>2, <2>4, <4>1, <5>1
      <4>2. CASE SelArm
        BY <1>1, <2>1, <2>2, <4>2 DEF SelArm, AtUser
      <4>3. ASSUME NEW q \in Proc, WakeSelect(q) \/ Unnap(q)
            PROVE  wait_cond'[p] # "wakeselect"
        <5>1. wait_cond' \in {wait_cond, [wait_cond EXCEPT ![q] = NoCond]}
          BY <4>3 DEF WakeSelect, Unnap
        <5> QED
          BY <1>1, <2>2, <5>1 DEF NoCond
      <4>4. ASSUME NEW q \in Proc, NewProcess(q)
            PROVE  wait_cond'[p] # "wakeselect"
        <5>1. p # q
          BY <1>2, <2>1, <4>4 DEF NewProcess, Unborn
        <5> QED
          BY <1>1, <2>2, <4>4, <5>1 DEF NewProcess
      <4> QED
        BY <2>2, <4>1, <4>2, <4>3, <4>4, WakeSteps
    <3> QED
      BY <3>1, <3>2
  <2> QED
    BY <2>3, <2>4
<1> QED
  BY <1>3, <1>4

\* How the current process comes to the test of sleep(): it enters sleep(), or it
\* was on its way there before the step.
LEMMA CallSteps ==
  ASSUME Next, mode' \in {"poll", "test"}
  PROVE  \/ mode \in {"poll", "test"} /\ UNCHANGED <<call, curproc>>
         \/ Yield \/ Preempt \/ RootIdle \/ SelSleep \/ Nap \/ Exit
         \/ \E p \in Proc : Fork(p)
         \/ \E c \in SyncCond : Block(c)
         \/ \E d \in DevCond : DevSleep(d)
<1>1. CASE InSleep
  <2>1. SleepSignal => mode = "poll" /\ UNCHANGED <<call, curproc>>
    BY DEF SleepSignal
  <2>2. Wake \/ IntrWake => UNCHANGED <<mode, call, curproc>>
    BY DEF Wake, IntrWake, ctlVars
  <2>3. ~(SleepTest \/ SleepQueued \/ SleepNapped \/ SleepForceRoot \/ Pick \/ Switch \/ Resume)
    BY DEF SleepTest, SleepQueued, SleepNapped, SleepForceRoot, Pick, Switch, Resume
  <2> QED
    BY <1>1, <2>1, <2>2, <2>3 DEF InSleep
<1>2. CASE Interrupt
  BY <1>2 DEF Interrupt, Tick, WakeSelect, PostSig, DevIntr, ctlVars
<1>3. CASE Process
  <2>1. SelArm \/ SelLeave \/ Exec => UNCHANGED <<mode, call, curproc>>
    BY DEF SelArm, SelLeave, Exec, ctlVars
  <2>2. \A c \in SyncCond : Take(c) \/ Post(c) => UNCHANGED <<mode, call, curproc>>
    BY DEF Take, Post, ctlVars
  <2>3. \A d \in DevCond : DevEnter(d) \/ DevLeave(d) => UNCHANGED <<mode, call, curproc>>
    BY DEF DevEnter, DevLeave, ctlVars
  <2>4. \A p \in Proc : Unnap(p) \/ Reap(p) \/ CreateProcess(p)
                          => UNCHANGED <<mode, call, curproc>>
    BY DEF Unnap, Reap, CreateProcess, NewProcess, ctlVars
  <2> QED
    BY <1>3, <2>1, <2>2, <2>3, <2>4 DEF Process
<1> QED
  BY <1>1, <1>2, <1>3 DEF Next

\* The steps that set sleepcond outside of Sleep().
LEMMA SleepcondSteps ==
  ASSUME Next, mode \in {"poll", "test"}
  PROVE  \/ UNCHANGED sleepcond
         \/ sleepcond' = NoCond
<1>1. CASE InSleep
  BY <1>1 DEF InSleep, SleepSignal, SleepTest, SleepQueued, SleepNapped, SleepForceRoot, Pick,
              Switch, Resume, Wake, IntrWake, condVars, StartWake
<1>2. CASE Interrupt
  BY <1>2 DEF Interrupt, Tick, WakeSelect, PostSig, DevIntr, condVars
<1>3. CASE Process
  <2>1. ~(Yield \/ Preempt \/ RootIdle \/ SelSleep \/ Nap \/ Exit \/ SelArm \/ SelLeave \/ Exec)
    BY DEF Yield, Preempt, RootIdle, SelSleep, Nap, Exit, SelArm, SelLeave, Exec, AtUser, Running
  <2>2. \A c \in SyncCond : /\ ~(Block(c) \/ Take(c))
                            /\ Post(c) => sleepcond' = sleepcond \/ sleepcond' = NoCond
    BY DEF Block, Take, Post, StartWake, AtUser, Running
  <2>3. \A d \in DevCond : ~(DevEnter(d) \/ DevSleep(d) \/ DevLeave(d))
    BY DEF DevEnter, DevSleep, DevLeave, AtUser, Running
  <2>4. \A p \in Proc : ~(Unnap(p) \/ Reap(p) \/ Fork(p) \/ CreateProcess(p))
    BY DEF Unnap, Reap, Fork, CreateProcess, NewProcess, Running
  <2> QED
    BY <1>3, <2>1, <2>2, <2>3, <2>4 DEF Process
<1> QED
  BY <1>1, <1>2, <1>3 DEF Next

\* Nobody but interrupt handlers and wake() does anything between the entry of
\* sleep() and its test.
LEMMA CallStands ==
  ASSUME IInv, WakeInv, Next, mode \in {"poll", "test"}, mode' \in {"poll", "test"}
  PROVE  CallGood'
<1>1. /\ UNCHANGED <<call, curproc>> /\ CallGood /\ curproc \in Proc /\ call \in Calls
      /\ using \in [Proc -> DevCond \cup {NoCond}] /\ evt \in [SyncCond \cup DevCond -> BOOLEAN]
      /\ sel \in [Proc -> {"off", "armed", "hit"}] /\ wait_q[curproc] = "CURPROC_Q"
  <2>1. ~(Yield \/ Preempt \/ RootIdle \/ SelSleep \/ Nap \/ Exit)
    BY DEF Yield, Preempt, RootIdle, SelSleep, Nap, Exit, AtUser, Running
  <2>2. /\ \A c \in SyncCond : ~Block(c)
        /\ \A d \in DevCond : ~DevSleep(d)
        /\ \A p \in Proc : ~Fork(p)
    BY DEF Block, DevSleep, Fork, NewProcess, AtUser, Running
  <2>3. UNCHANGED <<call, curproc>>
    BY <2>1, <2>2, CallSteps
  <2>4. wait_q[curproc] = "CURPROC_Q"
    BY RunnerFacts
  <2>5. CallGood
    BY DEF WakeInv, CallOK
  <2> QED
    BY <2>3, <2>4, <2>5 DEF IInv, TypeOK
<1>2. UNCHANGED <<using, ipid>>
  <2>1. \A d \in DevCond : ~(DevEnter(d) \/ DevLeave(d))
    BY DEF DevEnter, DevLeave, AtUser, Running
  <2> QED
    BY <2>1, WakeSteps
<1>3. sel[curproc] = "off" => sel'[curproc] = "off"
  <2>1. ~(SelArm \/ SelLeave)
    BY DEF SelArm, SelLeave, AtUser, Running
  <2>2. ASSUME NEW p \in Proc, WakeSelect(p), sel[curproc] = "off" PROVE sel'[curproc] = "off"
    BY <1>1, <2>2 DEF WakeSelect
  <2> QED
    BY <2>1, <2>2, WakeSteps
<1>4. sleepcond' = sleepcond \/ sleepcond' = NoCond
  BY SleepcondSteps
<1>5. NoCond \notin SyncCond /\ NoCond \notin DevCond /\ SyncCond \cap DevCond = {}
  BY SchedAssumption DEF SchedAssumption
<1>6. ASSUME call.cond \in SyncCond, evt'[call.cond] PROVE evt[call.cond] \/ sleepcond' # call.cond
  <2>1. ASSUME NEW c \in SyncCond, Post(c) PROVE evt[call.cond] \/ sleepcond' # call.cond
    <3>1. CASE c = call.cond
      BY <1>5, <1>6, <2>1, <3>1 DEF Post, StartWake
    <3>2. CASE c # call.cond
      BY <1>1, <1>6, <2>1, <3>2 DEF Post
    <3> QED
      BY <3>1, <3>2
  <2>2. ASSUME NEW c \in SyncCond, Take(c) PROVE evt[call.cond]
    BY <1>1, <1>6, <2>2 DEF Take
  <2>3. ASSUME NEW d \in DevCond, DevIntr(d) \/ DevLeave(d) PROVE evt[call.cond]
    BY <1>1, <1>5, <1>6, <2>3 DEF DevIntr, DevLeave
  <2> QED
    BY <1>6, <2>1, <2>2, <2>3, WakeSteps
<1>7. ASSUME call.que = "IO_Q", evt'[call.cond]
      PROVE  sleepcond' # call.cond \/ iwakecond' = call.cond
  <2>1. /\ call.cond \in DevCond /\ using[curproc] = call.cond
        /\ evt[call.cond] => sleepcond # call.cond \/ iwakecond = call.cond
    BY <1>1, <1>7 DEF CallGood
  <2>2. ipid[call.cond] = curproc /\ \A d \in DevCond : ipid[d] = curproc => d = call.cond
    BY <1>1, <1>5, <2>1, SchedAssumption DEF SchedAssumption, WakeInv, OneUser
  <2>3. ASSUME NEW d \in DevCond, DevIntr(d)
        PROVE  sleepcond' # call.cond \/ iwakecond' = call.cond
    <3>1. CASE d = call.cond
      BY <1>1, <2>2, <2>3, <3>1 DEF DevIntr
    <3>2. CASE d # call.cond
      <4>1. evt[call.cond] /\ iwakecond' = iwakecond /\ sleepcond' = sleepcond
        BY <1>1, <1>7, <2>1, <2>2, <2>3, <3>2 DEF DevIntr
      <4> QED
        BY <2>1, <4>1
    <3> QED
      BY <3>1, <3>2
  <2>4. ASSUME \A d \in DevCond : ~DevIntr(d)
        PROVE  sleepcond' # call.cond \/ iwakecond' = call.cond
    <3>1. iwakecond' = iwakecond
      BY <2>4, WakeSteps DEF SleepTest
    <3>2. evt[call.cond]
      <4>1. ASSUME NEW c \in SyncCond, Post(c) \/ Take(c) PROVE evt[call.cond]
        BY <1>1, <1>5, <1>7, <2>1, <4>1 DEF Post, Take
      <4>2. ASSUME NEW d \in DevCond, DevLeave(d) PROVE evt[call.cond]
        BY <1>1, <1>7, <2>1, <4>2 DEF DevLeave
      <4> QED
        BY <1>7, <2>4, <4>1, <4>2, WakeSteps
    <3> QED
      BY <1>4, <1>5, <2>1, <3>1, <3>2
  <2> QED
    BY <2>3, <2>4
<1> QED
  BY <1>1, <1>2, <1>3, <1>4, <1>5, <1>6, <1>7 DEF CallGood

\* The callers of sleep() look for the event before they call it.
LEMMA NextCall ==
  ASSUME IInv, WakeInv, Next
  PROVE  CallOK'
<1> SUFFICES ASSUME mode' \in {"poll", "test"} PROVE CallGood'
  BY DEF CallOK
<1>1. CASE mode \in {"poll", "test"}
  BY <1>1, CallStands
<1>2. NoCond # "wakeselect" /\ "mint_thread" \notin SyncCond
  BY SchedAssumption DEF SchedAssumption, NoCond
<1>3. CASE Yield \/ Preempt \/ RootIdle \/ Nap
  BY <1>2, <1>3 DEF Yield, Preempt, RootIdle, Nap, Sleep, keepAll, devVars, AtUser, CallGood
<1>4. CASE SelSleep \/ Exit
  BY <1>2, <1>4 DEF SelSleep, Exit, Sleep, keepAll, devVars, AtUser, CallGood
<1>5. ASSUME NEW p \in Proc, Fork(p) PROVE CallGood'
  BY <1>2, <1>5 DEF Fork, Sleep, CallGood
<1>6. ASSUME NEW c \in SyncCond, Block(c) PROVE CallGood'
  BY <1>2, <1>6, SchedAssumption DEF SchedAssumption, Block, Sleep, keepAll, devVars, AtUser, CallGood
<1>7. ASSUME NEW d \in DevCond, DevSleep(d) PROVE CallGood'
  BY <1>2, <1>7, SchedAssumption DEF SchedAssumption, DevSleep, Sleep, keepAll, devVars, CallGood
<1> QED
  BY <1>1, <1>3, <1>4, <1>5, <1>6, <1>7, CallSteps

\* What a sleeper waits for stays.
LEMMA CondKept ==
  ASSUME IInv, Next, NEW p \in Proc, wait_q[p] \in {"WAIT_Q", "IO_Q"}, wait_q'[p] = wait_q[p]
  PROVE  wait_cond'[p] = wait_cond[p] \/ (wait_cond[p] = "wakeselect" /\ wait_cond'[p] = NoCond)
<1>1. wait_cond \in [Proc -> Conds] /\ curproc \in Proc /\ p \in proclist
  BY DEF IInv, TypeOK, OwnerOK
<1>2. mode \in {"run", "poll", "test", "resume"} => p # curproc
  BY RunnerFacts
<1>3. CASE SleepTest \/ SelArm
  <2>1. p # curproc
    BY <1>2, <1>3 DEF SleepTest, SelArm, AtUser, Running
  <2>2. wait_cond' = wait_cond \/ \E c : wait_cond' = [wait_cond EXCEPT ![curproc] = c]
    BY <1>3 DEF SleepTest, SelArm
  <2> QED
    BY <1>1, <2>1, <2>2
<1>4. ASSUME NEW q \in Proc, WakeSelect(q)
      PROVE  wait_cond'[p] = wait_cond[p] \/ (wait_cond[p] = "wakeselect" /\ wait_cond'[p] = NoCond)
  BY <1>1, <1>4 DEF WakeSelect
<1>5. ASSUME NEW q \in Proc, Unnap(q) PROVE wait_cond'[p] = wait_cond[p]
  <2>1. q # p /\ wait_cond' = [wait_cond EXCEPT ![q] = NoCond]
    BY <1>5 DEF Unnap
  <2> QED
    BY <1>1, <2>1
<1>6. ASSUME NEW q \in Proc, NewProcess(q) PROVE wait_cond'[p] = wait_cond[p]
  BY <1>1, <1>6 DEF NewProcess
<1> QED
  BY <1>3, <1>4, <1>5, <1>6, WakeSteps

LEMMA NextIOUsers ==
  ASSUME IInv, WalksOK, WakeInv, Next
  PROVE  IOUsers'
<1> SUFFICES ASSUME NEW p \in Proc, wait_q'[p] = "IO_Q"
             PROVE  /\ wait_cond'[p] \in DevCond /\ using'[p] = wait_cond'[p]
                    /\ iwakecond' # wait_cond'[p]
  BY DEF IOUsers
<1>1. /\ using \in [Proc -> DevCond \cup {NoCond}] /\ curproc \in Proc
      /\ NoCond \notin DevCond /\ "wakeselect" \notin DevCond
  BY SchedAssumption DEF SchedAssumption, IInv, TypeOK
<1>2. CASE SleepTest /\ p = curproc /\ call.que = "IO_Q" /\ wait_cond'[p] = call.cond
  <2>1. mode \in {"poll", "test"} /\ iwakecond' = NoCond /\ UNCHANGED using
    BY <1>2 DEF SleepTest, devVars
  <2>2. CallGood
    BY <2>1 DEF WakeInv, CallOK
  <2> QED
    BY <1>1, <1>2, <2>1, <2>2 DEF CallGood
<1>3. CASE wait_q[p] = "IO_Q"
  <2>1. wait_cond[p] \in DevCond /\ using[p] = wait_cond[p] /\ iwakecond # wait_cond[p]
    BY <1>3 DEF WakeInv, IOUsers
  <2>2. wait_cond'[p] = wait_cond[p]
    BY <1>1, <1>3, <2>1, CondKept
  <2>3. mode \in {"run", "poll", "test", "resume"} => p # curproc
    BY <1>3, RunnerFacts
  <2>4. using'[p] = using[p]
    <3>1. ASSUME NEW d \in DevCond, DevEnter(d) \/ DevLeave(d) PROVE using'[p] = using[p]
      BY <1>1, <2>3, <3>1 DEF DevEnter, DevLeave, AtUser, Running
    <3> QED
      BY <3>1, WakeSteps
  <2>5. iwakecond' # wait_cond[p]
    <3>1. ASSUME NEW d \in DevCond, DevIntr(d) PROVE iwakecond' # wait_cond[p]
      <4>1. ipid[wait_cond[p]] = p
        BY <1>1, <2>1 DEF WakeInv, OneUser
      <4>2. iwakecond' = iwakecond \/ (iwakecond' = d /\ curproc = ipid[d] /\ wait_q[curproc] = "CURPROC_Q")
        BY <3>1 DEF DevIntr
      <4> QED
        BY <1>3, <2>1, <4>1, <4>2
    <3>2. SleepTest => iwakecond' = NoCond
      BY DEF SleepTest
    <3> QED
      BY <1>1, <2>1, <3>1, <3>2, WakeSteps
  <2> QED
    BY <2>1, <2>2, <2>4, <2>5
<1> QED
  BY <1>2, <1>3, Joins

\* A step other than the test of sleep(), which appends to it, leaves the list on
\* which a process stays asleep alone or takes another process off it.
LEMMA ListSteps ==
  ASSUME IInv, WalksOK, Next, ~SleepTest, NEW que \in {"WAIT_Q", "IO_Q"}, NEW p \in Proc,
         wait_q[p] = que, wait_q'[p] = que
  PROVE  \/ sysq'[que] = sysq[que]
         \/ \E q \in Proc : q # p /\ wait_q[q] = que /\ sysq'[que] = Unlink(sysq[que], q)
<1>1. TypeOK /\ sysq \in [Queue -> Seq(Proc)] /\ que \in Queue \ {"READY_Q", "ZOMBIE_Q"}
  BY DEF IInv, TypeOK, Queue
<1>2. CASE UNCHANGED queueVars
  BY <1>2 DEF queueVars
<1>3. CASE Pick
  <2>1. \E u : sysq' = [sysq EXCEPT !["READY_Q"] = u]
    BY <1>3 DEF Pick
  <2> QED
    BY <1>1, <2>1
<1>4. ASSUME NEW q \in Proc, wait_q[q] \in Queue, MoveToReady(wait_q[q], q)
      PROVE  sysq'[que] = sysq[que]
             \/ (q # p /\ wait_q[q] = que /\ sysq'[que] = Unlink(sysq[que], q))
  <2>1. sysq'[que] = IF que = wait_q[q] THEN Unlink(sysq[que], q) ELSE sysq[que]
    BY <1>1, <1>4, MoveLists, ZenonT(60)
  <2>2. wait_q'[q] = "READY_Q"
    BY <1>4, MoveWaitQ
  <2> QED
    BY <1>1, <2>1, <2>2
<1>5. ASSUME NEW q \in Proc, Reap(q) \/ NewProcess(q)
      PROVE  sysq'[que] = sysq[que]
  <2>1. \E u : sysq' \in {[sysq EXCEPT !["READY_Q"] = u], [sysq EXCEPT !["ZOMBIE_Q"] = u]}
    BY <1>5 DEF Reap, NewProcess
  <2> QED
    BY <1>1, <2>1
<1> QED
  BY <1>2, <1>3, <1>4, <1>5, QueueCases

\* Such a step does not bring a walk past a sleeper.
LEMMA NotPassedKept ==
  ASSUME IInv, WalksOK, Next, ~SleepTest, NEW que \in {"WAIT_Q", "IO_Q"}, NEW p \in Proc,
         wait_q[p] = que, wait_q'[p] = que, NEW c, NotPassed(sysq[que], c, p)
  PROVE  NotPassed(sysq'[que], c, p)
<1> PICK s : s = sysq[que]
  OBVIOUS
<1>1. que \in Queue
  BY DEF Queue
<1>2. s \in Seq(Proc) /\ Distinct(s) /\ p \in Listed(s)
      /\ \A q \in Proc : wait_q[q] = que => q \in Listed(s)
  BY <1>1 DEF IInv, TypeOK, ListsOK
<1>3. ASSUME NEW q \in Proc, q # p, wait_q[q] = que PROVE NotPassed(Unlink(s, q), c, p)
  BY <1>2, <1>3, NotPassedUnlink
<1> QED
  BY <1>3, ListSteps

\* One turn of do_wake() does not pass a process that it ought to wake.
LEMMA WalkReaches ==
  ASSUME IInv, WalksOK, Next, ~SleepTest, NEW que \in {"WAIT_Q", "IO_Q"}, NEW p \in Proc,
         wait_q[p] = que, wait_q'[p] = que,
         NEW w \in Walks, w.que = que, w.cond = wait_cond[p], w.cur # NoProc, DoWake(w),
         NotPassed(sysq[que], w.cur, p)
  PROVE  /\ Ended(WalkStep(w)).que = que /\ Ended(WalkStep(w)).cond = w.cond
         /\ Ended(WalkStep(w)).cur # NoProc
         /\ NotPassed(sysq'[que], Ended(WalkStep(w)).cur, p)
<1> PICK s : s = sysq[que]
  OBVIOUS
<1> PICK n : n = WalkOn(w, w.cur)
  OBVIOUS
<1>1. que \in Queue /\ w.cur \in Proc /\ NoProc \notin Proc
  BY SchedAssumption DEF SchedAssumption, Queue, Walks
<1>2. s \in Seq(Proc) /\ Distinct(s) /\ p \in Listed(s)
      /\ \A q \in Proc : q \in Listed(s) <=> wait_q[q] = que
  BY <1>1 DEF IInv, TypeOK, ListsOK
<1>3. n # NoProc /\ NotPassed(s, n, p)
  <2>1. CASE wait_q[w.cur] # que
    <3>1. n = First(s)
      BY <2>1 DEF WalkOn
    <3> QED
      BY <1>1, <1>2, <3>1, NotPassedFirst
  <2>2. CASE wait_q[w.cur] = que
    <3>1. n = QNext(s, w.cur)
      BY <2>2 DEF WalkOn
    <3>2. w.cur # p
      <4>1. ASSUME w.cur = p PROVE FALSE
        <5>1. MoveToReady(que, p)
          BY <1>1, <2>2, <4>1 DEF DoWake
        <5> QED
          BY <5>1, MoveWaitQ
      <4> QED
        BY <4>1
    <3>3. w.cur \in Listed(s)
      BY <1>1, <1>2, <2>2
    <3> QED
      BY <1>1, <1>2, <3>1, <3>2, <3>3, NotPassedNext
  <2> QED
    BY <2>1, <2>2
<1>4. NotPassed(sysq'[que], n, p)
  BY <1>3, NotPassedKept
<1>5. WalkStep(w).que = w.que /\ WalkStep(w).cond = w.cond /\ WalkStep(w).cur = n
  BY DEF WalkStep, Walks
<1>6. Ended(WalkStep(w)) = WalkStep(w)
  BY <1>3, <1>5 DEF Ended
<1> QED
  BY <1>4, <1>5, <1>6, <1>3

\* The steps that produce an event.
LEMMA EvtSteps ==
  ASSUME IInv, Next
  PROVE  /\ \A c \in SyncCond : evt'[c] => evt[c] \/ Post(c)
         /\ \A d \in DevCond : evt'[d] => evt[d] \/ DevIntr(d)
<1>1. evt \in [SyncCond \cup DevCond -> BOOLEAN] /\ SyncCond \cap DevCond = {}
  BY SchedAssumption DEF SchedAssumption, IInv, TypeOK
<1>2. CASE UNCHANGED evt
  BY <1>2
<1>3. ASSUME NEW c \in SyncCond, Post(c)
      PROVE  \A x \in SyncCond \cup DevCond : x # c => evt'[x] = evt[x]
  BY <1>1, <1>3 DEF Post
<1>4. ASSUME NEW c \in SyncCond, Take(c)
      PROVE  \A x \in SyncCond \cup DevCond : evt'[x] => evt[x]
  BY <1>1, <1>4 DEF Take
<1>5. ASSUME NEW d \in DevCond, DevIntr(d)
      PROVE  \A x \in SyncCond \cup DevCond : x # d => evt'[x] = evt[x]
  BY <1>1, <1>5 DEF DevIntr
<1>6. ASSUME NEW d \in DevCond, DevLeave(d)
      PROVE  \A x \in SyncCond \cup DevCond : evt'[x] => evt[x]
  BY <1>1, <1>6 DEF DevLeave
<1> QED
  BY <1>1, <1>2, <1>3, <1>4, <1>5, <1>6, WakeSteps

\* wake(): it covers everybody who slept when it began, and sleepcond the process
\* that is about to.
LEMMA NextWaitReached ==
  ASSUME IInv, WalksOK, WakeInv, Next
  PROVE  WaitReached'
<1> SUFFICES ASSUME NEW p \in Proc, wait_q'[p] = "WAIT_Q", wait_cond'[p] \in SyncCond,
                    evt'[wait_cond'[p]]
             PROVE  /\ walk'.que = "WAIT_Q" /\ walk'.cond = wait_cond'[p] /\ walk'.cur # NoProc
                    /\ NotPassed(sysq'["WAIT_Q"], walk'.cur, p)
  BY DEF WaitReached
<1>1. walk \in Walks /\ "WAIT_Q" \in Queue /\ NoProc \notin Proc /\ NoWalk.que = "READY_Q"
      /\ NoCond \notin SyncCond
  BY SchedAssumption DEF SchedAssumption, IInv, TypeOK, Queue, NoWalk
<1>2. CASE SleepTest
  <2>1. walk = NoWalk /\ mode \in {"poll", "test"} /\ UNCHANGED evt
    BY <1>2 DEF SleepTest, Mainline, devVars
  <2>2. CASE wait_q[p] = "WAIT_Q"
    <3>1. wait_cond'[p] = wait_cond[p]
      BY <1>1, <2>2, CondKept
    <3> QED
      BY <1>1, <2>1, <2>2, <3>1 DEF WakeInv, WaitReached
  <2>3. CASE ~AlreadyWoken /\ call.que = "WAIT_Q" /\ wait_cond'[p] = call.cond
    <3>1. CallGood
      BY <2>1 DEF WakeInv, CallOK
    <3> QED
      BY <2>1, <2>3, <3>1 DEF CallGood, AlreadyWoken
  <2> QED
    BY <2>2, <2>3, Joins
<1>3. CASE ~SleepTest
  <2>1. wait_q[p] = "WAIT_Q"
    BY <1>3, Joins
  <2>2. wait_cond'[p] = wait_cond[p]
    BY <1>1, <2>1, CondKept
  <2>3. CASE Post(wait_cond[p])
    <3>1. /\ walk' = [que |-> "WAIT_Q", cond |-> wait_cond[p], cur |-> First(sysq["WAIT_Q"])]
          /\ sysq' = sysq
      BY <2>3 DEF Post, StartWake, queueVars
    <3>2. /\ sysq["WAIT_Q"] \in Seq(Proc) /\ Distinct(sysq["WAIT_Q"])
          /\ p \in Listed(sysq["WAIT_Q"])
      BY <1>1, <2>1 DEF IInv, TypeOK, ListsOK
    <3>3. /\ First(sysq["WAIT_Q"]) # NoProc
          /\ NotPassed(sysq["WAIT_Q"], First(sysq["WAIT_Q"]), p)
      BY <1>1, <3>2, NotPassedFirst
    <3> QED
      BY <2>2, <3>1, <3>3
  <2>4. CASE evt[wait_cond[p]]
    <3>1. /\ walk.que = "WAIT_Q" /\ walk.cond = wait_cond[p] /\ walk.cur # NoProc
          /\ NotPassed(sysq["WAIT_Q"], walk.cur, p)
      BY <2>1, <2>2, <2>4 DEF WakeInv, WaitReached
    <3>2. CASE walk' = walk
      BY <1>3, <2>1, <2>2, <3>1, <3>2, NotPassedKept
    <3>3. CASE Wake
      <4>1. DoWake(walk) /\ walk' = Ended(WalkStep(walk))
        BY <3>3 DEF Wake
      <4> QED
        BY <1>1, <1>3, <2>1, <2>2, <3>1, <4>1, WalkReaches
    <3>4. ~SleepQueued /\ \A c \in SyncCond : ~Post(c)
      BY <1>1, <3>1 DEF SleepQueued, Post, Mainline
    <3> QED
      BY <3>2, <3>3, <3>4, WalkSteps
  <2> QED
    BY <2>2, <2>3, <2>4, EvtSteps
<1> QED
  BY <1>2, <1>3

\* iwake(): it covers everybody who slept when it began, and iwakecond the process
\* that is about to.
LEMMA NextIOReached ==
  ASSUME IInv, WalksOK, WakeInv, Next, IOUsers'
  PROVE  IOReached'
<1> SUFFICES ASSUME NEW p \in Proc, wait_q'[p] = "IO_Q", evt'[wait_cond'[p]]
             PROVE  /\ intr'.que = "IO_Q" /\ intr'.cond = wait_cond'[p] /\ intr'.cur # NoProc
                    /\ NotPassed(sysq'["IO_Q"], intr'.cur, p)
  BY DEF IOReached
<1>1. intr \in Walks /\ "IO_Q" \in Queue /\ NoProc \notin Proc /\ NoWalk.que = "READY_Q"
      /\ NoCond \notin DevCond /\ wait_cond'[p] \in DevCond
  BY SchedAssumption DEF SchedAssumption, IInv, TypeOK, Queue, NoWalk, IOUsers
<1>2. CASE SleepTest
  <2>1. intr = NoWalk /\ mode \in {"poll", "test"} /\ UNCHANGED evt
    BY <1>2 DEF SleepTest, Mainline, devVars
  <2>2. CASE wait_q[p] = "IO_Q"
    <3>1. wait_cond'[p] = wait_cond[p]
      BY <1>1, <2>2, CondKept
    <3> QED
      BY <1>1, <2>1, <2>2, <3>1 DEF WakeInv, IOReached
  <2>3. CASE ~AlreadyWoken /\ call.que = "IO_Q" /\ wait_cond'[p] = call.cond
    <3>1. CallGood
      BY <2>1 DEF WakeInv, CallOK
    <3> QED
      BY <1>1, <2>1, <2>3, <3>1 DEF CallGood, AlreadyWoken
  <2> QED
    BY <2>2, <2>3, Joins
<1>3. CASE ~SleepTest
  <2>1. wait_q[p] = "IO_Q"
    BY <1>3, Joins
  <2>2. wait_cond'[p] = wait_cond[p]
    BY <1>1, <2>1, CondKept
  <2>3. CASE DevIntr(wait_cond[p])
    <3>1. iwakecond # wait_cond[p]
      BY <2>1 DEF WakeInv, IOUsers
    <3>2. /\ intr' = [que |-> "IO_Q", cond |-> wait_cond[p], cur |-> First(sysq["IO_Q"])]
          /\ sysq' = sysq
      BY <2>3, <3>1 DEF DevIntr, queueVars
    <3>3. /\ sysq["IO_Q"] \in Seq(Proc) /\ Distinct(sysq["IO_Q"])
          /\ p \in Listed(sysq["IO_Q"])
      BY <1>1, <2>1 DEF IInv, TypeOK, ListsOK
    <3>4. /\ First(sysq["IO_Q"]) # NoProc
          /\ NotPassed(sysq["IO_Q"], First(sysq["IO_Q"]), p)
      BY <1>1, <3>3, NotPassedFirst
    <3> QED
      BY <2>2, <3>2, <3>4
  <2>4. CASE evt[wait_cond[p]]
    <3>1. /\ intr.que = "IO_Q" /\ intr.cond = wait_cond[p] /\ intr.cur # NoProc
          /\ NotPassed(sysq["IO_Q"], intr.cur, p)
      BY <2>1, <2>4 DEF WakeInv, IOReached
    <3>2. CASE intr' = intr
      BY <1>3, <2>1, <2>2, <3>1, <3>2, NotPassedKept
    <3>3. CASE IntrWake
      <4>1. DoWake(intr) /\ intr' = Ended(WalkStep(intr))
        BY <3>3 DEF IntrWake
      <4> QED
        BY <1>1, <1>3, <2>1, <2>2, <3>1, <4>1, WalkReaches
    <3>4. \A d \in DevCond : ~DevIntr(d)
      BY <1>1, <3>1 DEF DevIntr
    <3> QED
      BY <3>2, <3>3, <3>4, WalkSteps
  <2> QED
    BY <1>1, <2>2, <2>3, <2>4, EvtSteps
<1> QED
  BY <1>2, <1>3

LEMMA NextWake ==
  ASSUME IInv, WalksOK, WakeInv, ~Shared, [Next]_vars
  PROVE  WakeInv'
<1>1. CASE UNCHANGED vars
  BY <1>1 DEF vars, WakeInv, Unborn, OneUser, CallOK, CallGood, Told, IOUsers, WaitReached, IOReached
<1>2. CASE Next
  BY <1>2, NextUnborn, NextOneUser, NextCall, NextTold, NextIOUsers, NextWaitReached,
     NextIOReached DEF WakeInv
<1> QED
  BY <1>1, <1>2

\* No process sleeps on an event that has happened, unless its wakeup is under way:
\* neither an interrupt between the test of the event and add_q(), nor a do_wake()
\* that loses its place because another handler moved the process it stood at, nor a
\* signal leaves a sleeper behind.  The idiom of the comment of iwake(), one pid for
\* each device, asks for one reader of a device at a time.
THEOREM NoSleeperForgotten == ~Shared => (Spec => []NoLostWakeup)
<1> SUFFICES ASSUME ~Shared PROVE Spec => []NoLostWakeup
  OBVIOUS
<1>1. WakeInv => NoLostWakeup
  BY DEF WakeInv, WaitReached, IOReached, Told, NoLostWakeup
<1> QED
  BY <1>1, InitIInv, NextIInv, InitWalks, NextWalks, InitWake, NextWake, PTL DEF Spec
=============================================================================
