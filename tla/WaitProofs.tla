----------------------------- MODULE WaitProofs -----------------------------
(***************************************************************************)
(* Proofs about death and waiting for every set of processes, whichever    *)
(* ignore SIGCHLD, and every mix of signals, tracing and resident          *)
(* processes.                                                              *)
(*                                                                         *)
(* That nobody sleeps over a death is not inductive by itself: terminate() *)
(* wakes the process that ppid names, so ppid must name a living process   *)
(* (FamilyAlive) until somebody was told (Cared), which needs a foster     *)
(* parent that never dies (RootUp); and the tracer depends on a SIGCHLD,   *)
(* which must not find it with its signals masked (HeldAwake).             *)
(***************************************************************************)
EXTENDS Wait, TLAPS

USE WaitAssumption

\* Process 0 never dies or stops, so that there is always a foster parent, and
\* it never sleeps in Pwaitpid().
RootUp == /\ wait_q[Root] \in {"READY_Q", "WAIT_Q"}
          /\ call[Root] = "user" /\ ~held[Root]

\* Only a process that is stopped, or just woken from that, has its signals
\* masked: one that sleeps in Pwaitpid() receives SIGCHLD.
HeldAwake == \A p \in Proc : held[p] => wait_q[p] # "WAIT_Q"

\* Every process has a parent until somebody was told of its death.
Cared == \A c \in Proc : Exists(c) /\ c # Root /\ (Alive(c) \/ ~known[c])
                           => ppid[c] \in Proc

IInv == /\ TypeOK /\ RootUp /\ HeldAwake /\ FamilyAlive /\ Cared
        /\ WaiterMissesNothing

-----------------------------------------------------------------------------

LEMMA InitIInv == Init => IInv
BY DEF Init, IInv, TypeOK, Queues, Sigs, Args, AnyChild, RootUp, HeldAwake,
       FamilyAlive, Cared, WaiterMissesNothing, Exists, Alive, Dead

\* Posting signals and waking processes keeps the types.
LEMMA PostType ==
  ASSUME TypeOK, NEW S, NEW W
  PROVE  /\ Pended(S) \in [Proc -> SUBSET Sigs]
         /\ MadeReady(W) \in [Proc -> Queues]
BY DEF TypeOK, Pended, MadeReady, Queues

LEMMA StopType ==
  ASSUME TypeOK, NEW p \in Proc, NEW s \in Sigs, Stop(p, s)
  PROVE  TypeOK'
<1> DEFINE par  == {q \in {ppid[p]} \cap Proc : q \notin NoCldStop}
           S    == IF ptracer[p] # Nobody THEN {<<ptracer[p], "CHLD">>}
                                          ELSE {<<q, "CHLD">> : q \in par}
           W    == IF ptracer[p] # Nobody THEN {} ELSE UNION {Waiter(q) : q \in par}
           mask == held[p] \/ ptracer[p] = Nobody
           left == sigpending[p] \ {s, "NULL"}
           down == left \cap (IF mask THEN Unmaskable ELSE Sigs) = {}
<1>1. /\ sigpending' = [Pended(S) EXCEPT ![p] = IF down THEN left ELSE left \ {"STOP"}]
      /\ wait_q' = [MadeReady(Roused(S) \cup W) EXCEPT ![p] = IF down THEN "STOP_Q" ELSE @]
      /\ held' = [held EXCEPT ![p] = IF down THEN mask ELSE @]
      /\ UNCHANGED <<ppid, ptracer, callVars, history>>
  BY Zenon DEF Stop
<1>2. /\ Pended(S) \in [Proc -> SUBSET Sigs]
      /\ MadeReady(Roused(S) \cup W) \in [Proc -> Queues]
  BY PostType
<1>3. left \subseteq Sigs /\ mask \in BOOLEAN /\ down \in BOOLEAN
  BY DEF TypeOK
<1> HIDE DEF par, S, W, mask, left, down
<1>4. sigpending' \in [Proc -> SUBSET Sigs]
  BY <1>1, <1>2, <1>3
<1>5. wait_q' \in [Proc -> Queues]
  BY <1>1, <1>2, <1>3 DEF Queues
<1>6. held' \in [Proc -> BOOLEAN]
  BY <1>1, <1>3 DEF TypeOK
<1> QED
  BY <1>1, <1>4, <1>5, <1>6 DEF TypeOK, callVars, history

LEMMA TerminateType ==
  ASSUME TypeOK, NEW p \in Proc, NEW que \in {"ZOMBIE_Q", "TSR_Q"}, Terminate(p, que)
  PROVE  TypeOK'
BY PostType DEF TypeOK, Terminate, Queues, Sigs, Args, AnyChild, Adopted, Untraced, history

LEMMA ReportType ==
  ASSUME TypeOK, NEW p \in Proc, NEW c \in Proc, Report(p, c),
         call' \in [Proc -> {"user", "pwaitpid", "signal"}], arg' \in [Proc -> Args]
  PROVE  TypeOK'
<1>1. CASE Stopped(c)
  BY <1>1 DEF TypeOK, Report, Queues, history
<1>2. CASE ~Stopped(c)
  <2>0. Buried(p, c)
    BY <1>2 DEF Report
  <2>a. wait_q' \in [Proc -> Queues]
    BY <2>0 DEF TypeOK, Buried, Queues
  <2>b. ParentAfter(p, c) \in Proc \cup {NoPid}
    BY DEF ParentAfter, TypeOK
  <2>c. ppid' \in [Proc -> Proc \cup {NoPid}]
    BY <2>0, <2>b DEF TypeOK, Buried
  <2>1. ptracer' \in [Proc -> Proc \cup {Nobody}]
    BY <2>0 DEF TypeOK, Buried
  <2>2. known' \in [Proc -> BOOLEAN] /\ told' \in [Proc -> SUBSET Proc] /\ twice' \subseteq Proc
    <3> DEFINE fr == Freed(p, c)
    <3>2. /\ known' = [known EXCEPT ![c] = ~fr]
          /\ told' = [told EXCEPT ![c] = IF fr THEN {} ELSE @ \cup {p}]
          /\ twice' = IF p \in told[c] THEN twice \cup {c} ELSE twice
      BY <1>2 DEF Report
    <3>3. fr \in BOOLEAN
      BY DEF Freed
    <3> HIDE DEF fr
    <3> QED
      BY <3>2, <3>3 DEF TypeOK
  <2> QED
    BY <1>2, <2>a, <2>c, <2>1, <2>2 DEF TypeOK, Report
<1> QED
  BY <1>1, <1>2

-----------------------------------------------------------------------------
(* The invariant, by kinds of steps                                        *)

\* The parts of the invariant other than the types.
Kin == RootUp /\ HeldAwake /\ FamilyAlive /\ Cared /\ WaiterMissesNothing

\* Steps that only wake processes up and end traces.
LEMMA WakingKeeps ==
  ASSUME IInv, TypeOK',
         \A x \in Proc : \/ wait_q'[x] = wait_q[x]
                         \/ Alive(x) /\ wait_q'[x] = "READY_Q",
         \A x \in Proc : ptracer'[x] \in {ptracer[x], Nobody},
         \A x \in Proc : held'[x] => held[x],
         UNCHANGED <<ppid, call, arg, known>>
  PROVE  Kin'
<1> USE DEF IInv, TypeOK, Exists, Alive, Dead
<1>1. RootUp' /\ HeldAwake'
  BY DEF RootUp, HeldAwake
<1>2. FamilyAlive'
  BY DEF FamilyAlive
<1>3. Cared'
  BY DEF Cared
<1>4. WaiterMissesNothing'
  BY DEF WaiterMissesNothing, Reportable, Family
<1> QED
  BY <1>1, <1>2, <1>3, <1>4 DEF Kin

\* post_sig() and wakeups do nothing else.
LEMMA MadeReadyWakes ==
  ASSUME NEW W, NEW x \in Proc
  PROVE  /\ MadeReady(W)[x] = wait_q[x] \/ (Alive(x) /\ MadeReady(W)[x] = "READY_Q")
         /\ x \in W /\ Alive(x) => MadeReady(W)[x] = "READY_Q"
BY DEF MadeReady

\* A process asleep in Pwaitpid() receives a SIGCHLD unless it ignores it.
LEMMA ChldRouses ==
  ASSUME IInv, NEW x \in Proc, NEW S, <<x, "CHLD">> \in S,
         wait_q[x] = "WAIT_Q", x \notin Ignoring
  PROVE  x \in Roused(S)
BY DEF IInv, HeldAwake, Roused, Unmasked, Dropped, Sigs, Alive, Exists, Dead

\* stop() of a process that runs.
LEMMA StopKeeps ==
  ASSUME IInv, NEW p \in Proc, p # Root, wait_q[p] = "READY_Q",
         NEW s \in Sigs, Stop(p, s), TypeOK'
  PROVE  Kin'
<1> DEFINE par  == {q \in {ppid[p]} \cap Proc : q \notin NoCldStop}
           S    == IF ptracer[p] # Nobody THEN {<<ptracer[p], "CHLD">>}
                                          ELSE {<<q, "CHLD">> : q \in par}
           W    == IF ptracer[p] # Nobody THEN {} ELSE UNION {Waiter(q) : q \in par}
           mask == held[p] \/ ptracer[p] = Nobody
           left == sigpending[p] \ {s, "NULL"}
           down == left \cap (IF mask THEN Unmaskable ELSE Sigs) = {}
           R    == Roused(S) \cup W
<1>1. /\ wait_q' = [MadeReady(R) EXCEPT ![p] = IF down THEN "STOP_Q" ELSE @]
      /\ held' = [held EXCEPT ![p] = IF down THEN mask ELSE @]
      /\ UNCHANGED <<ppid, ptracer, call, arg, known>>
  BY Zenon DEF Stop, callVars, history
<1>2. ASSUME NEW x \in Proc, ptracer[p] = x, wait_q[x] = "WAIT_Q", x \notin Ignoring
      PROVE  x \in R
  BY <1>2, ChldRouses, x # Nobody
<1>3. \A x \in Proc \ {p} : wait_q'[x] = wait_q[x] \/ (Alive(x) /\ wait_q'[x] = "READY_Q")
  BY <1>1, MadeReadyWakes
<1>4. wait_q'[p] \in {"READY_Q", "STOP_Q"}
  BY <1>1, MadeReadyWakes
<1>5. \A x \in Proc \ {p} : held'[x] = held[x]
  BY <1>1 DEF IInv, TypeOK
<1>6. \A x \in Proc : ptracer[p] = x /\ wait_q'[x] = "WAIT_Q" => x \in Ignoring
  <2> SUFFICES ASSUME NEW x \in Proc, ptracer[p] = x, wait_q'[x] = "WAIT_Q", x \notin Ignoring
               PROVE  FALSE
    OBVIOUS
  <2>1. x # p /\ wait_q[x] = "WAIT_Q"
    BY <1>3, <1>4
  <2>2. x \in R /\ Alive(x)
    BY <2>1, <1>2 DEF Alive, Exists, Dead
  <2> HIDE DEF R, down
  <2>3. MadeReady(R)[x] = "READY_Q"
    BY <2>2, MadeReadyWakes
  <2>4. wait_q'[x] = MadeReady(R)[x]
    BY <1>1, <2>1 DEF MadeReady
  <2> QED
    BY <2>3, <2>4
<1> HIDE DEF par, S, W, mask, left, down, R
<1>u. UNCHANGED <<ppid, ptracer, call, arg, known>>
  BY <1>1
<1> USE DEF IInv, TypeOK, Exists, Alive, Dead
<1>7. RootUp' /\ HeldAwake'
  BY <1>u, <1>3, <1>4, <1>5 DEF RootUp, HeldAwake
<1>8. FamilyAlive'
  BY <1>u, <1>3, <1>4 DEF FamilyAlive
<1>9. Cared'
  BY <1>u, <1>3, <1>4 DEF Cared
<1>10. WaiterMissesNothing'
  BY <1>u, <1>3, <1>4, <1>6 DEF WaiterMissesNothing, Reportable, Family
<1> QED
  BY <1>7, <1>8, <1>9, <1>10 DEF Kin

\* terminate() of a process that runs.
LEMMA TerminateKeeps ==
  ASSUME IInv, NEW p \in Proc, p # Root, wait_q[p] = "READY_Q",
         NEW que \in {"ZOMBIE_Q", "TSR_Q"}, Terminate(p, que), TypeOK'
  PROVE  Kin'
<1> DEFINE par == IF ppid[p] \in Proc THEN ppid[p] ELSE Root
           S   == {<<q, "CHLD">> : q \in {par} \cup ({ptracer[p]} \cap Proc)}
                    \cup {<<q, "TERM">> : q \in {t \in Proc : ptracer[t] = p}}
           R   == Roused(S) \cup Waiter(par) \cup WakeMint(p)
<1>1. /\ wait_q' = [MadeReady(R) EXCEPT ![p] = que]
      /\ ppid' = Adopted(p) /\ ptracer' = Untraced(p)
      /\ held' = [held EXCEPT ![p] = FALSE] /\ call' = [call EXCEPT ![p] = "user"]
      /\ arg' = [arg EXCEPT ![p] = AnyChild]
      /\ UNCHANGED known
  BY Zenon DEF Terminate, history
<1>2. par = ppid[p] /\ par \in Proc
  BY DEF IInv, Cared, Exists, Alive, Dead
<1>3. ASSUME NEW x \in Proc, ptracer[p] = x, wait_q[x] = "WAIT_Q", x \notin Ignoring
      PROVE  x \in R
  <2>1. <<x, "CHLD">> \in S
    BY <1>3
  <2> QED
    BY <1>3, <2>1, ChldRouses
<1>4. ASSUME NEW x \in Proc, ppid[p] = x, wait_q[x] = "WAIT_Q", call[x] = "pwaitpid"
      PROVE  x \in R
  BY <1>2, <1>4 DEF Waiter
<1> HIDE DEF par, S, R
<1>5. wait_q'[p] = que
  BY <1>1 DEF MadeReady
<1>6. \A x \in Proc \ {p} : wait_q'[x] = MadeReady(R)[x]
  BY <1>1 DEF MadeReady
<1>7. \A x \in Proc \ {p} : wait_q'[x] = wait_q[x] \/ (Alive(x) /\ wait_q'[x] = "READY_Q")
  BY <1>6, MadeReadyWakes
<1>8. ASSUME NEW x \in Proc \ {p}, wait_q'[x] = "WAIT_Q"
      PROVE  wait_q[x] = "WAIT_Q" /\ x \notin R
  BY <1>6, <1>7, <1>8, MadeReadyWakes DEF Alive, Exists, Dead
<1> USE DEF IInv, TypeOK, Exists, Alive, Dead
<1>9. /\ \A x \in Proc : ppid'[x] = IF ppid[x] = p /\ Exists(x) THEN Root ELSE ppid[x]
      /\ \A x \in Proc : ptracer'[x] = IF ptracer[x] = p THEN Nobody ELSE ptracer[x]
      /\ \A x \in Proc \ {p} : held'[x] = held[x] /\ call'[x] = call[x] /\ arg'[x] = arg[x]
      /\ held'[p] = FALSE
      /\ UNCHANGED known
  BY <1>1 DEF Adopted, Untraced
<1>10. RootUp' /\ HeldAwake'
  BY <1>7, <1>8, <1>9, <1>5 DEF RootUp, HeldAwake
<1>11. FamilyAlive'
  BY <1>5, <1>7, <1>9 DEF FamilyAlive, RootUp
<1>12. Cared'
  BY <1>5, <1>7, <1>9 DEF Cared
<1>13. WaiterMissesNothing'
  <2> SUFFICES ASSUME NEW x \in Proc, wait_q'[x] = "WAIT_Q", call'[x] = "pwaitpid",
                      NEW c \in Reportable(x, arg[x])'
               PROVE  /\ ~(Dead(c)' /\ ppid'[c] = x)
                      /\ ptracer'[c] = x => x \in Ignoring
    BY DEF WaiterMissesNothing
  <2>1. x # p /\ x # Root /\ wait_q[x] = "WAIT_Q" /\ x \notin R
          /\ call[x] = "pwaitpid" /\ arg'[x] = arg[x]
    BY <1>5, <1>8, <1>9 DEF RootUp
  <2>2. CASE c = p
    BY <2>1, <2>2, <1>3, <1>4, <1>9
  <2>3. CASE c # p
    <3>1. c \in Proc
      BY DEF Reportable, Family
    <3>2. wait_q'[c] = wait_q[c]
      BY <2>3, <3>1, <1>7 DEF Reportable, Family
    <3>3. (ppid'[c] = x => ppid[c] = x) /\ (ptracer'[c] = x => ptracer[c] = x)
            /\ (ptracer'[c] # Nobody => ptracer[c] # Nobody)
      BY <2>1, <1>9, <3>1
    <3>4. c \in Reportable(x, arg[x])
      BY <3>1, <3>2, <3>3, <2>1 DEF Reportable, Family
    <3> QED
      BY <2>1, <3>1, <3>2, <3>3, <3>4 DEF WaiterMissesNothing
  <2> QED
    BY <2>2, <2>3
<1> QED
  BY <1>10, <1>11, <1>12, <1>13 DEF Kin

\* pwaitpid() reports c to p, which is awake; p may leave its Pwaitpid().
LEMMA ReportKeeps ==
  ASSUME IInv, NEW p \in Proc, NEW a, NEW c \in Reportable(p, a), Report(p, c), TypeOK',
         \A x \in Proc : call'[x] \in {call[x], "user"},
         \A x \in Proc : call'[x] = "pwaitpid" => arg'[x] = arg[x]
  PROVE  Kin'
<1>1. c \in Proc /\ c # Root /\ (Dead(c) \/ wait_q[c] = "STOP_Q")
        /\ (ppid[c] = p \/ ptracer[c] = p)
  BY DEF Reportable, Family, IInv, RootUp, Dead
<1> USE DEF IInv, TypeOK, Exists, Alive, Dead
<1>2. CASE Stopped(c)
  <2>1. /\ wait_q' = [wait_q EXCEPT ![c] = "STOP_Q seen"]
        /\ UNCHANGED <<ppid, ptracer, held, known>>
    BY <1>2 DEF Report, history
  <2>2. RootUp' /\ HeldAwake'
    BY <1>1, <2>1 DEF RootUp, HeldAwake
  <2>3. FamilyAlive'
    <3>1. \A x \in Proc : (Exists(x)' <=> Exists(x)) /\ (Alive(x)' <=> Alive(x))
      BY <1>1, <1>2, <2>1 DEF Stopped
    <3> SUFFICES ASSUME NEW d \in Proc, Exists(d)'
                 PROVE  /\ ppid[d] = NoPid \/ Alive(ppid[d])'
                        /\ ptracer[d] = Nobody \/ Alive(ptracer[d])'
      BY <2>1 DEF FamilyAlive
    <3>2. /\ ppid[d] = NoPid \/ Alive(ppid[d])
          /\ ptracer[d] = Nobody \/ Alive(ptracer[d])
      BY <3>1 DEF FamilyAlive
    <3>3. ppid[d] \in Proc \cup {NoPid} /\ ptracer[d] \in Proc \cup {Nobody}
      OBVIOUS
    <3> QED
      BY <2>1, <3>1, <3>2, <3>3
  <2>4. Cared'
    BY <1>1, <1>2, <2>1 DEF Cared, Stopped
  <2>5. WaiterMissesNothing'
    <3> SUFFICES ASSUME NEW x \in Proc, wait_q'[x] = "WAIT_Q", call'[x] = "pwaitpid",
                        NEW d \in Reportable(x, arg[x])'
                 PROVE  /\ ~(Dead(d)' /\ ppid'[d] = x)
                        /\ ptracer'[d] = x => x \in Ignoring
      BY DEF WaiterMissesNothing
    <3>1. d \in Proc /\ d # c /\ x # c
      BY <1>1, <2>1 DEF Reportable, Family
    <3>2. wait_q[x] = "WAIT_Q" /\ call[x] = "pwaitpid" /\ arg'[x] = arg[x]
      BY <2>1, <3>1
    <3>3. wait_q'[d] = wait_q[d] /\ d \in Reportable(x, arg[x])
      BY <2>1, <3>1, <3>2 DEF Reportable, Family
    <3> QED
      BY <2>1, <3>1, <3>2, <3>3, ZenonT(60) DEF WaiterMissesNothing
  <2> QED
    BY <2>2, <2>3, <2>4, <2>5 DEF Kin
<1>3. CASE ~Stopped(c)
  <2>1. Dead(c) /\ Buried(p, c) /\ UNCHANGED held /\ known' = [known EXCEPT ![c] = ~Freed(p, c)]
    BY <1>1, <1>3 DEF Report, Stopped
  <2>2. /\ \A x \in Proc \ {c} : /\ wait_q'[x] = wait_q[x] /\ ppid'[x] = ppid[x]
                                 /\ ptracer'[x] = ptracer[x] /\ known'[x] = known[x]
        /\ wait_q'[c] \in {wait_q[c], "none"}
        /\ ppid'[c] \in {ppid[c], NoPid} /\ ptracer'[c] \in {ptracer[c], Nobody}
    BY <1>1, <2>1 DEF Buried, ParentAfter
  <2>k. wait_q'[c] # "none" => known'[c]
    <3>1. known'[c] = ~Freed(p, c)
      BY <1>1, <2>1
    <3>2. Freed(p, c) => wait_q'[c] = "none"
      BY <1>1, <2>1 DEF Buried
    <3> QED
      BY <3>1, <3>2
  <2>3. RootUp' /\ HeldAwake'
    BY <1>1, <2>1, <2>2 DEF RootUp, HeldAwake
  <2>4. FamilyAlive'
    BY <1>1, <2>1, <2>2 DEF FamilyAlive
  <2>5. Cared'
    BY <1>1, <2>1, <2>2, <2>k DEF Cared
  <2>6. WaiterMissesNothing'
    BY <1>1, <2>1, <2>2 DEF WaiterMissesNothing, Reportable, Family
  <2> QED
    BY <2>3, <2>4, <2>5, <2>6 DEF Kin
<1> QED
  BY <1>2, <1>3

\* A round of the loop of Pwaitpid() by a process that runs.
LEMMA ScanStep ==
  ASSUME IInv, NEW p \in Proc, NEW a \in Args, Scan(p, a),
         p # Root, wait_q[p] = "READY_Q", ~held[p]
  PROVE  IInv'
<1> USE DEF IInv
<1>1. CASE \E c \in Reportable(p, a) : Report(p, c) /\ Done(p)
  <2>1. PICK c \in Reportable(p, a) : Report(p, c) /\ Done(p)
    BY <1>1
  <2>2. c \in Proc /\ call' \in [Proc -> {"user", "pwaitpid", "signal"}] /\ arg' \in [Proc -> Args]
          /\ (\A x \in Proc : call'[x] \in {call[x], "user"})
          /\ (\A x \in Proc : call'[x] = "pwaitpid" => arg'[x] = arg[x])
    BY <2>1 DEF Done, TypeOK, Args, AnyChild, Reportable, Family
  <2>3. TypeOK'
    BY <2>1, <2>2, ReportType
  <2> QED
    BY <2>1, <2>2, <2>3, ReportKeeps DEF Kin
<1>2. CASE /\ Reportable(p, a) = {}
           /\ wait_q' = [wait_q EXCEPT ![p] = "WAIT_Q"]
           /\ call' = [call EXCEPT ![p] = "pwaitpid"]
           /\ arg' = [arg EXCEPT ![p] = a]
           /\ UNCHANGED <<ppid, ptracer, sigpending, held, history>>
  <2>1. TypeOK'
    BY <1>2 DEF TypeOK, Queues, history
  <2> USE DEF TypeOK, Exists, Alive, Dead, history
  <2>2. RootUp' /\ HeldAwake'
    BY <1>2 DEF RootUp, HeldAwake
  <2>3. FamilyAlive'
    BY <1>2 DEF FamilyAlive
  <2>4. Cared'
    BY <1>2 DEF Cared
  <2>5. WaiterMissesNothing'
    BY <1>2 DEF WaiterMissesNothing, Reportable, Family
  <2> QED
    BY <2>1, <2>2, <2>3, <2>4, <2>5
<1>3. CASE /\ Done(p)
           /\ UNCHANGED <<wait_q, ppid, ptracer, sigpending, held, history>>
  <2>1. TypeOK'
    BY <1>3 DEF TypeOK, Done, Args, AnyChild, history
  <2> USE DEF TypeOK, Exists, Alive, Dead, history, Done
  <2>2. RootUp' /\ HeldAwake'
    BY <1>3 DEF RootUp, HeldAwake
  <2>3. FamilyAlive' /\ Cared'
    BY <1>3 DEF FamilyAlive, Cared
  <2>5. WaiterMissesNothing'
    BY <1>3 DEF WaiterMissesNothing, Reportable, Family
  <2> QED
    BY <2>1, <2>2, <2>3, <2>5
<1>4. CASE /\ UNCHANGED wait_q
           /\ call' = [call EXCEPT ![p] = "signal"]
           /\ arg' = [arg EXCEPT ![p] = a]
           /\ UNCHANGED <<ppid, ptracer, sigpending, held, history>>
  <2>1. TypeOK'
    BY <1>4 DEF TypeOK, Queues, history
  <2> USE DEF TypeOK, Exists, Alive, Dead, history
  <2>2. RootUp' /\ HeldAwake'
    BY <1>4 DEF RootUp, HeldAwake
  <2>3. FamilyAlive'
    BY <1>4 DEF FamilyAlive
  <2>4. Cared'
    BY <1>4 DEF Cared
  <2>5. WaiterMissesNothing'
    BY <1>4 DEF WaiterMissesNothing, Reportable, Family
  <2> QED
    BY <2>1, <2>2, <2>3, <2>4, <2>5
<1> QED
  BY <1>1, <1>2, <1>3, <1>4 DEF Scan

-----------------------------------------------------------------------------
(* The invariant, action by action                                         *)

LEMMA CheckSigsStep == ASSUME IInv, NEW p \in Proc, CheckSigs(p) PROVE IInv'
<1> USE DEF IInv
<1>1. p # Root /\ wait_q[p] = "READY_Q"
  BY DEF CheckSigs
<1>2. \/ Terminate(p, "ZOMBIE_Q")
      \/ \E s \in Sigs : Stop(p, s)
      \/ \E s : /\ sigpending' = [sigpending EXCEPT ![p] = @ \ s]
               /\ UNCHANGED <<wait_q, ppid, ptracer, held, callVars, history>>
  <2>1. PICK s \in Visible(p) :
          Stop(p, s) \/ \E done : HandleSig(p, s, done)
    BY DEF CheckSigs
  <2>2. s \in Sigs /\ "STOP" \in Sigs
    BY <2>1 DEF Visible, Unmasked, Unmaskable, Sigs
  <2> QED
    BY <2>1, <2>2 DEF HandleSig
<1>3. CASE Terminate(p, "ZOMBIE_Q")
  BY <1>1, <1>3, TerminateType, TerminateKeeps DEF Kin
<1>4. ASSUME NEW s \in Sigs, Stop(p, s) PROVE IInv'
  BY <1>1, <1>4, StopType, StopKeeps DEF Kin
<1>5. ASSUME NEW s, sigpending' = [sigpending EXCEPT ![p] = @ \ s],
             UNCHANGED <<wait_q, ppid, ptracer, held, callVars, history>>
      PROVE  IInv'
  <2>1. TypeOK'
    BY <1>5 DEF TypeOK, callVars, history
  <2>2. Kin'
    BY <1>5, <2>1, WakingKeeps DEF TypeOK, callVars, history
  <2> QED
    BY <2>1, <2>2 DEF Kin
<1> QED
  BY <1>2, <1>3, <1>4, <1>5

LEMMA ResumeStep == ASSUME IInv, NEW p \in Proc, Resume(p) PROVE IInv'
<1> USE DEF IInv
<1>1. TypeOK'
  BY DEF TypeOK, Resume, callVars, history
<1>2. Kin'
  BY <1>1, WakingKeeps DEF Resume, TypeOK, callVars, history
<1> QED
  BY <1>1, <1>2 DEF Kin

LEMMA KillStep == ASSUME IInv, NEW p \in Proc, NEW q \in Proc, Kill(p, q) PROVE IInv'
<1> USE DEF IInv
<1>1. PICK S, W : Post(S, W) /\ UNCHANGED <<ppid, ptracer, held, callVars, history>>
  BY DEF Kill
<1>2. TypeOK'
  BY <1>1, PostType DEF TypeOK, Post, callVars, history
<1>3. Kin'
  BY <1>1, <1>2, WakingKeeps, MadeReadyWakes DEF Post, TypeOK, callVars, history
<1> QED
  BY <1>2, <1>3 DEF Kin

LEMMA ExitStep ==
  ASSUME IInv, NEW p \in Proc, Exit(p) \/ TermRes(p) PROVE IInv'
<1>1. PICK que \in {"ZOMBIE_Q", "TSR_Q"} : Terminate(p, que)
  BY DEF Exit, TermRes
<1>2. p # Root /\ wait_q[p] = "READY_Q"
  BY DEF Exit, TermRes, AtUser, Runs
<1> QED
  BY <1>1, <1>2, TerminateType, TerminateKeeps DEF Kin, IInv

LEMMA ForkStep == ASSUME IInv, NEW p \in Proc, NEW c \in Proc, Fork(p, c) PROVE IInv'
<1> USE DEF IInv
<1>1. TypeOK'
  BY DEF TypeOK, Fork, callVars, Queues
<1>2. /\ p # c /\ p # Root /\ wait_q[p] = "READY_Q" /\ wait_q[c] = "none"
      /\ \A x \in Proc \ {c} : /\ wait_q'[x] = wait_q[x] /\ ppid'[x] = ppid[x]
                               /\ ptracer'[x] = ptracer[x]
      /\ wait_q'[c] = "READY_Q" /\ ppid'[c] = p /\ ptracer'[c] = Nobody
      /\ UNCHANGED <<held, call, arg, known>>
  BY DEF Fork, AtUser, Runs, Exists, TypeOK, callVars
<1> USE DEF TypeOK, Exists, Alive, Dead
<1>3. RootUp' /\ HeldAwake'
  BY <1>2 DEF RootUp, HeldAwake
<1>4. FamilyAlive'
  BY <1>2 DEF FamilyAlive
<1>5. Cared'
  BY <1>2 DEF Cared
<1>6. WaiterMissesNothing'
  BY <1>2 DEF WaiterMissesNothing, Reportable, Family
<1> QED
  BY <1>1, <1>3, <1>4, <1>5, <1>6

LEMMA WaitSteps ==
  ASSUME IInv, NEW p \in Proc,
         WaitAgain(p) \/ (\E a \in Args : Pwaitpid(p, a)) \/ Pwait3(p)
  PROVE  IInv'
<1>1. CASE WaitAgain(p)
  BY <1>1, ScanStep DEF WaitAgain, IInv, TypeOK
<1>2. CASE \E a \in Args : Pwaitpid(p, a)
  BY <1>2, ScanStep DEF Pwaitpid, AtUser, Runs
<1>3. CASE Pwait3(p)
  <2>1. PICK c \in Reportable(p, AnyChild) : Report(p, c) /\ UNCHANGED callVars
    BY <1>3 DEF Pwait3
  <2>2. c \in Proc /\ call' = call /\ arg' = arg
    BY <2>1 DEF Reportable, Family, callVars
  <2>3. TypeOK'
    BY <2>1, <2>2, ReportType DEF IInv, TypeOK
  <2> QED
    BY <2>1, <2>2, <2>3, ReportKeeps DEF Kin, IInv
<1> QED
  BY <1>1, <1>2, <1>3

LEMMA RootSteps == ASSUME IInv, RootReap \/ RootSleep PROVE IInv'
<1>1. CASE RootReap
  <2>1. PICK c \in Reportable(Root, AnyChild) : Report(Root, c) /\ UNCHANGED callVars
    BY <1>1 DEF RootReap
  <2>2. c \in Proc /\ call' = call /\ arg' = arg
    BY <2>1 DEF Reportable, Family, callVars
  <2>3. TypeOK'
    BY <2>1, <2>2, ReportType DEF IInv, TypeOK
  <2> QED
    BY <2>1, <2>2, <2>3, ReportKeeps DEF Kin, IInv
<1>2. CASE RootSleep
  <2> USE DEF IInv, TypeOK, RootSleep, callVars, history, Exists, Alive, Dead
  <2>1. TypeOK'
    BY <1>2 DEF Queues
  <2>2. RootUp' /\ HeldAwake'
    BY <1>2 DEF RootUp, HeldAwake
  <2>3. FamilyAlive'
    BY <1>2 DEF FamilyAlive
  <2>4. Cared'
    BY <1>2 DEF Cared
  <2>5. WaiterMissesNothing'
    BY <1>2 DEF WaiterMissesNothing, Reportable, Family, RootUp
  <2> QED
    BY <2>1, <2>2, <2>3, <2>4, <2>5
<1> QED
  BY <1>1, <1>2

LEMMA AttachStep == ASSUME IInv, NEW p \in Proc, NEW t \in Proc, Attach(p, t) PROVE IInv'
<1> USE DEF IInv
<1>1. /\ t # p /\ wait_q[p] = "READY_Q"
      /\ ptracer' = [ptracer EXCEPT ![t] = p] /\ told' = [told EXCEPT ![t] = @ \ {p}]
      /\ UNCHANGED <<ppid, held, callVars, known, twice>>
      /\ UNCHANGED <<sigpending, wait_q>> \/ Post({<<t, "STOP">>}, {})
  BY DEF Attach, AtUser, Runs
<1>2. /\ sigpending' \in [Proc -> SUBSET Sigs] /\ wait_q' \in [Proc -> Queues]
      /\ \A x \in Proc : wait_q'[x] = wait_q[x] \/ (Alive(x) /\ wait_q'[x] = "READY_Q")
  BY <1>1, PostType, MadeReadyWakes DEF Post, TypeOK
<1>3. TypeOK'
  BY <1>1, <1>2 DEF TypeOK, callVars
<1>4. wait_q'[p] = "READY_Q"
  BY <1>1, <1>2
<1> USE DEF TypeOK, Exists, Alive, Dead, callVars
<1>5. RootUp' /\ HeldAwake'
  BY <1>1, <1>2 DEF RootUp, HeldAwake
<1>6. FamilyAlive'
  BY <1>1, <1>2, <1>4 DEF FamilyAlive
<1>7. Cared'
  BY <1>1, <1>2 DEF Cared
<1>8. WaiterMissesNothing'
  BY <1>1, <1>2, <1>4 DEF WaiterMissesNothing, Reportable, Family
<1> QED
  BY <1>3, <1>5, <1>6, <1>7, <1>8

LEMMA TraceMeStep == ASSUME IInv, NEW p \in Proc, TraceMe(p) PROVE IInv'
<1> USE DEF IInv, TypeOK, Exists, Alive, Dead, TraceMe, callVars, history
<1>1. TypeOK'
  OBVIOUS
<1>2. wait_q[p] = "READY_Q"
  BY DEF AtUser, Runs
<1>3. RootUp' /\ HeldAwake'
  BY DEF RootUp, HeldAwake
<1>4. FamilyAlive'
  BY <1>2 DEF FamilyAlive
<1>5. Cared'
  BY DEF Cared
<1>6. WaiterMissesNothing'
  BY <1>2 DEF WaiterMissesNothing, Reportable, Family
<1> QED
  BY <1>1, <1>3, <1>4, <1>5, <1>6

LEMMA TracerSteps ==
  ASSUME IInv, NEW p \in Proc, NEW t \in Proc, Continue(p, t) \/ LetGo(p, t)
  PROVE  IInv'
<1> USE DEF IInv
<1>1. /\ \/ \E S, W : \/ wait_q' = MadeReady({t})
                      \/ Post(S, W)
         \/ wait_q' = wait_q
      /\ \/ Post({<<t, "KILL">>}, {})
         \/ sigpending' = sigpending
         \/ \E s \in SUBSET Sigs : sigpending' = [sigpending EXCEPT ![t] = s]
      /\ \A x \in Proc : ptracer'[x] \in {ptracer[x], Nobody}
      /\ ptracer' \in [Proc -> Proc \cup {Nobody}]
      /\ UNCHANGED <<ppid, held, callVars, history>>
  <2>1. CASE Continue(p, t)
    <3>1. PICK s \in {{}, {"TERM", "NULL"}} : sigpending' = [sigpending EXCEPT ![t] = s]
      BY <2>1 DEF Continue
    <3>2. s \in SUBSET Sigs
      BY DEF Sigs
    <3> QED
      BY <2>1, <3>1, <3>2 DEF Continue, TypeOK
  <2>2. CASE LetGo(p, t)
    <3>1. (sigpending[t] \ {"STOP"}) \cup {"CONT"} \in SUBSET Sigs
      BY DEF TypeOK, Sigs
    <3>2. \/ /\ sigpending' = [sigpending EXCEPT ![t] = (@ \ {"STOP"}) \cup {"CONT"}]
             /\ wait_q' = MadeReady({t})
          \/ sigpending' = sigpending /\ wait_q' = wait_q
          \/ Post({<<t, "KILL">>}, {})
      BY <2>2, Zenon DEF LetGo
    <3> QED
      BY <2>2, <3>1, <3>2 DEF LetGo, TypeOK
  <2> QED
    BY <2>1, <2>2
<1>2. /\ wait_q' \in [Proc -> Queues]
      /\ \A x \in Proc : wait_q'[x] = wait_q[x] \/ (Alive(x) /\ wait_q'[x] = "READY_Q")
  <2>1. CASE wait_q' = wait_q
    BY <2>1 DEF TypeOK
  <2>2. CASE \E S, W : wait_q' = MadeReady({t}) \/ Post(S, W)
    BY <2>2, PostType, MadeReadyWakes DEF Post
  <2> QED
    BY <1>1, <2>1, <2>2, Zenon
<1>3. sigpending' \in [Proc -> SUBSET Sigs]
  BY <1>1, PostType DEF Post, TypeOK
<1>4. TypeOK'
  BY <1>1, <1>2, <1>3 DEF TypeOK, callVars, history
<1>5. Kin'
  BY <1>1, <1>2, <1>4, WakingKeeps DEF callVars, history
<1> QED
  BY <1>4, <1>5 DEF Kin

LEMMA NextIInv == ASSUME IInv, [Next]_vars PROVE IInv'
<1>1. CASE UNCHANGED vars
  BY <1>1 DEF IInv, vars, TypeOK, RootUp, HeldAwake, FamilyAlive, Cared,
              WaiterMissesNothing, Reportable, Family, Exists, Alive, Dead
<1>2. CASE RootReap \/ RootSleep
  BY <1>2, RootSteps
<1>3. ASSUME NEW p \in Proc,
             CheckSigs(p) \/ Resume(p) \/ Exit(p) \/ TermRes(p) \/ WaitAgain(p)
               \/ Pwait3(p) \/ TraceMe(p) \/ \E a \in Waits : Pwaitpid(p, a)
      PROVE  IInv'
  <2>1. Waits \subseteq Args
    BY DEF Args
  <2> QED
    BY <1>3, <2>1, CheckSigsStep, ResumeStep, ExitStep, WaitSteps, TraceMeStep
<1>4. ASSUME NEW p \in Proc, NEW q \in Proc,
             Kill(p, q) \/ Fork(p, q) \/ Attach(p, q) \/ Continue(p, q) \/ LetGo(p, q)
      PROVE  IInv'
  BY <1>4, KillStep, ForkStep, AttachStep, TracerSteps
<1> QED
  BY <1>1, <1>2, <1>3, <1>4 DEF Next

-----------------------------------------------------------------------------
(* How often a death is told                                               *)

\* Process 0 traces nobody but its own children, by Ptrace(PT_TRACE_ME).
RootTraces ==
  \A c \in Proc : Exists(c) /\ wait_q[c] # "TSR_Q" /\ ptracer[c] = Root => ppid[c] = Root

\* Who was told of the death of a zombie is neither its parent nor its tracer any
\* more; process 0, the foster parent, is told last of all parents.
ToldOnce ==
  \A c \in Proc :
    /\ ~Dead(c) => told[c] = {}
    /\ wait_q[c] = "ZOMBIE_Q" =>
         \A p \in told[c] : ppid[c] # p /\ ptracer[c] # p /\ (p = Root => ppid[c] = NoPid)

Once == RootTraces /\ ToldOnce /\ NotToldTwice

Living == {"READY_Q", "WAIT_Q", "STOP_Q", "STOP_Q seen"}

\* Steps that move living processes between queues, and end traces.
LEMMA MovesOnce ==
  ASSUME IInv, Once,
         \A x \in Proc : wait_q'[x] = wait_q[x] \/ (Alive(x) /\ wait_q'[x] \in Living),
         \A x \in Proc : ptracer'[x] \in {ptracer[x], Nobody},
         UNCHANGED <<ppid, told, twice>>
  PROVE  Once'
<1>1. \A x \in Proc : /\ Exists(x)' <=> Exists(x)
                      /\ Dead(x)' <=> Dead(x)
                      /\ wait_q'[x] = "TSR_Q" <=> wait_q[x] = "TSR_Q"
                      /\ wait_q'[x] = "ZOMBIE_Q" <=> wait_q[x] = "ZOMBIE_Q"
  BY DEF Exists, Dead, Alive, Living
<1>2. RootTraces'
  BY <1>1 DEF Once, RootTraces
<1>3. ToldOnce'
  BY <1>1 DEF Once, ToldOnce, IInv, TypeOK
<1>4. NotToldTwice'
  BY <1>1 DEF Once, NotToldTwice, IInv, TypeOK
<1> QED
  BY <1>2, <1>3, <1>4 DEF Once

LEMMA StopOnce ==
  ASSUME IInv, Once, NEW p \in Proc, wait_q[p] = "READY_Q", NEW s \in Sigs, Stop(p, s)
  PROVE  Once'
<1>1. PICK R, down : wait_q' = [MadeReady(R) EXCEPT ![p] = IF down THEN "STOP_Q" ELSE @]
  BY Zenon DEF Stop
<1>2. UNCHANGED <<ppid, ptracer, told, twice>>
  BY DEF Stop, history
<1>3. \A x \in Proc : wait_q'[x] = wait_q[x] \/ (Alive(x) /\ wait_q'[x] \in Living)
  <2> TAKE x \in Proc
  <2>1. MadeReady(R)[x] = wait_q[x] \/ (Alive(x) /\ MadeReady(R)[x] = "READY_Q")
    BY MadeReadyWakes
  <2>2. CASE x = p
    BY <1>1, <2>1, <2>2 DEF MadeReady, Alive, Exists, Dead, Living
  <2>3. CASE x # p
    BY <1>1, <2>1, <2>3 DEF MadeReady, Living
  <2> QED
    BY <2>2, <2>3
<1> QED
  BY <1>2, <1>3, MovesOnce

LEMMA TerminateOnce ==
  ASSUME IInv, Once, NEW p \in Proc, p # Root, wait_q[p] = "READY_Q",
         NEW que \in {"ZOMBIE_Q", "TSR_Q"}, Terminate(p, que)
  PROVE  Once'
<1>1. PICK R : wait_q' = [MadeReady(R) EXCEPT ![p] = que]
  BY Zenon DEF Terminate
<1>2. ppid' = Adopted(p) /\ ptracer' = Untraced(p) /\ UNCHANGED <<told, twice>>
  BY DEF Terminate, history
<1>3. wait_q'[p] = que
  BY <1>1 DEF MadeReady
<1>4. \A x \in Proc \ {p} : wait_q'[x] = wait_q[x] \/ (Alive(x) /\ wait_q'[x] = "READY_Q")
  <2> TAKE x \in Proc \ {p}
  <2> QED
    BY <1>1, MadeReadyWakes DEF MadeReady
<1>5. /\ \A x \in Proc : ppid'[x] = IF ppid[x] = p /\ Exists(x) THEN Root ELSE ppid[x]
      /\ \A x \in Proc : ptracer'[x] = IF ptracer[x] = p THEN Nobody ELSE ptracer[x]
  BY <1>2 DEF Adopted, Untraced
<1>6. told[p] = {} /\ p \notin twice
  BY DEF Once, ToldOnce, NotToldTwice, Dead
<1>7. \A x \in Proc \ {p} : /\ Exists(x)' <=> Exists(x)
                            /\ Dead(x)' <=> Dead(x)
                            /\ wait_q'[x] = "TSR_Q" <=> wait_q[x] = "TSR_Q"
                            /\ wait_q'[x] = "ZOMBIE_Q" <=> wait_q[x] = "ZOMBIE_Q"
  BY <1>4 DEF Exists, Dead, Alive
<1>8. RootTraces'
  BY <1>5, <1>7 DEF Once, RootTraces, Exists
<1>9. ToldOnce'
  <2> SUFFICES ASSUME NEW c \in Proc
               PROVE  /\ ~Dead(c)' => told[c] = {}
                      /\ wait_q'[c] = "ZOMBIE_Q" =>
                           \A q \in told[c] : /\ ppid'[c] # q /\ ptracer'[c] # q
                                              /\ q = Root => ppid'[c] = NoPid
    BY <1>2 DEF ToldOnce
  <2>1. CASE c = p
    BY <1>6, <2>1
  <2>2. CASE c # p
    <3>1. /\ ~Dead(c)' => told[c] = {}
          /\ wait_q'[c] = "ZOMBIE_Q" =>
               \A q \in told[c] : /\ ppid[c] # q /\ ptracer[c] # q
                                  /\ q = Root => ppid[c] = NoPid
      BY <1>7, <2>2 DEF Once, ToldOnce
    <3>2. told[c] \subseteq Proc
      BY DEF IInv, TypeOK
    <3> QED
      BY <1>5, <3>1, <3>2
  <2> QED
    BY <2>1, <2>2
<1>10. NotToldTwice'
  BY <1>2, <1>6, <1>7 DEF Once, NotToldTwice, IInv, TypeOK
<1> QED
  BY <1>8, <1>9, <1>10 DEF Once

\* pwaitpid() reports c to p: the first of parent and tracer is out of the way after
\* that, the second frees the zombie.
LEMMA ReportOnce ==
  ASSUME IInv, Once, NEW p \in Proc, NEW a, NEW c \in Reportable(p, a), Report(p, c)
  PROVE  Once'
<1>1. c \in Proc /\ (Dead(c) \/ wait_q[c] = "STOP_Q") /\ (ppid[c] = p \/ ptracer[c] = p)
  BY DEF Reportable, Family
<1>2. CASE Stopped(c)
  <2>1. wait_q' = [wait_q EXCEPT ![c] = "STOP_Q seen"] /\ UNCHANGED <<ppid, ptracer, told, twice>>
    BY <1>2 DEF Report, history
  <2>2. \A x \in Proc : wait_q'[x] = wait_q[x] \/ (Alive(x) /\ wait_q'[x] \in Living)
    BY <1>2, <2>1 DEF IInv, TypeOK, Stopped, Alive, Exists, Dead, Living
  <2> QED
    BY <2>1, <2>2, MovesOnce
<1>3. CASE ~Stopped(c)
  <2>1. /\ Dead(c) /\ Buried(p, c)
        /\ told' = [told EXCEPT ![c] = IF Freed(p, c) THEN {} ELSE @ \cup {p}]
        /\ twice' = IF p \in told[c] THEN twice \cup {c} ELSE twice
    BY <1>1, <1>3 DEF Report, Stopped
  <2> USE DEF IInv, TypeOK
  <2>2. /\ \A x \in Proc \ {c} : /\ wait_q'[x] = wait_q[x] /\ ppid'[x] = ppid[x]
                                 /\ ptracer'[x] = ptracer[x] /\ told'[x] = told[x]
        /\ ppid'[c] = ParentAfter(p, c)
        /\ ptracer'[c] = IF ptracer[c] = p /\ p # ppid[c] THEN Nobody ELSE ptracer[c]
    BY <1>1, <2>1 DEF Buried
  <2>3. CASE wait_q[c] = "TSR_Q"
    <3>1. ~Freed(p, c)
      BY <2>3 DEF Freed
    <3>2. wait_q'[c] = "TSR_Q"
      BY <1>1, <2>1, <2>3, <3>1 DEF Buried
    <3>3. RootTraces'
      BY <2>2, <3>2 DEF Once, RootTraces, Exists
    <3>4. ToldOnce'
      BY <2>2, <3>2 DEF Once, ToldOnce, Dead
    <3>5. NotToldTwice'
      BY <2>1, <2>2, <3>2 DEF Once, NotToldTwice
    <3> QED
      BY <3>3, <3>4, <3>5 DEF Once
  <2>4. CASE wait_q[c] = "ZOMBIE_Q"
    <3>1. p \notin told[c] /\ c \notin twice
      BY <1>1, <2>4 DEF Once, ToldOnce, NotToldTwice
    <3>2. NotToldTwice'
      BY <2>1, <2>2, <3>1 DEF Once, NotToldTwice
    <3>3. CASE Freed(p, c)
      <4>1. wait_q'[c] = "none" /\ told'[c] = {}
        BY <1>1, <2>1, <3>3 DEF Buried
      <4>2. RootTraces'
        BY <2>2, <4>1 DEF Once, RootTraces, Exists
      <4>3. ToldOnce'
        BY <2>2, <4>1 DEF Once, ToldOnce, Dead
      <4> QED
        BY <3>2, <4>2, <4>3 DEF Once
    <3>4. CASE ~Freed(p, c)
      <4>1. wait_q'[c] = "ZOMBIE_Q" /\ told'[c] = told[c] \cup {p}
        BY <1>1, <2>1, <2>4, <3>4 DEF Buried
      <4>2. Shared(p, c)
        BY <2>4, <3>4 DEF Freed
      <4>3. ptracer[c] # Nobody /\ ptracer[c] # ppid[c] /\ ptracer[c] # Root
        BY <1>1, <2>4, <4>2 DEF Shared, Once, RootTraces, Exists
      <4>4. \/ p = ptracer[c] /\ ppid'[c] = ppid[c] /\ ptracer'[c] = Nobody
            \/ p = ppid[c] /\ ppid'[c] = NoPid /\ ptracer'[c] = ptracer[c]
        BY <1>1, <2>2, <4>2, <4>3 DEF ParentAfter
      <4>5. RootTraces'
        BY <2>2, <4>3, <4>4 DEF Once, RootTraces, Exists
      <4>6. \A q \in told'[c] : /\ ppid'[c] # q /\ ptracer'[c] # q
                                /\ q = Root => ppid'[c] = NoPid
        <5> TAKE q \in told'[c]
        <5>1. q \in Proc
          BY <1>1, <4>1
        <5>2. CASE q = p
          BY <4>3, <4>4, <5>1, <5>2
        <5>3. CASE q # p
          <6>1. ppid[c] # q /\ ptracer[c] # q /\ (q = Root => ppid[c] = NoPid)
            BY <1>1, <2>4, <4>1, <5>3 DEF Once, ToldOnce
          <6> QED
            BY <4>4, <5>1, <6>1
        <5> QED
          BY <5>2, <5>3
      <4>7. ToldOnce'
        BY <2>2, <4>1, <4>6 DEF Once, ToldOnce, Dead
      <4> QED
        BY <3>2, <4>5, <4>7 DEF Once
    <3> QED
      BY <3>3, <3>4
  <2> QED
    BY <2>1, <2>3, <2>4 DEF Dead
<1> QED
  BY <1>2, <1>3

LEMMA ScanOnce ==
  ASSUME IInv, Once, NEW p \in Proc, NEW a \in Args, Scan(p, a), wait_q[p] = "READY_Q"
  PROVE  Once'
<1>1. CASE \E c \in Reportable(p, a) : Report(p, c) /\ Done(p)
  BY <1>1, ReportOnce
<1>2. CASE /\ \/ wait_q' = [wait_q EXCEPT ![p] = "WAIT_Q"]
              \/ UNCHANGED wait_q
           /\ UNCHANGED <<ppid, ptracer, history>>
  <2>1. \A x \in Proc : wait_q'[x] = wait_q[x] \/ (Alive(x) /\ wait_q'[x] \in Living)
    BY <1>2 DEF IInv, TypeOK, Alive, Exists, Dead, Living
  <2> QED
    BY <1>2, <2>1, MovesOnce DEF history
<1> QED
  BY <1>1, <1>2 DEF Scan

LEMMA ForkOnce ==
  ASSUME IInv, Once, NEW p \in Proc, NEW c \in Proc, Fork(p, c)
  PROVE  Once'
<1> USE DEF IInv, TypeOK
<1>1. /\ wait_q[c] = "none" /\ wait_q'[c] = "READY_Q" /\ ptracer'[c] = Nobody
      /\ \A x \in Proc \ {c} : /\ wait_q'[x] = wait_q[x] /\ ppid'[x] = ppid[x]
                               /\ ptracer'[x] = ptracer[x]
      /\ twice' = twice \ {c} /\ told' = told
  BY DEF Fork, Exists
<1>2. RootTraces'
  BY <1>1 DEF Once, RootTraces, Exists
<1>3. ToldOnce'
  BY <1>1 DEF Once, ToldOnce, Dead
<1>4. NotToldTwice'
  BY <1>1 DEF Once, NotToldTwice
<1> QED
  BY <1>2, <1>3, <1>4 DEF Once

LEMMA AttachOnce ==
  ASSUME IInv, Once, NEW p \in Proc, NEW t \in Proc, Attach(p, t)
  PROVE  Once'
<1> USE DEF IInv, TypeOK
<1>1. /\ p # Root
      /\ ptracer' = [ptracer EXCEPT ![t] = p] /\ told' = [told EXCEPT ![t] = @ \ {p}]
      /\ UNCHANGED <<ppid, twice>>
      /\ UNCHANGED <<sigpending, wait_q>> \/ Post({<<t, "STOP">>}, {})
  BY DEF Attach, AtUser, Runs
<1>2. \A x \in Proc : wait_q'[x] = wait_q[x] \/ (Alive(x) /\ wait_q'[x] = "READY_Q")
  BY <1>1, MadeReadyWakes DEF Post
<1>3. \A x \in Proc : /\ Exists(x)' <=> Exists(x)
                      /\ Dead(x)' <=> Dead(x)
                      /\ wait_q'[x] = "TSR_Q" <=> wait_q[x] = "TSR_Q"
                      /\ wait_q'[x] = "ZOMBIE_Q" <=> wait_q[x] = "ZOMBIE_Q"
  BY <1>2 DEF Exists, Dead, Alive
<1>4. RootTraces'
  BY <1>1, <1>3 DEF Once, RootTraces
<1>5. ToldOnce'
  BY <1>1, <1>3 DEF Once, ToldOnce
<1>6. NotToldTwice'
  BY <1>1, <1>3 DEF Once, NotToldTwice
<1> QED
  BY <1>4, <1>5, <1>6 DEF Once

LEMMA TraceMeOnce ==
  ASSUME IInv, Once, NEW p \in Proc, TraceMe(p)
  PROVE  Once'
<1> USE DEF IInv, TypeOK
<1>1. /\ wait_q[p] = "READY_Q" /\ ptracer' = [ptracer EXCEPT ![p] = ppid[p]]
      /\ UNCHANGED <<wait_q, ppid, told, twice>>
  BY DEF TraceMe, AtUser, Runs, history
<1>2. RootTraces'
  BY <1>1 DEF Once, RootTraces, Exists
<1>3. ToldOnce'
  BY <1>1 DEF Once, ToldOnce, Dead
<1>4. NotToldTwice'
  BY <1>1 DEF Once, NotToldTwice
<1> QED
  BY <1>2, <1>3, <1>4 DEF Once

LEMMA NextOnce == ASSUME IInv, Once, [Next]_vars PROVE Once'
<1>1. CASE UNCHANGED vars
  BY <1>1, MovesOnce DEF vars
<1>2. CASE RootReap
  BY <1>2, ReportOnce DEF RootReap
<1>3. CASE RootSleep
  <2>1. \A x \in Proc : wait_q'[x] = wait_q[x] \/ (Alive(x) /\ wait_q'[x] \in Living)
    BY <1>3 DEF RootSleep, IInv, TypeOK, Alive, Exists, Dead, Living
  <2> QED
    BY <1>3, <2>1, MovesOnce DEF RootSleep, history
<1>4. ASSUME NEW p \in Proc, CheckSigs(p) PROVE Once'
  <2>1. p # Root /\ wait_q[p] = "READY_Q"
    BY <1>4 DEF CheckSigs
  <2>2. PICK s \in Visible(p) : Stop(p, s) \/ \E done : HandleSig(p, s, done)
    BY <1>4 DEF CheckSigs
  <2>3. s \in Sigs /\ "STOP" \in Sigs
    BY <2>2 DEF Visible, Unmasked, Unmaskable, Sigs
  <2>4. \/ Terminate(p, "ZOMBIE_Q")
        \/ Stop(p, s) \/ Stop(p, "STOP")
        \/ UNCHANGED <<wait_q, ppid, ptracer, held, callVars, history>>
    BY <2>2 DEF HandleSig
  <2>5. CASE Terminate(p, "ZOMBIE_Q")
    BY <2>1, <2>5, TerminateOnce
  <2>6. CASE Stop(p, s) \/ Stop(p, "STOP")
    BY <2>1, <2>3, <2>6, StopOnce
  <2>7. CASE UNCHANGED <<wait_q, ppid, ptracer, held, callVars, history>>
    BY <2>7, MovesOnce DEF history
  <2> QED
    BY <2>4, <2>5, <2>6, <2>7
<1>5. ASSUME NEW p \in Proc, Resume(p) PROVE Once'
  BY <1>5, MovesOnce DEF Resume, history
<1>6. ASSUME NEW p \in Proc, Exit(p) \/ TermRes(p) PROVE Once'
  <2>1. PICK que \in {"ZOMBIE_Q", "TSR_Q"} : Terminate(p, que)
    BY <1>6 DEF Exit, TermRes
  <2>2. p # Root /\ wait_q[p] = "READY_Q"
    BY <1>6 DEF Exit, TermRes, AtUser, Runs
  <2> QED
    BY <2>1, <2>2, TerminateOnce
<1>7. ASSUME NEW p \in Proc, WaitAgain(p) \/ (\E a \in Waits : Pwaitpid(p, a)) PROVE Once'
  <2>1. Waits \subseteq Args /\ arg[p] \in Args
    BY DEF Args, IInv, TypeOK
  <2> QED
    BY <1>7, <2>1, ScanOnce DEF WaitAgain, Pwaitpid, AtUser, Runs
<1>8. ASSUME NEW p \in Proc, Pwait3(p) PROVE Once'
  BY <1>8, ReportOnce DEF Pwait3
<1>9. ASSUME NEW p \in Proc, NEW q \in Proc, Kill(p, q) \/ Continue(p, q) \/ LetGo(p, q)
      PROVE  Once'
  <2>1. /\ \E W : wait_q' = MadeReady(W)
        /\ \A x \in Proc : ptracer'[x] \in {ptracer[x], Nobody}
        /\ UNCHANGED <<ppid, told, twice>>
    <3>1. CASE Kill(p, q)
      BY <3>1 DEF Kill, Post, history
    <3>2. CASE Continue(p, q)
      BY <3>2 DEF Continue, history
    <3>3. CASE LetGo(p, q)
      <4>0. wait_q' = wait_q => wait_q' = MadeReady({})
        BY DEF MadeReady, IInv, TypeOK
      <4>1. \E W : wait_q' = MadeReady(W)
        BY <3>3, <4>0, Zenon DEF LetGo, Post
      <4> QED
        BY <3>3, <4>1 DEF LetGo, history, IInv, TypeOK
    <3> QED
      BY <1>9, <3>1, <3>2, <3>3
  <2>2. \A x \in Proc : wait_q'[x] = wait_q[x] \/ (Alive(x) /\ wait_q'[x] \in Living)
    <3>1. PICK W : wait_q' = MadeReady(W)
      BY <2>1
    <3> TAKE x \in Proc
    <3>2. MadeReady(W)[x] = wait_q[x] \/ (Alive(x) /\ MadeReady(W)[x] = "READY_Q")
      BY MadeReadyWakes
    <3> QED
      BY <3>1, <3>2 DEF Living
  <2> QED
    BY <2>1, <2>2, MovesOnce
<1> QED
  BY <1>1, <1>2, <1>3, <1>4, <1>5, <1>6, <1>7, <1>8, <1>9, ForkOnce, AttachOnce, TraceMeOnce
  DEF Next

-----------------------------------------------------------------------------

LEMMA Inductive == Spec => []IInv
<1>1. Init => IInv
  BY InitIInv
<1>2. IInv /\ [Next]_vars => IInv'
  BY NextIInv
<1> QED
  BY <1>1, <1>2, PTL DEF Spec

\* The types of the process table.
THEOREM TypeCorrect == Spec => []TypeOK
<1>1. IInv => TypeOK
  BY DEF IInv
<1> QED
  BY <1>1, Inductive, PTL

\* ppid and ptracer never lead to a process that has died or been freed.
THEOREM FamilyCorrect == Spec => []FamilyAlive
<1>1. IInv => FamilyAlive
  BY DEF IInv
<1> QED
  BY <1>1, Inductive, PTL

\* A process asleep in Pwaitpid() has nothing to wait for that has happened.
THEOREM NoDeathMissed == Spec => []WaiterMissesNothing
<1>1. IInv => WaiterMissesNothing
  BY DEF IInv
<1> QED
  BY <1>1, Inductive, PTL

\* A dead process that nobody was told of has a living parent.
THEOREM NoDeathForgotten == Spec => []UntoldHasParent
<1>1. IInv => UntoldHasParent
  BY DEF IInv, Cared, UntoldHasParent, RootUp, Dead, Exists
<1> QED
  BY <1>1, Inductive, PTL

\* Whoever traces, dies or inherits, the death of a process can still be told to somebody
\* or was told, and pwaitpid() tells nobody of it twice, unless the process is resident or the one told attaches to it again.
THEOREM ToldOnlyOnce == Spec => []DeathToldOnce
<1>1. Init => IInv /\ Once
  <2>1. Init => Once
    BY DEF Init, Once, RootTraces, ToldOnce, NotToldTwice
  <2> QED
    BY <2>1, InitIInv
<1>2. (IInv /\ Once) /\ [Next]_vars => (IInv /\ Once)'
  BY NextIInv, NextOnce
<1>3. IInv /\ Once => DeathToldOnce
  BY DEF Once, IInv, Cared, DeathToldOnce, UntoldHasParent, RootUp, Dead, Exists
<1> QED
  BY <1>1, <1>2, <1>3, PTL DEF Spec
=============================================================================
