--------------------------- MODULE AesLockProofs ---------------------------
(***************************************************************************)
(* Proofs about AesLock: for every set of applications the locks of XaAES   *)
(* stay with their owners, are left behind by nobody who dies, and are never *)
(* free while somebody sleeps for them.                                     *)
(***************************************************************************)
EXTENDS AesLock, FiniteSetTheorems, TLAPS

-----------------------------------------------------------------------------
(* What the operations do to a pair of locks.                               *)

Locks == [Lock -> Semaphore]

\* A lock is free exactly when nothing is counted.
CountersOK(S) == \A l \in Lock : S[l].proc = None <=> S[l].counter = 0

LEMMA FieldTypes ==
  ASSUME NEW S \in Locks, NEW l \in Lock
  PROVE  S[l].proc \in Proc \cup {None} /\ S[l].counter \in Nat /\ S[l].sleepers \in Nat
  BY DEF Locks, Semaphore

\* ressource_semaphore_lock() when the lock is free or the caller's own.
LEMMA EnteredLemma ==
  ASSUME NEW S \in Locks, NEW l \in Lock, NEW p \in Proc, CountersOK(S)
  PROVE  LET T == Entered(S, l, p) IN
         /\ T \in Locks /\ CountersOK(T)
         /\ T[l].proc = p /\ T[l].counter = S[l].counter + 1
         /\ \A k \in Lock : T[k].sleepers = S[k].sleepers
         /\ \A k \in Lock : k # l => T[k] = S[k]
<1> DEFINE T == Entered(S, l, p)
<1>1. /\ T \in Locks
      /\ T[l].proc = p /\ T[l].counter = S[l].counter + 1
      /\ T[l].sleepers = S[l].sleepers
      /\ \A k \in Lock : k # l => T[k] = S[k]
  <2> DEFINE u == [S[l] EXCEPT !.proc = p, !.counter = @ + 1]
  <2>1. /\ u \in Semaphore /\ u.proc = p /\ u.counter = S[l].counter + 1
        /\ u.sleepers = S[l].sleepers
    <3>1. S[l] \in Semaphore /\ S[l].counter + 1 \in Nat
      BY FieldTypes DEF Locks
    <3> QED
      BY <3>1 DEF Semaphore
  <2>2. T = [S EXCEPT ![l] = u]
    BY DEF Entered, Locks, Semaphore
  <2> HIDE DEF u, T
  <2> QED
    BY <2>1, <2>2 DEF Locks
<1>2. S[l].counter + 1 # 0 /\ p # None
  BY FieldTypes, AesLockAssumption
<1> HIDE DEF T
<1>3. CountersOK(T)
  BY <1>1, <1>2 DEF CountersOK
<1> QED
  BY <1>1, <1>3 DEF T

\* ressource_semaphore_lock() before its sleep().
LEMMA WaitingLemma ==
  ASSUME NEW S \in Locks, NEW l \in Lock, CountersOK(S)
  PROVE  LET T == Waiting(S, l) IN
         /\ T \in Locks /\ CountersOK(T)
         /\ \A k \in Lock : T[k].proc = S[k].proc /\ T[k].counter = S[k].counter
         /\ T[l].sleepers = S[l].sleepers + 1
         /\ \A k \in Lock : k # l => T[k] = S[k]
<1> DEFINE T == Waiting(S, l)
<1>1. /\ T \in Locks
      /\ T[l].proc = S[l].proc /\ T[l].counter = S[l].counter
      /\ T[l].sleepers = S[l].sleepers + 1
      /\ \A k \in Lock : k # l => T[k] = S[k]
  BY FieldTypes DEF Waiting, Locks, Semaphore
<1> HIDE DEF T
<1>3. CountersOK(T)
  BY <1>1 DEF CountersOK
<1> QED
  BY <1>1, <1>3 DEF T

\* ressource_semaphore_lock() after its sleep().
LEMMA AwakeLemma ==
  ASSUME NEW S \in Locks, NEW l \in Lock, CountersOK(S), S[l].sleepers > 0
  PROVE  LET T == [S EXCEPT ![l].sleepers = @ - 1] IN
         /\ T \in Locks /\ CountersOK(T)
         /\ \A k \in Lock : T[k].proc = S[k].proc /\ T[k].counter = S[k].counter
         /\ T[l].sleepers = S[l].sleepers - 1
         /\ \A k \in Lock : k # l => T[k] = S[k]
<1> DEFINE T == [S EXCEPT ![l].sleepers = @ - 1]
<1>0. S[l].sleepers - 1 \in Nat
  BY FieldTypes
<1>1. /\ T \in Locks
      /\ T[l].proc = S[l].proc /\ T[l].counter = S[l].counter
      /\ T[l].sleepers = S[l].sleepers - 1
      /\ \A k \in Lock : k # l => T[k] = S[k]
  BY <1>0, FieldTypes DEF Locks, Semaphore
<1> HIDE DEF T
<1>3. CountersOK(T)
  BY <1>1 DEF CountersOK
<1> QED
  BY <1>1, <1>3 DEF T

\* ressource_semaphore_rel() takes one from the count of the owner and changes
\* nothing for anybody else.
LEMMA ReleasedLemma ==
  ASSUME NEW S \in Locks, NEW l \in Lock, NEW p \in Proc, CountersOK(S)
  PROVE  LET T == Released(S, l, p) IN
         /\ T \in Locks /\ CountersOK(T)
         /\ S[l].proc # p => T = S
         /\ S[l].proc = p => /\ S[l].counter > 0 /\ T[l].counter = S[l].counter - 1
                             /\ T[l].proc = (IF S[l].counter = 1 THEN None ELSE p)
         /\ \A k \in Lock : T[k].sleepers = S[k].sleepers
         /\ \A k \in Lock : k # l => T[k] = S[k]
<1> DEFINE T == Released(S, l, p)
<1>1. CASE S[l].proc # p
  BY <1>1 DEF Released
<1>2. CASE S[l].proc = p
  <2>1. S[l].counter \in Nat /\ S[l].counter > 0 /\ S[l].counter - 1 \in Nat
    BY <1>2, FieldTypes, AesLockAssumption DEF CountersOK
  <2>2. /\ T \in Locks
        /\ T[l].counter = S[l].counter - 1
        /\ T[l].proc = (IF S[l].counter = 1 THEN None ELSE p)
        /\ T[l].sleepers = S[l].sleepers
        /\ \A k \in Lock : k # l => T[k] = S[k]
    BY <1>2, <2>1, FieldTypes DEF Released, Locks, Semaphore
  <2> HIDE DEF T
  <2>3. CountersOK(T)
    <3> SUFFICES ASSUME NEW k \in Lock PROVE T[k].proc = None <=> T[k].counter = 0
      BY DEF CountersOK
    <3>1. CASE k = l
      BY <3>1, <2>1, <2>2, AesLockAssumption
    <3>2. CASE k # l
      BY <3>2, <2>2 DEF CountersOK
    <3> QED
      BY <3>1, <3>2
  <2> QED
    BY <1>2, <2>1, <2>2, <2>3 DEF T
<1> QED
  BY <1>1, <1>2

\* ressource_semaphore_free().
LEMMA FreedLemma ==
  ASSUME NEW S \in Locks, NEW l \in Lock, CountersOK(S)
  PROVE  LET T == Freed(S, l) IN
         /\ T \in Locks /\ CountersOK(T)
         /\ T[l].proc = None /\ T[l].counter = 0
         /\ \A k \in Lock : T[k].sleepers = S[k].sleepers
         /\ \A k \in Lock : k # l => T[k] = S[k]
<1> DEFINE T == Freed(S, l)
<1>1. /\ T \in Locks
      /\ T[l].proc = None /\ T[l].counter = 0
      /\ T[l].sleepers = S[l].sleepers
      /\ \A k \in Lock : k # l => T[k] = S[k]
  BY FieldTypes DEF Freed, Locks, Semaphore
<1> HIDE DEF T
<1>3. CountersOK(T)
  BY <1>1 DEF CountersOK
<1> QED
  BY <1>1, <1>3 DEF T

\* unlock_screen() by p, in terms of the two locks.
LEMMA UnlockScreenLemma ==
  ASSUME NEW S \in Locks, NEW p \in Proc, CountersOK(S)
  PROVE  LET T == UnlockScreen(S, p) IN
         /\ T \in Locks /\ CountersOK(T)
         /\ \A k \in Lock : S[k].proc # p => T[k] = S[k]
         /\ \A k \in Lock : S[k].proc = p => /\ S[k].counter > 0 /\ T[k].counter = S[k].counter - 1
                                             /\ T[k].proc = (IF S[k].counter = 1 THEN None ELSE p)
         /\ \A k \in Lock : T[k].sleepers = S[k].sleepers
<1> DEFINE R == Released(S, "update", p)
           T == Released(R, "mouse", p)
<1>0. "update" \in Lock /\ "mouse" \in Lock /\ \A k \in Lock : k = "update" \/ k = "mouse"
  BY DEF Lock
<1>1. /\ R \in Locks /\ CountersOK(R)
      /\ S["update"].proc # p => R = S
      /\ S["update"].proc = p =>
           /\ S["update"].counter > 0 /\ R["update"].counter = S["update"].counter - 1
           /\ R["update"].proc = (IF S["update"].counter = 1 THEN None ELSE p)
      /\ \A k \in Lock : R[k].sleepers = S[k].sleepers
      /\ R["mouse"] = S["mouse"]
  BY <1>0, ReleasedLemma
<1> HIDE DEF R
<1>2. /\ T \in Locks /\ CountersOK(T)
      /\ R["mouse"].proc # p => T = R
      /\ R["mouse"].proc = p =>
           /\ R["mouse"].counter > 0 /\ T["mouse"].counter = R["mouse"].counter - 1
           /\ T["mouse"].proc = (IF R["mouse"].counter = 1 THEN None ELSE p)
      /\ \A k \in Lock : T[k].sleepers = R[k].sleepers
      /\ T["update"] = R["update"]
  BY <1>0, <1>1, ReleasedLemma
<1>3. UnlockScreen(S, p) = T
  BY DEF UnlockScreen, R, T
<1> HIDE DEF T
<1>4. /\ \A k \in Lock : S[k].proc # p => T[k] = S[k]
      /\ \A k \in Lock : S[k].proc = p => /\ S[k].counter > 0 /\ T[k].counter = S[k].counter - 1
                                          /\ T[k].proc = (IF S[k].counter = 1 THEN None ELSE p)
  BY <1>0, <1>1, <1>2
<1>5. \A k \in Lock : T[k].sleepers = S[k].sleepers
  BY <1>1, <1>2
<1> QED
  BY <1>2, <1>3, <1>4, <1>5

\* What exit_proc() leaves of the locks when p goes: nothing of p's own, the
\* mouse lock only if p did not own the update lock, and nothing new.
LEMMA LeaveLemma ==
  ASSUME NEW S \in Locks, NEW p \in Proc, CountersOK(S)
  PROVE  LET T == Leave(S, p) IN
         /\ T \in Locks /\ CountersOK(T)
         /\ \A k \in Lock : T[k].proc # p
         /\ \A k \in Lock : T[k] = S[k] \/ T[k].proc = None
         /\ S["update"].proc # p => T["update"] = S["update"]
         /\ S["update"].proc = p => T["update"].proc = None
         /\ S["update"].proc # p /\ S["mouse"].proc # p => T = S
         /\ \A k \in Lock : T[k].sleepers = S[k].sleepers
<1> DEFINE F == Freed(S, "mouse")
           G == Freed(F, "update")
           R == IF S["update"].proc = p THEN G ELSE S
           T == IF R["mouse"].proc = p THEN Freed(R, "mouse") ELSE R
<1>0. "update" \in Lock /\ "mouse" \in Lock /\ \A k \in Lock : k = "update" \/ k = "mouse"
  BY DEF Lock
<1>1. /\ F \in Locks /\ CountersOK(F) /\ F["mouse"].proc = None
      /\ \A k \in Lock : F[k].sleepers = S[k].sleepers
  BY <1>0, FreedLemma
<1> HIDE DEF F
<1>2. /\ G \in Locks /\ CountersOK(G) /\ G["update"].proc = None /\ G["mouse"] = F["mouse"]
      /\ \A k \in Lock : G[k].sleepers = F[k].sleepers
  BY <1>0, <1>1, FreedLemma
<1> HIDE DEF G
<1>3. /\ R \in Locks /\ CountersOK(R)
      /\ S["update"].proc = p => R["update"].proc = None /\ R["mouse"].proc = None
      /\ S["update"].proc # p => R = S
      /\ \A k \in Lock : R[k].sleepers = S[k].sleepers
  BY <1>1, <1>2
<1>4. Leave(S, p) = T
  BY DEF Leave, F, G
<1> HIDE DEF R
<1>5. /\ Freed(R, "mouse") \in Locks /\ CountersOK(Freed(R, "mouse"))
      /\ Freed(R, "mouse")["mouse"].proc = None
      /\ \A k \in Lock : Freed(R, "mouse")[k].sleepers = R[k].sleepers
      /\ Freed(R, "mouse")["update"] = R["update"]
  BY <1>0, <1>3, FreedLemma
<1>6. /\ T \in Locks /\ CountersOK(T) /\ T["update"] = R["update"]
      /\ R["mouse"].proc = p => T["mouse"].proc = None
      /\ R["mouse"].proc # p => T = R
      /\ \A k \in Lock : T[k].sleepers = R[k].sleepers
  BY <1>3, <1>5
<1> HIDE DEF T
<1>7. p # None
  BY AesLockAssumption
<1>8. \A k \in Lock : T[k].sleepers = S[k].sleepers
  BY <1>3, <1>6
<1>9. /\ \A k \in Lock : T[k].proc # p
      /\ \A k \in Lock : T[k] = S[k] \/ T[k].proc = None
  BY <1>0, <1>3, <1>6, <1>7
<1>10. /\ S["update"].proc # p => T["update"] = S["update"]
       /\ S["update"].proc = p => T["update"].proc = None
       /\ S["update"].proc # p /\ S["mouse"].proc # p => T = S
  BY <1>3, <1>6
<1> QED
  BY <1>4, <1>6, <1>8, <1>9, <1>10

-----------------------------------------------------------------------------
(* The inductive invariant.                                                 *)

Waiters(l) == {p \in Proc : pc[p] = l}

\* A sleeper is on the count.  Those who were killed stay on it, so that there may
\* be more than there are.
Counted ==
  \A l \in Lock : IsFiniteSet(Waiters(l)) /\ Cardinality(Waiters(l)) <= sem[l].sleepers

\* Nobody sleeps for a lock of his own, or when he was killed, and who sleeps for the
\* update lock wants it.
WaitsOK ==
  \A p \in Proc :
    /\ pc[p] \in Lock => sem[pc[p]].proc # p /\ op[p] # "none"
    /\ pc[p] = "update" => op[p] # "BEG_MCTRL"
    /\ p \in asleep => p \notin doomed

\* An owner on record is recorded with a count.
BooksOK == \A l \in Lock : C[l].proc # None => C[l].count > 0

\* wind_update() has noted who has begun an update, and how often.
RecordOK ==
  /\ C["update"].proc = None => C["update"].count = 0
  /\ C["update"].proc # None => sem["update"].proc = C["update"].proc
  /\ \A p \in Proc : Alive(p) =>
       /\ begun[p]["update"] > 0 => C["update"].proc = p
       /\ C["update"].proc = p => /\ C["update"].count = begun[p]["update"]
                                  /\ begun[p]["update"] > 0

\* Who has the update lock has the mouse lock, so that nobody who has the mouse lock
\* has to wait for the update lock.
MouseFirst ==
  WellUsed => /\ sem["update"].proc # None => sem["mouse"].proc = sem["update"].proc
              /\ \A p \in Proc : pc[p] # "update"

Inv ==
  /\ TypeOK /\ BooksOK /\ CountersOK(sem)
  /\ Counted /\ WaitsOK /\ NoLostWakeup
  /\ RecordOK /\ UpdateMine
  /\ MouseFirst /\ MouseMine
  /\ DeadHoldNothing

\* The sets of waiters when one process moves.
LEMMA WaitersMove ==
  ASSUME TypeOK, \A l \in Lock : IsFiniteSet(Waiters(l)),
         NEW p \in Proc, NEW x \in {"user", "call", "dead"} \cup Lock,
         pc' = [pc EXCEPT ![p] = x]
  PROVE  \A l \in Lock :
           /\ IsFiniteSet(Waiters(l)') /\ Cardinality(Waiters(l)') \in Nat
           /\ Cardinality(Waiters(l)) \in Nat
           /\ x = l => Cardinality(Waiters(l)') <= Cardinality(Waiters(l)) + 1
           /\ x # l => Cardinality(Waiters(l)') <= Cardinality(Waiters(l))
           /\ pc[p] = l => Cardinality(Waiters(l)) > 0
           /\ pc[p] = l /\ x # l => Cardinality(Waiters(l)') = Cardinality(Waiters(l)) - 1
<1> SUFFICES ASSUME NEW l \in Lock
             PROVE  /\ IsFiniteSet(Waiters(l)') /\ Cardinality(Waiters(l)') \in Nat
                    /\ Cardinality(Waiters(l)) \in Nat
                    /\ x = l => Cardinality(Waiters(l)') <= Cardinality(Waiters(l)) + 1
                    /\ x # l => Cardinality(Waiters(l)') <= Cardinality(Waiters(l))
                    /\ pc[p] = l => Cardinality(Waiters(l)) > 0
                    /\ pc[p] = l /\ x # l
                         => Cardinality(Waiters(l)') = Cardinality(Waiters(l)) - 1
  OBVIOUS
<1> DEFINE W == Waiters(l)
           V == Waiters(l)'
<1>1. /\ x = l => V = W \cup {p}
      /\ x # l => V = W \ {p}
      /\ p \in W <=> pc[p] = l
  BY DEF Waiters, TypeOK
<1>2. IsFiniteSet(W)
  OBVIOUS
<1> HIDE DEF W, V
<1>3. Cardinality(W) \in Nat
  BY <1>2, FS_CardinalityType
<1>4. /\ IsFiniteSet(W \cup {p})
      /\ Cardinality(W \cup {p}) = IF p \in W THEN Cardinality(W) ELSE Cardinality(W) + 1
  BY <1>2, FS_AddElement
<1>5. /\ IsFiniteSet(W \ {p})
      /\ Cardinality(W \ {p}) = IF p \in W THEN Cardinality(W) - 1 ELSE Cardinality(W)
  BY <1>2, FS_RemoveElement
<1>6. p \in W => Cardinality(W) > 0
  <2> SUFFICES ASSUME p \in W, Cardinality(W) = 0 PROVE FALSE
    BY <1>3
  <2>1. W = {}
    BY <1>2, FS_EmptySet
  <2> QED
    BY <2>1
<1>7. Cardinality(W \ {p}) \in Nat /\ Cardinality(W \cup {p}) \in Nat
  BY <1>4, <1>5, FS_CardinalityType
<1>8. /\ IsFiniteSet(V) /\ Cardinality(V) \in Nat
      /\ Cardinality(W) \in Nat
      /\ x = l => Cardinality(V) <= Cardinality(W) + 1
      /\ x # l => Cardinality(V) <= Cardinality(W)
      /\ pc[p] = l => Cardinality(W) > 0
      /\ pc[p] = l /\ x # l => Cardinality(V) = Cardinality(W) - 1
  <2>1. CASE x = l
    <3>1. V = W \cup {p}
      BY <1>1, <2>1
    <3> QED
      BY <3>1, <2>1, <1>1, <1>3, <1>4, <1>6, <1>7
  <2>2. CASE x # l
    <3>1. V = W \ {p}
      BY <1>1, <2>2
    <3> QED
      BY <3>1, <2>2, <1>1, <1>3, <1>5, <1>6, <1>7
  <2> QED
    BY <2>1, <2>2
<1> QED
  BY <1>8 DEF W, V

LEMMA TwoLocks == /\ "update" \in Lock /\ "mouse" \in Lock /\ "update" # "mouse"
                  /\ \A k \in Lock : k = "update" \/ k = "mouse"
                  /\ {"user", "call", "dead", "none"} \cap Lock = {}
  BY DEF Lock

LEMMA InitInv == Init => Inv
<1> SUFFICES ASSUME Init PROVE Inv
  OBVIOUS
<1>1. TypeOK
  BY AesLockAssumption DEF Init, TypeOK, Semaphore, Free, Ops
<1>2. \A l \in Lock : sem[l] = Free /\ C[l].proc = None /\ C[l].count = 0
  BY DEF Init
<1>3. \A p \in Proc : pc[p] = "user" /\ begun[p]["update"] = 0 /\ begun[p]["mouse"] = 0
  BY TwoLocks DEF Init
<1>4. /\ Free.proc = None /\ Free.counter = 0 /\ Free.sleepers = 0
      /\ None \notin Proc
  BY AesLockAssumption DEF Free
<1>5. Counted
  <2> SUFFICES ASSUME NEW l \in Lock
               PROVE  IsFiniteSet(Waiters(l)) /\ Cardinality(Waiters(l)) <= sem[l].sleepers
    BY DEF Counted
  <2>1. Waiters(l) = {}
    BY <1>3, TwoLocks DEF Waiters
  <2> QED
    BY <2>1, <1>2, <1>4, FS_EmptySet
<1>6. CountersOK(sem) /\ BooksOK
  BY <1>2, <1>4 DEF CountersOK, BooksOK
<1>7. WaitsOK /\ NoLostWakeup
  BY <1>3, TwoLocks DEF WaitsOK, NoLostWakeup, Init
<1>8. RecordOK /\ UpdateMine
  BY <1>2, <1>3, <1>4, TwoLocks DEF RecordOK, UpdateMine
<1>9. MouseFirst /\ MouseMine /\ DeadHoldNothing
  BY <1>2, <1>3, <1>4, TwoLocks DEF MouseFirst, MouseMine, DeadHoldNothing
<1> QED
  BY <1>1, <1>5, <1>6, <1>7, <1>8, <1>9 DEF Inv

\* The parts of the type invariant that the steps use.
LEMMA Types ==
  ASSUME TypeOK
  PROVE  /\ sem \in Locks
         /\ \A l \in Lock : sem[l].proc \in Proc \cup {None} /\ sem[l].counter \in Nat
                              /\ sem[l].sleepers \in Nat
         /\ \A l \in Lock : C[l].proc \in Proc \cup {None} /\ C[l].count \in Nat
         /\ \A p \in Proc, l \in Lock : begun[p][l] \in Nat
<1>1. sem \in Locks
  BY DEF TypeOK, Locks
<1> QED
  BY <1>1, FieldTypes DEF TypeOK

\* A process that is asleep is on the count of its lock.
LEMMA SleeperCounted ==
  ASSUME Inv, NEW p \in Proc, pc[p] \in Lock
  PROVE  sem[pc[p]].sleepers > 0
<1> DEFINE l == pc[p]
<1>1. IsFiniteSet(Waiters(l)) /\ Cardinality(Waiters(l)) <= sem[l].sleepers
  BY DEF Inv, Counted
<1>2. sem[l].sleepers \in Nat /\ Cardinality(Waiters(l)) \in Nat
  BY <1>1, Types, FS_CardinalityType DEF Inv
<1>3. p \in Waiters(l)
  BY DEF Waiters
<1>4. Cardinality(Waiters(l)) # 0
  BY <1>1, <1>3, FS_EmptySet
<1> QED
  BY <1>1, <1>2, <1>4

\* A release or a death wakes everybody who waits for what becomes free: the
\* count of sleepers is never too small.
LEMMA UnlockWakes ==
  ASSUME Inv, \A k \in Lock : sem'[k].sleepers = sem[k].sleepers,
         asleep' \subseteq asleep \ Woken(sem, sem'),
         \A q \in asleep' : pc'[q] = pc[q]
  PROVE  NoLostWakeup'
<1> SUFFICES ASSUME NEW q \in asleep', sem'[pc'[q]].proc = None PROVE FALSE
  BY DEF NoLostWakeup
<1>1. q \in asleep /\ q \notin Woken(sem, sem') /\ pc'[q] = pc[q]
  OBVIOUS
<1>2. q \in Proc /\ pc[q] \in Lock
  BY <1>1 DEF Inv, TypeOK
<1>3. sem[pc[q]].proc # None
  BY <1>1 DEF Inv, NoLostWakeup
<1>4. sem[pc[q]].sleepers > 0
  BY <1>2, SleeperCounted
<1> QED
  BY <1>1, <1>2, <1>3, <1>4 DEF Woken

\* The counts cover the waiters when a process leaves a lock without being
\* subtracted or does not wait at all.
LEMMA CountedKept ==
  ASSUME Inv, NEW p \in Proc, NEW x \in {"user", "call", "dead"},
         pc' = [pc EXCEPT ![p] = x] \/ pc' = pc,
         \A k \in Lock : sem'[k].sleepers = sem[k].sleepers
  PROVE  Counted'
<1>0. TypeOK /\ \A l \in Lock : /\ IsFiniteSet(Waiters(l))
                               /\ Cardinality(Waiters(l)) <= sem[l].sleepers
                               /\ sem[l].sleepers \in Nat
  BY Types DEF Inv, Counted
<1>1. CASE pc' = pc
  BY <1>0, <1>1 DEF Counted, Waiters
<1>2. CASE pc' = [pc EXCEPT ![p] = x]
  <2>1. \A l \in Lock : x # l
    BY TwoLocks
  <2>2. \A l \in Lock : /\ IsFiniteSet(Waiters(l)') /\ Cardinality(Waiters(l)') \in Nat
                        /\ Cardinality(Waiters(l)) \in Nat
                        /\ Cardinality(Waiters(l)') <= Cardinality(Waiters(l))
    BY <1>0, <1>2, <2>1, WaitersMove
  <2>3. \A l \in Lock : Cardinality(Waiters(l)') <= sem'[l].sleepers
    BY <1>0, <2>2
  <2> QED
    BY <2>2, <2>3 DEF Counted
<1> QED
  BY <1>1, <1>2

\* How often p has taken the update lock and the mouse lock.
UpdateCount(p) == begun[p]["update"] + (IF pc[p] = "call" THEN 1 ELSE 0)
MouseCount(p) ==
  begun[p]["mouse"] + begun[p]["update"] + (IF pc[p] \in {"call", "update"} THEN 1 ELSE 0)

LEMMA Counts ==
  /\ UpdateMine <=> \A p \in Proc : Alive(p) =>
       /\ UpdateCount(p) > 0 => sem["update"].proc = p
       /\ sem["update"].proc = p => sem["update"].counter = UpdateCount(p)
  /\ MouseMine <=> (WellUsed => \A p \in Proc : Alive(p) =>
       /\ MouseCount(p) > 0 => sem["mouse"].proc = p
       /\ sem["mouse"].proc = p => sem["mouse"].counter = MouseCount(p))
  BY DEF UpdateMine, MouseMine, UpdateCount, MouseCount

LEMMA CountTypes ==
  ASSUME TypeOK, NEW p \in Proc
  PROVE  UpdateCount(p) \in Nat /\ MouseCount(p) \in Nat
  BY Types, TwoLocks DEF UpdateCount, MouseCount

-----------------------------------------------------------------------------
(* The steps preserve it.  First those that take locks.                     *)

\* A process goes to sleep for the lock l, and the others stay as they are.
LEMMA SleepKeeps ==
  ASSUME Inv, NEW p \in Proc, NEW l \in Lock, NEW S \in Locks, CountersOK(S),
         p \notin asleep, pc[p] # l, S[l].proc \notin {None, p},
         \A k \in Lock : S[k].sleepers = (IF pc[p] = k THEN sem[k].sleepers - 1
                                                       ELSE sem[k].sleepers),
         \A k \in Lock : S[k].proc = None => sem[k].proc = None,
         NEW o \in Ops, Sleep(S, l, p, o), UNCHANGED <<doomed, ghosts>>
  PROVE  /\ TypeOK' /\ BooksOK' /\ CountersOK(sem)' /\ Counted' /\ NoLostWakeup'
         /\ \A k \in Lock : sem'[k].proc = S[k].proc /\ sem'[k].counter = S[k].counter
<1>0. /\ sem' = Waiting(S, l) /\ pc' = [pc EXCEPT ![p] = l] /\ op' = [op EXCEPT ![p] = o]
      /\ asleep' = asleep \cup {p} /\ C' = C /\ begun' = begun
      /\ doomed' = doomed /\ tidy' = tidy /\ broken' = broken
  BY DEF Sleep, ghosts
<1>1. /\ sem' \in Locks /\ CountersOK(sem')
      /\ \A k \in Lock : sem'[k].proc = S[k].proc /\ sem'[k].counter = S[k].counter
      /\ sem'[l].sleepers = S[l].sleepers + 1
      /\ \A k \in Lock : k # l => sem'[k] = S[k]
  BY <1>0, WaitingLemma
<1>2. TypeOK
  BY DEF Inv
<1>3. TypeOK'
  BY <1>0, <1>1, <1>2 DEF TypeOK, Locks
<1>4. Counted'
  <2>1. \A k \in Lock : /\ IsFiniteSet(Waiters(k)) /\ Cardinality(Waiters(k)) \in Nat
                        /\ Cardinality(Waiters(k)) <= sem[k].sleepers
                        /\ sem[k].sleepers \in Nat
    BY <1>2, Types, FS_CardinalityType DEF Inv, Counted
  <2>2. \A k \in Lock :
           /\ IsFiniteSet(Waiters(k)') /\ Cardinality(Waiters(k)') \in Nat
           /\ l = k => Cardinality(Waiters(k)') <= Cardinality(Waiters(k)) + 1
           /\ l # k => Cardinality(Waiters(k)') <= Cardinality(Waiters(k))
           /\ pc[p] = k /\ l # k => Cardinality(Waiters(k)') = Cardinality(Waiters(k)) - 1
    BY <1>0, <1>2, <2>1, WaitersMove
  <2> SUFFICES ASSUME NEW k \in Lock
               PROVE  IsFiniteSet(Waiters(k)') /\ Cardinality(Waiters(k)') <= sem'[k].sleepers
    BY DEF Counted
  <2>3. CASE k = l
    <3>1. sem'[k].sleepers = sem[k].sleepers + 1
      BY <2>3, <1>1
    <3> QED
      BY <3>1, <2>1, <2>2, <2>3
  <2>4. CASE k # l /\ pc[p] = k
    <3>1. sem'[k].sleepers = sem[k].sleepers - 1
      BY <2>4, <1>1
    <3> QED
      BY <3>1, <2>1, <2>2, <2>4
  <2>5. CASE k # l /\ pc[p] # k
    <3>1. sem'[k].sleepers = sem[k].sleepers
      BY <2>5, <1>1
    <3> QED
      BY <3>1, <2>1, <2>2, <2>5
  <2> QED
    BY <2>3, <2>4, <2>5
<1>5. NoLostWakeup'
  <2> SUFFICES ASSUME NEW q \in asleep' PROVE sem'[pc'[q]].proc # None
    BY DEF NoLostWakeup
  <2>1. CASE q = p
    <3>1. pc'[p] = l
      BY <1>0, <1>2 DEF TypeOK
    <3> QED
      BY <3>1, <2>1, <1>1
  <2>2. CASE q # p
    <3>1. q \in asleep /\ q \in Proc /\ pc[q] \in Lock /\ pc'[q] = pc[q]
      BY <2>2, <1>0, <1>2 DEF TypeOK
    <3>2. sem[pc[q]].proc # None
      BY <3>1 DEF Inv, NoLostWakeup
    <3> QED
      BY <3>1, <3>2, <1>1
  <2> QED
    BY <2>1, <2>2
<1>6. BooksOK'
  BY <1>0 DEF Inv, BooksOK
<1> QED
  BY <1>1, <1>3, <1>4, <1>5, <1>6

\* lock_screen() and lock_mouse() with the mouse lock of another.
LEMMA SleepMouseInv ==
  ASSUME Inv, NEW p \in Proc, Calls(p), Blocked(sem, "mouse", p),
         NEW o \in Ops \ {"none"}, Sleep(sem, "mouse", p, o), UNCHANGED <<doomed, ghosts>>
  PROVE  Inv'
<1>0. /\ pc' = [pc EXCEPT ![p] = "mouse"] /\ op' = [op EXCEPT ![p] = o]
      /\ C' = C /\ begun' = begun
      /\ doomed' = doomed /\ tidy' = tidy /\ broken' = broken
  BY DEF Sleep, ghosts
<1>1. TypeOK /\ sem \in Locks /\ CountersOK(sem) /\ pc[p] = "user" /\ p \notin doomed /\ p \notin asleep
  BY Types, TwoLocks DEF Inv, Calls, TypeOK
<1>2. /\ TypeOK' /\ BooksOK' /\ CountersOK(sem)' /\ Counted' /\ NoLostWakeup'
      /\ \A k \in Lock : sem'[k].proc = sem[k].proc /\ sem'[k].counter = sem[k].counter
  BY <1>1, TwoLocks, SleepKeeps DEF Blocked
<1>3. /\ pc'[p] = "mouse" /\ op'[p] = o
      /\ \A q \in Proc : q # p => pc'[q] = pc[q] /\ op'[q] = op[q]
  BY <1>0, <1>1 DEF TypeOK
<1>4. WaitsOK'
  BY <1>0, <1>1, <1>2, <1>3, TwoLocks DEF Inv, WaitsOK, Blocked, Sleep
<1>5. \A q \in Proc : Alive(q)' <=> Alive(q)
  BY <1>0, <1>1, <1>3 DEF Alive
<1>6. RecordOK'
  BY <1>0, <1>2, <1>5, TwoLocks DEF Inv, RecordOK
<1>7. UpdateMine'
  BY <1>0, <1>1, <1>2, <1>3, <1>5, TwoLocks DEF Inv, UpdateMine
<1>8. MouseFirst'
  BY <1>0, <1>1, <1>2, <1>3, TwoLocks DEF Inv, MouseFirst, WellUsed
<1>9. MouseMine'
  BY <1>0, <1>1, <1>2, <1>3, <1>5, TwoLocks DEF Inv, MouseMine, WellUsed
<1>10. DeadHoldNothing'
  BY <1>0, <1>1, <1>2, <1>3 DEF Inv, DeadHoldNothing
<1> QED
  BY <1>2, <1>4, <1>6, <1>7, <1>8, <1>9, <1>10 DEF Inv

\* S is what is left of the locks when p, called or back from sleep(), has just taken
\* the mouse lock.
TookMouse(S, p) ==
  /\ S \in Locks /\ CountersOK(S)
  /\ pc[p] \in {"user", "mouse"} /\ p \notin doomed /\ p \notin asleep
  /\ sem["mouse"].proc \in {None, p}
  /\ S["mouse"].proc = p /\ S["mouse"].counter = sem["mouse"].counter + 1
  /\ S["mouse"].sleepers = (IF pc[p] = "mouse" THEN sem["mouse"].sleepers - 1
                                               ELSE sem["mouse"].sleepers)
  /\ S["update"] = sem["update"]

\* lock_screen() with the mouse lock taken and the update lock of another.
LEMMA SleepUpdateInv ==
  ASSUME Inv, NEW p \in Proc, NEW S, TookMouse(S, p), Blocked(S, "update", p),
         NEW o \in {"BEG_UPDATE", "call"}, Sleep(S, "update", p, o), UNCHANGED <<doomed, ghosts>>
  PROVE  Inv'
<1>0. /\ pc' = [pc EXCEPT ![p] = "update"] /\ op' = [op EXCEPT ![p] = o]
      /\ C' = C /\ begun' = begun
      /\ doomed' = doomed /\ tidy' = tidy /\ broken' = broken
  BY DEF Sleep, ghosts
<1>1. TypeOK /\ sem \in Locks /\ CountersOK(sem) /\ p # None
  BY Types, AesLockAssumption DEF Inv
<1>2. /\ S \in Locks /\ CountersOK(S)
      /\ pc[p] \in {"user", "mouse"} /\ p \notin doomed /\ p \notin asleep
      /\ sem["mouse"].proc \in {None, p}
      /\ S["mouse"].proc = p /\ S["mouse"].counter = sem["mouse"].counter + 1
      /\ S["update"] = sem["update"]
      /\ S["update"].proc \notin {None, p}
      /\ S["mouse"].sleepers = (IF pc[p] = "mouse" THEN sem["mouse"].sleepers - 1
                                               ELSE sem["mouse"].sleepers)
  BY DEF TookMouse, Blocked
<1>3. \A k \in Lock : S[k].sleepers = (IF pc[p] = k THEN sem[k].sleepers - 1
                                                    ELSE sem[k].sleepers)
  BY <1>2, TwoLocks
<1>4. /\ TypeOK' /\ BooksOK' /\ CountersOK(sem)' /\ Counted' /\ NoLostWakeup'
      /\ \A k \in Lock : sem'[k].proc = S[k].proc /\ sem'[k].counter = S[k].counter
  <2>1. o \in Ops
    BY DEF Ops
  <2>2. pc[p] # "update" /\ \A k \in Lock : S[k].proc = None => sem[k].proc = None
    BY <1>1, <1>2, TwoLocks
  <2> QED
    BY <1>2, <1>3, <2>1, <2>2, TwoLocks, SleepKeeps
<1>5. /\ pc'[p] = "update" /\ op'[p] = o
      /\ \A q \in Proc : q # p => pc'[q] = pc[q] /\ op'[q] = op[q]
  BY <1>0, <1>1 DEF TypeOK
<1>6. ~WellUsed /\ ~WellUsed'
  BY <1>0, <1>1, <1>2 DEF Inv, MouseFirst, WellUsed
<1>7. WaitsOK'
  <2>1. \A q \in Proc : q # p /\ pc[q] \in Lock => sem'[pc[q]].proc # q
    BY <1>1, <1>2, <1>4, TwoLocks DEF Inv, WaitsOK
  <2> QED
    BY <2>1, <1>0, <1>2, <1>4, <1>5, TwoLocks DEF Inv, WaitsOK, Sleep
<1>8. \A q \in Proc : Alive(q)' <=> Alive(q)
  BY <1>0, <1>2, <1>5, TwoLocks DEF Alive
<1>9. RecordOK'
  BY <1>0, <1>2, <1>4, <1>8, TwoLocks DEF Inv, RecordOK
<1>10. UpdateMine'
  BY <1>0, <1>2, <1>4, <1>5, <1>8, TwoLocks DEF Inv, UpdateMine
<1>11. MouseFirst' /\ MouseMine'
  BY <1>6 DEF MouseFirst, MouseMine
<1>12. DeadHoldNothing'
  <2> SUFFICES ASSUME NEW q \in Proc, NEW l \in Lock, pc'[q] = "dead"
               PROVE  sem'[l].proc # q /\ C'[l].proc # q
    BY DEF DeadHoldNothing
  <2>1. q # p /\ pc[q] = "dead"
    BY <1>5, TwoLocks
  <2>2. sem[l].proc # q /\ C[l].proc # q
    BY <2>1 DEF Inv, DeadHoldNothing
  <2> QED
    BY <2>1, <2>2, <1>0, <1>2, <1>4, TwoLocks
<1> QED
  BY <1>4, <1>7, <1>9, <1>10, <1>11, <1>12 DEF Inv

\* What a granted request does to the process and to the records of wind_update().
LEMMA GrantedLemma ==
  ASSUME TypeOK, NEW p \in Proc, NEW T, NEW o, Granted(T, p, o)
  PROVE  /\ sem' = T /\ asleep' = asleep \ {p}
         /\ pc'[p] = (IF o = "call" THEN "call" ELSE "user") /\ op'[p] = "none"
         /\ \A q \in Proc : q # p => pc'[q] = pc[q] /\ op'[q] = op[q] /\ begun'[q] = begun[q]
         /\ pc' = [pc EXCEPT ![p] = IF o = "call" THEN "call" ELSE "user"]
         /\ op' \in [Proc -> Ops]
         /\ begun' \in [Proc -> [Lock -> Nat]]
         /\ C' \in [Lock -> [proc : Proc \cup {None}, count : Nat]]
         /\ o \in {"BEG_UPDATE", "BEG_MCTRL", "call"}
         /\ \A l \in Lock : C'[l].proc \in {C[l].proc, p}
         /\ \A l \in Lock : C'[l] = C[l] \/ C'[l].count = C[l].count + 1
         /\ o = "call" => C' = C /\ begun' = begun
         /\ o = "BEG_UPDATE" =>
              /\ C'["update"].proc = p /\ C'["update"].count = C["update"].count + 1
              /\ begun'[p]["update"] = begun[p]["update"] + 1
              /\ begun'[p]["mouse"] = begun[p]["mouse"]
         /\ o = "BEG_MCTRL" =>
              /\ C'["update"] = C["update"]
              /\ begun'[p]["mouse"] = begun[p]["mouse"] + 1
              /\ begun'[p]["update"] = begun[p]["update"]
<1>1. /\ sem' = T /\ asleep' = asleep \ {p}
      /\ pc' = [pc EXCEPT ![p] = IF o = "call" THEN "call" ELSE "user"]
      /\ op' = [op EXCEPT ![p] = "none"]
      /\ o \in {"BEG_UPDATE", "BEG_MCTRL", "call"}
  BY DEF Granted
<1>2. /\ pc'[p] = (IF o = "call" THEN "call" ELSE "user") /\ op'[p] = "none"
      /\ \A q \in Proc : q # p => pc'[q] = pc[q] /\ op'[q] = op[q]
      /\ op' \in [Proc -> Ops]
  BY <1>1 DEF TypeOK, Ops
<1>3. CASE o = "call"
  BY <1>1, <1>2, <1>3 DEF Granted, TypeOK
<1>4. CASE o = "BEG_UPDATE"
  <2>1. /\ C' = [C EXCEPT !["update"] = [proc |-> p, count |-> @.count + 1]]
        /\ begun' = [begun EXCEPT ![p]["update"] = @ + 1]
    BY <1>4 DEF Granted, Book
  <2>2. /\ C["update"].count + 1 \in Nat /\ begun[p]["update"] + 1 \in Nat
    BY Types, TwoLocks
  <2>3. /\ C' \in [Lock -> [proc : Proc \cup {None}, count : Nat]]
        /\ C'["update"].proc = p /\ C'["update"].count = C["update"].count + 1
        /\ C'["mouse"] = C["mouse"]
    BY <2>1, <2>2, TwoLocks DEF TypeOK
  <2>4. /\ begun' \in [Proc -> [Lock -> Nat]]
        /\ begun'[p]["update"] = begun[p]["update"] + 1
        /\ begun'[p]["mouse"] = begun[p]["mouse"]
        /\ \A q \in Proc : q # p => begun'[q] = begun[q]
    BY <2>1, <2>2, TwoLocks DEF TypeOK
  <2> QED
    BY <1>1, <1>2, <1>4, <2>3, <2>4, TwoLocks
<1>5. CASE o = "BEG_MCTRL"
  <2>1. /\ C' = [C EXCEPT !["mouse"] = [proc |-> p, count |-> @.count + 1]]
        /\ begun' = [begun EXCEPT ![p]["mouse"] = @ + 1]
    BY <1>5 DEF Granted, Book
  <2>2. /\ C["mouse"].count + 1 \in Nat /\ begun[p]["mouse"] + 1 \in Nat
    BY Types, TwoLocks
  <2>3. /\ C' \in [Lock -> [proc : Proc \cup {None}, count : Nat]]
        /\ C'["mouse"].proc = p /\ C'["mouse"].count = C["mouse"].count + 1
        /\ C'["update"] = C["update"]
    BY <2>1, <2>2, TwoLocks DEF TypeOK
  <2>4. /\ begun' \in [Proc -> [Lock -> Nat]]
        /\ begun'[p]["mouse"] = begun[p]["mouse"] + 1
        /\ begun'[p]["update"] = begun[p]["update"]
        /\ \A q \in Proc : q # p => begun'[q] = begun[q]
    BY <2>1, <2>2, TwoLocks DEF TypeOK
  <2> QED
    BY <1>1, <1>2, <1>5, <2>3, <2>4, TwoLocks
<1> QED
  BY <1>1, <1>3, <1>4, <1>5

\* Granting a request takes no lock away from anybody and forgets no sleeper.
LEMMA GrantKeeps ==
  ASSUME Inv, NEW p \in Proc, NEW T \in Locks, CountersOK(T),
         pc[p] \in {"user"} \cup Lock, p \notin doomed, p \notin asleep,
         \A k \in Lock : T[k].sleepers = (IF pc[p] = k THEN sem[k].sleepers - 1
                                                       ELSE sem[k].sleepers),
         \A k \in Lock : T[k].proc = sem[k].proc \/ (T[k].proc = p /\ sem[k].proc = None),
         NEW o \in Ops, Granted(T, p, o), UNCHANGED <<doomed, ghosts>>
  PROVE  /\ TypeOK' /\ BooksOK' /\ CountersOK(sem)' /\ Counted' /\ NoLostWakeup' /\ WaitsOK'
         /\ DeadHoldNothing'
         /\ \A q \in Proc : Alive(q)' <=> Alive(q)
         /\ Alive(p)
<1>0. TypeOK
  BY DEF Inv
<1>1. /\ sem' = T /\ asleep' = asleep \ {p}
      /\ pc'[p] = (IF o = "call" THEN "call" ELSE "user") /\ op'[p] = "none"
      /\ \A q \in Proc : q # p => pc'[q] = pc[q] /\ op'[q] = op[q] /\ begun'[q] = begun[q]
      /\ pc' = [pc EXCEPT ![p] = IF o = "call" THEN "call" ELSE "user"]
      /\ op' \in [Proc -> Ops]
      /\ begun' \in [Proc -> [Lock -> Nat]]
      /\ C' \in [Lock -> [proc : Proc \cup {None}, count : Nat]]
      /\ \A l \in Lock : C'[l].proc \in {C[l].proc, p}
      /\ \A l \in Lock : C'[l] = C[l] \/ C'[l].count = C[l].count + 1
      /\ doomed' = doomed /\ tidy' = tidy /\ broken' = broken
  BY <1>0, GrantedLemma DEF ghosts
<1>2. TypeOK'
  BY <1>0, <1>1 DEF TypeOK, Locks
<1>3. CountersOK(sem)'
  BY <1>1
<1>4. Counted'
  <2>1. \A k \in Lock : /\ IsFiniteSet(Waiters(k)) /\ Cardinality(Waiters(k)) \in Nat
                        /\ Cardinality(Waiters(k)) <= sem[k].sleepers
                        /\ sem[k].sleepers \in Nat
    BY <1>0, Types, FS_CardinalityType DEF Inv, Counted
  <2>0. pc'[p] \in {"user", "call", "dead"} \cup Lock /\ pc' = [pc EXCEPT ![p] = pc'[p]]
        /\ pc'[p] \notin Lock
    BY <1>1, TwoLocks
  <2>2. \A k \in Lock :
           /\ IsFiniteSet(Waiters(k)') /\ Cardinality(Waiters(k)') \in Nat
           /\ Cardinality(Waiters(k)') <= Cardinality(Waiters(k))
           /\ pc[p] = k => Cardinality(Waiters(k)') = Cardinality(Waiters(k)) - 1
    <3> DEFINE x == pc'[p]
    <3>1. x \in {"user", "call", "dead"} \cup Lock /\ pc' = [pc EXCEPT ![p] = x] /\ x \notin Lock
      BY <2>0
    <3> HIDE DEF x
    <3> QED
      BY <1>0, <3>1, <2>1, WaitersMove
  <2> SUFFICES ASSUME NEW k \in Lock
               PROVE  IsFiniteSet(Waiters(k)') /\ Cardinality(Waiters(k)') <= sem'[k].sleepers
    BY DEF Counted
  <2>4. CASE pc[p] = k
    <3>1. sem'[k].sleepers = sem[k].sleepers - 1
      BY <2>4, <1>1
    <3> QED
      BY <3>1, <2>1, <2>2, <2>4
  <2>5. CASE pc[p] # k
    <3>1. sem'[k].sleepers = sem[k].sleepers
      BY <2>5, <1>1
    <3> QED
      BY <3>1, <2>1, <2>2, <2>5
  <2> QED
    BY <2>4, <2>5
<1>5. NoLostWakeup'
  <2> SUFFICES ASSUME NEW q \in asleep' PROVE sem'[pc'[q]].proc # None
    BY DEF NoLostWakeup
  <2>1. q \in asleep /\ q # p /\ q \in Proc /\ pc[q] \in Lock /\ pc'[q] = pc[q]
    BY <1>0, <1>1 DEF TypeOK
  <2>2. sem[pc[q]].proc # None
    BY <2>1 DEF Inv, NoLostWakeup
  <2> QED
    BY <2>1, <2>2, <1>1
<1>6. WaitsOK'
  <2>0. \A q \in Proc : q \in asleep' => q \notin doomed'
    BY <1>1 DEF Inv, WaitsOK
  <2> SUFFICES ASSUME NEW q \in Proc, pc'[q] \in Lock
               PROVE  /\ sem'[pc'[q]].proc # q /\ op'[q] # "none"
                      /\ pc'[q] = "update" => op'[q] # "BEG_MCTRL"
    BY <2>0, TwoLocks DEF WaitsOK
  <2>1. q # p /\ pc'[q] = pc[q] /\ op'[q] = op[q]
    BY <1>1, TwoLocks
  <2>2. /\ sem[pc[q]].proc # q /\ op[q] # "none"
        /\ pc[q] = "update" => op[q] # "BEG_MCTRL"
    BY <2>1 DEF Inv, WaitsOK
  <2> QED
    BY <2>1, <2>2, <1>1
<1>7. DeadHoldNothing'
  <2> SUFFICES ASSUME NEW q \in Proc, NEW l \in Lock, pc'[q] = "dead"
               PROVE  sem'[l].proc # q /\ C'[l].proc # q
    BY DEF DeadHoldNothing
  <2>1. q # p /\ pc[q] = "dead"
    BY <1>1, TwoLocks
  <2>2. sem[l].proc # q /\ C[l].proc # q
    BY <2>1 DEF Inv, DeadHoldNothing
  <2> QED
    BY <2>1, <2>2, <1>1
<1>8. \A q \in Proc : Alive(q)' <=> Alive(q)
  BY <1>1, TwoLocks DEF Alive
<1>9. Alive(p)
  BY TwoLocks DEF Alive
<1>10. BooksOK'
  BY <1>0, <1>1, Types DEF Inv, BooksOK
<1> QED
  BY <1>2, <1>3, <1>4, <1>5, <1>6, <1>7, <1>8, <1>9, <1>10

\* Each count follows its lock when the owner, or nobody before, enters it once more.
LEMMA MouseTaken ==
  ASSUME Inv, NEW p \in Proc, Alive(p), \A q \in Proc : Alive(q)' <=> Alive(q),
         UNCHANGED <<tidy, broken>>, sem["mouse"].proc \in {None, p},
         sem'["mouse"].proc = p, sem'["mouse"].counter = sem["mouse"].counter + 1,
         WellUsed => /\ MouseCount(p)' = MouseCount(p) + 1
                     /\ \A q \in Proc : q # p => MouseCount(q)' = MouseCount(q)
  PROVE  MouseMine'
<1>0. TypeOK /\ MouseMine /\ p # None /\ sem["mouse"].counter \in Nat
  BY Types, TwoLocks, AesLockAssumption DEF Inv
<1>1. CASE ~WellUsed
  BY <1>1, Counts DEF MouseMine, WellUsed
<1>2. CASE WellUsed
  <2>1. sem["mouse"].counter = MouseCount(p)
    <3>1. CASE sem["mouse"].proc = p
      BY <3>1, <1>0, <1>2, Counts
    <3>2. CASE sem["mouse"].proc = None
      <4>1. sem["mouse"].counter = 0
        BY <3>2, TwoLocks DEF Inv, CountersOK
      <4>2. MouseCount(p) = 0
        BY <3>2, <1>0, <1>2, Counts, CountTypes
      <4> QED
        BY <4>1, <4>2
    <3> QED
      BY <3>1, <3>2
  <2>2. \A q \in Proc : q # p /\ Alive(q) => ~(MouseCount(q) > 0)
    BY <1>0, <1>2, Counts, AesLockAssumption
  <2>3. \A q \in Proc : Alive(q)' =>
          /\ MouseCount(q)' > 0 => sem'["mouse"].proc = q
          /\ sem'["mouse"].proc = q => sem'["mouse"].counter = MouseCount(q)'
    <3> SUFFICES ASSUME NEW q \in Proc, Alive(q)'
                 PROVE  /\ MouseCount(q)' > 0 => sem'["mouse"].proc = q
                        /\ sem'["mouse"].proc = q => sem'["mouse"].counter = MouseCount(q)'
      OBVIOUS
    <3>1. CASE q = p
      BY <3>1, <2>1, <1>2
    <3>2. CASE q # p
      BY <3>2, <2>2, <1>2
    <3> QED
      BY <3>1, <3>2
  <2>4. (MouseMine <=> (WellUsed => \A q \in Proc : Alive(q) =>
          /\ MouseCount(q) > 0 => sem["mouse"].proc = q
          /\ sem["mouse"].proc = q => sem["mouse"].counter = MouseCount(q)))'
    BY DEF MouseMine, MouseCount
  <2> QED
    BY <2>3, <2>4
<1> QED
  BY <1>1, <1>2

LEMMA UpdateTaken ==
  ASSUME Inv, NEW p \in Proc, Alive(p), \A q \in Proc : Alive(q)' <=> Alive(q),
         sem["update"].proc \in {None, p},
         sem'["update"].proc = p, sem'["update"].counter = sem["update"].counter + 1,
         UpdateCount(p)' = UpdateCount(p) + 1,
         \A q \in Proc : q # p => UpdateCount(q)' = UpdateCount(q)
  PROVE  UpdateMine'
<1>0. TypeOK /\ UpdateMine /\ p # None /\ sem["update"].counter \in Nat
  BY Types, TwoLocks, AesLockAssumption DEF Inv
<1>1. sem["update"].counter = UpdateCount(p)
  <2>1. CASE sem["update"].proc = p
    BY <2>1, <1>0, Counts
  <2>2. CASE sem["update"].proc = None
    <3>1. sem["update"].counter = 0
      BY <2>2, TwoLocks DEF Inv, CountersOK
    <3>2. UpdateCount(p) = 0
      BY <2>2, <1>0, Counts, CountTypes
    <3> QED
      BY <3>1, <3>2
  <2> QED
    BY <2>1, <2>2
<1>2. \A q \in Proc : q # p /\ Alive(q) => ~(UpdateCount(q) > 0)
  BY <1>0, Counts, AesLockAssumption
<1>3. \A q \in Proc : Alive(q)' =>
        /\ UpdateCount(q)' > 0 => sem'["update"].proc = q
        /\ sem'["update"].proc = q => sem'["update"].counter = UpdateCount(q)'
  <2> SUFFICES ASSUME NEW q \in Proc, Alive(q)'
               PROVE  /\ UpdateCount(q)' > 0 => sem'["update"].proc = q
                      /\ sem'["update"].proc = q => sem'["update"].counter = UpdateCount(q)'
    OBVIOUS
  <2>1. CASE q = p
    BY <2>1, <1>1
  <2>2. CASE q # p
    BY <2>2, <1>2
  <2> QED
    BY <2>1, <2>2
<1>4. (UpdateMine <=> \A q \in Proc : Alive(q) =>
         /\ UpdateCount(q) > 0 => sem["update"].proc = q
         /\ sem["update"].proc = q => sem["update"].counter = UpdateCount(q))'
  BY DEF UpdateMine, UpdateCount
<1> QED
  BY <1>3, <1>4

\* wind_update(BEG_MCTRL) gets the mouse lock.
LEMMA GrantMctrlInv ==
  ASSUME Inv, NEW p \in Proc, NEW S, TookMouse(S, p),
         Granted(S, p, "BEG_MCTRL"), UNCHANGED <<doomed, ghosts>>
  PROVE  Inv'
<1>0. TypeOK /\ p # None
  BY AesLockAssumption DEF Inv
<1>1. /\ S \in Locks /\ CountersOK(S)
      /\ pc[p] \in {"user", "mouse"} /\ p \notin doomed /\ p \notin asleep
      /\ sem["mouse"].proc \in {None, p}
      /\ S["mouse"].proc = p /\ S["mouse"].counter = sem["mouse"].counter + 1
      /\ S["update"] = sem["update"]
      /\ S["mouse"].sleepers = (IF pc[p] = "mouse" THEN sem["mouse"].sleepers - 1
                                               ELSE sem["mouse"].sleepers)
  BY DEF TookMouse
<1>2. /\ sem' = S
      /\ pc'[p] = "user"
      /\ \A q \in Proc : q # p => pc'[q] = pc[q] /\ begun'[q] = begun[q]
      /\ C'["update"] = C["update"]
      /\ begun'[p]["mouse"] = begun[p]["mouse"] + 1
      /\ begun'[p]["update"] = begun[p]["update"]
      /\ tidy' = tidy /\ broken' = broken
  BY <1>0, GrantedLemma DEF ghosts
<1>3. /\ TypeOK' /\ BooksOK' /\ CountersOK(sem)' /\ Counted' /\ NoLostWakeup' /\ WaitsOK'
      /\ DeadHoldNothing'
      /\ \A q \in Proc : Alive(q)' <=> Alive(q)
      /\ Alive(p)
  <2>1. pc[p] \in {"user"} \cup Lock
    BY <1>1, TwoLocks
  <2>2. \A k \in Lock : S[k].sleepers = (IF pc[p] = k THEN sem[k].sleepers - 1
                                                      ELSE sem[k].sleepers)
    BY <1>1, TwoLocks
  <2>3. \A k \in Lock : S[k].proc = sem[k].proc \/ (S[k].proc = p /\ sem[k].proc = None)
    <3>1. S["update"].proc = sem["update"].proc
      BY <1>1
    <3>2. S["mouse"].proc = sem["mouse"].proc \/ (S["mouse"].proc = p /\ sem["mouse"].proc = None)
      BY <1>1
    <3> QED
      BY <3>1, <3>2, TwoLocks
  <2>0. S \in Locks /\ CountersOK(S) /\ p \notin doomed /\ p \notin asleep
    BY <1>1
  <2>4. "BEG_MCTRL" \in Ops
    BY DEF Ops
  <2> QED
    BY <2>0, <2>1, <2>2, <2>3, <2>4, GrantKeeps
<1>4. \A l \in Lock : /\ sem[l].counter \in Nat
                      /\ \A q \in Proc : begun[q][l] \in Nat
  BY <1>0, Types
<1>5. RecordOK'
  BY <1>0, <1>1, <1>2, <1>3 DEF Inv, RecordOK
<1>6. UpdateMine'
  BY <1>0, <1>1, <1>2, <1>3 DEF Inv, UpdateMine
<1>7. MouseFirst'
  <2>1. sem'["update"] = sem["update"]
    BY <1>1, <1>2
  <2>2. \A q \in Proc : q # p => pc'[q] = pc[q]
    BY <1>2
  <2> QED
    BY <1>0, <1>1, <1>2, <2>1, <2>2 DEF Inv, MouseFirst, WellUsed
<1>8. MouseMine'
  <2>1. MouseCount(p)' = MouseCount(p) + 1 /\ \A q \in Proc : q # p => MouseCount(q)' = MouseCount(q)
    <3>1. pc[p] \notin {"call", "update"} /\ pc'[p] \notin {"call", "update"}
      BY <1>1, <1>2
    <3> QED
      BY <3>1, <1>2, <1>4, TwoLocks DEF MouseCount
  <2> QED
    BY <2>1, <1>0, <1>1, <1>2, <1>3, MouseTaken
<1> QED
  BY <1>3, <1>5, <1>6, <1>7, <1>8 DEF Inv

\* lock_screen() gets the update lock after the mouse lock.
LEMMA GrantUpdateInv ==
  ASSUME Inv, NEW p \in Proc, NEW S, TookMouse(S, p), ~Blocked(S, "update", p),
         NEW o \in {"BEG_UPDATE", "call"},
         Granted(Entered(S, "update", p), p, o), UNCHANGED <<doomed, ghosts>>
  PROVE  Inv'
<1> DEFINE T == Entered(S, "update", p)
<1>0. TypeOK /\ p # None /\ o \in Ops
  BY AesLockAssumption DEF Inv, Ops
<1>1. /\ S \in Locks /\ CountersOK(S)
      /\ pc[p] \in {"user", "mouse"} /\ p \notin doomed /\ p \notin asleep
      /\ sem["mouse"].proc \in {None, p}
      /\ S["mouse"].proc = p /\ S["mouse"].counter = sem["mouse"].counter + 1
      /\ S["update"] = sem["update"]
      /\ S["mouse"].sleepers = (IF pc[p] = "mouse" THEN sem["mouse"].sleepers - 1
                                               ELSE sem["mouse"].sleepers)
  BY DEF TookMouse
<1>2. sem["update"].proc \in {None, p}
  BY <1>1 DEF Blocked
<1>3. /\ T \in Locks /\ CountersOK(T)
      /\ T["update"].proc = p /\ T["update"].counter = sem["update"].counter + 1
      /\ T["update"].sleepers = sem["update"].sleepers
      /\ T["mouse"] = S["mouse"]
  BY <1>1, TwoLocks, EnteredLemma
<1>4. Granted(T, p, o)
  OBVIOUS
<1> HIDE DEF T
<1>5. /\ sem' = T
      /\ pc'[p] = (IF o = "call" THEN "call" ELSE "user")
      /\ \A q \in Proc : q # p => pc'[q] = pc[q] /\ begun'[q] = begun[q]
      /\ o = "call" => C' = C /\ begun' = begun
      /\ o = "BEG_UPDATE" =>
           /\ C'["update"].proc = p /\ C'["update"].count = C["update"].count + 1
           /\ begun'[p]["update"] = begun[p]["update"] + 1
           /\ begun'[p]["mouse"] = begun[p]["mouse"]
      /\ tidy' = tidy /\ broken' = broken
  BY <1>0, <1>4, GrantedLemma DEF ghosts
<1>6. /\ TypeOK' /\ BooksOK' /\ CountersOK(sem)' /\ Counted' /\ NoLostWakeup' /\ WaitsOK'
      /\ DeadHoldNothing'
      /\ \A q \in Proc : Alive(q)' <=> Alive(q)
      /\ Alive(p)
  <2>0. T \in Locks /\ CountersOK(T) /\ p \notin doomed /\ p \notin asleep
    BY <1>1, <1>3
  <2>1. pc[p] \in {"user"} \cup Lock
    BY <1>1, TwoLocks
  <2>2. \A k \in Lock : T[k].sleepers = (IF pc[p] = k THEN sem[k].sleepers - 1
                                                      ELSE sem[k].sleepers)
    BY <1>1, <1>3, TwoLocks
  <2>3. \A k \in Lock : T[k].proc = sem[k].proc \/ (T[k].proc = p /\ sem[k].proc = None)
    <3>1. T["update"].proc = sem["update"].proc \/ (T["update"].proc = p /\ sem["update"].proc = None)
      BY <1>2, <1>3
    <3>2. T["mouse"].proc = sem["mouse"].proc \/ (T["mouse"].proc = p /\ sem["mouse"].proc = None)
      BY <1>1, <1>3
    <3> QED
      BY <3>1, <3>2, TwoLocks
  <2> QED
    BY <2>0, <2>1, <2>2, <2>3, <1>0, <1>4, GrantKeeps
<1>7. \A l \in Lock : /\ sem[l].counter \in Nat /\ C[l].count \in Nat
                      /\ \A q \in Proc : begun[q][l] \in Nat
  BY <1>0, Types
<1>8. \A q \in Proc : q # p => /\ UpdateCount(q)' = UpdateCount(q)
                              /\ MouseCount(q)' = MouseCount(q)
  BY <1>5 DEF UpdateCount, MouseCount
<1>9. UpdateCount(p)' = UpdateCount(p) + 1 /\ MouseCount(p)' = MouseCount(p) + 1
  <2>1. pc[p] \notin {"call", "update"}
    BY <1>1
  <2>2. CASE o = "call"
    BY <2>1, <2>2, <1>5, <1>7, TwoLocks DEF UpdateCount, MouseCount
  <2>3. CASE o = "BEG_UPDATE"
    BY <2>1, <2>3, <1>5, <1>7, TwoLocks DEF UpdateCount, MouseCount
  <2> QED
    BY <2>2, <2>3
<1>10. UpdateMine'
  BY <1>2, <1>3, <1>5, <1>6, <1>8, <1>9, UpdateTaken
<1>11. MouseMine'
  BY <1>1, <1>3, <1>5, <1>6, <1>8, <1>9, MouseTaken
<1>12. MouseFirst'
  BY <1>1, <1>3, <1>5 DEF Inv, MouseFirst, WellUsed
<1>13. RecordOK'
  <2>0. RecordOK /\ sem'["update"].proc = p
    BY <1>3, <1>5 DEF Inv
  <2>1. CASE o = "call"
    BY <2>0, <2>1, <1>0, <1>2, <1>5, <1>6 DEF RecordOK
  <2>2. CASE o = "BEG_UPDATE"
    <3>1. C["update"].count = begun[p]["update"]
      BY <2>0, <1>0, <1>2, <1>6, <1>7, TwoLocks DEF RecordOK
    <3>2. \A q \in Proc : Alive(q)' /\ q # p => ~(begun'[q]["update"] > 0)
      BY <2>0, <1>0, <1>2, <1>5, <1>6, AesLockAssumption DEF RecordOK
    <3>3. begun[p]["update"] + 1 > 0
      BY <1>7, TwoLocks
    <3> QED
      BY <3>1, <3>2, <3>3, <2>0, <2>2, <1>0, <1>5 DEF RecordOK
  <2> QED
    BY <2>1, <2>2
<1> QED
  BY <1>6, <1>10, <1>11, <1>12, <1>13 DEF Inv

\* A process gets the update lock it has slept for; somebody has not used the locks
\* well if it had to.
LEMMA RetryUpdateInv ==
  ASSUME Inv, NEW p \in Proc, pc[p] = "update", p \notin asleep, p \notin doomed,
         sem["update"].proc = None,
         Granted(Entered([sem EXCEPT !["update"].sleepers = @ - 1], "update", p), p, op[p]),
         UNCHANGED <<doomed, ghosts>>
  PROVE  Inv'
<1> DEFINE S == [sem EXCEPT !["update"].sleepers = @ - 1]
           T == Entered(S, "update", p)
           o == op[p]
<1>0. TypeOK /\ p # None /\ sem \in Locks /\ CountersOK(sem)
  BY AesLockAssumption, Types DEF Inv
<1>1. o \in Ops /\ o \in {"BEG_UPDATE", "call"}
  BY <1>0, TwoLocks DEF Inv, WaitsOK, TypeOK, Ops
<1>2. sem["update"].sleepers > 0
  BY TwoLocks, SleeperCounted
<1>3. /\ S \in Locks /\ CountersOK(S)
      /\ S["update"].proc = sem["update"].proc /\ S["update"].counter = sem["update"].counter
      /\ S["update"].sleepers = sem["update"].sleepers - 1
      /\ S["mouse"] = sem["mouse"]
  BY <1>0, <1>2, TwoLocks, AwakeLemma
<1>4. /\ T \in Locks /\ CountersOK(T)
      /\ T["update"].proc = p /\ T["update"].counter = S["update"].counter + 1
      /\ T["update"].sleepers = S["update"].sleepers
      /\ T["mouse"] = S["mouse"]
  <2> HIDE DEF S
  <2> QED
    BY <1>3, TwoLocks, EnteredLemma
<1>5. Granted(T, p, o)
  OBVIOUS
<1> HIDE DEF S, T, o
<1>6. /\ sem' = T
      /\ pc'[p] = (IF o = "call" THEN "call" ELSE "user")
      /\ \A q \in Proc : q # p => pc'[q] = pc[q] /\ begun'[q] = begun[q]
      /\ o = "call" => C' = C /\ begun' = begun
      /\ o = "BEG_UPDATE" =>
           /\ C'["update"].proc = p /\ C'["update"].count = C["update"].count + 1
           /\ begun'[p]["update"] = begun[p]["update"] + 1
           /\ begun'[p]["mouse"] = begun[p]["mouse"]
      /\ tidy' = tidy /\ broken' = broken
  BY <1>0, <1>5, GrantedLemma DEF ghosts
<1>7. /\ TypeOK' /\ BooksOK' /\ CountersOK(sem)' /\ Counted' /\ NoLostWakeup' /\ WaitsOK'
      /\ DeadHoldNothing'
      /\ \A q \in Proc : Alive(q)' <=> Alive(q)
      /\ Alive(p)
  <2>1. pc[p] \in {"user"} \cup Lock
    BY TwoLocks
  <2>2. \A k \in Lock : T[k].sleepers = (IF pc[p] = k THEN sem[k].sleepers - 1
                                                      ELSE sem[k].sleepers)
    BY <1>3, <1>4, TwoLocks
  <2>3. \A k \in Lock : T[k].proc = sem[k].proc \/ (T[k].proc = p /\ sem[k].proc = None)
    BY <1>3, <1>4, TwoLocks
  <2> QED
    BY <2>1, <2>2, <2>3, <1>1, <1>4, <1>5, GrantKeeps
<1>8. ~WellUsed /\ ~WellUsed'
  BY <1>6 DEF Inv, MouseFirst, WellUsed
<1>9. \A l \in Lock : /\ sem[l].counter \in Nat /\ C[l].count \in Nat
                      /\ \A q \in Proc : begun[q][l] \in Nat
  BY <1>0, Types
<1>10. UpdateMine'
  <2>1. \A q \in Proc : q # p => UpdateCount(q)' = UpdateCount(q)
    BY <1>6 DEF UpdateCount
  <2>2. UpdateCount(p)' = UpdateCount(p) + 1
    <3>1. CASE o = "call"
      BY <3>1, <1>6, <1>9, TwoLocks DEF UpdateCount
    <3>2. CASE o = "BEG_UPDATE"
      BY <3>2, <1>6, <1>9, TwoLocks DEF UpdateCount
    <3> QED
      BY <3>1, <3>2, <1>1
  <2>3. /\ sem["update"].proc \in {None, p}
        /\ sem'["update"].proc = p /\ sem'["update"].counter = sem["update"].counter + 1
    BY <1>3, <1>4, <1>6
  <2> QED
    BY <2>1, <2>2, <2>3, <1>7, UpdateTaken
<1>11. MouseFirst' /\ MouseMine'
  BY <1>8 DEF MouseFirst, MouseMine
<1>12. RecordOK'
  <2>0. RecordOK /\ sem'["update"].proc = p
    BY <1>4, <1>6 DEF Inv
  <2>1. CASE o = "call"
    BY <2>0, <2>1, <1>0, <1>6, <1>7 DEF RecordOK
  <2>2. CASE o = "BEG_UPDATE"
    <3>1. C["update"].count = begun[p]["update"]
      BY <2>0, <1>0, <1>7, <1>9, TwoLocks DEF RecordOK
    <3>2. \A q \in Proc : Alive(q)' /\ q # p => ~(begun'[q]["update"] > 0)
      BY <2>0, <1>0, <1>6, <1>7, AesLockAssumption DEF RecordOK
    <3>3. begun[p]["update"] + 1 > 0
      BY <1>9, TwoLocks
    <3> QED
      BY <3>1, <3>2, <3>3, <2>0, <2>2, <1>0, <1>6 DEF RecordOK
  <2> QED
    BY <2>1, <2>2, <1>1
<1> QED
  BY <1>7, <1>10, <1>11, <1>12 DEF Inv

\* The rest of a request that has just got the mouse lock.
LEMMA ProceedInv ==
  ASSUME Inv, NEW p \in Proc, NEW S, TookMouse(S, p), NEW o \in Ops \ {"none"},
         Proceed(S, p, o), UNCHANGED <<doomed, ghosts>>
  PROVE  Inv'
<1>1. CASE o = "BEG_MCTRL"
  BY <1>1, GrantMctrlInv DEF Proceed
<1>2. CASE o # "BEG_MCTRL" /\ Blocked(S, "update", p)
  BY <1>2, SleepUpdateInv DEF Proceed, Ops
<1>3. CASE o # "BEG_MCTRL" /\ ~Blocked(S, "update", p)
  BY <1>3, GrantUpdateInv DEF Proceed, Ops
<1> QED
  BY <1>1, <1>2, <1>3

\* A caller that finds the mouse lock free or its own takes it.
LEMMA CallTookMouse ==
  ASSUME Inv, NEW p \in Proc, Calls(p), ~Blocked(sem, "mouse", p)
  PROVE  TookMouse(Entered(sem, "mouse", p), p)
<1>1. TypeOK /\ sem \in Locks /\ CountersOK(sem) /\ pc[p] = "user" /\ p \notin doomed /\ p \notin asleep
  BY Types, TwoLocks DEF Inv, Calls, TypeOK
<1> DEFINE S == Entered(sem, "mouse", p)
<1>2. /\ S \in Locks /\ CountersOK(S)
      /\ S["mouse"].proc = p /\ S["mouse"].counter = sem["mouse"].counter + 1
      /\ S["mouse"].sleepers = sem["mouse"].sleepers
      /\ S["update"] = sem["update"]
  BY <1>1, TwoLocks, EnteredLemma
<1> HIDE DEF S
<1>3. TookMouse(S, p)
  BY <1>1, <1>2 DEF TookMouse, Blocked
<1> QED
  BY <1>3 DEF S

LEMMA RequestInv ==
  ASSUME Inv, NEW p \in Proc, Calls(p), NEW o \in Ops \ {"none"}, Request(p, o),
         UNCHANGED <<doomed, ghosts>>
  PROVE  Inv'
<1>1. CASE Blocked(sem, "mouse", p)
  BY <1>1, SleepMouseInv DEF Request
<1>2. CASE ~Blocked(sem, "mouse", p)
  BY <1>2, CallTookMouse, ProceedInv DEF Request
<1> QED
  BY <1>1, <1>2

\* ressource_semaphore_lock() after sleep().
LEMMA RetryInv ==
  ASSUME Inv, NEW p \in Proc, Retry(p)
  PROVE  Inv'
<1>0. /\ TypeOK /\ sem \in Locks /\ CountersOK(sem) /\ p # None
      /\ pc[p] \in Lock /\ p \notin asleep /\ p \notin doomed
      /\ doomed' = doomed /\ tidy' = tidy /\ broken' = broken
      /\ UNCHANGED <<doomed, ghosts>>
  BY Types, AesLockAssumption DEF Inv, Retry, ghosts
<1>1. CASE /\ sem[pc[p]].proc # None /\ asleep' = asleep \cup {p}
           /\ UNCHANGED <<sem, C, pc, op, begun>>
  <2>1. TypeOK'
    BY <1>0, <1>1 DEF TypeOK
  <2>2. NoLostWakeup'
    BY <1>0, <1>1 DEF Inv, NoLostWakeup
  <2>3. CountersOK(sem)' /\ BooksOK' /\ Counted' /\ WaitsOK' /\ RecordOK' /\ DeadHoldNothing'
    BY <1>0, <1>1 DEF Inv, BooksOK, Counted, Waiters, WaitsOK, RecordOK, Alive, DeadHoldNothing
  <2>4. UpdateMine' /\ MouseFirst' /\ MouseMine'
    BY <1>0, <1>1 DEF Inv, UpdateMine, MouseFirst, MouseMine, Alive, WellUsed
  <2> QED
    BY <2>1, <2>2, <2>3, <2>4 DEF Inv
<1>2. CASE /\ sem[pc[p]].proc = None /\ pc[p] = "update"
           /\ Granted(Entered([sem EXCEPT !["update"].sleepers = @ - 1], "update", p), p, op[p])
  BY <1>0, <1>2, RetryUpdateInv
<1>3. CASE /\ sem[pc[p]].proc = None /\ pc[p] = "mouse"
           /\ Proceed(Entered([sem EXCEPT !["mouse"].sleepers = @ - 1], "mouse", p), p, op[p])
  <2> DEFINE S == [sem EXCEPT !["mouse"].sleepers = @ - 1]
             T == Entered(S, "mouse", p)
  <2>1. sem["mouse"].sleepers > 0
    BY <1>0, <1>3, SleeperCounted
  <2>2. /\ S \in Locks /\ CountersOK(S)
        /\ S["mouse"].proc = sem["mouse"].proc /\ S["mouse"].counter = sem["mouse"].counter
        /\ S["mouse"].sleepers = sem["mouse"].sleepers - 1
        /\ S["update"] = sem["update"]
    BY <1>0, <2>1, TwoLocks, AwakeLemma
  <2>3. /\ T \in Locks /\ CountersOK(T)
        /\ T["mouse"].proc = p /\ T["mouse"].counter = S["mouse"].counter + 1
        /\ T["mouse"].sleepers = S["mouse"].sleepers
        /\ T["update"] = S["update"]
    <3> HIDE DEF S
    <3> QED
      BY <2>2, TwoLocks, EnteredLemma
  <2>4. Proceed(T, p, op[p])
    BY <1>3
  <2> HIDE DEF S, T
  <2>5. TookMouse(T, p)
    BY <1>0, <1>3, <2>2, <2>3 DEF TookMouse
  <2>6. op[p] \in Ops \ {"none"}
    BY <1>0, <1>3 DEF Inv, TypeOK, WaitsOK
  <2> QED
    BY <2>4, <2>5, <2>6, <1>0, ProceedInv
<1>4. \/ /\ sem[pc[p]].proc # None /\ asleep' = asleep \cup {p}
         /\ UNCHANGED <<sem, C, pc, op, begun>>
      \/ /\ sem[pc[p]].proc = None /\ pc[p] = "update"
         /\ Granted(Entered([sem EXCEPT !["update"].sleepers = @ - 1], "update", p), p, op[p])
      \/ /\ sem[pc[p]].proc = None /\ pc[p] = "mouse"
         /\ Proceed(Entered([sem EXCEPT !["mouse"].sleepers = @ - 1], "mouse", p), p, op[p])
  <2>1. CASE pc[p] = "mouse"
    BY <2>1 DEF Retry
  <2>2. CASE pc[p] = "update"
    BY <2>2 DEF Retry
  <2> QED
    BY <2>1, <2>2, <1>0, TwoLocks
<1> QED
  BY <1>1, <1>2, <1>3, <1>4

-----------------------------------------------------------------------------
(* The steps that give locks back.                                          *)

\* A release, an exit or the recovery key: locks become free and sleepers awake.
LEMMA ReleaseKeeps ==
  ASSUME Inv, NEW p \in Proc, NEW x \in {"user", "call", "dead"},
         pc' = [pc EXCEPT ![p] = x] \/ pc' = pc,
         pc' # pc => p \notin asleep,
         op' \in [Proc -> Ops], \A q \in Proc : pc'[q] \in Lock => op'[q] = op[q],
         begun' \in [Proc -> [Lock -> Nat]],
         C' \in [Lock -> [proc : Proc \cup {None}, count : Nat]], BooksOK',
         sem' \in Locks, CountersOK(sem'),
         \A k \in Lock : sem'[k].sleepers = sem[k].sleepers,
         \A k \in Lock : sem'[k].proc = sem[k].proc \/ sem'[k].proc = None,
         asleep' \subseteq asleep \ Woken(sem, sem'),
         doomed' \subseteq Proc, asleep' \cap doomed' = {},
         tidy' = tidy, broken' \in BOOLEAN
  PROVE  TypeOK' /\ BooksOK' /\ CountersOK(sem)' /\ Counted' /\ NoLostWakeup' /\ WaitsOK'
<1>0. TypeOK /\ None \notin Proc
  BY AesLockAssumption DEF Inv
<1>1. \A q \in Proc : pc'[q] \in Lock => pc'[q] = pc[q]
  BY <1>0, TwoLocks DEF TypeOK
<1>2. \A q \in asleep' : q \in asleep /\ q \in Proc /\ pc'[q] = pc[q] /\ pc[q] \in Lock
  BY <1>0 DEF TypeOK
<1>3. TypeOK'
  <2>1. pc' \in [Proc -> {"user", "call", "dead"} \cup Lock]
    BY <1>0 DEF TypeOK
  <2>2. asleep' \subseteq {q \in Proc : pc'[q] \in Lock}
    BY <1>2
  <2> QED
    BY <1>0, <2>1, <2>2 DEF TypeOK, Locks
<1>4. Counted'
  BY CountedKept
<1>5. NoLostWakeup'
  BY <1>2, UnlockWakes
<1>6. WaitsOK'
  <2> SUFFICES ASSUME NEW q \in Proc
               PROVE  /\ pc'[q] \in Lock => sem'[pc'[q]].proc # q /\ op'[q] # "none"
                      /\ pc'[q] = "update" => op'[q] # "BEG_MCTRL"
    BY DEF WaitsOK
  <2>1. CASE pc'[q] \in Lock
    <3>1. pc'[q] = pc[q] /\ op'[q] = op[q]
      BY <2>1, <1>1
    <3>2. sem[pc[q]].proc # q /\ op[q] # "none" /\ (pc[q] = "update" => op[q] # "BEG_MCTRL")
      BY <2>1, <3>1 DEF Inv, WaitsOK
    <3> QED
      BY <2>1, <3>1, <3>2, <1>0
  <2>2. CASE pc'[q] \notin Lock
    BY <2>2, TwoLocks
  <2> QED
    BY <2>1, <2>2
<1> QED
  BY <1>3, <1>4, <1>5, <1>6

\* The counts of the owner go down with its locks.
LEMMA UpdateReleased ==
  ASSUME Inv, NEW p \in Proc, \A q \in Proc : Alive(q)' => Alive(q),
         \A q \in Proc : q # p => UpdateCount(q)' = UpdateCount(q),
         sem["update"].proc # p => sem'["update"] = sem["update"],
         sem["update"].proc = p =>
           \/ /\ sem'["update"].counter = sem["update"].counter - 1
              /\ sem'["update"].proc = (IF sem["update"].counter = 1 THEN None ELSE p)
           \/ sem'["update"].proc = None,
         Alive(p)' => /\ sem["update"].proc = p /\ sem'["update"].proc = p
                           => UpdateCount(p)' = UpdateCount(p) - 1
                      /\ sem'["update"].proc # p => UpdateCount(p)' = 0
  PROVE  UpdateMine'
<1>0. UpdateMine /\ None \notin Proc /\ sem["update"].counter \in Nat /\ TypeOK
  BY AesLockAssumption, Types, TwoLocks DEF Inv
<1>1. \A q \in Proc : Alive(q)' =>
        /\ UpdateCount(q)' > 0 => sem'["update"].proc = q
        /\ sem'["update"].proc = q => sem'["update"].counter = UpdateCount(q)'
  <2> SUFFICES ASSUME NEW q \in Proc, Alive(q)'
               PROVE  /\ UpdateCount(q)' > 0 => sem'["update"].proc = q
                      /\ sem'["update"].proc = q => sem'["update"].counter = UpdateCount(q)'
    OBVIOUS
  <2>1. /\ UpdateCount(q) > 0 => sem["update"].proc = q
        /\ sem["update"].proc = q => sem["update"].counter = UpdateCount(q)
    BY <1>0, Counts
  <2>2. CASE q # p
    BY <1>0, <2>1, <2>2
  <2>3. CASE q = p /\ sem'["update"].proc = p
    <3>1. sem["update"].proc = p
      BY <2>3
    <3>2. sem'["update"].counter = sem["update"].counter - 1
      BY <3>1, <2>3, <1>0
    <3> QED
      BY <3>1, <3>2, <2>1, <2>3
  <2>4. CASE q = p /\ sem'["update"].proc # p
    BY <2>4
  <2> QED
    BY <2>2, <2>3, <2>4
<1>2. (UpdateMine <=> \A q \in Proc : Alive(q) =>
         /\ UpdateCount(q) > 0 => sem["update"].proc = q
         /\ sem["update"].proc = q => sem["update"].counter = UpdateCount(q))'
  BY DEF UpdateMine, UpdateCount
<1> QED
  BY <1>1, <1>2

LEMMA MouseReleased ==
  ASSUME Inv, NEW p \in Proc, \A q \in Proc : Alive(q)' => Alive(q),
         WellUsed' =>
           /\ WellUsed
           /\ \A q \in Proc : q # p => MouseCount(q)' = MouseCount(q)
           /\ sem["mouse"].proc # p => sem'["mouse"] = sem["mouse"]
           /\ sem["mouse"].proc = p =>
                \/ /\ sem'["mouse"].counter = sem["mouse"].counter - 1
                   /\ sem'["mouse"].proc = (IF sem["mouse"].counter = 1 THEN None ELSE p)
                \/ sem'["mouse"].proc = None
           /\ Alive(p)' => /\ sem["mouse"].proc = p /\ sem'["mouse"].proc = p
                                => MouseCount(p)' = MouseCount(p) - 1
                           /\ sem'["mouse"].proc # p => MouseCount(p)' = 0
  PROVE  MouseMine'
<1>0. MouseMine /\ None \notin Proc /\ sem["mouse"].counter \in Nat /\ TypeOK
  BY AesLockAssumption, Types, TwoLocks DEF Inv
<1>1. WellUsed' => \A q \in Proc : Alive(q)' =>
        /\ MouseCount(q)' > 0 => sem'["mouse"].proc = q
        /\ sem'["mouse"].proc = q => sem'["mouse"].counter = MouseCount(q)'
  <2> SUFFICES ASSUME WellUsed', NEW q \in Proc, Alive(q)'
               PROVE  /\ MouseCount(q)' > 0 => sem'["mouse"].proc = q
                      /\ sem'["mouse"].proc = q => sem'["mouse"].counter = MouseCount(q)'
    OBVIOUS
  <2>1. /\ MouseCount(q) > 0 => sem["mouse"].proc = q
        /\ sem["mouse"].proc = q => sem["mouse"].counter = MouseCount(q)
    BY <1>0, Counts
  <2>2. CASE q # p
    BY <1>0, <2>1, <2>2
  <2>3. CASE q = p /\ sem'["mouse"].proc = p
    <3>1. sem["mouse"].proc = p
      BY <2>3
    <3>2. sem'["mouse"].counter = sem["mouse"].counter - 1
      BY <3>1, <2>3, <1>0
    <3> QED
      BY <3>1, <3>2, <2>1, <2>3
  <2>4. CASE q = p /\ sem'["mouse"].proc # p
    BY <2>4
  <2> QED
    BY <2>2, <2>3, <2>4
<1>2. (MouseMine <=> (WellUsed => \A q \in Proc : Alive(q) =>
         /\ MouseCount(q) > 0 => sem["mouse"].proc = q
         /\ sem["mouse"].proc = q => sem["mouse"].counter = MouseCount(q)))'
  BY DEF MouseMine, MouseCount
<1> QED
  BY <1>1, <1>2

\* wind_update(BEG_UPDATE | 0x100) gets both locks, or frees the mouse lock again;
\* the latter happens only if somebody has not used the locks well.
LEMMA TryBegUpdateInv ==
  ASSUME Inv, NEW p \in Proc, TryBegUpdate(p)
  PROVE  Inv'
<1> DEFINE S == Entered(sem, "mouse", p)
<1>0. /\ Calls(p) /\ ~Blocked(sem, "mouse", p) /\ UNCHANGED <<doomed, ghosts>>
      /\ \/ ~Blocked(S, "update", p) /\ Granted(Entered(S, "update", p), p, "BEG_UPDATE")
         \/ Blocked(S, "update", p) /\ Unlock(Freed(S, "mouse")) /\ UNCHANGED <<C, pc, op, begun>>
  BY DEF TryBegUpdate
<1>1. TookMouse(S, p)
  BY <1>0, CallTookMouse
<1> HIDE DEF S
<1>2. CASE ~Blocked(S, "update", p) /\ Granted(Entered(S, "update", p), p, "BEG_UPDATE")
  BY <1>0, <1>1, <1>2, GrantUpdateInv
<1>3. CASE Blocked(S, "update", p) /\ Unlock(Freed(S, "mouse")) /\ UNCHANGED <<C, pc, op, begun>>
  <2> DEFINE T == Freed(S, "mouse")
  <2>0. /\ TypeOK /\ S \in Locks /\ CountersOK(S) /\ p # None /\ pc[p] = "user"
        /\ S["update"] = sem["update"] /\ sem["mouse"].proc \in {None, p}
        /\ sem["update"].proc \notin {None, p}
        /\ S["mouse"].sleepers = sem["mouse"].sleepers
        /\ sem' = T /\ asleep' = asleep \ Woken(sem, T)
        /\ UNCHANGED <<C, pc, op, begun, doomed, tidy, broken>>
    BY <1>0, <1>1, <1>3, AesLockAssumption DEF Inv, TookMouse, Blocked, Calls, Unlock, ghosts
  <2>1. /\ T \in Locks /\ CountersOK(T) /\ T["mouse"].proc = None
        /\ \A k \in Lock : T[k].sleepers = S[k].sleepers
        /\ T["update"] = S["update"]
    BY <2>0, TwoLocks, FreedLemma
  <2> HIDE DEF T
  <2>2. TypeOK' /\ BooksOK' /\ CountersOK(sem)' /\ Counted' /\ NoLostWakeup' /\ WaitsOK'
    <3>1. \A k \in Lock : sem'[k].sleepers = sem[k].sleepers
      BY <2>0, <2>1, TwoLocks
    <3>2. \A k \in Lock : sem'[k].proc = sem[k].proc \/ sem'[k].proc = None
      BY <2>0, <2>1, TwoLocks
    <3>3. sem' \in Locks /\ CountersOK(sem') /\ asleep' \subseteq asleep \ Woken(sem, sem')
      BY <2>0, <2>1
    <3>4. asleep' \cap doomed' = {} /\ doomed' \subseteq Proc
      BY <2>0 DEF Inv, WaitsOK, TypeOK
    <3>5. /\ op' \in [Proc -> Ops] /\ \A q \in Proc : pc'[q] \in Lock => op'[q] = op[q]
          /\ begun' \in [Proc -> [Lock -> Nat]]
          /\ C' \in [Lock -> [proc : Proc \cup {None}, count : Nat]]
          /\ broken' \in BOOLEAN /\ tidy' = tidy /\ pc' = pc
          /\ BooksOK'
      BY <2>0 DEF Inv, TypeOK, BooksOK
    <3> QED
      BY <3>1, <3>2, <3>3, <3>4, <3>5, ReleaseKeeps
  <2>3. ~WellUsed'
    BY <2>0 DEF Inv, MouseFirst, WellUsed
  <2>4. MouseFirst' /\ MouseMine'
    BY <2>3 DEF MouseFirst, MouseMine
  <2>5. sem'["update"] = sem["update"]
    BY <2>0, <2>1
  <2>6. RecordOK' /\ UpdateMine'
    BY <2>0, <2>5 DEF Inv, RecordOK, UpdateMine, Alive
  <2>7. DeadHoldNothing'
    BY <2>0, <2>1, TwoLocks, AesLockAssumption DEF Inv, DeadHoldNothing
  <2> QED
    BY <2>2, <2>4, <2>6, <2>7 DEF Inv
<1> QED
  BY <1>0, <1>2, <1>3

\* wind_update(BEG_MCTRL | 0x100).
LEMMA TryBegMctrlInv ==
  ASSUME Inv, NEW p \in Proc, TryBegMctrl(p)
  PROVE  Inv'
<1>1. Calls(p) /\ ~Blocked(sem, "mouse", p) /\ UNCHANGED <<doomed, ghosts>>
      /\ Granted(Entered(sem, "mouse", p), p, "BEG_MCTRL")
  BY DEF TryBegMctrl
<1> QED
  BY <1>1, CallTookMouse, GrantMctrlInv

\* wind_update() counts down its record.
LEMMA UnbookLemma ==
  ASSUME TypeOK, NEW p \in Proc, NEW l \in Lock, Unbook(l, p), BooksOK
  PROVE  /\ BooksOK'
         /\ C' \in [Lock -> [proc : Proc \cup {None}, count : Nat]]
         /\ \A k \in Lock : k # l => C'[k] = C[k]
         /\ C[l].proc # p => C' = C
         /\ C[l].proc = p => /\ C'[l].proc = (IF C[l].count = 1 THEN None ELSE p)
                             /\ C'[l].count = C[l].count - 1
<1>1. CASE C[l].proc # p
  BY <1>1 DEF Unbook, TypeOK, BooksOK
<1>2. CASE C[l].proc = p
  <2>1. C' = [C EXCEPT ![l] = [proc |-> IF C[l].count = 1 THEN None ELSE p, count |-> C[l].count - 1]]
    BY <1>2 DEF Unbook, TypeOK
  <2>2. C[l].count - 1 \in Nat /\ C[l].count > 0 /\ C[l].count \in Nat
    BY <1>2, Types, AesLockAssumption DEF BooksOK
  <2>3. /\ C' \in [Lock -> [proc : Proc \cup {None}, count : Nat]]
        /\ \A k \in Lock : k # l => C'[k] = C[k]
        /\ C'[l].proc = (IF C[l].count = 1 THEN None ELSE p)
        /\ C'[l].count = C[l].count - 1
    BY <2>1, <2>2 DEF TypeOK
  <2>4. BooksOK'
    <3> SUFFICES ASSUME NEW k \in Lock, C'[k].proc # None PROVE C'[k].count > 0
      BY DEF BooksOK
    <3>1. CASE k = l
      BY <3>1, <2>2, <2>3
    <3>2. CASE k # l
      BY <3>2, <2>3 DEF BooksOK
    <3> QED
      BY <3>1, <3>2
  <2> QED
    BY <1>2, <2>3, <2>4
<1> QED
  BY <1>1, <1>2

\* What a dead process has left cannot come back with a release.
LEMMA DeadKeeps ==
  ASSUME Inv, \A q \in Proc : pc'[q] = "dead" => pc[q] = "dead",
         \A k \in Lock : sem'[k].proc = sem[k].proc \/ sem'[k].proc = None,
         \A k \in Lock : C'[k].proc = C[k].proc \/ C'[k].proc = None
  PROVE  DeadHoldNothing'
  BY AesLockAssumption DEF Inv, DeadHoldNothing

\* begun after an END_x call.
LEMMA LessLemma ==
  ASSUME TypeOK, NEW p \in Proc, NEW l \in Lock, begun' = [begun EXCEPT ![p][l] = Less(@)]
  PROVE  /\ begun' \in [Proc -> [Lock -> Nat]]
         /\ \A q \in Proc : q # p => begun'[q] = begun[q]
         /\ \A k \in Lock : k # l => begun'[p][k] = begun[p][k]
         /\ begun[p][l] > 0 => begun'[p][l] = begun[p][l] - 1
         /\ begun[p][l] = 0 => begun'[p][l] = 0
<1>1. begun[p][l] \in Nat
  BY Types
<1>2. Less(begun[p][l]) \in Nat
  BY <1>1 DEF Less
<1>3. begun'[p][l] = Less(begun[p][l])
  BY DEF TypeOK
<1> QED
  BY <1>1, <1>2, <1>3 DEF TypeOK, Less

\* A caller that owns the update lock has begun an update.
LEMMA OwnerHasBegun ==
  ASSUME Inv, NEW p \in Proc, Calls(p), sem["update"].proc = p
  PROVE  /\ sem["update"].counter = begun[p]["update"]
         /\ begun[p]["update"] > 0
<1>1. Alive(p) /\ UpdateCount(p) = begun[p]["update"]
  BY Types, TwoLocks DEF Inv, Calls, Alive, UpdateCount
<1>2. sem["update"].counter = begun[p]["update"]
  BY <1>1, Counts DEF Inv
<1>3. sem["update"].counter # 0 /\ begun[p]["update"] \in Nat
  BY Types, TwoLocks, AesLockAssumption DEF Inv, CountersOK
<1> QED
  BY <1>2, <1>3

\* unlock_screen() at the end of wind_update(END_UPDATE) and of a drawing call leaves
\* the locks to the caller as long as something is counted.
LEMMA EndUpdateInv ==
  ASSUME Inv, NEW p \in Proc, EndUpdate(p)
  PROVE  Inv'
<1>0. /\ TypeOK /\ BooksOK /\ sem \in Locks /\ CountersOK(sem) /\ None \notin Proc
      /\ Calls(p) /\ pc[p] = "user" /\ p \notin doomed
      /\ sem' = UnlockScreen(sem, p) /\ asleep' = asleep \ Woken(sem, sem')
      /\ Unbook("update", p) /\ begun' = [begun EXCEPT ![p]["update"] = Less(@)]
      /\ UNCHANGED <<pc, op, doomed, tidy, broken>>
  BY Types, AesLockAssumption DEF Inv, EndUpdate, Unlock, Calls, ghosts
<1>1. /\ sem' \in Locks /\ CountersOK(sem')
      /\ \A k \in Lock : sem[k].proc # p => sem'[k] = sem[k]
      /\ \A k \in Lock : sem[k].proc = p => /\ sem[k].counter > 0 /\ sem'[k].counter = sem[k].counter - 1
                                           /\ sem'[k].proc = (IF sem[k].counter = 1 THEN None ELSE p)
      /\ \A k \in Lock : sem'[k].sleepers = sem[k].sleepers
  BY <1>0, UnlockScreenLemma
<1>2. /\ BooksOK' /\ C' \in [Lock -> [proc : Proc \cup {None}, count : Nat]]
      /\ C'["mouse"] = C["mouse"]
      /\ C["update"].proc # p => C' = C
      /\ C["update"].proc = p => /\ C'["update"].proc = (IF C["update"].count = 1 THEN None ELSE p)
                                 /\ C'["update"].count = C["update"].count - 1
  BY <1>0, TwoLocks, UnbookLemma
<1>3. /\ begun' \in [Proc -> [Lock -> Nat]]
      /\ \A q \in Proc : q # p => begun'[q] = begun[q]
      /\ begun'[p]["mouse"] = begun[p]["mouse"]
      /\ begun[p]["update"] > 0 => begun'[p]["update"] = begun[p]["update"] - 1
      /\ begun[p]["update"] = 0 => begun'[p]["update"] = 0
  BY <1>0, TwoLocks, LessLemma, ZenonT(60)
<1>4. \A k \in Lock : sem'[k].proc = sem[k].proc \/ sem'[k].proc = None
  BY <1>1
<1>5. TypeOK' /\ BooksOK' /\ CountersOK(sem)' /\ Counted' /\ NoLostWakeup' /\ WaitsOK'
  <2>1. asleep' \cap doomed' = {} /\ doomed' \subseteq Proc /\ pc' = pc
    BY <1>0 DEF Inv, WaitsOK, TypeOK
  <2>2. op' \in [Proc -> Ops] /\ broken' \in BOOLEAN /\ tidy' = tidy /\ op' = op
        /\ asleep' \subseteq asleep \ Woken(sem, sem')
    BY <1>0 DEF TypeOK
  <2> QED
    BY <1>1, <1>2, <1>3, <1>4, <2>1, <2>2, ReleaseKeeps
<1>6. \A q \in Proc : Alive(q)' <=> Alive(q)
  BY <1>0 DEF Alive
<1>7. Alive(p) /\ \A l \in Lock : sem[l].counter \in Nat /\ \A q \in Proc : begun[q][l] \in Nat
  BY <1>0, Types DEF Calls, Alive
<1>8. sem["update"].proc = p => /\ sem["update"].counter = begun[p]["update"]
                                /\ begun[p]["update"] > 0
  BY <1>0, OwnerHasBegun
<1>9. begun[p]["update"] > 0 => sem["update"].proc = p
  <2>1. UpdateCount(p) = begun[p]["update"]
    BY <1>0, <1>7, TwoLocks DEF UpdateCount
  <2> QED
    BY <2>1, <1>7, Counts DEF Inv
<1>10. UpdateMine'
  <2>1. \A q \in Proc : q # p => UpdateCount(q)' = UpdateCount(q)
    BY <1>0, <1>3 DEF UpdateCount
  <2>2. UpdateCount(p)' = begun'[p]["update"] /\ UpdateCount(p) = begun[p]["update"]
    BY <1>0, <1>3, <1>7, TwoLocks DEF UpdateCount
  <2>3. sem["update"].proc = p /\ sem'["update"].proc = p => UpdateCount(p)' = UpdateCount(p) - 1
    BY <2>2, <1>3, <1>8
  <2>4. sem'["update"].proc # p => UpdateCount(p)' = 0
    <3>1. CASE sem["update"].proc = p
      <4>1. sem'["update"].proc # p => begun[p]["update"] = 1
        BY <3>1, <1>1, <1>8, TwoLocks
      <4> QED
        BY <4>1, <2>2, <1>3
    <3>2. CASE sem["update"].proc # p
      BY <3>2, <2>2, <1>3, <1>7, <1>9, TwoLocks
    <3> QED
      BY <3>1, <3>2
  <2> QED
    BY <2>1, <2>3, <2>4, <1>1, <1>6, TwoLocks, UpdateReleased
<1>11. WellUsed' => WellUsed /\ begun[p]["update"] > 0 /\ sem["update"].proc = p /\ sem["mouse"].proc = p
  <2>1. WellUsed' => WellUsed /\ begun[p]["update"] > 0
    BY <1>0 DEF WellUsed, EndUpdate, Matched
  <2> QED
    BY <2>1, <1>0, <1>9 DEF Inv, MouseFirst
<1>12. WellUsed' => /\ sem["mouse"].counter = begun[p]["mouse"] + begun[p]["update"]
                    /\ MouseCount(p)' = MouseCount(p) - 1
                    /\ MouseCount(p) = begun[p]["mouse"] + begun[p]["update"]
  <2>0. pc[p] \notin {"call", "update"} /\ pc'[p] \notin {"call", "update"}
    BY <1>0
  <2>1. MouseCount(p) = begun[p]["mouse"] + begun[p]["update"]
    BY <2>0, <1>7, TwoLocks DEF MouseCount
  <2>2. MouseCount(p)' = begun'[p]["mouse"] + begun'[p]["update"]
    BY <2>0, <1>3, TwoLocks DEF MouseCount
  <2>3. WellUsed' => sem["mouse"].counter = MouseCount(p)
    BY <1>7, <1>11, Counts DEF Inv
  <2> QED
    BY <2>1, <2>2, <2>3, <1>3, <1>7, <1>11, TwoLocks
<1>13. MouseMine'
  <2>1. \A q \in Proc : q # p => MouseCount(q)' = MouseCount(q)
    BY <1>0, <1>3 DEF MouseCount
  <2>2. WellUsed' /\ sem'["mouse"].proc # p => MouseCount(p)' = 0
    BY <1>1, <1>7, <1>11, <1>12, TwoLocks
  <2> QED
    BY <2>1, <2>2, <1>1, <1>6, <1>11, <1>12, TwoLocks, MouseReleased
<1>14. MouseFirst'
  <2> SUFFICES ASSUME WellUsed'
               PROVE  /\ sem'["update"].proc # None => sem'["mouse"].proc = sem'["update"].proc
                      /\ \A q \in Proc : pc'[q] # "update"
    BY DEF MouseFirst
  <2>1. \A q \in Proc : pc'[q] # "update"
    BY <1>0, <1>11 DEF Inv, MouseFirst
  <2>2. sem'["update"].proc # None => /\ begun[p]["update"] # 1 /\ sem'["update"].proc = p
    BY <1>1, <1>8, <1>11, TwoLocks
  <2>3. sem'["update"].proc # None => sem["mouse"].counter # 1
    BY <2>2, <1>7, <1>11, <1>12, TwoLocks
  <2> QED
    BY <2>1, <2>2, <2>3, <1>1, <1>11, TwoLocks
<1>15. RecordOK'
  <2>0. RecordOK
    BY DEF Inv
  <2>1. CASE C["update"].proc = p
    <3>1. sem["update"].proc = p /\ C["update"].count = begun[p]["update"] /\ begun[p]["update"] > 0
      BY <2>0, <2>1, <1>0, <1>7 DEF RecordOK
    <3>2. \A q \in Proc : q # p /\ Alive(q)' => ~(begun'[q]["update"] > 0) /\ C'["update"].proc # q
      BY <2>0, <2>1, <1>0, <1>2, <1>3, <1>6 DEF RecordOK
    <3>3. CASE begun[p]["update"] = 1
      <4>1. C'["update"].proc = None /\ C'["update"].count = 0 /\ begun'[p]["update"] = 0
        BY <3>1, <3>3, <2>1, <1>2, <1>3
      <4> QED
        BY <4>1, <3>2, <1>0 DEF RecordOK
    <3>4. CASE begun[p]["update"] # 1
      <4>1. /\ C'["update"].proc = p /\ C'["update"].count = begun'[p]["update"]
            /\ begun'[p]["update"] > 0 /\ sem'["update"].proc = p
        BY <3>1, <3>4, <2>1, <1>1, <1>2, <1>3, <1>7, <1>8, TwoLocks
      <4> QED
        BY <4>1, <3>2, <1>0 DEF RecordOK
    <3> QED
      BY <3>3, <3>4
  <2>2. CASE C["update"].proc # p
    <3>1. begun[p]["update"] = 0 /\ begun'[p]["update"] = 0
      BY <2>0, <2>2, <1>3, <1>7, TwoLocks DEF RecordOK
    <3>2. sem["update"].proc # p /\ sem'["update"] = sem["update"] /\ C' = C
      BY <3>1, <2>2, <1>1, <1>2, <1>8, TwoLocks
    <3> QED
      BY <3>1, <3>2, <2>0, <2>2, <1>3, <1>6 DEF RecordOK
  <2> QED
    BY <2>1, <2>2
<1>16. DeadHoldNothing'
  <2>1. \A k \in Lock : C'[k].proc = C[k].proc \/ C'[k].proc = None
    BY <1>2, TwoLocks
  <2> QED
    BY <2>1, <1>0, <1>4, DeadKeeps
<1> QED
  BY <1>5, <1>10, <1>13, <1>14, <1>15, <1>16 DEF Inv

\* The end of a drawing call.
LEMMA AesReturnInv ==
  ASSUME Inv, NEW p \in Proc, AesReturn(p)
  PROVE  Inv'
<1>0. /\ TypeOK /\ BooksOK /\ sem \in Locks /\ CountersOK(sem) /\ None \notin Proc
      /\ pc[p] = "call" /\ p \notin doomed
      /\ sem' = UnlockScreen(sem, p) /\ asleep' = asleep \ Woken(sem, sem')
      /\ pc' = [pc EXCEPT ![p] = "user"]
      /\ UNCHANGED <<C, op, doomed, begun, tidy, broken>>
  BY Types, AesLockAssumption DEF Inv, AesReturn, Unlock, ghosts
<1>1. /\ sem' \in Locks /\ CountersOK(sem')
      /\ \A k \in Lock : sem[k].proc # p => sem'[k] = sem[k]
      /\ \A k \in Lock : sem[k].proc = p => /\ sem[k].counter > 0 /\ sem'[k].counter = sem[k].counter - 1
                                           /\ sem'[k].proc = (IF sem[k].counter = 1 THEN None ELSE p)
      /\ \A k \in Lock : sem'[k].sleepers = sem[k].sleepers
  BY <1>0, UnlockScreenLemma
<1>2. pc'[p] = "user" /\ \A q \in Proc : q # p => pc'[q] = pc[q]
  BY <1>0 DEF TypeOK
<1>3. \A k \in Lock : sem'[k].proc = sem[k].proc \/ sem'[k].proc = None
  BY <1>1
<1>4. TypeOK' /\ BooksOK' /\ CountersOK(sem)' /\ Counted' /\ NoLostWakeup' /\ WaitsOK'
  <2>1. asleep' \cap doomed' = {} /\ doomed' \subseteq Proc /\ p \notin asleep
    BY <1>0, TwoLocks DEF Inv, WaitsOK, TypeOK
  <2>2. /\ op' \in [Proc -> Ops] /\ broken' \in BOOLEAN /\ tidy' = tidy /\ op' = op
        /\ asleep' \subseteq asleep \ Woken(sem, sem')
        /\ begun' \in [Proc -> [Lock -> Nat]]
        /\ C' \in [Lock -> [proc : Proc \cup {None}, count : Nat]] /\ BooksOK'
    BY <1>0 DEF TypeOK, BooksOK
  <2>3. pc' = [pc EXCEPT ![p] = "user"]
    BY <1>0
  <2> QED
    BY <1>1, <1>3, <2>1, <2>2, <2>3, ReleaseKeeps
<1>5. \A q \in Proc : Alive(q)' <=> Alive(q)
  BY <1>0, <1>2 DEF Alive
<1>6. Alive(p) /\ \A l \in Lock : sem[l].counter \in Nat /\ \A q \in Proc : begun[q][l] \in Nat
  BY <1>0, Types DEF Alive
<1>7. /\ UpdateCount(p) = begun[p]["update"] + 1 /\ UpdateCount(p)' = begun[p]["update"]
      /\ MouseCount(p) = begun[p]["mouse"] + begun[p]["update"] + 1
      /\ MouseCount(p)' = begun[p]["mouse"] + begun[p]["update"]
  <2>1. pc[p] \in {"call", "update"} /\ pc'[p] \notin {"call", "update"} /\ pc'[p] # "call"
    BY <1>0, <1>2
  <2> QED
    BY <2>1, <1>0, <1>6, TwoLocks DEF UpdateCount, MouseCount
<1>8. sem["update"].proc = p /\ sem["update"].counter = begun[p]["update"] + 1
  BY <1>6, <1>7, TwoLocks, Counts DEF Inv
<1>9. UpdateMine'
  <2>1. \A q \in Proc : q # p => UpdateCount(q)' = UpdateCount(q)
    BY <1>0, <1>2 DEF UpdateCount
  <2>2. UpdateCount(p)' = UpdateCount(p) - 1
    BY <1>6, <1>7, TwoLocks
  <2>3. sem'["update"].proc # p => UpdateCount(p)' = 0
    BY <1>1, <1>6, <1>7, <1>8, TwoLocks
  <2> QED
    BY <2>1, <2>2, <2>3, <1>1, <1>5, TwoLocks, UpdateReleased
<1>10. WellUsed' => /\ WellUsed /\ sem["mouse"].proc = p
                    /\ sem["mouse"].counter = begun[p]["mouse"] + begun[p]["update"] + 1
  <2>1. WellUsed' => WellUsed /\ sem["mouse"].proc = p
    BY <1>0, <1>8 DEF Inv, MouseFirst, WellUsed
  <2> QED
    BY <2>1, <1>6, <1>7, Counts DEF Inv
<1>11. MouseMine'
  <2>1. \A q \in Proc : q # p => MouseCount(q)' = MouseCount(q)
    BY <1>0, <1>2 DEF MouseCount
  <2>2. MouseCount(p)' = MouseCount(p) - 1
    BY <1>6, <1>7, TwoLocks
  <2>3. WellUsed' /\ sem'["mouse"].proc # p => MouseCount(p)' = 0
    BY <1>1, <1>6, <1>7, <1>10, TwoLocks
  <2> QED
    BY <2>1, <2>2, <2>3, <1>1, <1>5, <1>10, TwoLocks, MouseReleased
<1>12. MouseFirst'
  <2> SUFFICES ASSUME WellUsed'
               PROVE  /\ sem'["update"].proc # None => sem'["mouse"].proc = sem'["update"].proc
                      /\ \A q \in Proc : pc'[q] # "update"
    BY DEF MouseFirst
  <2>1. \A q \in Proc : pc'[q] # "update"
    BY <1>2, <1>10 DEF Inv, MouseFirst
  <2>2. sem'["update"].proc # None => begun[p]["update"] # 0 /\ sem'["update"].proc = p
    BY <1>1, <1>8, TwoLocks
  <2>3. sem'["update"].proc # None => sem["mouse"].counter # 1
    BY <2>2, <1>6, <1>10, TwoLocks
  <2> QED
    BY <2>1, <2>2, <2>3, <1>1, <1>10, TwoLocks
<1>13. RecordOK'
  <2>0. RecordOK
    BY DEF Inv
  <2>1. C["update"].proc # None => sem'["update"].proc = C["update"].proc
    <3> SUFFICES ASSUME C["update"].proc # None PROVE sem'["update"].proc = C["update"].proc
      OBVIOUS
    <3>1. C["update"].proc = p
      BY <2>0, <1>8 DEF RecordOK
    <3>2. begun[p]["update"] > 0
      BY <3>1, <2>0, <1>6 DEF RecordOK
    <3>3. sem["update"].counter # 1
      BY <3>2, <1>6, <1>8, TwoLocks
    <3> QED
      BY <3>1, <3>3, <1>1, <1>8, TwoLocks
  <2> QED
    BY <2>0, <2>1, <1>0, <1>5 DEF RecordOK
<1>14. DeadHoldNothing'
  BY <1>0, <1>2, <1>3, DeadKeeps
<1> QED
  BY <1>4, <1>9, <1>11, <1>12, <1>13, <1>14 DEF Inv

\* wind_update(END_MCTRL).  A process that has begun an update keeps the mouse lock if
\* it has begun what it ends.
LEMMA EndMctrlInv ==
  ASSUME Inv, NEW p \in Proc, EndMctrl(p)
  PROVE  Inv'
<1>0. /\ TypeOK /\ BooksOK /\ sem \in Locks /\ CountersOK(sem) /\ None \notin Proc
      /\ Calls(p) /\ pc[p] = "user" /\ p \notin doomed
      /\ sem' = Released(sem, "mouse", p) /\ asleep' = asleep \ Woken(sem, sem')
      /\ Unbook("mouse", p) /\ begun' = [begun EXCEPT ![p]["mouse"] = Less(@)]
      /\ UNCHANGED <<pc, op, doomed, tidy, broken>>
  BY Types, AesLockAssumption DEF Inv, EndMctrl, Unlock, Calls, ghosts
<1>1. /\ sem' \in Locks /\ CountersOK(sem')
      /\ sem["mouse"].proc # p => sem' = sem
      /\ sem["mouse"].proc = p => /\ sem["mouse"].counter > 0 /\ sem'["mouse"].counter = sem["mouse"].counter - 1
                                  /\ sem'["mouse"].proc = (IF sem["mouse"].counter = 1 THEN None ELSE p)
      /\ \A k \in Lock : sem'[k].sleepers = sem[k].sleepers
      /\ sem'["update"] = sem["update"]
  BY <1>0, TwoLocks, ReleasedLemma
<1>2. /\ BooksOK' /\ C' \in [Lock -> [proc : Proc \cup {None}, count : Nat]]
      /\ C'["update"] = C["update"]
      /\ C'["mouse"].proc = C["mouse"].proc \/ C'["mouse"].proc = None
  BY <1>0, TwoLocks, UnbookLemma
<1>3. /\ begun' \in [Proc -> [Lock -> Nat]]
      /\ \A q \in Proc : q # p => begun'[q] = begun[q]
      /\ begun'[p]["update"] = begun[p]["update"]
      /\ begun[p]["mouse"] > 0 => begun'[p]["mouse"] = begun[p]["mouse"] - 1
  BY <1>0, TwoLocks, LessLemma, ZenonT(60)
<1>4. \A k \in Lock : sem'[k].proc = sem[k].proc \/ sem'[k].proc = None
  BY <1>1, TwoLocks
<1>5. TypeOK' /\ BooksOK' /\ CountersOK(sem)' /\ Counted' /\ NoLostWakeup' /\ WaitsOK'
  <2>1. asleep' \cap doomed' = {} /\ doomed' \subseteq Proc /\ pc' = pc
    BY <1>0 DEF Inv, WaitsOK, TypeOK
  <2>2. op' \in [Proc -> Ops] /\ broken' \in BOOLEAN /\ tidy' = tidy /\ op' = op
        /\ asleep' \subseteq asleep \ Woken(sem, sem')
    BY <1>0 DEF TypeOK
  <2> QED
    BY <1>1, <1>2, <1>3, <1>4, <2>1, <2>2, ReleaseKeeps
<1>6. \A q \in Proc : Alive(q)' <=> Alive(q)
  BY <1>0 DEF Alive
<1>7. Alive(p) /\ \A l \in Lock : sem[l].counter \in Nat /\ \A q \in Proc : begun[q][l] \in Nat
  BY <1>0, Types DEF Calls, Alive
<1>8. RecordOK'
  <2>1. \A q \in Proc : begun'[q]["update"] = begun[q]["update"]
    BY <1>3
  <2> QED
    BY <2>1, <1>1, <1>2, <1>6 DEF Inv, RecordOK
<1>9. UpdateMine'
  <2>1. \A q \in Proc : begun'[q]["update"] = begun[q]["update"] /\ pc'[q] = pc[q]
    BY <1>0, <1>3
  <2> QED
    BY <2>1, <1>1, <1>6 DEF Inv, UpdateMine
<1>10. WellUsed' => /\ WellUsed /\ begun[p]["mouse"] > 0 /\ sem["mouse"].proc = p
                    /\ MouseCount(p) = begun[p]["mouse"] + begun[p]["update"]
                    /\ MouseCount(p)' = MouseCount(p) - 1
                    /\ sem["mouse"].counter = MouseCount(p)
  <2> SUFFICES ASSUME WellUsed'
               PROVE  /\ WellUsed /\ begun[p]["mouse"] > 0 /\ sem["mouse"].proc = p
                      /\ MouseCount(p) = begun[p]["mouse"] + begun[p]["update"]
                      /\ MouseCount(p)' = MouseCount(p) - 1
                      /\ sem["mouse"].counter = MouseCount(p)
    OBVIOUS
  <2>0. pc[p] \notin {"call", "update"} /\ pc'[p] \notin {"call", "update"}
    BY <1>0
  <2>1. WellUsed /\ begun[p]["mouse"] > 0
    BY <1>0 DEF WellUsed, EndMctrl, Matched
  <2>2. MouseCount(p) = begun[p]["mouse"] + begun[p]["update"] /\ MouseCount(p) > 0
    BY <2>0, <2>1, <1>7, TwoLocks DEF MouseCount
  <2>3. MouseCount(p)' = begun'[p]["mouse"] + begun'[p]["update"]
    BY <2>0, <1>3, TwoLocks DEF MouseCount
  <2>4. sem["mouse"].proc = p /\ sem["mouse"].counter = MouseCount(p)
    BY <2>1, <2>2, <1>7, Counts DEF Inv
  <2> QED
    BY <2>1, <2>2, <2>3, <2>4, <1>3, <1>7, TwoLocks
<1>11. MouseMine'
  <2>1. \A q \in Proc : q # p => MouseCount(q)' = MouseCount(q)
    BY <1>0, <1>3 DEF MouseCount
  <2>2. WellUsed' /\ sem'["mouse"].proc # p => MouseCount(p)' = 0
    BY <1>1, <1>7, <1>10, TwoLocks
  <2> QED
    BY <2>1, <2>2, <1>1, <1>6, <1>10, TwoLocks, MouseReleased
<1>12. MouseFirst'
  <2> SUFFICES ASSUME WellUsed'
               PROVE  /\ sem'["update"].proc # None => sem'["mouse"].proc = sem'["update"].proc
                      /\ \A q \in Proc : pc'[q] # "update"
    BY DEF MouseFirst
  <2>1. \A q \in Proc : pc'[q] # "update"
    BY <1>0, <1>10 DEF Inv, MouseFirst
  <2>2. sem["update"].proc # None => sem["update"].proc = p
    BY <1>10 DEF Inv, MouseFirst
  <2>3. sem["update"].proc # None => begun[p]["update"] > 0
    BY <2>2, <1>0, OwnerHasBegun
  <2>4. sem["update"].proc # None => sem["mouse"].counter # 1
    BY <2>3, <1>7, <1>10, TwoLocks
  <2> QED
    BY <2>1, <2>2, <2>4, <1>1, <1>10
<1>13. DeadHoldNothing'
  <2>1. \A k \in Lock : C'[k].proc = C[k].proc \/ C'[k].proc = None
    BY <1>2, TwoLocks
  <2> QED
    BY <2>1, <1>0, <1>4, DeadKeeps
<1> QED
  BY <1>5, <1>8, <1>9, <1>11, <1>12, <1>13 DEF Inv

-----------------------------------------------------------------------------
(* The steps that end an application or break its locks.                    *)

\* exit_proc() and exit_client() free what p has and nothing that another has begun.
LEMMA LeaveInv ==
  ASSUME Inv, NEW p \in Proc, Unlock(Leave(sem, p)), C' = Forget(C, p),
         begun' = [begun EXCEPT ![p] = [l \in Lock |-> 0]],
         \/ /\ pc' = [pc EXCEPT ![p] = "dead"] /\ op' = [op EXCEPT ![p] = "none"]
            /\ p \notin asleep
         \/ Calls(p) /\ UNCHANGED <<pc, op>>,
         UNCHANGED <<doomed, ghosts>>
  PROVE  Inv'
<1>0. /\ TypeOK /\ BooksOK /\ sem \in Locks /\ CountersOK(sem) /\ None \notin Proc
      /\ sem' = Leave(sem, p) /\ asleep' = asleep \ Woken(sem, sem')
      /\ UNCHANGED <<doomed, tidy, broken>>
  BY Types, AesLockAssumption DEF Inv, Unlock, ghosts
<1>1. /\ sem' \in Locks /\ CountersOK(sem')
      /\ \A k \in Lock : sem'[k].proc # p
      /\ \A k \in Lock : sem'[k] = sem[k] \/ sem'[k].proc = None
      /\ sem["update"].proc # p => sem'["update"] = sem["update"]
      /\ sem["update"].proc = p => sem'["update"].proc = None
      /\ sem["update"].proc # p /\ sem["mouse"].proc # p => sem' = sem
      /\ \A k \in Lock : sem'[k].sleepers = sem[k].sleepers
  BY <1>0, LeaveLemma
<1>2. /\ C' \in [Lock -> [proc : Proc \cup {None}, count : Nat]]
      /\ \A k \in Lock : C[k].proc # p => C'[k] = C[k]
      /\ \A k \in Lock : C[k].proc = p => C'[k].proc = None /\ C'[k].count = 0
  BY <1>0 DEF Forget, TypeOK
<1>3. /\ begun' \in [Proc -> [Lock -> Nat]]
      /\ \A q \in Proc : q # p => begun'[q] = begun[q]
      /\ begun'[p]["update"] = 0 /\ begun'[p]["mouse"] = 0
  BY <1>0, TwoLocks DEF TypeOK
<1>4. /\ \A q \in Proc : q # p => pc'[q] = pc[q]
      /\ pc'[p] = "dead" \/ (pc'[p] = "user" /\ pc[p] = "user" /\ pc' = pc)
      /\ pc' = pc \/ pc' = [pc EXCEPT ![p] = "dead"]
      /\ op' \in [Proc -> Ops]
      /\ \A q \in Proc : pc'[q] \in Lock => op'[q] = op[q]
      /\ pc' # pc => p \notin asleep
  BY <1>0, TwoLocks DEF TypeOK, Calls, Ops
<1>5. \A k \in Lock : sem'[k].proc = sem[k].proc \/ sem'[k].proc = None
  BY <1>1
<1>6. TypeOK' /\ BooksOK' /\ CountersOK(sem)' /\ Counted' /\ NoLostWakeup' /\ WaitsOK'
  <2>1. asleep' \cap doomed' = {} /\ doomed' \subseteq Proc
    BY <1>0 DEF Inv, WaitsOK, TypeOK
  <2>2. /\ broken' \in BOOLEAN /\ tidy' = tidy
        /\ asleep' \subseteq asleep \ Woken(sem, sem') /\ BooksOK'
    BY <1>0, <1>2 DEF TypeOK, BooksOK
  <2> QED
    BY <1>1, <1>2, <1>3, <1>4, <1>5, <2>1, <2>2, ReleaseKeeps
<1>7. \A q \in Proc : /\ Alive(q)' => Alive(q)
                      /\ q # p => (Alive(q)' <=> Alive(q))
  BY <1>0, <1>4 DEF Alive
<1>8. Alive(p)' => pc'[p] = "user"
  BY <1>4 DEF Alive
<1>9. Alive(p)' => UpdateCount(p)' = 0 /\ MouseCount(p)' = 0
  <2> SUFFICES ASSUME Alive(p)' PROVE UpdateCount(p)' = 0 /\ MouseCount(p)' = 0
    OBVIOUS
  <2>1. pc'[p] # "call" /\ pc'[p] \notin {"call", "update"}
    BY <1>8
  <2> QED
    BY <2>1, <1>3, TwoLocks DEF UpdateCount, MouseCount
<1>10. \A q \in Proc : q # p => /\ UpdateCount(q)' = UpdateCount(q)
                               /\ MouseCount(q)' = MouseCount(q)
  BY <1>3, <1>4 DEF UpdateCount, MouseCount
<1>11. UpdateMine'
  BY <1>1, <1>7, <1>9, <1>10, TwoLocks, UpdateReleased
<1>12. WellUsed' => /\ WellUsed
                    /\ sem["mouse"].proc # p => sem'["mouse"] = sem["mouse"]
                    /\ sem["mouse"].proc = p => sem'["mouse"].proc = None
  <2>1. WellUsed' => WellUsed
    BY <1>0 DEF WellUsed
  <2>2. WellUsed /\ sem["mouse"].proc # p => sem["update"].proc # p
    BY <1>0 DEF Inv, MouseFirst
  <2> QED
    BY <2>1, <2>2, <1>0, <1>1, TwoLocks
<1>13. MouseMine'
  BY <1>1, <1>7, <1>9, <1>10, <1>12, TwoLocks, MouseReleased
<1>14. MouseFirst'
  <2> SUFFICES ASSUME WellUsed'
               PROVE  /\ sem'["update"].proc # None => sem'["mouse"].proc = sem'["update"].proc
                      /\ \A q \in Proc : pc'[q] # "update"
    BY DEF MouseFirst
  <2>1. \A q \in Proc : pc'[q] # "update"
    BY <1>4, <1>12 DEF Inv, MouseFirst
  <2>2. sem'["update"].proc # None => /\ sem["update"].proc # p /\ sem'["update"] = sem["update"]
    BY <1>1
  <2>3. sem'["update"].proc # None => sem["mouse"].proc # p /\ sem["mouse"].proc = sem["update"].proc
    BY <2>2, <1>12 DEF Inv, MouseFirst
  <2> QED
    BY <2>1, <2>2, <2>3, <1>12
<1>15. RecordOK'
  <2>0. RecordOK
    BY DEF Inv
  <2>1. CASE C["update"].proc = p
    <3>1. C'["update"].proc = None /\ C'["update"].count = 0
      BY <2>1, <1>2, TwoLocks
    <3>2. \A q \in Proc : Alive(q)' => ~(begun'[q]["update"] > 0)
      BY <2>0, <2>1, <1>3, <1>7 DEF RecordOK
    <3> QED
      BY <3>1, <3>2, <1>0 DEF RecordOK
  <2>2. CASE C["update"].proc # p
    <3>1. C'["update"] = C["update"]
      BY <2>2, <1>2, TwoLocks
    <3>2. C["update"].proc # None => sem'["update"].proc = C["update"].proc
      BY <2>0, <2>2, <1>1 DEF RecordOK
    <3>3. \A q \in Proc : Alive(q)' =>
            /\ begun'[q]["update"] > 0 => C'["update"].proc = q
            /\ C'["update"].proc = q => /\ C'["update"].count = begun'[q]["update"]
                                        /\ begun'[q]["update"] > 0
      BY <3>1, <2>0, <2>2, <1>3, <1>7 DEF RecordOK
    <3>4. C["update"].proc = None => C["update"].count = 0
      BY <2>0 DEF RecordOK
    <3> QED
      BY <3>1, <3>2, <3>3, <3>4 DEF RecordOK
  <2> QED
    BY <2>1, <2>2
<1>16. DeadHoldNothing'
  <2> SUFFICES ASSUME NEW q \in Proc, NEW l \in Lock, pc'[q] = "dead"
               PROVE  sem'[l].proc # q /\ C'[l].proc # q
    BY DEF DeadHoldNothing
  <2>1. CASE q = p
    BY <2>1, <1>0, <1>1, <1>2
  <2>2. CASE q # p
    <3>1. sem[l].proc # q /\ C[l].proc # q
      BY <2>2, <1>4 DEF Inv, DeadHoldNothing
    <3> QED
      BY <3>1, <1>0, <1>1, <1>2
  <2> QED
    BY <2>1, <2>2
<1> QED
  BY <1>6, <1>11, <1>13, <1>14, <1>15, <1>16 DEF Inv

LEMMA ExitProcInv ==
  ASSUME Inv, NEW p \in Proc, ExitProc(p)
  PROVE  Inv'
<1>1. p \notin asleep
  BY TwoLocks DEF Inv, TypeOK, WaitsOK, ExitProc
<1> QED
  BY <1>1, LeaveInv DEF ExitProc

LEMMA ApplExitInv ==
  ASSUME Inv, NEW p \in Proc, ApplExit(p)
  PROVE  Inv'
<1>1. /\ Calls(p) /\ Unlock(Leave(sem, p)) /\ C' = Forget(C, p)
      /\ begun' = [begun EXCEPT ![p] = [l \in Lock |-> 0]]
      /\ UNCHANGED <<pc, op>> /\ UNCHANGED <<doomed, ghosts>>
  BY DEF ApplExit
<1> QED
  BY <1>1, LeaveInv

\* A signal changes no lock.
LEMMA KillInv ==
  ASSUME Inv, NEW p \in Proc, Kill(p)
  PROVE  Inv'
<1>0. /\ TypeOK /\ doomed' = doomed \cup {p} /\ asleep' = asleep \ {p}
      /\ UNCHANGED <<sem, C, pc, op, begun, tidy, broken>>
  BY DEF Inv, Kill, ghosts
<1>1. \A q \in Proc : Alive(q)' => Alive(q)
  BY <1>0 DEF Alive
<1>2. TypeOK'
  BY <1>0 DEF TypeOK
<1>3. CountersOK(sem)' /\ BooksOK' /\ Counted' /\ WaitsOK' /\ NoLostWakeup' /\ DeadHoldNothing'
  BY <1>0 DEF Inv, BooksOK, Counted, Waiters, WaitsOK, NoLostWakeup, DeadHoldNothing
<1>4. RecordOK' /\ UpdateMine'
  BY <1>0, <1>1 DEF Inv, RecordOK, UpdateMine
<1>5. MouseFirst' /\ MouseMine'
  BY <1>0, <1>1 DEF Inv, MouseFirst, MouseMine, WellUsed
<1> QED
  BY <1>2, <1>3, <1>4, <1>5 DEF Inv

\* recover() takes the update lock from the one who is on record, and kills it.
LEMMA RecoverInv ==
  ASSUME Inv, Recover
  PROVE  Inv'
<1> DEFINE u == C["update"].proc
           m == IF C["mouse"].proc = u THEN None ELSE C["mouse"].proc
           F == Freed(sem, "mouse")
           G == Freed(F, "update")
           T == IF u = None THEN sem ELSE G
           V == IF m = None THEN T ELSE Freed(T, "mouse")
<1>0. /\ TypeOK /\ sem \in Locks /\ CountersOK(sem) /\ None \notin Proc
      /\ sem' = V
      /\ C' = [l \in Lock |-> [proc |-> None, count |-> 0]]
      /\ doomed' = doomed \cup ({u, m} \ {None})
      /\ asleep' = (asleep \ Woken(sem, V)) \ {u, m}
      /\ broken' = TRUE
      /\ UNCHANGED <<pc, op, begun, tidy>>
      /\ {u, m} # {None}
  BY Types, AesLockAssumption DEF Inv, Recover
<1>1. u \in Proc \cup {None} /\ m \in Proc \cup {None}
  BY <1>0, TwoLocks, Types
<1>2. PICK p \in Proc : TRUE
  BY <1>0, <1>1
<1>3. /\ F \in Locks /\ CountersOK(F) /\ F["mouse"].proc = None
      /\ \A k \in Lock : F[k].sleepers = sem[k].sleepers
      /\ F["update"] = sem["update"]
  BY <1>0, TwoLocks, FreedLemma
<1> HIDE DEF F
<1>4. /\ G \in Locks /\ CountersOK(G) /\ G["update"].proc = None
      /\ \A k \in Lock : G[k].sleepers = F[k].sleepers
      /\ G["mouse"] = F["mouse"]
  BY <1>3, TwoLocks, FreedLemma
<1> HIDE DEF G
<1>5. /\ T \in Locks /\ CountersOK(T)
      /\ \A k \in Lock : T[k].sleepers = sem[k].sleepers
      /\ \A k \in Lock : T[k].proc = sem[k].proc \/ T[k].proc = None
      /\ u = None => T["update"] = sem["update"]
  <2>1. CASE u = None
    BY <2>1, <1>0
  <2>2. CASE u # None
    BY <2>2, <1>3, <1>4, TwoLocks
  <2> QED
    BY <2>1, <2>2
<1> HIDE DEF T
<1>6. /\ V \in Locks /\ CountersOK(V)
      /\ \A k \in Lock : V[k].sleepers = sem[k].sleepers
      /\ \A k \in Lock : V[k].proc = sem[k].proc \/ V[k].proc = None
      /\ u = None => V["update"] = sem["update"]
  <2>1. CASE m = None
    BY <2>1, <1>5
  <2>2. CASE m # None
    <3>1. /\ V \in Locks /\ CountersOK(V) /\ V["mouse"].proc = None
          /\ \A k \in Lock : V[k].sleepers = T[k].sleepers
          /\ V["update"] = T["update"]
      BY <2>2, <1>5, TwoLocks, FreedLemma
    <3> QED
      BY <3>1, <1>5, TwoLocks
  <2> QED
    BY <2>1, <2>2
<1> HIDE DEF V, m
<1>7. TypeOK' /\ BooksOK' /\ CountersOK(sem)' /\ Counted' /\ NoLostWakeup' /\ WaitsOK'
  <2>1. asleep' \cap doomed' = {} /\ doomed' \subseteq Proc
        /\ asleep' \subseteq asleep \ Woken(sem, sem')
    <3> HIDE DEF u
    <3> QED
      BY <1>0, <1>1 DEF Inv, WaitsOK, TypeOK
  <2>2. /\ broken' \in BOOLEAN /\ tidy' = tidy /\ BooksOK' /\ pc' = pc
        /\ op' \in [Proc -> Ops] /\ op' = op /\ begun' \in [Proc -> [Lock -> Nat]]
        /\ C' \in [Lock -> [proc : Proc \cup {None}, count : Nat]]
    BY <1>0 DEF TypeOK, BooksOK
  <2>3. /\ sem' \in Locks /\ CountersOK(sem')
        /\ \A k \in Lock : sem'[k].sleepers = sem[k].sleepers
        /\ \A k \in Lock : sem'[k].proc = sem[k].proc \/ sem'[k].proc = None
    BY <1>0, <1>6
  <2> QED
    BY <1>2, <2>1, <2>2, <2>3, ReleaseKeeps
<1>8. \A q \in Proc : Alive(q)' => Alive(q) /\ q # u
  <2> HIDE DEF u
  <2> QED
    BY <1>0 DEF Alive
<1>9. \A q \in Proc : Alive(q)' => ~(begun[q]["update"] > 0)
  BY <1>8 DEF Inv, RecordOK
<1>10. RecordOK'
  BY <1>0, <1>9, TwoLocks DEF RecordOK
<1>11. UpdateMine'
  <2> SUFFICES ASSUME NEW q \in Proc, Alive(q)'
               PROVE  /\ UpdateCount(q)' > 0 => sem'["update"].proc = q
                      /\ sem'["update"].proc = q => sem'["update"].counter = UpdateCount(q)'
    BY DEF UpdateMine, UpdateCount
  <2>1. UpdateCount(q)' = UpdateCount(q)
    BY <1>0 DEF UpdateCount
  <2>2. /\ UpdateCount(q) > 0 => sem["update"].proc = q
        /\ sem["update"].proc = q => sem["update"].counter = UpdateCount(q)
    BY <1>8, Counts DEF Inv
  <2>3. CASE u = None
    BY <2>1, <2>2, <2>3, <1>0, <1>6
  <2>4. CASE u # None
    <3>1. sem["update"].proc = u /\ u # q
      BY <2>4, <1>8 DEF Inv, RecordOK
    <3>2. sem'["update"].proc # q
      BY <3>1, <1>0, <1>6, TwoLocks
    <3> QED
      BY <3>1, <3>2, <2>1, <2>2
  <2> QED
    BY <2>3, <2>4
<1>12. MouseFirst' /\ MouseMine'
  BY <1>0 DEF MouseFirst, MouseMine, WellUsed
<1>13. DeadHoldNothing'
  <2> HIDE DEF u
  <2> QED
    BY <1>0, <1>6 DEF Inv, DeadHoldNothing
<1> QED
  BY <1>7, <1>10, <1>11, <1>12, <1>13 DEF Inv

-----------------------------------------------------------------------------
(* The theorems.                                                            *)

LEMMA UnchangedInv ==
  ASSUME Inv, UNCHANGED vars
  PROVE  Inv'
<1>0. UNCHANGED <<sem, C, pc, op, asleep, doomed, begun, tidy, broken>>
  BY DEF vars
<1>1. TypeOK' /\ BooksOK' /\ CountersOK(sem)' /\ Counted' /\ WaitsOK' /\ NoLostWakeup'
  BY <1>0 DEF Inv, TypeOK, BooksOK, CountersOK, Counted, Waiters, WaitsOK, NoLostWakeup
<1>2. RecordOK' /\ UpdateMine' /\ DeadHoldNothing'
  BY <1>0 DEF Inv, RecordOK, UpdateMine, DeadHoldNothing, Alive
<1>3. MouseFirst' /\ MouseMine'
  BY <1>0 DEF Inv, MouseFirst, MouseMine, WellUsed, Alive
<1> QED
  BY <1>1, <1>2, <1>3 DEF Inv

LEMMA NextInv == Inv /\ [Next]_vars => Inv'
<1> SUFFICES ASSUME Inv, [Next]_vars
             PROVE  Inv'
  OBVIOUS
<1>1. ASSUME NEW p \in Proc, BegUpdate(p) \/ BegMctrl(p) \/ AesCall(p)
      PROVE  Inv'
  <2>1. CASE BegUpdate(p)
    BY <2>1, RequestInv DEF BegUpdate, Ops
  <2>2. CASE BegMctrl(p)
    BY <2>2, RequestInv DEF BegMctrl, Ops
  <2>3. CASE AesCall(p)
    BY <2>3, RequestInv DEF AesCall, Ops
  <2> QED
    BY <1>1, <2>1, <2>2, <2>3
<1>2. ASSUME NEW p \in Proc, Retry(p) \/ TryBegUpdate(p) \/ TryBegMctrl(p)
      PROVE  Inv'
  BY <1>2, RetryInv, TryBegUpdateInv, TryBegMctrlInv
<1>3. ASSUME NEW p \in Proc, EndUpdate(p) \/ EndMctrl(p) \/ AesReturn(p)
      PROVE  Inv'
  BY <1>3, EndUpdateInv, EndMctrlInv, AesReturnInv
<1>4. ASSUME NEW p \in Proc, Kill(p) \/ ExitProc(p) \/ ApplExit(p)
      PROVE  Inv'
  BY <1>4, KillInv, ExitProcInv, ApplExitInv
<1>5. CASE Recover
  BY <1>5, RecoverInv
<1>6. CASE UNCHANGED vars
  BY <1>6, UnchangedInv
<1> QED
  BY <1>1, <1>2, <1>3, <1>4, <1>5, <1>6 DEF Next

\* The inductive invariant holds of the code's locks at every moment.
THEOREM Invariant == Spec => []Inv
<1> QED
  BY InitInv, NextInv, PTL DEF Spec

\* The locks, the record of wind_update() and the state of every process keep
\* their types, and a process is asleep only in ressource_semaphore_lock().
THEOREM TypeCorrect == Spec => []TypeOK
<1>1. Inv => TypeOK
  BY DEF Inv
<1> QED
  BY <1>1, Invariant, PTL

\* Nobody sleeps in ressource_semaphore_lock() for a lock that is free: the count of
\* sleepers, which is not corrected for those who were killed, errs on the right side.
THEOREM NoSleeperForgotten == Spec => []NoLostWakeup
<1>1. Inv => NoLostWakeup
  BY DEF Inv
<1> QED
  BY <1>1, Invariant, PTL

\* Whatever the applications call, matched or not, the update lock stays with the one
\* who has begun an update or is inside a drawing call, with exactly its count, until
\* it ends or recover() takes it away.
THEOREM UpdateLockMine == Spec => []UpdateMine
<1>1. Inv => UpdateMine
  BY DEF Inv
<1> QED
  BY <1>1, Invariant, PTL

\* If all applications match their calls and the user breaks no lock, the mouse lock
\* stays with its owner as well, counted once for each mouse control and each update.
THEOREM MouseLockMine == Spec => []MouseMine
<1>1. Inv => MouseMine
  BY DEF Inv
<1> QED
  BY <1>1, Invariant, PTL

\* Under the same condition lock_screen() finds the update lock free once it has the
\* mouse lock: its second wait never happens.
THEOREM SecondLockFree == Spec => []MouseFirst
<1>1. Inv => MouseFirst
  BY DEF Inv
<1> QED
  BY <1>1, Invariant, PTL

\* So no process waits for a lock whose owner waits for the other lock.
THEOREM NoLockCycle == Spec => []NoDeadlock
<1>1. ASSUME Inv, WellUsed, NEW p \in Proc, NEW q \in Proc, pc[p] \in Lock, pc[q] \in Lock
      PROVE  ~(sem[pc[p]].proc = q /\ sem[pc[q]].proc = p)
  <2>1. pc[p] = "mouse" /\ pc[q] = "mouse"
    BY <1>1 DEF Inv, MouseFirst, Lock
  <2>2. sem["mouse"].proc # p
    BY <1>1, <2>1 DEF Inv, WaitsOK
  <2> QED
    BY <2>1, <2>2
<1>2. Inv => NoDeadlock
  BY <1>1 DEF NoDeadlock
<1> QED
  BY <1>2, Invariant, PTL

\* exit_proc() leaves no lock and no record of the dead behind, whether it died
\* owning locks, asleep for one, or between the two.
THEOREM DeadLeaveNothing == Spec => []DeadHoldNothing
<1>1. Inv => DeadHoldNothing
  BY DEF Inv
<1> QED
  BY <1>1, Invariant, PTL
=============================================================================
