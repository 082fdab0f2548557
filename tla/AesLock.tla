------------------------------ MODULE AesLock ------------------------------
(***************************************************************************)
(* The locks of the XaAES desktop (src/xaaes/src.km/semaphores.c): the       *)
(* update lock, which wind_update(BEG_UPDATE) and every drawing AES call      *)
(* take together with the mouse lock, and the mouse lock, which               *)
(* wind_update(BEG_MCTRL) takes alone.  Both count nested requests of their    *)
(* owner.  wind_update() (xa_wind.c) keeps a second record of the owners,      *)
(* which the event code and recover() (app_man.c) go by, and exit_proc()       *)
(* (xa_appl.c) frees what a process leaves behind.                            *)
(*                                                                           *)
(* The kernel is not preemptive: an AES call runs to its end unless it goes   *)
(* to sleep, so one action is the code between two sleeps.                   *)
(***************************************************************************)
EXTENDS Naturals, FiniteSets

CONSTANTS
  Proc,      \* application processes
  None,      \* no process
  MaxNest,   \* bound on nested BEG_UPDATE and BEG_MCTRL of one process
  MaxCount   \* bound on the counts of C, which drift if calls do not match

ASSUME AesLockAssumption == None \notin Proc /\ MaxNest \in Nat /\ MaxCount \in Nat

Lock == {"mouse", "update"}

VARIABLES
  sem,       \* mouse_lock and update_lock
  C,         \* C.mouse_lock, C.update_lock and their counts
  pc,        \* where each process is: user code, asleep for a lock, in a call
  op,        \* the request of a process that is after a lock
  asleep,    \* processes asleep in WAIT_Q
  doomed,    \* processes with SIGKILL pending
  begun,     \* BEG_x calls of a process that no END_x call has matched yet
  tidy,      \* whether all applications match their calls; never changes
  broken     \* whether the user has called recover()

vars == <<sem, C, pc, op, asleep, doomed, begun, tidy, broken>>
ghosts == <<tidy, broken>>

Semaphore == [proc : Proc \cup {None}, counter : Nat, sleepers : Nat]
Free == [proc |-> None, counter |-> 0, sleepers |-> 0]

Init ==
  /\ sem = [l \in Lock |-> Free]
  /\ C = [l \in Lock |-> [proc |-> None, count |-> 0]]
  /\ pc = [p \in Proc |-> "user"]
  /\ op = [p \in Proc |-> "none"]
  /\ asleep = {} /\ doomed = {}
  /\ begun = [p \in Proc |-> [l \in Lock |-> 0]]
  /\ tidy \in BOOLEAN
  /\ broken = FALSE

-----------------------------------------------------------------------------
(* The operations of struct ressource_semaphore.                            *)

Blocked(S, l, p) == S[l].proc \notin {None, p}

Entered(S, l, p) == [S EXCEPT ![l].proc = p, ![l].counter = @ + 1]

Waiting(S, l) == [S EXCEPT ![l].sleepers = @ + 1]

\* Without the test of the owner.
ReleasedByAnyone(S, l, p) ==
  [S EXCEPT ![l].counter = @ - 1, ![l].proc = IF S[l].counter = 1 THEN None ELSE @]

\* ressource_semaphore_rel() of the owner.
Released(S, l, p) ==
  IF S[l].proc # p THEN S
  ELSE [S EXCEPT ![l].counter = @ - 1, ![l].proc = IF S[l].counter = 1 THEN None ELSE @]

Freed(S, l) == [S EXCEPT ![l].proc = None, ![l].counter = 0]

\* No wakeup for the only sleeper.
WokenMany(S, T) ==
  {p \in asleep : pc[p] \in Lock /\ S[pc[p]].sleepers > 1
                    /\ S[pc[p]].proc # None /\ T[pc[p]].proc = None}

\* Both wake up everybody asleep on the lock when it becomes free, if there is
\* a sleeper on the count.
Woken(S, T) ==
  {p \in asleep : pc[p] \in Lock /\ S[pc[p]].sleepers > 0
                    /\ S[pc[p]].proc # None /\ T[pc[p]].proc = None}

\* A step that changes the locks to T and leaves the caller as it is.
Unlock(T) == sem' = T /\ asleep' = asleep \ Woken(sem, T)

-----------------------------------------------------------------------------
(* Taking locks.                                                           *)

\* ressource_semaphore_lock() finds the lock taken.
Sleep(S, l, p, o) ==
  /\ sem' = Waiting(S, l)
  /\ pc' = [pc EXCEPT ![p] = l]
  /\ op' = [op EXCEPT ![p] = o]
  /\ asleep' = asleep \cup {p}
  /\ UNCHANGED <<C, begun>>

Book(l, p) ==
  /\ C[l].count < MaxCount
  /\ C' = [C EXCEPT ![l] = [proc |-> p, count |-> @.count + 1]]

\* The request of p is granted, and wind_update() notes it.
Granted(S, p, o) ==
  /\ sem' = S
  /\ pc' = [pc EXCEPT ![p] = IF o = "call" THEN "call" ELSE "user"]
  /\ op' = [op EXCEPT ![p] = "none"]
  /\ asleep' = asleep \ {p}
  /\ \/ o = "BEG_UPDATE" /\ Book("update", p) /\ begun' = [begun EXCEPT ![p]["update"] = @ + 1]
     \/ o = "BEG_MCTRL" /\ Book("mouse", p) /\ begun' = [begun EXCEPT ![p]["mouse"] = @ + 1]
     \/ o = "call" /\ UNCHANGED <<C, begun>>

\* The rest of a request that has the mouse lock.
Proceed(S, p, o) ==
  IF o = "BEG_MCTRL" THEN Granted(S, p, o)
  ELSE IF Blocked(S, "update", p) THEN Sleep(S, "update", p, o)
  ELSE Granted(Entered(S, "update", p), p, o)

\* lock_screen() with the locks in the other order.
RequestUpdateFirst(p, o) ==
  IF o = "BEG_MCTRL"
  THEN IF Blocked(sem, "mouse", p) THEN Sleep(sem, "mouse", p, o)
       ELSE Granted(Entered(sem, "mouse", p), p, o)
  ELSE IF Blocked(sem, "update", p) THEN Sleep(sem, "update", p, o)
  ELSE LET S == Entered(sem, "update", p) IN
       IF Blocked(S, "mouse", p) THEN Sleep(S, "mouse", p, o)
       ELSE Granted(Entered(S, "mouse", p), p, o)

\* lock_screen() and lock_mouse(): the mouse lock comes first.
Request(p, o) ==
  IF Blocked(sem, "mouse", p) THEN Sleep(sem, "mouse", p, o)
  ELSE Proceed(Entered(sem, "mouse", p), p, o)

\* A process in user code that nobody has killed enters the AES.
Calls(p) == pc[p] = "user" /\ p \notin doomed

BegUpdate(p) ==
  /\ Calls(p) /\ begun[p]["update"] < MaxNest
  /\ Request(p, "BEG_UPDATE")
  /\ UNCHANGED <<doomed, ghosts>>

BegMctrl(p) ==
  /\ Calls(p) /\ begun[p]["mouse"] < MaxNest
  /\ Request(p, "BEG_MCTRL")
  /\ UNCHANGED <<doomed, ghosts>>

\* XA_handler(): an AES call with DO_LOCKSCREEN.
AesCall(p) ==
  /\ Calls(p)
  /\ Request(p, "call")
  /\ UNCHANGED <<doomed, ghosts>>

\* Back from sleep() in ressource_semaphore_lock().
Retry(p) ==
  LET l == pc[p] IN
  /\ l \in Lock /\ p \notin asleep /\ p \notin doomed
  /\ \/ /\ sem[l].proc # None
        /\ asleep' = asleep \cup {p}
        /\ UNCHANGED <<sem, C, pc, op, begun>>
     \/ /\ sem[l].proc = None
        /\ LET S == Entered([sem EXCEPT ![l].sleepers = @ - 1], l, p)
           IN  IF l = "mouse" THEN Proceed(S, p, op[p]) ELSE Granted(S, p, op[p])
  /\ UNCHANGED <<doomed, ghosts>>

\* wind_update(BEG_UPDATE | 0x100): the first lock is given back, entirely, if
\* the second is taken.
TryBegUpdate(p) ==
  /\ Calls(p) /\ begun[p]["update"] < MaxNest
  /\ ~Blocked(sem, "mouse", p)
  /\ LET S == Entered(sem, "mouse", p) IN
     \/ ~Blocked(S, "update", p) /\ Granted(Entered(S, "update", p), p, "BEG_UPDATE")
     \/ Blocked(S, "update", p) /\ Unlock(Freed(S, "mouse")) /\ UNCHANGED <<C, pc, op, begun>>
  /\ UNCHANGED <<doomed, ghosts>>

TryBegMctrl(p) ==
  /\ Calls(p) /\ begun[p]["mouse"] < MaxNest
  /\ ~Blocked(sem, "mouse", p)
  /\ Granted(Entered(sem, "mouse", p), p, "BEG_MCTRL")
  /\ UNCHANGED <<doomed, ghosts>>

-----------------------------------------------------------------------------
(* Giving locks back.                                                      *)

\* wind_update() counts down what it noted for this process.
Unbook(l, p) ==
  C' = IF C[l].proc # p THEN C
       ELSE [C EXCEPT ![l] = [proc |-> IF @.count = 1 THEN None ELSE p, count |-> @.count - 1]]

\* The application gives back what it has, or once more than that.
Matched(p, l) == tidy => begun[p][l] > 0

Less(n) == IF n = 0 THEN 0 ELSE n - 1

\* Without the mouse lock.
UnlockScreenUpdateOnly(S, p) == Released(S, "update", p)

\* unlock_screen().
UnlockScreen(S, p) == Released(Released(S, "update", p), "mouse", p)

EndUpdate(p) ==
  /\ Calls(p) /\ Matched(p, "update")
  /\ Unlock(UnlockScreen(sem, p))
  /\ Unbook("update", p)
  /\ begun' = [begun EXCEPT ![p]["update"] = Less(@)]
  /\ UNCHANGED <<pc, op, doomed, ghosts>>

\* unlock_mouse() releases the mouse whoever has the update lock.
EndMctrl(p) ==
  /\ Calls(p) /\ Matched(p, "mouse")
  /\ Unlock(Released(sem, "mouse", p))
  /\ Unbook("mouse", p)
  /\ begun' = [begun EXCEPT ![p]["mouse"] = Less(@)]
  /\ UNCHANGED <<pc, op, doomed, ghosts>>

\* The end of an AES call with DO_LOCKSCREEN.
AesReturn(p) ==
  /\ pc[p] = "call" /\ p \notin doomed
  /\ Unlock(UnlockScreen(sem, p))
  /\ pc' = [pc EXCEPT ![p] = "user"]
  /\ UNCHANGED <<C, op, doomed, begun, ghosts>>

-----------------------------------------------------------------------------
(* Termination.                                                            *)

\* Somebody kills p, which wakes it up; it dies before it leaves sleep().
Kill(p) ==
  /\ pc[p] # "dead" /\ p \notin doomed
  /\ doomed' = doomed \cup {p}
  /\ asleep' = asleep \ {p}
  /\ UNCHANGED <<sem, C, pc, op, begun, ghosts>>

\* Without the second test, for the mouse lock.
LeaveUpdateOnly(S, p) == IF S["update"].proc = p THEN Freed(Freed(S, "mouse"), "update") ELSE S

\* exit_proc(): free_update_lock() frees the mouse lock as well.
Leave(S, p) ==
  LET T == IF S["update"].proc = p THEN Freed(Freed(S, "mouse"), "update") ELSE S
  IN  IF T["mouse"].proc = p THEN Freed(T, "mouse") ELSE T

Forget(B, p) == [l \in Lock |-> IF B[l].proc = p THEN [proc |-> None, count |-> 0] ELSE B[l]]

ExitProc(p) ==
  /\ pc[p] # "dead"
  /\ p \in doomed \/ pc[p] = "user"
  /\ Unlock(Leave(sem, p))
  /\ C' = Forget(C, p)
  /\ pc' = [pc EXCEPT ![p] = "dead"]
  /\ op' = [op EXCEPT ![p] = "none"]
  /\ begun' = [begun EXCEPT ![p] = [l \in Lock |-> 0]]
  /\ UNCHANGED <<doomed, ghosts>>

\* appl_exit(): exit_client() frees the locks in the same way, and the process
\* goes on.
ApplExit(p) ==
  /\ Calls(p)
  /\ Unlock(Leave(sem, p))
  /\ C' = Forget(C, p)
  /\ begun' = [begun EXCEPT ![p] = [l \in Lock |-> 0]]
  /\ UNCHANGED <<pc, op, doomed, ghosts>>

\* recover(): the user breaks a lock-up; the owners on record lose their locks
\* and are killed.
Recover ==
  LET u == C["update"].proc
      m == IF C["mouse"].proc = u THEN None ELSE C["mouse"].proc
      T == IF u = None THEN sem ELSE Freed(Freed(sem, "mouse"), "update")
      V == IF m = None THEN T ELSE Freed(T, "mouse")
  IN  /\ {u, m} # {None}
      /\ sem' = V
      /\ C' = [l \in Lock |-> [proc |-> None, count |-> 0]]
      /\ doomed' = doomed \cup ({u, m} \ {None})
      /\ asleep' = (asleep \ Woken(sem, V)) \ {u, m}
      /\ broken' = TRUE
      /\ UNCHANGED <<pc, op, begun, tidy>>

-----------------------------------------------------------------------------
Next ==
  \/ \E p \in Proc :
       \/ BegUpdate(p) \/ BegMctrl(p) \/ AesCall(p) \/ Retry(p)
       \/ TryBegUpdate(p) \/ TryBegMctrl(p)
       \/ EndUpdate(p) \/ EndMctrl(p) \/ AesReturn(p)
       \/ Kill(p) \/ ExitProc(p) \/ ApplExit(p)
  \/ Recover

Spec == Init /\ [][Next]_vars

-----------------------------------------------------------------------------
(* Properties.                                                             *)

Ops == {"none", "BEG_UPDATE", "BEG_MCTRL", "call"}

\* The variables keep their types; a process is asleep only for a lock.
TypeOK ==
  /\ sem \in [Lock -> Semaphore]
  /\ C \in [Lock -> [proc : Proc \cup {None}, count : Nat]]
  /\ pc \in [Proc -> {"user", "call", "dead"} \cup Lock]
  /\ op \in [Proc -> Ops]
  /\ asleep \subseteq {p \in Proc : pc[p] \in Lock}
  /\ doomed \subseteq Proc
  /\ begun \in [Proc -> [Lock -> Nat]]
  /\ tidy \in BOOLEAN /\ broken \in BOOLEAN

\* Nobody is asleep for a lock that is free, although the count of sleepers that
\* decides about the wakeup is not corrected when a sleeper is killed.
NoLostWakeup == \A p \in asleep : sem[pc[p]].proc # None

Alive(p) == pc[p] # "dead" /\ p \notin doomed

\* The update lock is safe from the others: whatever they call, and in whatever
\* order they die, a process that has begun an update or is inside a drawing call
\* owns the lock with exactly its own count, until the user breaks the lock.
UpdateMine ==
  \A p \in Proc :
    LET n == begun[p]["update"] + (IF pc[p] = "call" THEN 1 ELSE 0)
    IN  Alive(p) => /\ n > 0 => sem["update"].proc = p
                    /\ sem["update"].proc = p => sem["update"].counter = n

\* All applications match their calls, and the user has not broken a lock.
WellUsed == tidy /\ ~broken

\* If the locks are well used, the same holds of the mouse lock, which
\* lock_screen() takes once more for each update, before the update lock.
MouseMine ==
  WellUsed => \A p \in Proc :
    LET n == begun[p]["mouse"] + begun[p]["update"]
               + (IF pc[p] \in {"call", "update"} THEN 1 ELSE 0)
    IN  Alive(p) => /\ n > 0 => sem["mouse"].proc = p
                    /\ sem["mouse"].proc = p => sem["mouse"].counter = n

\* The order of the two locks is then never reversed: no process waits for a lock
\* whose owner waits for the other one.
NoDeadlock ==
  WellUsed => \A p, q \in Proc :
    pc[p] \in Lock /\ pc[q] \in Lock /\ Alive(p) /\ Alive(q)
      => ~(sem[pc[p]].proc = q /\ sem[pc[q]].proc = p)

\* A process that has terminated leaves no lock and no record behind, asleep or
\* not, killed or not.
DeadHoldNothing ==
  \A p \in Proc, l \in Lock : pc[p] = "dead" => sem[l].proc # p /\ C[l].proc # p
=============================================================================
