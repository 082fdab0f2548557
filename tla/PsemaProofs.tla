---------------------------- MODULE PsemaProofs ----------------------------
(***************************************************************************)
(* Proofs about Psemaphore() for every set of processes and semaphores,    *)
(* every mix of operations and every number of stale timeouts.             *)
(*                                                                         *)
(* SleepersHaveOwner is not inductive by itself: that wake(WAIT_Q,         *)
(* WAIT_SEMA) reaches every sleeping getter needs to know that a process   *)
(* asleep in mode 2 still has the wait_cond sleep() gave it, although      *)
(* timeouts and signal handlers change wait_cond: they do so only for      *)
(* processes they also take off WAIT_Q, or that are running.               *)
(***************************************************************************)
EXTENDS Psema, TLAPS

USE PsemaAssumption

\* The running process is the one on no queue.
CurrentOK == \A p \in Proc : wait_q[p] = "CURPROC_Q" <=> curproc = p

\* A process on WAIT_Q is inside a sleep() that nobody has interfered with.
WaitersOK ==
  \A p \in Proc : wait_q[p] = "WAIT_Q" =>
    /\ what[p] \in {"get", "vfork"}
    /\ what[p] = "get" => wait_cond[p] = "WAIT_SEMA"

IInv == TypeOK /\ CurrentOK /\ WaitersOK /\ OwnersAlive /\ SleepersHaveOwner

-----------------------------------------------------------------------------

LEMMA InitIInv == Init => IInv
<1> SUFFICES ASSUME Init PROVE IInv
  OBVIOUS
<1>1. PICK s \in Sema : id = [p \in Proc |-> s]
  BY DEF Init
<1>2. TypeOK
  BY <1>1 DEF Init, TypeOK, Queues, CondSet, Timeouts
<1> QED
  BY <1>2 DEF Init, IInv, CurrentOK, WaitersOK, OwnersAlive, SleepersHaveOwner

\* What a call that returns does to the types.
LEMMA ReturnType ==
  ASSUME TypeOK, NEW p \in Proc, NEW t \in Timeouts, NEW x, NEW r,
         NEW cancel, Return(p, t, x, r, cancel),
         semalist' \in [Sema -> Proc \cup {"absent", "free"}],
         id' \in [Proc -> Sema], UNCHANGED <<ioready, vforkVars>>
  PROVE  TypeOK'
<1>1. early' \in BOOLEAN
  BY DEF Return, TypeOK
<1>2. stale' \in [Proc -> Nat]
  BY DEF Return, Abandoned, TypeOK
<1>4. upset' \subseteq Proc /\ killed' \subseteq Proc
  BY DEF Return, Calm, TypeOK, vforkVars
<1>3. pending' \in [Proc -> BOOLEAN] /\ expired' \in [Proc -> BOOLEAN]
  BY DEF Return, TypeOK
<1> QED
  BY <1>1, <1>2, <1>3, <1>4 DEF Return, TypeOK, Timeouts, vforkVars

\* A turn of the loop of mode 2 keeps the types.
LEMMA GetLoopType ==
  ASSUME TypeOK, NEW p \in Proc, NEW s \in Sema, NEW t \in Timeouts,
         NEW x \in BOOLEAN, GetLoop(p, s, t, x),
         id' \in [Proc -> Sema], UNCHANGED <<ioready, vforkVars>>
  PROVE  TypeOK'
<1>1. CASE semalist[s] = "absent" /\ Return(p, t, x, "EBADARG", TRUE)
           /\ UNCHANGED semalist
  BY <1>1, ReturnType DEF TypeOK
<1>2. CASE semalist[s] = p /\ Return(p, t, x, "EERROR", FALSE)
           /\ UNCHANGED semalist
  BY <1>2, ReturnType DEF TypeOK
<1>3. CASE /\ semalist' = [semalist EXCEPT ![s] = p]
           /\ Return(p, t, x, "E_OK", TRUE)
  BY <1>3, ReturnType DEF TypeOK
<1>4. CASE Return(p, t, x, "EACCES", FALSE) /\ UNCHANGED semalist
  BY <1>4, ReturnType DEF TypeOK
<1>5. CASE /\ pending' = [pending EXCEPT ![p] = Armed(p, t, x)]
           /\ timeout' = [timeout EXCEPT ![p] = t]
           /\ what' = [what EXCEPT ![p] = "get"]
           /\ SleepSema(p) /\ UNCHANGED <<semalist, expired>>
  <2>1. Armed(p, t, x) \in BOOLEAN
    BY DEF Armed
  <2>2. pending' \in [Proc -> BOOLEAN]
    BY <1>5, <2>1 DEF TypeOK
  <2>3. sig' \in [Proc -> BOOLEAN] /\ curproc' \in Proc \cup {NoProc}
        /\ wait_q' \in [Proc -> Queues] /\ wait_cond' \in [Proc -> CondSet]
        /\ pc' \in [Proc -> {"user", "entry", "asleep", "wakeup", "handler",
                             "back"}]
    <3>0. SleepSema(p)
      BY <1>5, Zenon
    <3>1. CASE sig[p]
      <4>1. /\ pc' = [pc EXCEPT ![p] = "entry"] /\ sig' = [sig EXCEPT ![p] = FALSE]
            /\ curproc' = curproc /\ wait_q' = wait_q /\ wait_cond' = wait_cond
        BY <3>0, <3>1, Zenon DEF SleepSema
      <4> QED
        BY <4>1 DEF TypeOK
    <3>2. CASE ~sig[p]
      <4>1. /\ pc' = [pc EXCEPT ![p] = "asleep"] /\ curproc' = NoProc /\ sig' = sig
            /\ wait_q' = [wait_q EXCEPT ![p] = "WAIT_Q"]
            /\ wait_cond' = [wait_cond EXCEPT ![p] = "WAIT_SEMA"]
        BY <3>0, <3>2, Zenon DEF SleepSema
      <4> QED
        BY <4>1 DEF TypeOK, Queues, CondSet
    <3> QED
      BY <3>1, <3>2, Zenon
  <2> QED
    BY <1>5, <2>2, <2>3 DEF SleepSema, TypeOK, vforkVars
<1> QED
  BY <1>1, <1>2, <1>3, <1>4, <1>5 DEF GetLoop

\* Every step keeps the types.
LEMMA NextTypeOK == TypeOK /\ [Next]_vars => TypeOK'
<1> SUFFICES ASSUME TypeOK, [Next]_vars PROVE TypeOK'
  OBVIOUS
<1>1. ASSUME NEW p \in Proc, Dispatch(p)
      PROVE  TypeOK'
  BY <1>1 DEF Dispatch, TypeOK, callVars, vforkVars, Calm, Queues, CondSet, Timeouts
<1>2. ASSUME NEW p \in Proc, Yield(p)
      PROVE  TypeOK'
  BY <1>2 DEF Yield, AtUser, TypeOK, callVars, vforkVars, Calm, Queues, CondSet, Timeouts
<1>3. ASSUME NEW p \in Proc, NEW s \in Sema, Create(p, s)
      PROVE  TypeOK'
  BY <1>3 DEF Create, AtUser, TypeOK, callVars, vforkVars, Calm, Queues, CondSet, Timeouts
<1>4. ASSUME NEW p \in Proc, NEW s \in Sema, Release(p, s)
      PROVE  TypeOK'
  BY <1>4 DEF Release, AtUser, Leave, Woken, TypeOK, callVars, vforkVars, Calm, Queues,
    CondSet, Timeouts
<1>5. ASSUME NEW p \in Proc, NEW s \in Sema, Destroy(p, s)
      PROVE  TypeOK'
  BY <1>5 DEF Destroy, AtUser, Leave, Woken, TypeOK, callVars, vforkVars, Calm, Queues,
    CondSet, Timeouts
<1>6. ASSUME NEW p \in Proc, NEW s \in Sema, NEW t \in Timeouts, Get(p, s, t)
      PROVE  TypeOK'
  BY <1>6, GetLoopType DEF Get, TypeOK
<1>7. ASSUME NEW p \in Proc, GetAgain(p)
      PROVE  TypeOK'
  <2>1. id' \in [Proc -> Sema] /\ UNCHANGED <<ioready, vforkVars>>
    BY <1>7 DEF GetAgain, TypeOK
  <2>2. id[p] \in Sema /\ timeout[p] \in Timeouts /\ expired[p] \in BOOLEAN
    BY DEF TypeOK
  <2>3. CASE wait_cond[p] # "WAIT_SEMA"
    BY <1>7, <2>1, <2>2, <2>3, ReturnType DEF GetAgain, TypeOK
  <2>4. CASE wait_cond[p] = "WAIT_SEMA"
    BY <1>7, <2>1, <2>2, <2>4, GetLoopType DEF GetAgain
  <2> QED BY <2>3, <2>4
<1>8. ASSUME NEW p \in Proc, Expire(p)
      PROVE  TypeOK'
  BY <1>8 DEF Expire, Unsemame, TimersRun, TypeOK, callVars, vforkVars, Calm, Queues,
    CondSet, Timeouts
<1>9. ASSUME NEW p \in Proc, ExpireStale(p)
      PROVE  TypeOK'
  BY <1>9 DEF ExpireStale, Unsemame, TimersRun, TypeOK, callVars, vforkVars, Calm, Queues,
    CondSet, Timeouts
<1>10. ASSUME NEW p \in Proc, PostSig(p)
      PROVE  TypeOK'
  BY <1>10 DEF PostSig, TypeOK, callVars, vforkVars, Calm, Queues, CondSet, Timeouts
<1>11. ASSUME NEW p \in Proc, TakeSig(p)
      PROVE  TypeOK'
  BY <1>11 DEF TakeSig, TypeOK, callVars, vforkVars, Calm, Queues, CondSet, Timeouts
<1>12. ASSUME NEW p \in Proc, HandlerEnd(p)
      PROVE  TypeOK'
  BY <1>12 DEF HandlerEnd, TypeOK, callVars, vforkVars, Calm, Queues, CondSet, Timeouts
<1>13. ASSUME NEW p \in Proc, Terminate(p)
      PROVE  TypeOK'
  BY <1>13 DEF Terminate, Woken, Freed, KillTaken, TypeOK, callVars, vforkVars, Calm, Queues, CondSet,
    Timeouts
<1>14. ASSUME NEW p \in Proc, IoSleep(p)
      PROVE  TypeOK'
  BY <1>14 DEF IoSleep, AtUser, Block, TypeOK, callVars, vforkVars, Calm, Queues, CondSet,
    Timeouts
<1>15. ASSUME NEW p \in Proc, IoAgain(p)
      PROVE  TypeOK'
  BY <1>15 DEF IoAgain, Returning, TypeOK, callVars, vforkVars, Calm, Queues, CondSet, Timeouts
<1>16. ASSUME NEW p \in Proc, Vfork(p)
      PROVE  TypeOK'
  BY <1>16 DEF Vfork, AtUser, Block, TypeOK, callVars, vforkVars, Calm, Queues, CondSet,
    Timeouts
<1>17. ASSUME NEW p \in Proc, VforkChildDone(p)
      PROVE  TypeOK'
  BY <1>17 DEF VforkChildDone, TypeOK, callVars, vforkVars, Calm, Queues, CondSet, Timeouts
<1>18. ASSUME NEW p \in Proc, VforkReturn(p)
      PROVE  TypeOK'
  BY <1>18 DEF VforkReturn, TypeOK, callVars, vforkVars, Calm, Queues, CondSet, Timeouts
<1>19. CASE IoWake
  BY <1>19 DEF IoWake, Woken, TypeOK, callVars, vforkVars, Calm, Queues, CondSet, Timeouts
<1>20. CASE UNCHANGED vars
  BY <1>20 DEF vars, TypeOK, callVars, vforkVars, Calm, Queues, CondSet, Timeouts
<1>21. ASSUME NEW p \in Proc, PostKill(p)
      PROVE  TypeOK'
  BY <1>21 DEF PostKill, TypeOK, callVars, Queues, CondSet, Timeouts
<1> QED
  BY <1>1, <1>2, <1>3, <1>4, <1>5, <1>6, <1>7, <1>8, <1>9, <1>10, <1>11,
     <1>12, <1>13, <1>14, <1>15, <1>16, <1>17, <1>18, <1>19, <1>20, <1>21
  DEF Next, Step, Kernel

\* Every step keeps the rest of the inductive invariant.
LEMMA NextIInv == IInv /\ [Next]_vars => IInv'
<1> SUFFICES ASSUME IInv, [Next]_vars PROVE IInv'
  OBVIOUS
<1>0. TypeOK'
  BY NextTypeOK DEF IInv
<1>1. ASSUME NEW p \in Proc, Dispatch(p)
      PROVE  IInv'
  BY <1>1, <1>0 DEF Dispatch, callVars, vforkVars, IInv, TypeOK, CurrentOK, WaitersOK,
    OwnersAlive,
     SleepersHaveOwner, Queues
<1>2. ASSUME NEW p \in Proc, Yield(p)
      PROVE  IInv'
  BY <1>2, <1>0 DEF Yield, AtUser, callVars, vforkVars, IInv, TypeOK, CurrentOK,
    WaitersOK, OwnersAlive,
     SleepersHaveOwner, Queues
<1>3. ASSUME NEW p \in Proc, NEW s \in Sema, Create(p, s)
      PROVE  IInv'
  BY <1>3, <1>0 DEF Create, AtUser, callVars, vforkVars, IInv, TypeOK, CurrentOK,
    WaitersOK, OwnersAlive,
     SleepersHaveOwner, Queues
<1>4. ASSUME NEW p \in Proc, NEW s \in Sema, Release(p, s)
      PROVE  IInv'
  BY <1>4, <1>0 DEF Release, AtUser, Leave, Woken, callVars, vforkVars, IInv, TypeOK,
    CurrentOK, WaitersOK, OwnersAlive,
     SleepersHaveOwner, Queues
<1>5. ASSUME NEW p \in Proc, NEW s \in Sema, Destroy(p, s)
      PROVE  IInv'
  BY <1>5, <1>0 DEF Destroy, AtUser, Leave, Woken, callVars, vforkVars, IInv, TypeOK,
    CurrentOK, WaitersOK, OwnersAlive,
     SleepersHaveOwner, Queues
<1>6. ASSUME NEW p \in Proc, NEW s \in Sema, NEW t \in Timeouts, Get(p, s, t)
      PROVE  IInv'
  BY <1>6, <1>0 DEF Get, AtUser, GetLoop, Return, SleepSema, Armed,
    Abandoned, callVars, vforkVars, IInv, TypeOK, CurrentOK, WaitersOK, OwnersAlive,
     SleepersHaveOwner, Queues
<1>7. ASSUME NEW p \in Proc, GetAgain(p)
      PROVE  IInv'
  BY <1>7, <1>0 DEF GetAgain, Returning, GetLoop, Return, SleepSema, Armed,
    Abandoned, callVars, vforkVars, IInv, TypeOK, CurrentOK, WaitersOK, OwnersAlive,
     SleepersHaveOwner, Queues
<1>8. ASSUME NEW p \in Proc, Expire(p)
      PROVE  IInv'
  BY <1>8, <1>0 DEF Expire, Unsemame, TimersRun, callVars, vforkVars, IInv, TypeOK,
    CurrentOK, WaitersOK, OwnersAlive,
     SleepersHaveOwner, Queues
<1>9. ASSUME NEW p \in Proc, ExpireStale(p)
      PROVE  IInv'
  BY <1>9, <1>0 DEF ExpireStale, Unsemame, TimersRun, callVars, vforkVars, IInv,
    TypeOK, CurrentOK, WaitersOK, OwnersAlive,
     SleepersHaveOwner, Queues
<1>10. ASSUME NEW p \in Proc, PostSig(p)
      PROVE  IInv'
  BY <1>10, <1>0 DEF PostSig, callVars, vforkVars, IInv, TypeOK, CurrentOK, WaitersOK,
    OwnersAlive,
     SleepersHaveOwner, Queues
<1>11. ASSUME NEW p \in Proc, TakeSig(p)
      PROVE  IInv'
  BY <1>11, <1>0 DEF TakeSig, callVars, vforkVars, IInv, TypeOK, CurrentOK, WaitersOK,
    OwnersAlive,
     SleepersHaveOwner, Queues
<1>12. ASSUME NEW p \in Proc, HandlerEnd(p)
      PROVE  IInv'
  BY <1>12, <1>0 DEF HandlerEnd, callVars, vforkVars, IInv, TypeOK, CurrentOK,
    WaitersOK, OwnersAlive,
     SleepersHaveOwner, Queues
<1>13. ASSUME NEW p \in Proc, Terminate(p)
      PROVE  IInv'
  BY <1>13, <1>0 DEF Terminate, Woken, Freed, KillTaken, callVars, vforkVars, IInv, TypeOK,
    CurrentOK, WaitersOK, OwnersAlive,
     SleepersHaveOwner, Queues
<1>14. ASSUME NEW p \in Proc, IoSleep(p)
      PROVE  IInv'
  BY <1>14, <1>0 DEF IoSleep, AtUser, Block, callVars, vforkVars, IInv, TypeOK,
    CurrentOK, WaitersOK, OwnersAlive,
     SleepersHaveOwner, Queues
<1>15. ASSUME NEW p \in Proc, IoAgain(p)
      PROVE  IInv'
  BY <1>15, <1>0 DEF IoAgain, Returning, callVars, vforkVars, IInv, TypeOK, CurrentOK,
    WaitersOK, OwnersAlive,
     SleepersHaveOwner, Queues
<1>16. ASSUME NEW p \in Proc, Vfork(p)
      PROVE  IInv'
  BY <1>16, <1>0 DEF Vfork, AtUser, Block, callVars, vforkVars, IInv, TypeOK,
    CurrentOK, WaitersOK, OwnersAlive,
     SleepersHaveOwner, Queues
<1>17. ASSUME NEW p \in Proc, VforkChildDone(p)
      PROVE  IInv'
  BY <1>17, <1>0 DEF VforkChildDone, callVars, vforkVars, IInv, TypeOK, CurrentOK,
    WaitersOK, OwnersAlive,
     SleepersHaveOwner, Queues
<1>18. ASSUME NEW p \in Proc, VforkReturn(p)
      PROVE  IInv'
  BY <1>18, <1>0 DEF VforkReturn, callVars, vforkVars, IInv, TypeOK, CurrentOK,
    WaitersOK, OwnersAlive,
     SleepersHaveOwner, Queues
<1>19. CASE IoWake
  BY <1>19, <1>0 DEF IoWake, Woken, callVars, vforkVars, IInv, TypeOK, CurrentOK,
    WaitersOK, OwnersAlive,
     SleepersHaveOwner, Queues
<1>20. CASE UNCHANGED vars
  BY <1>20, <1>0 DEF vars, callVars, vforkVars, IInv, TypeOK, CurrentOK, WaitersOK,
    OwnersAlive,
     SleepersHaveOwner, Queues
<1>21. ASSUME NEW p \in Proc, PostKill(p)
      PROVE  IInv'
  BY <1>21, <1>0 DEF PostKill, callVars, IInv, TypeOK, CurrentOK,
    WaitersOK, OwnersAlive, SleepersHaveOwner, Queues
<1> QED
  BY <1>1, <1>2, <1>3, <1>4, <1>5, <1>6, <1>7, <1>8, <1>9, <1>10, <1>11,
     <1>12, <1>13, <1>14, <1>15, <1>16, <1>17, <1>18, <1>19, <1>20, <1>21
  DEF Next, Step, Kernel

-----------------------------------------------------------------------------
(* A timeout ends the call it belongs to and nothing else, but for calls in which a
   handler has left another wait_cond.  The reason is that no other call leaves a
   timeout on tlist: one whose wait_cond has changed is one whose timeout has
   expired.                                                                  *)

\* Only a process that a handler has upset has old timeouts, and the wait_cond it
\* slept with is lost before its timeout only where a handler has not yet returned.
TimeoutsOK ==
  \A p \in Proc \ upset :
    /\ stale[p] = 0
    /\ what[p] = "get" /\ pc[p] # "entry" => expired[p] \/ wait_cond[p] = "WAIT_SEMA"

\* A call in mode 2 was willing to wait, and its timeout is pending or has expired.
CallsOK ==
  \A p \in Proc :
    /\ pc[p] = "user" => what[p] = "none"
    /\ pending[p] => what[p] = "get" /\ ~expired[p]
    /\ expired[p] => what[p] = "get"
    /\ what[p] = "get" => timeout[p] # "0" /\ semalist[id[p]] # p
    /\ wait_q[p] = "IO_Q" => what[p] = "io"

\* Nobody touches the wait_cond of the other sleepers.
OtherCondsOK ==
  \A p \in Proc \ upset :
    /\ wait_q[p] = "IO_Q" => wait_cond[p] = "io"
    /\ wait_q[p] = "WAIT_Q" /\ what[p] = "vfork" => wait_cond[p] = "child"

Settled ==
  /\ TimeoutsOK /\ CallsOK /\ OtherCondsOK
  /\ EaccesOnlyAfterTimeout /\ OtherSleepsKept

LEMMA InitSettled == Init => Settled
  BY DEF Init, Settled, TimeoutsOK, CallsOK, OtherCondsOK, EaccesOnlyAfterTimeout,
    OtherSleepsKept

\* A call that returns: with its timeout expired or without one, or in time, or
\* upset by a handler.
LEMMA ReturnSettled ==
  ASSUME IInv, Settled, NEW p \in Proc, NEW s \in Sema, NEW t \in Timeouts, NEW x,
         NEW r, NEW cancel, Return(p, t, x, r, cancel), curproc = p,
         what[p] # "vfork", r = "EACCES" => t = "0" \/ x \/ p \in upset,
         cancel \/ ~pending[p] \/ p \in upset,
         semalist' = semalist \/ semalist' = [semalist EXCEPT ![s] = p],
         \A q \in Proc \ {p} : id'[q] = id[q],
         UNCHANGED <<ioready, vforkVars>>
  PROVE  Settled'
<1>0. wait_q[p] = "CURPROC_Q" /\ \A q \in Proc \ {p} : q \in upset' <=> q \in upset
  BY DEF IInv, CurrentOK, Return, Calm
<1>1. /\ early' = early
      /\ p \notin upset => stale' = stale
      /\ p \notin upset' => stale'[p] = 0 /\ ~borrowed[p]
      /\ \A q \in Proc \ {p} : stale'[q] = stale[q]
  <2>1. /\ early' = early
        /\ p \notin upset => stale' = stale
        /\ \A q \in Proc \ {p} : stale'[q] = stale[q]
    BY DEF Return, Abandoned, Settled, EaccesOnlyAfterTimeout, IInv, TypeOK
  <2>2. p \notin upset => stale[p] = 0 /\ ~borrowed[p]
    BY <1>0 DEF Settled, TimeoutsOK, OtherSleepsKept
  <2> QED
    BY <2>1, <2>2 DEF Return, Calm
<1>2. TimeoutsOK' /\ EaccesOnlyAfterTimeout'
  BY <1>0, <1>1 DEF Return, Settled, TimeoutsOK, EaccesOnlyAfterTimeout, IInv, TypeOK
<1>3. CallsOK'
  BY <1>0 DEF Return, Settled, CallsOK, IInv, TypeOK
<1>4. OtherCondsOK' /\ OtherSleepsKept'
  BY <1>0, <1>1 DEF Return, Settled, OtherCondsOK, OtherSleepsKept, IInv, TypeOK, vforkVars
<1> QED
  BY <1>2, <1>3, <1>4 DEF Settled

\* A turn of the loop of mode 2.
LEMMA GetLoopSettled ==
  ASSUME IInv, Settled, NEW p \in Proc, NEW s \in Sema, NEW t \in Timeouts,
         NEW x \in BOOLEAN, GetLoop(p, s, t, x), curproc = p, what[p] # "vfork",
         x = expired[p],
         semalist[s] = p => ~pending[p], t = "0" => ~pending[p],
         id' \in [Proc -> Sema], id'[p] = s, \A q \in Proc \ {p} : id'[q] = id[q],
         UNCHANGED <<ioready, vforkVars>>
  PROVE  Settled'
<1>0. wait_q[p] = "CURPROC_Q" /\ (p \notin upset => ~borrowed[p])
  BY DEF IInv, CurrentOK, Settled, OtherSleepsKept
<1>1. CASE semalist[s] = "absent" /\ Return(p, t, x, "EBADARG", TRUE) /\ UNCHANGED semalist
  BY <1>1, ReturnSettled
<1>2. CASE semalist[s] = p /\ Return(p, t, x, "EERROR", FALSE) /\ UNCHANGED semalist
  BY <1>2, ReturnSettled
<1>3. CASE semalist' = [semalist EXCEPT ![s] = p] /\ Return(p, t, x, "E_OK", TRUE)
  BY <1>3, ReturnSettled
<1>4. CASE t = "0" /\ Return(p, t, x, "EACCES", FALSE) /\ UNCHANGED semalist
  BY <1>4, ReturnSettled
<1>5. CASE /\ semalist[s] \in Proc \ {p} /\ t # "0"
           /\ pending' = [pending EXCEPT ![p] = Armed(p, t, x)]
           /\ timeout' = [timeout EXCEPT ![p] = t]
           /\ what' = [what EXCEPT ![p] = "get"]
           /\ SleepSema(p) /\ UNCHANGED <<semalist, expired>>
  <2>1. /\ \A q \in Proc \ {p} : /\ pc'[q] = pc[q] /\ wait_q'[q] = wait_q[q]
                                /\ wait_cond'[q] = wait_cond[q]
        /\ pc'[p] = "entry" \/ (pc'[p] = "asleep" /\ wait_cond'[p] = "WAIT_SEMA")
        /\ wait_q'[p] \in {"CURPROC_Q", "WAIT_Q"}
        /\ UNCHANGED <<early, stale, upset>>
    BY <1>0, <1>5 DEF SleepSema, IInv, TypeOK
  <2>2. TimeoutsOK' /\ EaccesOnlyAfterTimeout'
    BY <1>5, <2>1 DEF Settled, TimeoutsOK, EaccesOnlyAfterTimeout, IInv, TypeOK
  <2>3. pending'[p] => ~expired[p]
    BY <1>5 DEF Armed, Settled, CallsOK, IInv, TypeOK
  <2>4. CallsOK'
    BY <1>5, <2>1, <2>3 DEF Settled, CallsOK, IInv, TypeOK
  <2>5. OtherCondsOK' /\ OtherSleepsKept'
    BY <1>0, <1>5, <2>1 DEF Settled, OtherCondsOK, OtherSleepsKept, IInv, TypeOK, vforkVars
  <2> QED
    BY <2>2, <2>4, <2>5 DEF Settled
<1> QED
  BY <1>1, <1>2, <1>3, <1>4, <1>5 DEF GetLoop

LEMMA NextSettled ==
  ASSUME IInv, Settled, [Next]_vars
  PROVE  Settled'
<1>1. ASSUME NEW p \in Proc, Dispatch(p)
      PROVE  Settled'
  BY <1>1 DEF Dispatch, callVars, vforkVars, Calm, Settled, CallsOK, OtherCondsOK, TimeoutsOK,
    EaccesOnlyAfterTimeout, OtherSleepsKept, IInv, CurrentOK, TypeOK
<1>2. ASSUME NEW p \in Proc, Yield(p)
      PROVE  Settled'
  BY <1>2 DEF Yield, AtUser, callVars, vforkVars, Calm, Settled, CallsOK, OtherCondsOK, TimeoutsOK,
    EaccesOnlyAfterTimeout, OtherSleepsKept, IInv, CurrentOK, TypeOK
<1>3. ASSUME NEW p \in Proc, NEW s \in Sema, Create(p, s)
      PROVE  Settled'
  BY <1>3 DEF Create, AtUser, callVars, vforkVars, Calm, Settled, CallsOK, OtherCondsOK, TimeoutsOK,
    EaccesOnlyAfterTimeout, OtherSleepsKept, IInv, CurrentOK, TypeOK
<1>4. ASSUME NEW p \in Proc, NEW s \in Sema, Release(p, s)
      PROVE  Settled'
  BY <1>4 DEF Release, AtUser, Leave, Woken, callVars, vforkVars, Calm, Settled, CallsOK, OtherCondsOK, TimeoutsOK,
    EaccesOnlyAfterTimeout, OtherSleepsKept, IInv, CurrentOK, TypeOK
<1>5. ASSUME NEW p \in Proc, NEW s \in Sema, Destroy(p, s)
      PROVE  Settled'
  BY <1>5 DEF Destroy, AtUser, Leave, Woken, callVars, vforkVars, Calm, Settled, CallsOK, OtherCondsOK, TimeoutsOK,
    EaccesOnlyAfterTimeout, OtherSleepsKept, IInv, CurrentOK, TypeOK
<1>6. ASSUME NEW p \in Proc, NEW s \in Sema, NEW t \in Timeouts, Get(p, s, t)
      PROVE  Settled'
  <2>1. /\ curproc = p /\ GetLoop(p, s, t, FALSE) /\ id' = [id EXCEPT ![p] = s]
        /\ UNCHANGED <<ioready, vforkVars>> /\ pc[p] = "user"
    BY <1>6 DEF Get, AtUser
  <2>2. what[p] = "none" /\ ~pending[p]
    BY <2>1 DEF Settled, CallsOK
  <2>3. ~expired[p]
    BY <2>2 DEF Settled, CallsOK
  <2> QED
    BY <2>1, <2>2, <2>3, GetLoopSettled DEF IInv, TypeOK
<1>7. ASSUME NEW p \in Proc, GetAgain(p)
      PROVE  Settled'
  <2>1. /\ curproc = p /\ what[p] = "get" /\ UNCHANGED <<id, ioready, vforkVars>>
        /\ pc[p] # "entry" /\ id[p] \in Sema /\ timeout[p] \in Timeouts
        /\ expired[p] \in BOOLEAN
    BY <1>7 DEF GetAgain, Returning, IInv, TypeOK
  <2>2. /\ timeout[p] # "0" /\ semalist[id[p]] # p
        /\ expired[p] \/ wait_cond[p] = "WAIT_SEMA" \/ p \in upset
        /\ pending[p] => ~expired[p]
    BY <2>1 DEF Settled, CallsOK, TimeoutsOK
  <2>3. CASE wait_cond[p] # "WAIT_SEMA"
    BY <1>7, <2>1, <2>2, <2>3, ReturnSettled DEF GetAgain
  <2>4. CASE wait_cond[p] = "WAIT_SEMA"
    <3>1. GetLoop(p, id[p], timeout[p], expired[p])
      BY <1>7, <2>4 DEF GetAgain
    <3> QED
      BY <3>1, <2>1, <2>2, <2>4, GetLoopSettled DEF IInv, TypeOK
  <2> QED
    BY <2>3, <2>4
<1>8. ASSUME NEW p \in Proc, Expire(p)
      PROVE  Settled'
  BY <1>8 DEF Expire, Unsemame, callVars, vforkVars, Calm, Settled, CallsOK, OtherCondsOK, TimeoutsOK,
    EaccesOnlyAfterTimeout, OtherSleepsKept, IInv, CurrentOK, TypeOK
<1>9. ASSUME NEW p \in Proc, ExpireStale(p)
      PROVE  Settled'
  BY <1>9 DEF ExpireStale, Unsemame, callVars, vforkVars, Calm, Settled, CallsOK, OtherCondsOK, TimeoutsOK,
    EaccesOnlyAfterTimeout, OtherSleepsKept, IInv, CurrentOK, TypeOK
<1>10. ASSUME NEW p \in Proc, PostSig(p)
      PROVE  Settled'
  BY <1>10 DEF PostSig, callVars, vforkVars, Calm, Settled, CallsOK, OtherCondsOK, TimeoutsOK,
    EaccesOnlyAfterTimeout, OtherSleepsKept, IInv, CurrentOK, TypeOK
<1>11. ASSUME NEW p \in Proc, TakeSig(p)
      PROVE  Settled'
  BY <1>11 DEF TakeSig, callVars, vforkVars, Calm, Settled, CallsOK, OtherCondsOK, TimeoutsOK,
    EaccesOnlyAfterTimeout, OtherSleepsKept, IInv, CurrentOK, TypeOK
<1>12. ASSUME NEW p \in Proc, HandlerEnd(p)
      PROVE  Settled'
  BY <1>12 DEF HandlerEnd, callVars, vforkVars, Calm, Settled, CallsOK, OtherCondsOK, TimeoutsOK,
    EaccesOnlyAfterTimeout, OtherSleepsKept, IInv, CurrentOK, TypeOK
<1>13. ASSUME NEW p \in Proc, Terminate(p)
      PROVE  Settled'
  BY <1>13 DEF Terminate, Woken, Freed, KillTaken, callVars, vforkVars, Calm, Settled, CallsOK, OtherCondsOK, TimeoutsOK,
    EaccesOnlyAfterTimeout, OtherSleepsKept, IInv, CurrentOK, TypeOK
<1>14. ASSUME NEW p \in Proc, IoSleep(p)
      PROVE  Settled'
  BY <1>14 DEF IoSleep, AtUser, Block, callVars, vforkVars, Calm, Settled, CallsOK, OtherCondsOK, TimeoutsOK,
    EaccesOnlyAfterTimeout, OtherSleepsKept, IInv, CurrentOK, TypeOK
<1>15. ASSUME NEW p \in Proc, IoAgain(p)
      PROVE  Settled'
  BY <1>15 DEF IoAgain, Returning, callVars, vforkVars, Calm, Settled, CallsOK, OtherCondsOK, TimeoutsOK,
    EaccesOnlyAfterTimeout, OtherSleepsKept, IInv, CurrentOK, TypeOK
<1>16. ASSUME NEW p \in Proc, Vfork(p)
      PROVE  Settled'
  BY <1>16 DEF Vfork, AtUser, Block, callVars, vforkVars, Calm, Settled, CallsOK, OtherCondsOK, TimeoutsOK,
    EaccesOnlyAfterTimeout, OtherSleepsKept, IInv, CurrentOK, TypeOK
<1>17. ASSUME NEW p \in Proc, VforkChildDone(p)
      PROVE  Settled'
  BY <1>17 DEF VforkChildDone, callVars, vforkVars, Calm, Settled, CallsOK, OtherCondsOK, TimeoutsOK,
    EaccesOnlyAfterTimeout, OtherSleepsKept, IInv, CurrentOK, TypeOK
<1>18. ASSUME NEW p \in Proc, VforkReturn(p)
      PROVE  Settled'
  BY <1>18 DEF VforkReturn, callVars, vforkVars, Calm, Settled, CallsOK, OtherCondsOK, TimeoutsOK,
    EaccesOnlyAfterTimeout, OtherSleepsKept, IInv, CurrentOK, TypeOK
<1>19. CASE IoWake
  BY <1>19 DEF IoWake, Woken, callVars, vforkVars, Calm, Settled, CallsOK, OtherCondsOK, TimeoutsOK,
    EaccesOnlyAfterTimeout, OtherSleepsKept, IInv, CurrentOK, TypeOK
<1>20. CASE UNCHANGED vars
  BY <1>20 DEF vars, callVars, vforkVars, Calm, Settled, CallsOK, OtherCondsOK, TimeoutsOK,
    EaccesOnlyAfterTimeout, OtherSleepsKept, IInv, CurrentOK, TypeOK
<1>21. ASSUME NEW p \in Proc, PostKill(p)
      PROVE  Settled'
  BY <1>21 DEF PostKill, callVars, vforkVars, Calm, Settled, CallsOK, OtherCondsOK, TimeoutsOK,
    EaccesOnlyAfterTimeout, OtherSleepsKept, IInv, CurrentOK, TypeOK
<1> QED
  BY <1>1, <1>2, <1>3, <1>4, <1>5, <1>6, <1>7, <1>8, <1>9, <1>10, <1>11,
     <1>12, <1>13, <1>14, <1>15, <1>16, <1>17, <1>18, <1>19, <1>20, <1>21
  DEF Next, Step, Kernel

-----------------------------------------------------------------------------
(* The theorems                                                            *)

\* The variables of the Psemaphore() model keep their types; in particular the
\* number of stale timeouts never goes below zero.
THEOREM TypeCorrect == Spec => []TypeOK
  BY InitIInv, NextIInv, PTL DEF Spec, IInv

\* With any number of processes, semaphores, signals and stale timeouts, no
\* process sleeps in mode 2 for a semaphore that is free, destroyed, its own,
\* or owned by a dead process.
THEOREM NoForgottenWaiter == Spec => []SleepersHaveOwner
  BY InitIInv, NextIInv, PTL DEF Spec, IInv

\* A process that has exited owns no semaphore.
THEOREM DeadOwnNothing == Spec => []OwnersAlive
  BY InitIInv, NextIInv, PTL DEF Spec, IInv

\* "A value of -1 means 'forever' - that is, never time out" (Psemaphore.2), and a
\* number of milliseconds is waited for: whatever signals come in between, a get that
\* is willing to wait fails with EACCES only after its timeout, or after a handler run
\* in it has ended with a wait_cond other than WAIT_SEMA.
THEOREM EaccesIsTimeout == Spec => []EaccesOnlyAfterTimeout
<1>1. IInv /\ Settled /\ [Next]_vars => IInv' /\ Settled'
  BY NextIInv, NextSettled
<1>2. Settled => EaccesOnlyAfterTimeout
  BY DEF Settled
<1> QED
  BY <1>1, <1>2, InitIInv, InitSettled, PTL DEF Spec

\* Whatever signals come in between, unsemame() reaches a process in another sleep()
\* only if a handler has upset one of its calls before: otherwise no I/O wakeup is
\* lost, and a vfork parent sleeps until its child has released the memory, or dies
\* of SIGKILL, although unsemame() looks only at the queue.
THEOREM TimeoutsSpareOthers == Spec => []OtherSleepsKept
<1>1. IInv /\ Settled /\ [Next]_vars => IInv' /\ Settled'
  BY NextIInv, NextSettled
<1>2. Settled => OtherSleepsKept
  BY DEF Settled
<1> QED
  BY <1>1, <1>2, InitIInv, InitSettled, PTL DEF Spec

=============================================================================
