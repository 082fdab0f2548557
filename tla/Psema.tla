------------------------------- MODULE Psema -------------------------------
(***************************************************************************)
(* Psemaphore(), the user semaphores of sys/rendez.c, together with the    *)
(* parts of the kernel it leans on: sleep() and wake() (module Sched, here *)
(* reduced to which queue a process is on), the timeout that ends a timed  *)
(* wait, signals that interrupt it, and the exit of the owner.             *)
(*                                                                         *)
(* The kernel is not preemptive, so a call runs in one step from its start *)
(* to its end or to sleep(), and in one step from the return of sleep() to *)
(* its end or to the next sleep().  Timeouts expire while a process goes   *)
(* through do_wakeup_things(), the last part of sleep().                   *)
(***************************************************************************)
EXTENDS Naturals, FiniteSets

CONSTANTS Proc,         \* processes other than the root process
          NoProc,       \* nobody in particular: the root process runs
          Sema,         \* semaphore ids
          Ops,          \* which of "signal", "exit", "io", "vfork" happen
          HandlerConds, \* wait_cond a signal handler's own system calls leave
          MaxStale      \* bound: expired or abandoned timeouts per process

VARIABLES semalist,  \* per id: "absent", "free" (owner -1) or the owner
          curproc, wait_q, wait_cond,
          pc,        \* "user", or where it is in sleep(): "entry" (a signal
                     \* handler runs before it sleeps), "asleep", "wakeup"
                     \* (do_wakeup_things), "handler" (a handler runs there),
                     \* "back" (about to return)
          what,      \* the call it is in: "none", "get", "io", "vfork"
          id, timeout, \* the arguments of its Psemaphore(2, id, timeout)
          pending,   \* the timeout of that call is on tlist
          stale,     \* timeouts on tlist that earlier calls left there
          expired,   \* the timeout of that call has expired
          sig,       \* a signal is pending
          early,     \* a call failed with EACCES though it had time left
          ioready,   \* the event that processes in IO_Q wait for
          borrowed,  \* a vfork child still uses the memory of the process
          killed,    \* processes sent SIGKILL while they sleep in vfork
          upset      \* processes with a call in which a handler ended with a wait_cond other
                     \* than WAIT_SEMA, or a timeout that such a call has left behind

vars == <<semalist, curproc, wait_q, wait_cond, pc, what, id, timeout,
          pending, stale, expired, sig, early, ioready, borrowed, killed, upset>>
callVars == <<what, id, timeout, expired, early>>
vforkVars == <<borrowed, killed>>

Queues == {"CURPROC_Q", "READY_Q", "WAIT_Q", "IO_Q", "ZOMBIE_Q"}
CondSet == {"0", "WAIT_SEMA", "io", "child"}
Timeouts == {"0", "ms", "forever"}   \* 0, a number of milliseconds, and -1

ASSUME PsemaAssumption ==
  /\ NoProc \notin Proc /\ Proc # {}
  /\ {"absent", "free"} \cap Proc = {}
  /\ Ops \subseteq {"signal", "exit", "io", "vfork"}
  /\ HandlerConds \subseteq CondSet
  /\ MaxStale \in Nat

Init ==
  /\ semalist = [s \in Sema |-> "absent"]
  /\ curproc = NoProc
  /\ wait_q = [p \in Proc |-> "READY_Q"]
  /\ wait_cond = [p \in Proc |-> "0"]
  /\ pc = [p \in Proc |-> "user"]
  /\ what = [p \in Proc |-> "none"]
  /\ id \in {[p \in Proc |-> s] : s \in Sema}
  /\ timeout = [p \in Proc |-> "0"]
  /\ pending = [p \in Proc |-> FALSE]
  /\ stale = [p \in Proc |-> 0]
  /\ expired = [p \in Proc |-> FALSE]
  /\ sig = [p \in Proc |-> FALSE]
  /\ early = FALSE
  /\ ioready = FALSE
  /\ borrowed = [p \in Proc |-> FALSE]
  /\ killed = {} /\ upset = {}

-----------------------------------------------------------------------------
(* Queues                                                                  *)

\* Mutant: only one of the waiting processes is woken.
WokenOne(q, c) ==
  LET all == {x \in Proc : wait_q[x] = q /\ wait_cond[x] = c}
  IN  [p \in Proc |-> IF all # {} /\ p = (CHOOSE x \in all : TRUE)
                      THEN "READY_Q" ELSE wait_q[p]]

\* wait_q after wake(q, c).
Woken(q, c) == [p \in Proc |-> IF wait_q[p] = q /\ wait_cond[p] = c
                               THEN "READY_Q" ELSE wait_q[p]]

\* A ready process gets the CPU.  One that was asleep is in the last part of
\* sleep() now.
Dispatch(p) ==
  /\ curproc = NoProc /\ wait_q[p] = "READY_Q"
  /\ curproc' = p
  /\ wait_q' = [wait_q EXCEPT ![p] = "CURPROC_Q"]
  /\ pc' = IF pc[p] = "asleep" THEN [pc EXCEPT ![p] = "wakeup"] ELSE pc
  /\ UNCHANGED <<semalist, wait_cond, callVars, pending, stale, sig, ioready,
                 vforkVars, upset>>

AtUser(p) == curproc = p /\ pc[p] = "user"

\* Preempted, or a system call of no interest here.
Yield(p) ==
  /\ AtUser(p)
  /\ curproc' = NoProc /\ wait_q' = [wait_q EXCEPT ![p] = "READY_Q"]
  /\ UNCHANGED <<semalist, wait_cond, pc, callVars, pending, stale, sig,
                 ioready, vforkVars, upset>>

-----------------------------------------------------------------------------
(* Psemaphore                                                              *)

Create(p, s) ==
  /\ AtUser(p) /\ semalist[s] = "absent"
  /\ semalist' = [semalist EXCEPT ![s] = p]
  /\ UNCHANGED <<curproc, wait_q, wait_cond, pc, callVars, pending, stale, sig,
                 ioready, vforkVars, upset>>

\* Modes 3 and 1: release or destroy, for the owner or if it is free.
Leave(p, s, state) ==
  /\ AtUser(p) /\ semalist[s] \in {p, "free"}
  /\ semalist' = [semalist EXCEPT ![s] = state]
  /\ wait_q' = Woken("WAIT_Q", "WAIT_SEMA")
  /\ UNCHANGED <<curproc, wait_cond, pc, callVars, pending, stale, sig, ioready,
                 vforkVars, upset>>

Release(p, s) == Leave(p, s, "free")
Destroy(p, s) == Leave(p, s, "absent")

\* Mutant: canceltimeout() is missing.
AbandonedAlways(p, cancel) ==
  IF pending[p] /\ stale[p] < MaxStale
  THEN [stale EXCEPT ![p] = @ + 1] ELSE stale

\* A timeout still on tlist is cancelled, or stays there as a stale one.
Abandoned(p, cancel) ==
  IF pending[p] /\ ~cancel /\ stale[p] < MaxStale
  THEN [stale EXCEPT ![p] = @ + 1] ELSE stale

\* History: process p, back from a call, is over what its handlers have done when
\* it has no timeout left on tlist and its memory for itself.
Calm(p) == upset' = IF stale'[p] = 0 /\ ~borrowed[p] THEN upset \ {p} ELSE upset

\* The call of process p, made with timeout t, returns r; x tells whether its
\* timeout has expired.
Return(p, t, x, r, cancel) ==
  /\ early' = (early \/ (r = "EACCES" /\ t # "0" /\ ~x /\ p \notin upset))
  /\ what' = [what EXCEPT ![p] = "none"] /\ pc' = [pc EXCEPT ![p] = "user"]
  /\ timeout' = [timeout EXCEPT ![p] = "0"]
  /\ expired' = [expired EXCEPT ![p] = FALSE]
  /\ pending' = [pending EXCEPT ![p] = FALSE]
  /\ stale' = Abandoned(p, cancel) /\ Calm(p)
  /\ UNCHANGED <<curproc, wait_q, wait_cond, sig>>

\* sleep(WAIT_Q, WAIT_SEMA) of process p: if a signal is pending its handler
\* runs, and sleep() returns without having set wait_cond.
SleepSema(p) ==
  /\ IF sig[p]
     THEN /\ pc' = [pc EXCEPT ![p] = "entry"]
          /\ sig' = [sig EXCEPT ![p] = FALSE]
          /\ UNCHANGED <<curproc, wait_q, wait_cond>>
     ELSE /\ pc' = [pc EXCEPT ![p] = "asleep"]
          /\ curproc' = NoProc
          /\ wait_q' = [wait_q EXCEPT ![p] = "WAIT_Q"]
          /\ wait_cond' = [wait_cond EXCEPT ![p] = "WAIT_SEMA"]
          /\ UNCHANGED sig
  /\ UNCHANGED <<early, stale, upset>>

\* Mutant: the test for -1 is the wrong way round.
ArmedForever(p, t, x) == pending[p] \/ (t = "forever" /\ ~x)

\* Is the timeout on tlist once the process is about to sleep?  The call has a
\* timeout_ptr already if its timeout is pending or has expired (x).
Armed(p, t, x) == pending[p] \/ (t = "ms" /\ ~x)

\* One turn of the loop of mode 2, for process p with arguments s and t; x is
\* as above.
GetLoop(p, s, t, x) ==
  \/ /\ semalist[s] = "absent"
     /\ Return(p, t, x, "EBADARG", TRUE) /\ UNCHANGED semalist
  \/ /\ semalist[s] = p
     /\ Return(p, t, x, "EERROR", FALSE) /\ UNCHANGED semalist
  \/ /\ semalist[s] = "free"
     /\ semalist' = [semalist EXCEPT ![s] = p]
     /\ Return(p, t, x, "E_OK", TRUE)
  \/ /\ semalist[s] \in Proc \ {p} /\ t = "0"
     /\ Return(p, t, x, "EACCES", FALSE) /\ UNCHANGED semalist
  \/ /\ semalist[s] \in Proc \ {p} /\ t # "0"
     /\ pending' = [pending EXCEPT ![p] = Armed(p, t, x)]
     /\ timeout' = [timeout EXCEPT ![p] = t]
     /\ what' = [what EXCEPT ![p] = "get"]
     /\ SleepSema(p) /\ UNCHANGED <<semalist, expired>>

Get(p, s, t) ==
  /\ AtUser(p)
  /\ id' = [id EXCEPT ![p] = s]
  /\ GetLoop(p, s, t, FALSE)
  /\ UNCHANGED <<ioready, vforkVars>>

\* sleep() has nothing more to do and returns.
Returning(p) == curproc = p /\ (pc[p] = "back" \/ (pc[p] = "wakeup" /\ ~sig[p]))

\* Mutant: a process that was woken and finds the semaphore taken gives up.
GetAgainOnce(p) ==
  /\ Returning(p) /\ what[p] = "get"
  /\ IF wait_cond[p] # "WAIT_SEMA" \/ semalist[id[p]] \in Proc
     THEN Return(p, timeout[p], expired[p], "EACCES", TRUE)
          /\ UNCHANGED semalist
     ELSE GetLoop(p, id[p], timeout[p], expired[p])
  /\ UNCHANGED <<id, ioready, vforkVars>>

\* sleep() returns to mode 2: another turn, unless wait_cond was changed.
GetAgain(p) ==
  /\ Returning(p) /\ what[p] = "get"
  /\ IF wait_cond[p] # "WAIT_SEMA"
     THEN Return(p, timeout[p], expired[p], "EACCES", FALSE)
          /\ UNCHANGED semalist
     ELSE GetLoop(p, id[p], timeout[p], expired[p])
  /\ UNCHANGED <<id, ioready, vforkVars>>

\* unsemame(): called by checkalarms() in whatever process is in the last
\* part of a sleep(), a handler's system calls and the root process included.
\* vfork() sleeps with interrupts off and skips them.
TimersRun ==
  curproc \in Proc => \/ pc[curproc] \in {"entry", "handler"}
                     \/ (pc[curproc] = "wakeup" /\ what[curproc] # "vfork")

Unsemame(p) ==
  /\ wait_q' = IF wait_q[p] = "WAIT_Q"
               THEN [wait_q EXCEPT ![p] = "READY_Q"] ELSE wait_q
  /\ wait_cond' = [wait_cond EXCEPT ![p] = "0"]
  /\ UNCHANGED <<semalist, curproc, pc, what, id, timeout, sig, early, ioready,
                 vforkVars>>

Expire(p) ==
  /\ TimersRun /\ pending[p]
  /\ pending' = [pending EXCEPT ![p] = FALSE]
  /\ expired' = [expired EXCEPT ![p] = TRUE]
  /\ Unsemame(p) /\ UNCHANGED <<stale, upset>>

ExpireStale(p) ==
  /\ TimersRun /\ stale[p] > 0
  /\ stale' = [stale EXCEPT ![p] = @ - 1]
  /\ IF what[p] = "none" THEN Calm(p) ELSE UNCHANGED upset
  /\ Unsemame(p) /\ UNCHANGED <<pending, expired>>

-----------------------------------------------------------------------------
(* Signals and exit                                                        *)

\* post_sig() of a signal that a vfork parent has masked.
PostSig(p) ==
  /\ "signal" \in Ops /\ ~sig[p] /\ wait_q[p] # "ZOMBIE_Q"
  /\ sig' = [sig EXCEPT ![p] = TRUE]
  /\ wait_q' = IF wait_q[p] \in {"WAIT_Q", "IO_Q"} /\ what[p] # "vfork"
               THEN [wait_q EXCEPT ![p] = "READY_Q"] ELSE wait_q
  /\ UNCHANGED <<semalist, curproc, wait_cond, pc, callVars, pending, stale,
                 ioready, vforkVars, upset>>

\* post_sig() of SIGKILL, the one signal that a vfork parent has not masked.
PostKill(p) ==
  /\ "signal" \in Ops /\ what[p] = "vfork" /\ p \notin killed
  /\ killed' = killed \cup {p}
  /\ wait_q' = IF wait_q[p] = "WAIT_Q"
               THEN [wait_q EXCEPT ![p] = "READY_Q"] ELSE wait_q
  /\ UNCHANGED <<semalist, curproc, wait_cond, pc, callVars, pending, stale, sig,
                 ioready, borrowed, upset>>

\* check_sigs() at the end of sleep() and on the way out of the kernel; in vfork,
\* after sleep(), where a handler runs before SIGKILL is looked at.
TakeSig(p) ==
  /\ curproc = p /\ pc[p] \in {"wakeup", "user"} /\ sig[p]
  /\ what[p] = "vfork" => p \in killed
  /\ sig' = [sig EXCEPT ![p] = FALSE]
  /\ pc' = IF pc[p] = "wakeup" THEN [pc EXCEPT ![p] = "handler"] ELSE pc
  /\ UNCHANGED <<semalist, curproc, wait_q, wait_cond, callVars, pending, stale,
                 ioready, vforkVars, upset>>

\* The handler returns; what it slept on itself has changed wait_cond.  A
\* sleep() that was about to begin ends at once, or on the ready queue first.
HandlerEnd(p) ==
  /\ curproc = p /\ pc[p] \in {"entry", "handler"}
  /\ \/ /\ pc' = [pc EXCEPT ![p] = IF @ = "entry" THEN "wakeup" ELSE "back"]
        /\ UNCHANGED <<curproc, wait_q>>
     \/ /\ pc[p] = "entry" /\ pc' = [pc EXCEPT ![p] = "asleep"]
        /\ curproc' = NoProc /\ wait_q' = [wait_q EXCEPT ![p] = "READY_Q"]
  /\ wait_cond' \in {wait_cond} \cup
                    {[wait_cond EXCEPT ![p] = c] : c \in HandlerConds}
  /\ upset' = IF what[p] = "get" /\ ~expired[p] /\ wait_cond'[p] # "WAIT_SEMA"
              THEN upset \cup {p} ELSE upset
  /\ UNCHANGED <<semalist, callVars, pending, stale, sig, ioready, vforkVars>>

\* free_semaphores(p)
Freed(p) == [s \in Sema |-> IF semalist[s] = p THEN "free" ELSE semalist[s]]

\* SIGKILL's turn in the check_sigs() of vfork.
KillTaken(p) == /\ p \in killed /\ what[p] = "vfork"
                /\ pc[p] \in {"wakeup", "handler", "back"}

\* terminate(): cancelalltimeouts(), free_semaphores(), the zombie queue.
\* Called by the process or, for a fatal signal, where a handler would run.
Terminate(p) ==
  /\ curproc = p
  /\ KillTaken(p) \/ ("exit" \in Ops /\ pc[p] \in {"user", "entry", "handler"})
  /\ curproc' = NoProc
  /\ pending' = [pending EXCEPT ![p] = FALSE]
  /\ stale' = [stale EXCEPT ![p] = 0]
  /\ semalist' = Freed(p)
  /\ wait_q' = LET w == IF semalist' # semalist
                        THEN Woken("WAIT_Q", "WAIT_SEMA") ELSE wait_q
               IN  [w EXCEPT ![p] = "ZOMBIE_Q"]
  /\ pc' = [pc EXCEPT ![p] = "asleep"] /\ what' = [what EXCEPT ![p] = "none"]
  /\ timeout' = [timeout EXCEPT ![p] = "0"]
  /\ expired' = [expired EXCEPT ![p] = FALSE]
  /\ wait_cond' = [wait_cond EXCEPT ![p] = "0"]
  /\ UNCHANGED <<id, early, sig, ioready, vforkVars, upset>>

-----------------------------------------------------------------------------
(* Other users of sleep() and wake()                                       *)

Block(p, w, que, cond) ==
  /\ AtUser(p)
  /\ what' = [what EXCEPT ![p] = w] /\ pc' = [pc EXCEPT ![p] = "asleep"]
  /\ curproc' = NoProc /\ wait_q' = [wait_q EXCEPT ![p] = que]
  /\ wait_cond' = [wait_cond EXCEPT ![p] = cond]
  /\ UNCHANGED <<semalist, id, timeout, pending, stale, expired, sig, early,
                 ioready, killed, upset>>

\* A driver's read: sleep(IO_Q, cond) until there is data.
IoSleep(p) == "io" \in Ops /\ ~ioready /\ ~sig[p]
              /\ Block(p, "io", "IO_Q", "io") /\ UNCHANGED borrowed

\* The data arrives: wake(IO_Q, cond).
IoWake ==
  /\ "io" \in Ops /\ ~ioready
  /\ ioready' = TRUE /\ wait_q' = Woken("IO_Q", "io")
  /\ UNCHANGED <<semalist, curproc, wait_cond, pc, callVars, pending, stale,
                 sig, vforkVars, upset>>

\* The reader looks again.
IoAgain(p) ==
  /\ Returning(p) /\ what[p] = "io"
  /\ what' = [what EXCEPT ![p] = "none"] /\ pc' = [pc EXCEPT ![p] = "user"]
  /\ ioready' = FALSE
  /\ UNCHANGED <<semalist, curproc, wait_q, wait_cond, id, timeout, pending,
                 stale, expired, sig, early, vforkVars>>
  /\ Calm(p)

\* vfork(): the child runs in the parent's memory, the parent sleeps with its
\* signals but SIGKILL masked until the child has called exec or exit.
Vfork(p) == "vfork" \in Ops /\ ~borrowed[p]
            /\ Block(p, "vfork", "WAIT_Q", "child")
            /\ borrowed' = [borrowed EXCEPT ![p] = TRUE]

\* The child's exec or exit wakes the parent if it waits for the child.
VforkChildDone(p) ==
  /\ borrowed[p]
  /\ borrowed' = [borrowed EXCEPT ![p] = FALSE]
  /\ wait_q' = IF wait_q[p] = "WAIT_Q" /\ wait_cond[p] = "child"
               THEN [wait_q EXCEPT ![p] = "READY_Q"] ELSE wait_q
  /\ UNCHANGED <<semalist, curproc, wait_cond, pc, callVars, pending, stale,
                 sig, ioready, killed, upset>>

\* vfork() returns in the parent: there is no loop around its sleep().
VforkReturn(p) ==
  /\ curproc = p /\ pc[p] = "wakeup" /\ what[p] = "vfork" /\ p \notin killed
  /\ what' = [what EXCEPT ![p] = "none"] /\ pc' = [pc EXCEPT ![p] = "user"]
  /\ UNCHANGED <<semalist, curproc, wait_q, wait_cond, id, timeout, pending,
                 stale, expired, sig, early, ioready, vforkVars, upset>>

-----------------------------------------------------------------------------

\* What the kernel does with process p while it holds the CPU in sleep().
Kernel(p) == \/ Dispatch(p) \/ GetAgain(p) \/ IoAgain(p) \/ VforkReturn(p)
             \/ TakeSig(p) \/ HandlerEnd(p)

Step(p) ==
  \/ Kernel(p) \/ Yield(p)
  \/ \E s \in Sema : Create(p, s) \/ Release(p, s) \/ Destroy(p, s)
  \/ \E s \in Sema, t \in Timeouts : Get(p, s, t)
  \/ Expire(p) \/ ExpireStale(p) \/ PostSig(p) \/ PostKill(p) \/ Terminate(p)
  \/ IoSleep(p) \/ Vfork(p) \/ VforkChildDone(p)

Next == IoWake \/ \E p \in Proc : Step(p)

Spec == Init /\ [][Next]_vars

\* The scheduler runs every ready process (ReadyRuns of Sched), kernel code
\* and handlers come to an end, and time passes, so timeouts expire.
Fairness == \A p \in Proc :
              /\ SF_vars(Dispatch(p)) /\ WF_vars(Yield(p)) /\ SF_vars(Expire(p))
              /\ WF_vars(GetAgain(p) \/ IoAgain(p) \/ VforkReturn(p)
                         \/ TakeSig(p) \/ HandlerEnd(p)
                         \/ (KillTaken(p) /\ Terminate(p)))

LiveSpec == Spec /\ Fairness

-----------------------------------------------------------------------------
(* Properties                                                              *)

TypeOK ==
  /\ semalist \in [Sema -> Proc \cup {"absent", "free"}]
  /\ curproc \in Proc \cup {NoProc}
  /\ wait_q \in [Proc -> Queues] /\ wait_cond \in [Proc -> CondSet]
  /\ pc \in [Proc -> {"user", "entry", "asleep", "wakeup", "handler", "back"}]
  /\ what \in [Proc -> {"none", "get", "io", "vfork"}]
  /\ id \in [Proc -> Sema] /\ timeout \in [Proc -> Timeouts]
  /\ pending \in [Proc -> BOOLEAN]
  /\ stale \in [Proc -> Nat] /\ expired \in [Proc -> BOOLEAN]
  /\ sig \in [Proc -> BOOLEAN] /\ early \in BOOLEAN
  /\ ioready \in BOOLEAN /\ borrowed \in [Proc -> BOOLEAN]
  /\ killed \subseteq Proc /\ upset \subseteq Proc

\* A process sleeps in Psemaphore(2) only while another living process owns
\* the semaphore: release, destruction and the owner's exit wake every waiter,
\* whatever timeouts and signals do in between.
SleepersHaveOwner ==
  \A p \in Proc : wait_q[p] = "WAIT_Q" /\ what[p] = "get" =>
    /\ semalist[id[p]] \in Proc \ {p}
    /\ wait_q[semalist[id[p]]] # "ZOMBIE_Q"

\* "When a process terminates, any semaphores it owns are released"
\* (Psemaphore.2), also when a signal terminates it inside Psemaphore itself.
OwnersAlive ==
  \A s \in Sema : semalist[s] \in Proc => wait_q[semalist[s]] # "ZOMBIE_Q"

\* "A value of -1 means 'forever' - that is, never time out" (Psemaphore.2):
\* a get that is willing to wait fails with EACCES only after its timeout, signals
\* or not, unless a handler run in it has ended with a wait_cond that is not WAIT_SEMA:
\* sleep() had not set it yet, or a system call of the handler has changed it.
EaccesOnlyAfterTimeout == ~early

\* A timeout of Psemaphore() disturbs no other sleep of its process, unless a call
\* that a handler upset so has left it behind.  Of an I/O sleep, wake() wakes "all
\* processes on the given queue that are waiting for the indicated condition":
\* nobody is left in IO_Q once the data is there.  Of vfork, "this sleep() must
\* absolutely not wake up until the child has released the memory space correctly"
\* (k_fork.c, vfork): only SIGKILL wakes it, and then it dies in vfork.
OtherSleepsKept ==
  \A p \in Proc \ upset :
    /\ ioready => wait_q[p] # "IO_Q"
    /\ borrowed[p] => \/ (wait_q[p] = "WAIT_Q" /\ what[p] = "vfork")
                      \/ (p \in killed /\ what[p] = "vfork")
                      \/ (p \in killed /\ wait_q[p] = "ZOMBIE_Q")

\* Mode 2 "blocks until it's available or destroyed, or timeout": a call with
\* a timeout returns, or its process is terminated.
TimedGetReturns ==
  \A p \in Proc : what[p] = "get" /\ timeout[p] = "ms" ~> what[p] # "get"
=============================================================================
