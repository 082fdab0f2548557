------------------------------- MODULE Sched -------------------------------
(***************************************************************************)
(* The process queues and the context switch of the kernel, sys/proc.c.    *)
(*                                                                         *)
(* The kernel is not preemptive: between two calls of sleep() the current  *)
(* process has the kernel for itself, except for interrupt handlers, which *)
(* run at any point where the code has not raised the interrupt level.     *)
(* One action is therefore one stretch of code under splhigh(), or one     *)
(* stretch that no interrupt handler modelled here can tell apart.         *)
(*                                                                         *)
(* The users of sleep() and wake() are kept to their skeleton: a condition *)
(* has an event; a process that finds no event sleeps on the condition,    *)
(* and whoever produces the event wakes the condition.  SyncCond are       *)
(* conditions produced by kernel code (wake), DevCond conditions produced  *)
(* by an interrupt handler (iwake), and select() is woken by wakeselect.   *)
(***************************************************************************)
EXTENDS Integers, Sequences

CONSTANTS Proc,        \* process structures
          Root,        \* rootproc, pid 0
          NoProc,      \* the null pointer, and pid -1
          SyncCond,    \* conditions signalled by wake()
          DevCond,     \* conditions signalled by iwake()
          Shared,      \* may two processes use one device at a time?
          Ops,         \* the kinds of operation the processes make
          pri,         \* base priority of each process
          MIN_NICE, MAX_NICE,   \* -20 and 20 in the code
          time_slice,  \* length of a time slice, in 20 ms ticks
          Boost,       \* extra slices of a new program, 3 in the code
          Second,      \* ticks between two resets of the priorities
          Overdue,     \* bound: our_clock counts down to -Overdue
          KernelTicks  \* do ticks also arrive while sleep() executes?

VARIABLES sysq,      \* [Queue -> Seq(Proc)], the linked lists
          wait_q,    \* the queue a process believes it is on
          wait_cond, \* the condition it waits for, or waited for last
          slices, curpri,
          curproc, proc_clock, our_clock,
          sleepcond, iwakecond,
          proclist,  \* the processes that exist
          sigpending,\* has an unmasked signal pending
          fresh,     \* forked or executed, has not run yet
          mode,      \* where the current process is inside sleep()
          call,      \* the arguments and the local newslice of that call
          next,      \* the victim p of sleep(), once picked
          walk,      \* do_wake() in progress in the kernel proper
          intr,      \* do_wake() in progress in an interrupt handler
          evt,       \* has the event of this condition happened?
          using,     \* the device a process is inside a read of
          ipid,      \* per device: the pid its driver passes to iwake()
          sel        \* per process: state of its select() call

queueVars == <<sysq, wait_q>>
priVars   == <<slices, curpri>>
clockVars == <<proc_clock, our_clock>>
condVars  == <<sleepcond, iwakecond>>
devVars   == <<evt, using, ipid, sel>>
ctlVars   == <<mode, call, next>>
vars == <<sysq, wait_q, wait_cond, slices, curpri, curproc, proc_clock,
          our_clock, sleepcond, iwakecond, proclist, sigpending, fresh, mode,
          call, next, walk, intr, evt, using, ipid, sel>>

Queue == {"READY_Q", "WAIT_Q", "IO_Q", "ZOMBIE_Q", "SELECT_Q"}
AllOps == {"select", "nap", "exit", "signal", "fork", "yield", "exec"}
NoCond == "0"
Conds  == SyncCond \cup DevCond \cup
          {NoCond, "mint_thread", "nap", "wakeselect"}
Modes  == {"run", "poll", "test", "queued", "napped", "forceroot", "pick",
           "switch", "resume"}
NoWalk == [que |-> "READY_Q", cond |-> NoCond, cur |-> NoProc]
Walks  == [que : Queue, cond : Conds, cur : Proc \cup {NoProc}]
NoCall == [que |-> "READY_Q", cond |-> NoCond, x100 |-> FALSE,
           newslice |-> TRUE]
Calls  == [que : Queue, cond : Conds, x100 : BOOLEAN, newslice : BOOLEAN]

ASSUME SchedAssumption ==
  /\ Root \in Proc /\ NoProc \notin Proc
  /\ Shared \in BOOLEAN /\ KernelTicks \in BOOLEAN /\ Ops \subseteq AllOps
  /\ MIN_NICE \in Int /\ MAX_NICE \in Int /\ MIN_NICE <= 0 /\ 0 <= MAX_NICE
  /\ pri \in [Proc -> MIN_NICE..MAX_NICE]
  /\ time_slice \in Nat /\ Second \in Nat /\ Overdue \in Nat
  /\ Boost \in Nat
  /\ 0 < time_slice /\ 0 < Overdue /\ Overdue < Second
  /\ SyncCond \cap DevCond = {}
  /\ {NoCond, "mint_thread", "nap", "wakeselect"}
       \cap (SyncCond \cup DevCond) = {}

-----------------------------------------------------------------------------
(* Queues                                                                  *)

SLICES(p) == IF p >= 0 THEN 0 ELSE -p

Listed(s) == {s[i] : i \in DOMAIN s}
Distinct(s) == \A i, j \in DOMAIN s : s[i] = s[j] => i = j
Pos(s, p) == CHOOSE i \in DOMAIN s : s[i] = p

\* The list s without process p, whose links rm_q() splices out.
Unlink(s, p) == [i \in 1 .. (Len(s) - 1) |->
                   IF i < Pos(s, p) THEN s[i] ELSE s[i + 1]]

First(s) == IF s = <<>> THEN NoProc ELSE s[1]

\* p->q_next on list s.
QNext(s, p) == IF Pos(s, p) = Len(s) THEN NoProc ELSE s[Pos(s, p) + 1]

Ready == sysq["READY_Q"]

\* Mutant: the process is put on the ready queue without rm_q() first.
MoveToReadyStillLinked(que, p) ==
  /\ sysq' = [sysq EXCEPT !["READY_Q"] = Append(@, p)]
  /\ wait_q' = [wait_q EXCEPT ![p] = "READY_Q"]

\* rm_q(que, p); add_q(READY_Q, p).
MoveToReady(que, p) ==
  /\ sysq' = LET rm == [sysq EXCEPT ![que] = Unlink(@, p)]
             IN  [rm EXCEPT !["READY_Q"] = Append(@, p)]
  /\ wait_q' = [wait_q EXCEPT ![p] = "READY_Q"]

\* add_q(que, curproc): a process that goes to sleep voluntarily, and owes
\* no slices, gets its base priority back.
AddCurrent(que) ==
  /\ sysq' = [sysq EXCEPT ![que] = Append(@, curproc)]
  /\ wait_q' = [wait_q EXCEPT ![curproc] = que]
  /\ IF que # "READY_Q" /\ slices[curproc] >= 0
     THEN /\ curpri' = [curpri EXCEPT ![curproc] = pri[curproc]]
          /\ slices' = [slices EXCEPT ![curproc] = SLICES(pri[curproc])]
     ELSE UNCHANGED priVars

Init ==
  /\ sysq = [q \in Queue |-> <<>>]
  /\ wait_q = [p \in Proc |-> "CURPROC_Q"]
  /\ wait_cond = [p \in Proc |-> NoCond]
  /\ slices = [p \in Proc |-> SLICES(pri[p])] /\ curpri = pri
  /\ curproc = Root /\ proclist = {Root}
  /\ proc_clock = time_slice /\ our_clock = Second
  /\ sleepcond = NoCond /\ iwakecond = NoCond
  /\ sigpending = {} /\ fresh = {}
  /\ mode = "run" /\ call = NoCall /\ next = NoProc
  /\ walk = NoWalk /\ intr = NoWalk
  /\ evt = [c \in SyncCond \cup DevCond |-> FALSE]
  /\ using = [p \in Proc |-> NoCond] /\ ipid = [d \in DevCond |-> NoProc]
  /\ sel = [p \in Proc |-> "off"]

-----------------------------------------------------------------------------
(* sleep()                                                                 *)

\* The kernel proper executes only while no interrupt handler does, and its
\* next statement comes after the wake() it is in.
Mainline == walk = NoWalk /\ intr = NoWalk

\* The current process is outside sleep().
Running == Mainline /\ mode = "run"

\* sleep(que, cond) up to the point where interrupts may come in.
Sleep(que, cond, x100) ==
  /\ mode' = "poll" /\ sleepcond' = cond
  /\ call' = [que |-> que, cond |-> cond, x100 |-> x100, newslice |-> TRUE]
  /\ UNCHANGED <<next, iwakecond>>

\* A signal is pending: check_sigs() runs its handler, and sleep() will
\* return instead of going to sleep.
SleepSignal ==
  /\ Mainline /\ mode = "poll"
  /\ curproc \in sigpending /\ curproc # Root /\ call.que # "ZOMBIE_Q"
  /\ sigpending' = sigpending \ {curproc}
  /\ sleepcond' = NoCond /\ mode' = "test"
  /\ UNCHANGED <<queueVars, wait_cond, priVars, curproc, clockVars, iwakecond,
                 proclist, fresh, call, next, walk, intr, devVars>>

\* Mutant: sleep() without iwakecond.
AlreadyWokenNoIwakecond ==
  sleepcond # call.cond \/ (call.x100 /\ wait_cond[curproc] # call.cond)

\* The condition slept on has been signalled since sleep() was entered.
AlreadyWoken ==
  \/ sleepcond # call.cond
  \/ iwakecond = call.cond /\ call.cond # NoCond
  \/ call.x100 /\ wait_cond[curproc] # call.cond

\* The test under splhigh(): return at once, give up the rest of the slice
\* on the ready queue, or join the queue asked for.
SleepTest ==
  /\ Mainline
  /\ \/ mode = "test"
     \/ /\ mode = "poll"
        /\ ~(curproc \in sigpending /\ curproc # Root /\ call.que # "ZOMBIE_Q")
  /\ iwakecond' = NoCond
  /\ call' = [call EXCEPT !.newslice = ~(AlreadyWoken /\ Ready # <<>>)]
  /\ IF \/ call.que = "READY_Q" /\ Ready = <<>>
        \/ AlreadyWoken /\ (Ready = <<>> \/ proc_clock # 0)
     THEN mode' = "resume" /\ UNCHANGED <<queueVars, priVars, wait_cond>>
     ELSE /\ mode' = "queued"
          /\ IF AlreadyWoken /\ Ready # <<>>
             THEN AddCurrent("READY_Q") /\ UNCHANGED wait_cond
             ELSE /\ AddCurrent(call.que)
                  /\ wait_cond' = [wait_cond EXCEPT ![curproc] = call.cond]
  /\ UNCHANGED <<curproc, clockVars, sleepcond, proclist, sigpending, fresh,
                 next, walk, intr, devVars>>

\* wake(que, cond) and the first part of do_wake().
StartWake(que, cond) ==
  /\ walk' = [que |-> que, cond |-> cond, cur |-> First(sysq[que])]
  /\ sleepcond' = IF sleepcond = cond THEN NoCond ELSE sleepcond

\* Nobody is ready: wake the napping processes, then look again.
SleepQueued ==
  /\ Mainline /\ mode = "queued"
  /\ IF Ready # <<>>
     THEN mode' = "pick" /\ UNCHANGED <<walk, sleepcond>>
     ELSE mode' = "napped" /\ StartWake("SELECT_Q", "nap")
  /\ UNCHANGED <<queueVars, wait_cond, priVars, curproc, clockVars, iwakecond,
                 proclist, sigpending, fresh, call, next, intr, devVars>>

SleepNapped ==
  /\ Mainline /\ mode = "napped"
  /\ mode' = IF Ready # <<>> THEN "pick" ELSE "forceroot"
  /\ UNCHANGED <<queueVars, wait_cond, priVars, curproc, clockVars, condVars,
                 proclist, sigpending, fresh, call, next, walk, intr, devVars>>

\* Still nobody: run rootproc, whatever it waits for.
SleepForceRoot ==
  /\ Mainline /\ mode = "forceroot"
  /\ MoveToReady(wait_q[Root], Root)
  /\ mode' = "pick"
  /\ UNCHANGED <<wait_cond, priVars, curproc, clockVars, condVars, proclist,
                 sigpending, fresh, call, next, walk, intr, devVars>>

\* The scan of the ready list goes round until it meets a process that owes
\* no turn; every process it passes pays one.  Owes(i) full rounds pass
\* before the victim at place i is met, and the places before i are passed
\* once more.
Owes(i) == IF slices[Ready[i]] > 0 THEN slices[Ready[i]] ELSE 0

Victim(i) == \A j \in DOMAIN Ready :
               IF j < i THEN Owes(i) < Owes(j) ELSE Owes(i) <= Owes(j)

\* Mutant: a process that is passed over pays nothing.
LeftNotPaid(p, i) == slices[p]

\* The slices process p still owes after the scan has stopped at place i.
Left(p, i) == IF p \notin Listed(Ready) THEN slices[p]
              ELSE IF Pos(Ready, p) < i THEN slices[p] - Owes(i) - 1
              ELSE slices[p] - Owes(i)

Pick ==
  /\ Mainline /\ mode = "pick"
  /\ \E i \in DOMAIN Ready :
       /\ Victim(i)
       /\ next' = Ready[i]
       /\ slices' = [p \in Proc |-> Left(p, i)]
       /\ sysq' = [sysq EXCEPT !["READY_Q"] = Unlink(@, Ready[i])]
       /\ wait_q' = [wait_q EXCEPT ![Ready[i]] = "CURPROC_Q"]
  /\ mode' = "switch"
  /\ UNCHANGED <<wait_cond, curpri, curproc, clockVars, condVars, proclist,
                 sigpending, fresh, call, walk, intr, devVars>>

\* save_context() and change_context().  A process that has not run yet
\* starts in user mode, every other one returns inside its own sleep().
Switch ==
  /\ Mainline /\ mode = "switch"
  /\ curproc' = next /\ proc_clock' = time_slice
  /\ mode' = IF next \in fresh THEN "run" ELSE "resume"
  /\ fresh' = fresh \ {next}
  /\ call' = NoCall /\ next' = NoProc
  /\ UNCHANGED <<queueVars, wait_cond, priVars, our_clock, condVars, proclist,
                 sigpending, walk, intr, devVars>>

\* Mutant: reset_priorities() also for a process with slices of run_next().
ResetSlicesAll == [p \in Proc |-> IF p \in proclist THEN SLICES(pri[p])
                                  ELSE slices[p]]

\* reset_priorities(): what it makes of slices and curpri.
ResetSlices == [p \in Proc |-> IF p \in proclist /\ slices[p] >= 0
                               THEN SLICES(pri[p]) ELSE slices[p]]
ResetPri    == [p \in Proc |-> IF p \in proclist /\ slices[p] >= 0
                               THEN pri[p] ELSE curpri[p]]

\* do_wakeup_things(): the once-a-second work of checkalarms(), pending
\* signals, and a new time slice unless the old one goes on.
Resume ==
  /\ Mainline /\ mode = "resume"
  /\ our_clock' = IF our_clock < 0 THEN our_clock + Second ELSE our_clock
  /\ sigpending' = IF curproc = Root THEN sigpending
                                     ELSE sigpending \ {curproc}
  /\ LET sl == IF our_clock < 0 THEN ResetSlices ELSE slices
         cp == IF our_clock < 0 THEN ResetPri ELSE curpri
         owed == IF sl[curproc] >= 0 THEN 0 ELSE -sl[curproc]
         base == IF sl[curproc] >= 0 THEN cp[curproc] ELSE pri[curproc]
     IN  IF call.newslice
         THEN /\ proc_clock' = time_slice + owed
              /\ curpri' = [cp EXCEPT ![curproc] = base]
              /\ slices' = [sl EXCEPT ![curproc] = SLICES(base)]
         ELSE slices' = sl /\ curpri' = cp /\ UNCHANGED proc_clock
  /\ mode' = "run" /\ call' = NoCall
  /\ UNCHANGED <<queueVars, wait_cond, curproc, condVars, proclist, fresh,
                 next, walk, intr, devVars>>

-----------------------------------------------------------------------------
(* Waking up                                                               *)

\* One turn of the loop of do_wake(): w is the walk, p the process at hand.
\* The interrupt level is dropped between two turns, so p may have been
\* moved meanwhile; then the walk starts again at the head of the queue.
WalkOn(w, p) ==
  IF wait_q[p] # w.que THEN First(sysq[w.que]) ELSE QNext(sysq[w.que], p)

Ended(w) == IF w.cur = NoProc THEN NoWalk ELSE w

DoWake(w) ==
  IF w.cur # NoProc /\ wait_q[w.cur] = w.que /\ wait_cond[w.cur] = w.cond
  THEN MoveToReady(w.que, w.cur)
  ELSE UNCHANGED queueVars

WalkStep(w) == [w EXCEPT !.cur = IF w.cur = NoProc THEN NoProc
                                 ELSE WalkOn(w, w.cur)]

Wake ==
  /\ intr = NoWalk /\ walk # NoWalk
  /\ DoWake(walk) /\ walk' = Ended(WalkStep(walk))
  /\ UNCHANGED <<wait_cond, priVars, curproc, clockVars, condVars, proclist,
                 sigpending, fresh, ctlVars, intr, devVars>>

IntrWake ==
  /\ intr # NoWalk
  /\ DoWake(intr) /\ intr' = Ended(WalkStep(intr))
  /\ UNCHANGED <<wait_cond, priVars, curproc, clockVars, condVars, proclist,
                 sigpending, fresh, ctlVars, walk, devVars>>

\* Kernel code produces the event of c and calls wake(): the current process
\* in a system call, checkbttys() and friends inside sleep(), or a timeout
\* function called by checkalarms().
Post(c) ==
  /\ Mainline /\ mode \in {"run", "poll", "resume"}
  /\ evt' = [evt EXCEPT ![c] = TRUE]
  /\ StartWake("WAIT_Q", c)
  /\ UNCHANGED <<queueVars, wait_cond, priVars, curproc, clockVars, iwakecond,
                 proclist, sigpending, fresh, ctlVars, intr, using, ipid, sel>>

\* The interrupt of device d: its driver calls iwake(IO_Q, d, ipid).
DevIntr(d) ==
  /\ intr = NoWalk
  /\ evt' = [evt EXCEPT ![d] = TRUE]
  /\ IF ipid[d] # NoProc /\ iwakecond = d
     THEN UNCHANGED <<iwakecond, intr>>
     ELSE /\ iwakecond' = IF /\ curproc = ipid[d]
                             /\ wait_q[curproc] = "CURPROC_Q"
                          THEN d ELSE iwakecond
          /\ intr' = [que |-> "IO_Q", cond |-> d, cur |-> First(sysq["IO_Q"])]
  /\ UNCHANGED <<queueVars, wait_cond, priVars, curproc, clockVars, sleepcond,
                 proclist, sigpending, fresh, ctlVars, walk, using, ipid, sel>>

\* wakeselect(p), called by a driver when data for a select() of p arrives.
WakeSelect(p) ==
  /\ sel[p] \in {"armed", "hit"}
  /\ sel' = [sel EXCEPT ![p] = "hit"]
  /\ wait_cond' = IF wait_cond[p] = "wakeselect"
                  THEN [wait_cond EXCEPT ![p] = NoCond] ELSE wait_cond
  /\ IF wait_q[p] = "SELECT_Q" THEN MoveToReady("SELECT_Q", p)
                               ELSE UNCHANGED queueVars
  /\ UNCHANGED <<priVars, curproc, clockVars, condVars, proclist, sigpending,
                 fresh, ctlVars, walk, intr, evt, using, ipid>>

\* unnapme(p): the timeout of nap(), called by checkalarms().
Unnap(p) ==
  /\ Mainline /\ mode = "resume"
  /\ wait_q[p] = "SELECT_Q" /\ wait_cond[p] = "nap"
  /\ MoveToReady("SELECT_Q", p)
  /\ wait_cond' = [wait_cond EXCEPT ![p] = NoCond]
  /\ UNCHANGED <<priVars, curproc, clockVars, condVars, proclist, sigpending,
                 fresh, ctlVars, walk, intr, devVars>>

\* Mutant: the test for a dead process is missing.
AlreadyDeadNever(p) == FALSE

\* post_sig() does nothing for a process that is already dead.
AlreadyDead(p) == wait_q[p] = "ZOMBIE_Q"

\* post_sig() of an unmasked signal that p does not ignore, from kill() or
\* an interrupt handler (ikill).
PostSig(p) ==
  /\ "signal" \in Ops /\ p \in proclist \ sigpending /\ p # Root
  /\ ~AlreadyDead(p)
  /\ sigpending' = sigpending \cup {p}
  /\ IF wait_q[p] \notin {"CURPROC_Q", "READY_Q"}
     THEN MoveToReady(wait_q[p], p) ELSE UNCHANGED queueVars
  /\ UNCHANGED <<wait_cond, priVars, curproc, clockVars, condVars, proclist,
                 fresh, ctlVars, walk, intr, devVars>>

CountDown(n) == IF n = 0 THEN 0 ELSE n - 1

\* The 20 ms interrupt.  A user program whose slice is over is preempted
\* before the next tick: the same interrupt routine tests proc_clock.
Tick ==
  /\ (Running /\ curproc # Root /\ using[curproc] = NoCond) => proc_clock > 0
  /\ KernelTicks \/ mode = "run"
  /\ proc_clock' = CountDown(proc_clock)
  /\ our_clock' = IF our_clock > 0 - Overdue THEN our_clock - 1 ELSE our_clock
  /\ UNCHANGED <<queueVars, wait_cond, priVars, curproc, condVars, proclist,
                 sigpending, fresh, ctlVars, walk, intr, devVars>>

-----------------------------------------------------------------------------
(* What processes do outside sleep()                                       *)

\* In user mode, or at the start of a system call.
AtUser == Running /\ curproc # Root /\ using[curproc] = NoCond
                  /\ sel[curproc] = "off"

keepAll == <<queueVars, wait_cond, priVars, curproc, clockVars, proclist,
             sigpending, fresh, walk, intr, devVars>>

\* yield().
Yield == AtUser /\ "yield" \in Ops /\ Sleep("READY_Q", NoCond, FALSE)
                /\ UNCHANGED keepAll

\* Mutant: punished without end.
PunishedNoFloor(p) == curpri[p] - 1

\* The priority preempt() leaves a process with.
Punished(p) == IF curpri[p] >= MIN_NICE THEN curpri[p] - 1 ELSE curpri[p]

\* preempt(): the slice is over; the process loses one step of priority,
\* unless its buffered console output has to be flushed instead.
Preempt ==
  /\ AtUser /\ proc_clock = 0
  /\ curpri' \in {curpri, [curpri EXCEPT ![curproc] = Punished(curproc)]}
  /\ Sleep("READY_Q", wait_cond[curproc], FALSE)
  /\ UNCHANGED <<queueVars, wait_cond, slices, curproc, clockVars, proclist,
                 sigpending, fresh, walk, intr, devVars>>

\* The loop of the root process in mint_thread().
RootIdle == Running /\ curproc = Root /\ Sleep("WAIT_Q", "mint_thread", FALSE)
                    /\ UNCHANGED keepAll

\* A system call finds no event for c and sleeps; or finds it and takes it.
Block(c) == AtUser /\ ~evt[c] /\ Sleep("WAIT_Q", c, FALSE)
                   /\ UNCHANGED keepAll

Take(c) ==
  /\ AtUser /\ evt[c]
  /\ evt' = [evt EXCEPT ![c] = FALSE]
  /\ UNCHANGED <<queueVars, wait_cond, priVars, curproc, clockVars, condVars,
                 proclist, sigpending, fresh, ctlVars, walk, intr, using, ipid,
                 sel>>

\* device_read() of iwake's comment: ipid is set once, before the loop.
DevEnter(d) ==
  /\ AtUser /\ (Shared \/ \A p \in Proc : using[p] # d)
  /\ using' = [using EXCEPT ![curproc] = d]
  /\ ipid' = [ipid EXCEPT ![d] = curproc]
  /\ UNCHANGED <<queueVars, wait_cond, priVars, curproc, clockVars, condVars,
                 proclist, sigpending, fresh, ctlVars, walk, intr, evt, sel>>

DevSleep(d) == Running /\ using[curproc] = d /\ ~evt[d]
               /\ Sleep("IO_Q", d, FALSE) /\ UNCHANGED keepAll

DevLeave(d) ==
  /\ Running /\ using[curproc] = d /\ evt[d]
  /\ evt' = [evt EXCEPT ![d] = FALSE]
  /\ using' = [using EXCEPT ![curproc] = NoCond]
  /\ ipid' = [ipid EXCEPT ![d] = NoProc]
  /\ UNCHANGED <<queueVars, wait_cond, priVars, curproc, clockVars, condVars,
                 proclist, sigpending, fresh, ctlVars, walk, intr, sel>>

\* Fselect(): announce the wait, find no data, then sleep with the 0x100 bit
\* for as long as nobody has changed wait_cond.
SelArm ==
  /\ AtUser /\ "select" \in Ops
  /\ sel' = [sel EXCEPT ![curproc] = "armed"]
  /\ wait_cond' = [wait_cond EXCEPT ![curproc] = "wakeselect"]
  /\ UNCHANGED <<queueVars, priVars, curproc, clockVars, condVars, proclist,
                 sigpending, fresh, ctlVars, walk, intr, evt, using, ipid>>

SelSleep == Running /\ sel[curproc] # "off"
            /\ wait_cond[curproc] = "wakeselect"
            /\ Sleep("SELECT_Q", "wakeselect", TRUE) /\ UNCHANGED keepAll

\* Data, a timeout, or a signal (EINTR): the selects are cancelled.
SelLeave ==
  /\ Running /\ sel[curproc] # "off"
  /\ sel' = [sel EXCEPT ![curproc] = "off"]
  /\ UNCHANGED <<queueVars, wait_cond, priVars, curproc, clockVars, condVars,
                 proclist, sigpending, fresh, ctlVars, walk, intr, evt, using,
                 ipid>>

Nap == AtUser /\ "nap" \in Ops /\ Sleep("SELECT_Q", "nap", FALSE)
              /\ UNCHANGED keepAll

\* The last step of terminate(), and the reaping of a zombie by a parent.
Exit == AtUser /\ "exit" \in Ops /\ Sleep("ZOMBIE_Q", NoCond, FALSE)
               /\ UNCHANGED keepAll

Reap(p) ==
  /\ Running /\ wait_q[p] = "ZOMBIE_Q"
  /\ sysq' = [sysq EXCEPT !["ZOMBIE_Q"] = Unlink(@, p)]
  /\ wait_q' = [wait_q EXCEPT ![p] = "CURPROC_Q"]
  /\ proclist' = proclist \ {p} /\ sigpending' = sigpending \ {p}
  /\ UNCHANGED <<wait_cond, priVars, curproc, clockVars, condVars, fresh,
                 ctlVars, walk, intr, devVars>>

\* A new process: run_next() puts it first on the ready queue.  It inherits
\* wait_cond with the rest of the structure.
NewProcess(p) ==
  /\ Running /\ p \notin proclist
  /\ proclist' = proclist \cup {p} /\ fresh' = fresh \cup {p}
  /\ slices' = [slices EXCEPT ![p] = -Boost]
  /\ curpri' = [curpri EXCEPT ![p] = MAX_NICE]
  /\ wait_q' = [wait_q EXCEPT ![p] = "READY_Q"]
  /\ sysq' = [sysq EXCEPT !["READY_Q"] = <<p>> \o @]
  /\ wait_cond' = [wait_cond EXCEPT ![p] = wait_cond[curproc]]
  /\ UNCHANGED <<curproc, clockVars, sigpending, walk, intr, devVars>>

\* fork and Pexec(100) let it run at once, create_process() returns first.
Fork(p) ==
  /\ curproc = Root \/ (AtUser /\ "fork" \in Ops)
  /\ NewProcess(p) /\ Sleep("READY_Q", NoCond, FALSE)

CreateProcess(p) ==
  /\ AtUser /\ "fork" \in Ops /\ NewProcess(p)
  /\ UNCHANGED <<ctlVars, condVars>>

\* exec of a new program in the same process: fresh_slices(3).
Exec ==
  /\ AtUser /\ "exec" \in Ops
  /\ slices' = [ResetSlices EXCEPT ![curproc] = 0]
  /\ curpri' = [ResetPri EXCEPT ![curproc] = MAX_NICE + 1]
  /\ proc_clock' = time_slice + Boost
  /\ UNCHANGED <<queueVars, wait_cond, curproc, our_clock, condVars, proclist,
                 sigpending, fresh, ctlVars, walk, intr, devVars>>

-----------------------------------------------------------------------------

InSleep == \/ SleepSignal \/ SleepTest \/ SleepQueued \/ SleepNapped
           \/ SleepForceRoot \/ Pick \/ Switch \/ Resume \/ Wake \/ IntrWake

Process == \/ Yield \/ Preempt \/ RootIdle \/ SelArm \/ SelSleep \/ SelLeave
           \/ Nap \/ Exit \/ Exec
           \/ \E p \in Proc : Reap(p) \/ Fork(p) \/ CreateProcess(p)
           \/ \E c \in SyncCond : Block(c) \/ Take(c) \/ Post(c)
           \/ \E d \in DevCond : DevEnter(d) \/ DevSleep(d) \/ DevLeave(d)
           \/ \E p \in Proc : Unnap(p)

Interrupt == \/ Tick
             \/ \E p \in Proc : WakeSelect(p) \/ PostSig(p)
             \/ \E d \in DevCond : DevIntr(d)

Next == InSleep \/ Process \/ Interrupt

Spec == Init /\ [][Next]_vars

\* Interrupts are never disabled for good, kernel code runs to its end, and
\* the interrupt routine preempts a program whose slice is over.
Fairness == /\ WF_vars(InSleep) /\ WF_vars(Preempt) /\ WF_vars(RootIdle)
            /\ WF_vars(Tick)
            /\ \A p \in Proc : WF_vars(curproc = Root /\ Fork(p))

LiveSpec == Spec /\ Fairness

-----------------------------------------------------------------------------
(* Properties                                                              *)

TypeOK ==
  /\ sysq \in [Queue -> Seq(Proc)]
  /\ wait_q \in [Proc -> Queue \cup {"CURPROC_Q"}]
  /\ wait_cond \in [Proc -> Conds]
  /\ slices \in [Proc -> Int] /\ curpri \in [Proc -> Int]
  /\ curproc \in Proc /\ proclist \subseteq Proc
  /\ proc_clock \in Nat /\ our_clock \in Int
  /\ sleepcond \in Conds /\ iwakecond \in Conds
  /\ sigpending \subseteq Proc /\ fresh \subseteq Proc
  /\ mode \in Modes /\ call \in Calls /\ next \in Proc \cup {NoProc}
  /\ walk \in Walks /\ intr \in Walks
  /\ evt \in [SyncCond \cup DevCond -> BOOLEAN]
  /\ using \in [Proc -> DevCond \cup {NoCond}]
  /\ ipid \in [DevCond -> Proc \cup {NoProc}]
  /\ sel \in [Proc -> {"off", "armed", "hit"}]

\* The process that owns the CPU and is on no queue: the current one, the
\* chosen victim during a switch, nobody while the current one is queued.
OffQueue == CASE mode \in {"run", "poll", "test", "resume"} -> {curproc}
              [] mode = "switch" -> {next}
              [] OTHER -> {}

\* A process is on the list its wait_q names, exactly once and on no other;
\* one that is on no list is the running process or does not exist.  This is
\* what the assertions of add_q() and rm_q() rely on, under every
\* interleaving of sleep() with the interrupt handlers that move processes.
QueueOK ==
  /\ \A q \in Queue : Distinct(sysq[q])
  /\ \A q \in Queue, p \in Proc : p \in Listed(sysq[q]) <=> wait_q[p] = q
  /\ \A p \in Proc :
       wait_q[p] = "CURPROC_Q" <=> (p \in OffQueue \/ p \notin proclist)

\* No wakeup is lost: a process is not asleep on a condition whose event has
\* happened, unless the wake() of that event is still walking its queue.
\* sleep() promises this through sleepcond (wake), iwakecond (iwake) and the
\* 0x100 bit (wakeselect), one for each way an event can come in between the
\* test of the event and add_q().
NoLostWakeup ==
  \A p \in Proc :
    /\ wait_q[p] = "WAIT_Q" /\ wait_cond[p] \in SyncCond /\ evt[wait_cond[p]]
         => walk.que = "WAIT_Q" /\ walk.cond = wait_cond[p]
    /\ wait_q[p] = "IO_Q" /\ wait_cond[p] \in DevCond /\ evt[wait_cond[p]]
         => intr.que = "IO_Q" /\ intr.cond = wait_cond[p]
    /\ sel[p] = "hit" => wait_q[p] # "SELECT_Q"

\* A dead process stays dead: nothing but reaping takes a process off the
\* zombie queue (terminate() treats a return from its last sleep() as fatal).
ZombieStays ==
  [][\A p \in Proc : wait_q[p] = "ZOMBIE_Q" =>
       wait_q'[p] = "ZOMBIE_Q" \/ p \notin proclist']_vars

\* A new process runs before any other ready one ("We want it to run ASAP, so
\* we temporarily give it high priority and put it first on the run queue",
\* k_fork.c), whatever happens between run_next() and the context switch.
NewProcessRunsNext ==
  mode = "switch" /\ (\E p \in fresh : wait_q[p] = "READY_Q") => next \in fresh

\* However often it is preempted, a process never has to miss more than
\* 1 - MIN_NICE turns in a row, and never owns more than the slices it was
\* given: curpri and slices stay within one of their documented range.
PenaltyBounded ==
  \A p \in Proc : /\ curpri[p] \in (MIN_NICE - 1) .. (MAX_NICE + 1)
                  /\ slices[p] \in (0 - Boost) .. (1 - MIN_NICE)

\* Every ready process runs: "if p->slices is positive, it's the number of
\* times that they will have to miss a turn before getting to run again".
ReadyRuns == \A p \in Proc \ {Root} : wait_q[p] = "READY_Q" ~> curproc = p
=============================================================================
