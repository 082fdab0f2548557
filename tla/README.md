# The FreeMiNT kernel in TLA+

This directory holds TLA+ models of the parts of FreeMiNT where several actors
meet: the process core of the kernel (`src/sys`), its pipes and timeouts, one TCP
connection of its network code (`src/sys/sockets/inet4`), and the screen locks of
the XaAES window system (`src/xaaes/src.km`).  Beside them are the TLC
configurations that check them and TLAPS proofs about them.  FreeMiNT is a
multitasking kernel for Atari computers, written in C.  It is **not preemptive
inside the kernel**: a process that is in a system call keeps the CPU until it
calls `sleep()`.  What makes it hard to get right is therefore not locking but
what happens around `sleep()`: interrupt handlers that move processes between
queues, timeouts, signals whose handlers make system calls of their own in the
middle of another one, and processes that die while others have pointers to them.

- [Inventory](#inventory)
- [Modules and how they follow the code](#modules)
- [Runs](#runs)
- [Fairness](#fairness)
- [Proofs](#proofs)
- [What the models say about the code and its documentation](#disagreements)
- [What is not modelled](#not-modelled)
- [Plan](#plan)

`PROJECT.json` lists the components, runs, mutants, the source lines behind
every definition, the hazards and the theorems.

## Inventory

| Component | State | Operations | Interacts through | What can go wrong |
|---|---|---|---|---|
| Scheduler `proc.c` | `sysq`, `wait_q`, `wait_cond`, `slices`, `curpri`, clocks | `sleep`, `wake`, `iwake`, `wakeselect`, `preempt`, `run_next`, `reset_priorities` | called by everything; interrupts (`arch/intr.S`) | lost wakeups, broken lists, starvation |
| Signals `signal.c`, `dossig.c` | `sigpending`, `p_sigmask`, actions | `post_sig`, `check_sigs`, `handle_sig`, `stop`, `Pkill` | wakes any sleeper; handlers run inside `sleep()` | state tested before a handler and used after it |
| Semaphores `rendez.c` | `semalist` | create, get with timeout, release, destroy, `free_semaphores` | `WAIT_Q`, timeouts, exit | waiters without an owner, stale timeouts |
| Mailboxes `rendez.c` | `mb_*` fields of each process | read, write, write/read, non-blocking forms | the partner changes the fields of a sleeper | a missed or doubled rendezvous |
| Exit and wait `k_exit.c` | `ppid`, `proclist`, `ZOMBIE_Q`, `TSR_Q` | `terminate`, `Ptermres`, `Pwaitpid` and relatives | SIGCHLD, process 0, tracers | a death nobody hears of, dangling pointers |
| Tracing `ptrace.c` | `ptracer` | attach, trace me, continue, detach, kill | `stop()`, `Pwaitpid` | parent and tracer race for the same news |
| Timeouts `timeout.c` | `tlist` (time differences), `expire_list`, a static reserve | `addtimeout`, `canceltimeout`, `cancelalltimeouts`, `checkalarms` | interrupt handlers; the last part of `sleep()`; exit | structures lost or shared, a function called late, early, twice or for a dead process |
| Pipes `pipefs.c` | two ring buffers, readers, writers, locks | create, open, read, write, flush, select, lock, close | one sleep condition for all; fork; SIGPIPE | a sleeper without a peer, mixed messages, wrong counts |
| select `dosfile.c` | `wait_cond`, driver lists | announce, sleep, cancel | `wakeselect()` from drivers | a wakeup before the sleep |
| TCP `sockets/inet4/tcp*.c` | control blocks with a send and a receive queue, timers | connect, accept, send, recv, shutdown, close; input, timeouts | the network; sleeping programs | lost, repeated, reordered segments; a connection that waits for ever |
| Screen locks `xaaes/src.km/semaphores.c`, `xa_wind.c` | `update_lock`, `mouse_lock`, the owners in `C` | `wind_update`, drawing calls, exit, `recover` | every AES application | two locks, nested counts, owners that die |
| fork, vfork, exec `k_fork.c`, `k_exec.c` | process structure, memory | copy, share, load | first place on the ready queue; vfork parent sleeps | parent and child in one memory |
| DMA `dma.c` | lock, pid, result | start, block, deblock, end | interrupt and timeout | a single sleep that ends too early |
| Unix sockets `ipc_*.c` | socket pairs, queues | connect, accept, send, close | select, signals | a peer that goes away |
| Files `k_fds.c`, `filesys.c` | descriptors with link counts | open, dup, close, share | exit, exec, fork | counts |
| Memory `memory.c`, `umemory.c`, `kmemory.c` | regions with links, shadows | attach, detach, save, swap | fork and context switch | shared and shadowed regions |
| Block cache `block_IO.c` | cached blocks | get, mark, write back | update daemon | dirty blocks |
| The rest | | | | drivers, file systems, the other protocols, boot, terminals, libraries, drawing and widgets |

The correctness properties wanted: no wakeup is lost and every process is on one
queue; ready processes run; nobody waits for a semaphore nobody owns; a reader and
a writer of a mailbox meet, once; every death and stop reaches whoever waits for
it, and nothing points to a dead process; a timeout is served once, in its order,
and never too early; a fifo is a queue of bytes, and nobody sleeps at it who could
go on; the bytes of a connection arrive once and in order; a lock belongs to who
has taken it until he gives it back or dies.

## Modules

| Module | Models | Proofs |
|---|---|---|
| `Sched` | `proc.c`, the 20 ms interrupt of `arch/intr.S`, the select and nap users of `sleep()` | `SchedProofs` |
| `Psema` | `Psemaphore()` of `rendez.c` with its timeout, signals, exit; vfork and I/O sleeps beside it | `PsemaProofs` |
| `Pmsg` | `Pmsg()` of `rendez.c` | `PmsgProofs` |
| `Wait` | `k_exit.c`, the posting and handling of signals, `ptrace.c`, the loop of process 0 | `WaitProofs` |
| `Alarm` | what callers count on of `timeout.c` (abstract) | |
| `Timeout` | `timeout.c` and its tick; implements `Alarm` | `TimeoutProofs` |
| `Stream` | what readers and writers count on of a fifo (abstract) | |
| `Pipe` | `pipefs.c`, `Fselect()` and `do_close()` for one fifo; implements `Stream` | `PipeProofs` |
| `AesLock` | `semaphores.c`, `wind_update()`, exit and recovery of XaAES | `AesLockProofs` |
| `Tcp` | `tcpin.c`, `tcpout.c`, `tcp.c` and their helpers for one connection | `TcpInv` (the invariant), `TcpProofs` |

A module `MC...` gives the constants of its component their values.  The
mutants next to a definition (`...Not`, `...Never`) are what a plausible mistake
in that place would look like; they are used by no specification.

**Granularity.**  Sched and Timeout are the fine-grained modules: one action is one
stretch of code under `splhigh()` or `spl7()`, because interrupts come in between.
The others are about system calls, where only `sleep()` lets others in: one action
is a call up to its `sleep()`, or from there to the next one.  They take from Sched
that a wakeup is not lost (`NoLostWakeup`) and that a ready process runs
(`ReadyRuns`), and leave open which ready process is next.

**Sched.**  `sysq` are the linked lists as sequences, `wait_q` and `wait_cond` the
fields of the same name.  `mode` is the position of the current process in
`sleep()`: `poll` (signals and alarms before the test), `test` (the test under
`splhigh()`), `queued`, `napped`, `forceroot` (nobody is ready), `pick`,
`switch`, `resume` (`do_wakeup_things()`).  `walk` and `intr` are a `do_wake()` in
progress, in the kernel and in an interrupt handler: it drops the interrupt level
after each process, so each turn of its loop is a step.  The scan of the ready
list, which goes round and round decrementing `slices`, is given in closed form
(`Owes`, `Victim`, `Left`).  Users of the scheduler are reduced to their
skeleton: test an event, sleep, be woken.

**Psema.**  `semalist` maps an id to absent, free or its owner.  `pc` says where in
`sleep()` a process is, `what` which call it is in.  `pending` is the timeout of
the call, `stale` counts timeouts that earlier calls have left on the list;
`unsemame()` does not know which of them it serves.  A handler may leave another
`wait_cond` behind (`HandlerConds`): the system calls it makes are modelled by that and
by the time they give to others.  `killed` are the vfork parents with SIGKILL pending,
the one signal of theirs that is not masked; `early` and `upset` are recorded for the
properties: a call that failed too soon, and the processes in one of whose gets a
handler has ended with another `wait_cond`.

**Pmsg.**  A mailbox is a number in the `mb_mbid` field of those who wait, `mb_mode`
says as what, and -1 that the rendezvous has happened.  `mode` is the local
variable of the call, which the partner cannot change.  `due`, `nread` and `owed`
record what the partner did, for the properties only.  The reply mailbox
`0xFFFF0000 | pid` of a process is the process itself.

**Wait.**  `wait_q` has the value `none` for a free slot, and `STOP_Q seen` for a
stopped process that was waited for (`wait_cond` 0).  `held` is the mask that
`stop()` sets, with the effect it has in the code (SIGTERM is masked too).
`known`, `told` and `twice` record who was told of a death, for the properties
only.  The code reports the first suitable process on `proclist`, the model any,
which covers every order of the list.  A process that wakes in `Pwaitpid()` scans
before it handles its signals, as `do_wakeup_things()` has it.

**Timeout.**  `tlist` and `expire_list` are sequences of structures with their
addresses; `when` is the difference to the node before, and only the tick changes
that of the head, below zero when nobody looks.  An interrupt handler takes its
structure from the static reserve, a process from the heap if it can.  Times may be
negative; an assertion of `inserttimeout()` that fails halts the machine (`AssertFails`).
`pc`, `node`, `req`, `chain` are where the routine in progress is and what it holds: it drops
the interrupt level between two steps, and a handler may install a timeout there.
The handler itself is one step: handlers do not interrupt each other in the model.
`held` is the pointer each owner keeps.  `due` records the time that was asked for,
for the proofs only.

**Alarm** knows absolute times and a set of requests.  Under the mapping `KeepsTime`
the time of a node is the clock plus the sum of the differences up to it.

**Pipe.**  `pipe` has the fields of `inp` and `outp`; `buf` are the bytes that have not
been read, a byte being its place in its message and the length of that message, so
that torn or mixed messages are seen.  `VirginPipe` stands for the counts before
anybody else has opened the fifo.  A file pointer is shared by fork.  The calls a
program tries go with the attributes the fifo was created with (`Attrs`), which keeps
the instances apart in one run.

**Stream** is one queue of bytes per direction: a short message goes in as one piece, a
long one in pieces, and a reader gets what is in front.

**AesLock.**  `sem` are the two semaphores with owner, counter and number of sleepers,
`C` is the second record of owners that `wind_update()` keeps.  `begun` counts the
calls of an application that are not matched, `tidy` says whether all applications
match their calls (chosen at the start), `broken` whether the user has used the
recovery key; properties that hold for well-behaved applications only say so.

**Tcp.**  The control block of each host has the fields of `struct tcb` that decide
something, with the two queues of segments.  Sequence numbers are integers, and a
byte is its sequence number.  A segment stays in `net` until it is lost, so it may
come again and after later ones.  The walks along a queue are written as what they
find, the first segment that does not end by a given number (`Passed`), or as recursive
functions (`SendFrom`, `Total`).  Timers may run out whenever they are armed, and
the congestion window is any that holds a full segment.  `tcp_sndseg()` adds up to
`TCP_MAXRETRY` bytes of the next segment to a retransmission, as the code does.  Only one SYN
reaches the listener.  Where the code would call `FATAL()` or copy a
negative number of bytes, the host stops (`fatal`).

## Runs

| Run | Instance | Shows |
|---|---|---|
| `sched_wake` | two processes and process 0, one `wake()` condition, one device, select, signals; ticks everywhere | lists and wakeups are right in every interleaving of `sleep()` with interrupt handlers |
| `sched_prio` | priorities -1..1, slices of one tick, reset every 2 ticks; fork, exec, nap, exit, signals | a new process runs next, penalties stay bounded, the dead stay dead |
| `sched_fair` | a hog at +20, a process at -20, the code's constants, `time_slice` 2 | both run again and again |
| `psema_safe` | three processes, one semaphore, I/O sleeps, signals, sleeping handlers, exits | nobody sleeps for a semaphore without a living owner; gets fail only after their time and spoil no I/O sleep, but for the handlers that change `wait_cond` |
| `psema_timed` | two processes, one semaphore, vfork, signals, sleeping handlers, SIGKILL, exits | timed waits end, and with the same exception leave a vfork parent asleep |
| `pmsg_meet` | three processes, one mailbox and the reply mailboxes, every mode but the non-blocking write/read, signals, exits, kills | rendezvous are neither missed nor doubled, both ends agree, replies do not block |
| `wait_trace` | process 0, the first process (ignores SIGCHLD), two others; tracing, resident processes, handlers that wait | family pointers valid, no death slept over, told to someone, told once |
| `wait_jobs` | the same four, SIGKILL, SIGSTOP, SIGCONT instead of tracing | process 0 reaps its orphans in the end |
| `timeout_list` | a process with an alarm and a nap of a negative time, a driver, one heap and two static structures; interrupts between any two steps, exit, fork | structures are neither lost nor shared, the list implements `Alarm`, and its assertion fails for the negative time only |
| `aes_desk` | three applications, both locks, nesting, kills, exits, recovery; matched or unmatched calls | locks stay with their owners, nobody waits for a free lock or in a circle |
| `pipe_fifo` | three processes, one of them forked, up to three file pointers, a buffer of three bytes, one-way and two-way fifos | no sleeper is forgotten, counts and locks are right, the fifo implements `Stream` |
| `tcp_lossy` | a client that sends two segments and shuts down, a server that reads and closes; signals; loss, repetition, reordering | the bytes arrive once, in order and to the end, and no loss leaves a connection stuck |

**The properties by name.**

| Module | Property | Statement |
|---|---|---|
| `Sched` | `QueueOK` | a process is on the one list its `wait_q` names, as `add_q()` and `rm_q()` assert |
| | `NoLostWakeup` | nobody is asleep on a condition whose event has happened |
| | `NewProcessRunsNext` | a forked or exec'd process runs before any other ready one |
| | `PenaltyBounded` | `curpri` and `slices` stay within one of their documented range |
| | `ReadyRuns` | (liveness) every ready process runs |
| | `ZombieStays` | only reaping takes a process off `ZOMBIE_Q` |
| `Psema` | `SleepersHaveOwner` | nobody sleeps for a semaphore without a living owner |
| | `EaccesOnlyAfterTimeout` | a get that waits fails with EACCES only after its time, or after a handler run in it has ended with another `wait_cond` |
| | `OtherSleepsKept` | a timeout of `Psemaphore()` neither spoils an I/O sleep nor ends that of a vfork parent, unless such a handler has left it behind; a vfork parent wakes early only to die of SIGKILL |
| | `TimedGetReturns` | (liveness) a get with a timeout returns |
| `Pmsg` | `NoMissedRendezvous` | a reader and a writer of one mailbox never both wait |
| | `ReadOnce`, `ReadsAndWritesAgree` | messages are neither doubled nor mixed up, and each end has the pid of the other; a write/read that had to wait for its reader loses the reply's message |
| | `ReplyDoesNotBlock` | the sender of a write/read waits for its reply |
| `Wait` | `FamilyAlive` | `ppid` and `ptracer` never lead to a dead or freed process |
| | `WaiterMissesNothing` | nobody sleeps in `Pwaitpid()` over the death of a child or tracee, or the stop of a tracee, it waits for; the stop of a child that nobody traces is not covered |
| | `DeathToldOnce` | a death is reported to somebody, and to each once |
| | `OrphanReaped` | (liveness) process 0 frees the dead it has inherited |
| `Timeout` | `PoolOK` | a structure is in one place: a list, the hands of one routine, or free |
| | `FatalOnlyIfNegative` | the assertion of `inserttimeout()` fails for nothing but a negative time that finds the list empty, although the head may be overdue |
| | `DeadHaveNone` | no function is called for a process that has gone through `cancelalltimeouts()` |
| | `HolderKept` | (action) a pointer its owner may still cancel by stays his, unless he kept it beyond the grace time |
| | `KeepsTime` | (refinement) every step is a step of `Alarm`: never early, never twice, in order, nothing due left behind |
| `AesLock` | `NoLostWakeup` | nobody is asleep for a free lock, though the count of sleepers is not corrected when one is killed |
| | `UpdateMine`, `MouseMine` | who has begun an update, or taken the mouse, owns the lock with exactly its own count |
| | `NoDeadlock` | no process waits for a lock whose owner waits for the other one |
| | `DeadHoldNothing` | a dead application leaves no lock and no record of one |
| `Pipe` | `NoLostWakeup` | nobody sleeps in a read, a write or a lock request who could go on |
| | `SelectMissesNothing` | nobody sleeps in `Fselect()` although the fifo is ready |
| | `CountsRight` | `readers` and `writers` are the open file pointers, and the fifo goes with the last of them |
| | `NotFreedInUse` | the fifo is not freed under a reader or the head |
| | `LockOwned` | the owner of a lock still has the file pointer he locked with |
| | `IsStream` | (refinement) every step is a step of `Stream`: what is read is what was written, short messages in one piece |
| `Tcp` | `InOrder` | a program reads what the other one wrote, in order, nothing missing, repeated or made up |
| | `AckedKept` | what the sender has dropped as acknowledged has been read or is kept for the reader |
| | `EofRight` | the end of the data comes after all of it, however early the FIN arrived |
| | `NeverStuck` | what is unacknowledged has a timer, and so has a control block nobody owns |
| | `NoLostWakeup` | nobody sleeps in a call over data, room or an error |

Exceptions a statement makes (who used the recovery key, who forked, who shut down
his own side) are written out in the definition with the reason in the code.  Where the exception is
the very case in which the code goes wrong, the property says what else cannot happen, and
the case is named under [Disagreements](#disagreements): the lost reply of a write/read
(`ReadsAndWritesAgree`), the call with the non-blocking bit (which no property covers), a resident
process traced by its parent (`DeathToldOnce`), unmatched calls and the recovery key
(`MouseMine`, `NoDeadlock`), a writer asleep at a fifo that is freed (`NotFreedInUse`), a lock
kept through a fork (`LockOwned`), and the host that stops in `fatal` (`Tcp`).

**Bounds.**  Two processes beside process 0 are enough for `Sched`: the races are
between the current process, a sleeper and an interrupt handler, and a walk over
a queue needs a second process on it to be led astray.  `Overdue` caps how far
`our_clock` falls behind, `MaxStale` the abandoned timeouts per process (one is
enough to be mistaken for another).  In `Psema`, `Pmsg` and `AesLock` the third
process is the one that takes what another was woken for.  In `Wait` the family
needs a parent, a tracer and a child, and process 0 as the fourth.

In `Timeout` three structures let the reserve run out; `MaxTime` 3 lets a
timeout of 2 ticks expire, outlive the grace time (`Keep` 1) and its address be
used again.  In `AesLock`, `MaxNest` 2 is the smallest nesting at which a count
matters, and `MaxCount` stops the counts of unmatched calls from drifting.  In
`Pipe`, messages of 2 and 3 bytes with `PipeSiz` 3 and `PipeBuf` 2 are short and long, fit in
part, wrap around, and leave room that is too small for a short message;
`MaxFiles` limits what one process opens.

In `tcp_lossy` two bytes travel in two segments (`SegMax` 1), which is the least
for a hole in the receive queue, a reordering, a retransmission that overlaps its
successor (`MaxRetry` 1), and a FIN that comes before the data; one duplicate
acknowledgement (`DupThresh` 1) starts a fast retransmission, and both sides close, in
either order.  `MaxNet` 2 segments at a time may be repeated and overtake each
other.  A writer that sleeps on a full send buffer is hardly met at these sizes, it needs a
third byte: instances with writes of 3 and 4 bytes and buffers of 2 and 3 pass as well, but
are too large to be kept as runs.  The proofs cover all sizes.

`sched_wake`, `psema_safe`, `pmsg_meet`, `wait_trace`, `timeout_list`, `aes_desk` and
`pipe_fifo` use symmetry over processes, structures or file pointers that differ in
nothing; the runs with liveness properties use none.

**Deadlock** is checked for `Sched`, where process 0 can always run.  In the other
modules all processes may be dead, a connection may be over, or programs may wait
for each other by their own choice, so it is not an error there.

## Fairness

- `Sched!Fairness`: kernel code in `sleep()` runs to its end, ticks come, the
  interrupt routine preempts a program whose slice is over (it tests
  `proc_clock` at every tick), process 0 goes on in its loop and starts the
  processes of the instance.  Nothing is assumed of programs.
- `Psema!Fairness`: a ready process gets the CPU (strong fairness of `Dispatch`,
  which is `ReadyRuns` of Sched), is preempted, and finishes its kernel code;
  a timeout expires (strong, as `checkalarms()` runs only at the end of a
  `sleep()`, which happens again and again), handlers return, and SIGKILL is
  acted on.  Nothing is assumed of owners: they may keep a semaphore for ever, so only timed waits are shown to end.
- `Wait!LiveSpec`: process 0 runs when it is ready, or when nobody else is, which
  `sleep()` sees to.  Nothing else is assumed.

`Timeout`, `AesLock`, `Pipe` and `Tcp` are checked for safety only.  What must
eventually happen there is stated as what has to be in place for it: whoever
sleeps is owed a wakeup (`NoLostWakeup`), what was sent has a timer
(`NeverStuck`), and a check of the alarms leaves nothing that is due
(`KeepsTime`).

## Proofs

The theorems hold for every set of processes, conditions, semaphores, mailboxes,
messages, file pointers and structures, every buffer size and every list of
priorities, every size of segment, window and write, from the named assumption of each
module (the null values are no processes, ranges are sane).  Every safety property that a
run checks is a theorem.  Where a theorem needs more than the assumption of its module, its
statement says so:

| Hypothesis | Theorems | Why it is needed, and why the code meets it |
|---|---|---|
| `Boost > 0` | `NewProcessesRunNext` | with no extra slice a new process is not ahead of the others; `run_next()` is called with 3 |
| `~Shared`, one reader of a device at a time | `NoSleeperForgotten` of Sched | the idiom in the comment of `iwake()` keeps one pid; TLC shows that with two readers one of them is forgotten |
| no write/read with the non-blocking bit (`<<2, TRUE>> \notin Modes`) | `ReplyAccepted`, `EachReadOnce` | such a call gives its message away and returns -1 |
| the locks are well used (`AesLock`'s own condition in the properties) | `MouseLockMine`, `SecondLockFree`, `NoLockCycle` | an END too many releases what another call holds |

**Sched.**  `TypeCorrect`, `QueuesCorrect`.  `QueueOK` alone is not inductive: that the
process `sleep()` is about to queue is on no list has to follow from where it is in
`sleep()` (`OwnerOK`), it has to exist (`OwnerExists`), and process 0 must never be dead
when it is forced to run (`RootLives`).  `ListsOK` is the list part; lemmas on
`Unlink`, `Append` and consing say what the list operations do to membership and
distinctness.  On this invariant stand four more:

- `PenaltiesBounded`: the scan takes the same number of rounds off everybody; because
  the victim is the one that owes least (`Victim`), nobody is left with less than the
  boost or more than before.
- `DeadStayDead`, an action property: a `do_wake()` moves only what is on the queue it
  was called for, and `WalksOK` says that `wake()` and `iwake()` are never called for the
  zombies'.
- `NewProcessesRunNext`: the invariant `FreshOK` says that a new process still owns
  its extra slices and stands before every other one on the ready queue (`FirstOn`)
  until it is chosen, through wakeups, signals and the reset of the priorities.
- `NoSleeperForgotten`: `WakeInv` says where the news of an event is: between the entry of
  `sleep()` and its test in `sleepcond`, `iwakecond` or the 0x100 bit (`CallOK`), for a
  select in `wait_cond` (`Told`), and for a process on a queue in a walk that has
  not passed it (`WaitReached`, `IOReached`).  A walk whose process has left the queue
  starts again at its head, so "not passed" is said by position in the queue as it is
  now (`NotPassed`).  `OneUser`, `IOUsers` and `Unborn` tie a device to the one
  living process that reads from it.

**Psema.**  `TypeCorrect`, `NoForgottenWaiter`, `DeadOwnNothing` (a dead process owns no
semaphore).  The strengthening says that a process on `WAIT_Q` is in an undisturbed
sleep (`WaitersOK`): whoever changes its `wait_cond` also takes it off the queue.
Without it `wake()` could pass it by.  `EaccesIsTimeout` and `TimeoutsSpareOthers` rest on
`Settled`, which holds with signals and all: of a process that no handler has upset
(`upset`), a timeout that is armed belongs to the call that armed it, a call whose
timeout has not expired finds the `wait_cond` that it slept with, and nobody but SIGKILL
touches that of the other sleepers.  A handler alone, with the `wait_cond` it ends
with, makes the difference: both properties fail without that exception.

**Pmsg.**  `TypeCorrect`, `NoneMissed`, `PartnerWakes` (who has been met is not asleep in
the call), `ReplyAccepted`.  Needed are that processes outside a call name no mailbox
(`Idle`) and that a writer that was turned around has not left its call (`Turned`).
`PartnersAgree` holds for every call that slept: its pid is right, and its message too,
but for the reply to a write/read that had to wait for its reader.  It and `EachReadOnce` follow from `Exact`: the message of a call has been
read once the call is no longer a writer, exactly once (`Counted`), and the fields of
a plain read or write hold what its partner handed over (`HandedOver`).

**Wait.**  `TypeCorrect`, `FamilyCorrect`, `NoDeathMissed`, `NoDeathForgotten`.
`terminate()` wakes whoever `ppid` names, so `ppid` must name a living process until
somebody was told (`Cared`), which needs a foster parent that never dies (`RootUp`);
a tracer depends on SIGCHLD, so it must not sleep in `Pwaitpid()` with its signals
masked (`HeldAwake`).  `ToldOnlyOnce`: who was told of the death of a zombie is
neither its parent nor its tracer any more (`ToldOnce`); for process 0, to which
orphans are handed on, this needs that it traces its own children only (`RootTraces`).

**Timeout.**  `TypeCorrect`, `PoolCorrect`, `DeltasCorrect` (the differences add up to the
times that were asked for), `AssertFailsRightly`, `DeadSafe`, and `Refinement`: `timeout.c`
implements `Alarm`.  Nothing is
assumed of the times: after the assertion has failed nothing moves (`Stopped`), and
until then (`FailsLast`) what is left of a time behind a node that was passed is positive, so that only an
empty list and a negative time make it fail.  The invariant `Inv` joins to the properties which local variables
are in use at which place (`Stages`), that the differences before each node sum up to
its time and all but the first are not negative (`TimesOK`), who may be dead
(`Living`), and what the walk of `cancelalltimeouts()` has behind it (`Walk`): it goes on
from an address, and an interrupt may have put a new node in front of it, so what it
must not lose is said by address and not by position.  The lemmas on `LinkBefore`,
`Unlink` and `RemoveAt` say what one list operation does to addresses, times and
requests; the step lemma of the refinement has one case per action.  `HoldersKept`, an
action property, needs `Grace`: `dispose_old_timeouts()` cuts `expire_list` at the
first old structure, which disposes of old ones only because the times on it fall,
and a process in `cancelalltimeouts()` has no pointers left to lose.

**AesLock.**  `TypeCorrect`, `NoSleeperForgotten`, `UpdateLockMine`, `MouseLockMine`,
`SecondLockFree`, `NoLockCycle`, `DeadLeaveNothing`.  The argument against deadlock is
that of ordered locks: `lock_screen()` takes the mouse lock first, so (`MouseFirst`) the
owner of the update lock is the owner of the mouse lock, and nobody ever sleeps for
the update lock if the locks are well used.  The counts of an owner must agree with
the record that `wind_update()` keeps, in every order of ends, exits and recoveries.

**Pipe.**  `TypeCorrect`, `CountsCorrect`, `NeverFreedInUse`, `LockStaysWithOwner`,
`NoSleeperForgotten`, `SelectToldEverything` and the refinement `ImplementsStream`. They
share one invariant, because each needs the others. The counts need that the close of
the head subtracts what its creation added (`HeadOK`), that nobody uses a fifo before it
is there (`BeforeOK`), and that VIRGIN_PIPE (0x7fff in the code) is more than all file
pointers together, which the assumption of `Pipe` states; that a fifo is not freed in
use follows from the counts and from who is in which call with which file pointer
(`CallsOK`); a lock belongs to a file pointer with one holder as long as nobody has
forked (`OneHolder`); `SelectMissesNothing` needs that the process noted in a ring is in
`Fselect()` there, or was killed there and has not closed the file yet (`Registered`).
The refinement rests on three lemmas about the ring buffer: what `pipe_write()` stores
is appended across the end of the buffer (`StoredLemma`), what `pipe_read()` fetches is
the front (`FetchedLemma`), and what stays begins behind it (`ForgottenLemma`); a fifo
that was freed is empty (`GoneEmpty`).

**Tcp.**  `TcpInvariant`, `TcpInOrder`, `TcpAckedKept`, `TcpEofRight`, `TcpNeverStuck`,
`TcpNoLostWakeup`: all five properties of the run, for every size of segment, window,
buffer and write, any number of segments on the way, and every order of loss, repetition and
delivery.  None of them is inductive, and each needs most of the others.  The invariant
`TInv` (module `TcpInv`) has three layers:

- *One host* (`HostOK`): the send queue is a chain without holes from what is not
  acknowledged to what was written (`SndOK`); a timer runs exactly as long as something is
  not acknowledged, in whichever of the four output states (`TimerOK`); no segment of the
  receive queue contains another, their bytes are at their places, and everything before
  `rcv_nxt`, and nothing at it, is there for the reader (`RcvOK`); what a program knows of
  its socket (`ProgOK`) and what a sleeper may rely on (`Sleepers`).
- *Two hosts and the network*: nobody has seen an acknowledgement of what the other has
  not received, in a segment on the way or in its own block (`Below`, `MsgOK`, `AcksOK`);
  each byte of a segment on the way is at its place or belongs to a window probe, whose
  byte lies before what was acknowledged (`AtPlace`).
- *The end*: there is one number for each direction at which the stream ends, for the FIN
  of the sender, on the way and at the receiver alike (`StreamEnd`).

The proof follows the code from the inside out.  Each operator for a function of
`tcpout.c`, `tcputil.c` and `tcpin.c` has a lemma that says what it makes of a block
(`Steps` for an event of the output machine, `Said` for what it sends); the handlers of the
states are put together from these, and one lemma per action joins a host's step with
the network.  A retransmission that overlaps the next segment and an acknowledgement
beyond `snd_nxt` (observation 5) are covered: they harm no property here.  That a block
that has stopped (`fatal`) does not act is the one thing assumed of it.

Only model-checked: liveness (`ReadyRuns`, `TimedGetReturns`, `OrphanReaped`), which is
out of reach of the prover.

## Disagreements

What modelling brought to light.  The runs leave these cases out, or the properties
name them as exceptions; none is stated as a run of its own.  Earlier instances of
`Sched`, `Psema` and `Pmsg` gave the counterexamples of the first four.

1. **Starvation with `KERN_SLICES=3`.**  The turns a process has to miss are restored
   by `reset_priorities()` every second; with slices of 3 ticks a process at -20
   never pays them off (`sched_fair` with `time_slice` 3).
2. **`Psemaphore(2, id, -1)` can fail with EACCES.**  `sleep()` returns early for a
   pending signal without setting `wait_cond`, which the caller takes for a timeout.
   So it does when a system call of the handler has changed it.  The timeout of a timed
   call then stays armed, and wakes a later sleep of the process, a vfork parent's
   included.  `EaccesIsTimeout` and `TimeoutsSpareOthers` say that there is no other way to
   either.
3. **The reply of `Pmsg()` mode 2 is lost** if the write had to wait: the code tests
   its local `mode`, the comment (`rendez.c`, before `dosleep`) says
   `curproc->mode`.
4. **A dead process can be made ready by `Pmsg()`**, after which `terminate()` halts
   the system.
5. **A TCP retransmission runs ahead of `snd_nxt`.**  `tcp_sndseg()` adds up to
   `TCP_MAXRETRY` bytes of the next segment (`tcpout.c:560-576`); the comment says "add the
   bytes and advance the send sequence pointer if necessary", but only
   `snd_max` is advanced.  An acknowledgement of those bytes puts `snd_una` beyond
   `snd_nxt`.  In LASTACK, where `tcp_ack()` does not send anew, the next timeout then
   calls `tcp_sndseg()` with a segment that ends before it starts (`tcpout.c:512-524`;
   the test that would catch it, 472-476, is disabled): a header without its
   options, which the peer drops, or a copy of a negative number of bytes.
   It takes a server that shuts down first, a client that writes more than a segment
   and closes, and losses in between.

Smaller ones, by component:

- *Pmsg, Wait, Sched:* a write/read with the non-blocking bit that finds a reader
  hands its message over and then returns -1 as if nothing had happened (`goto
  dosleep` after the rendezvous), so `ReadOnce` and `ReplyDoesNotBlock` fail with it and
  `pmsg_meet` leaves the call out; a zombie reported to its parent before its tracer,
  whose tracer then exits, is never freed; a resident process traced by its own parent
  is reported each time (the exception in `DeathToldOnce`); the stop of a tracee can be
  consumed by its parent; a tracer that ignores SIGCHLD sleeps over the death of its
  tracee, which a comment in `terminate()` asks about (the exception in
  `WaiterMissesNothing`); the idiom in the comment of `iwake()` (`proc.c:730`) keeps
  one pid per device and so supports one reader; the comment of `sleep()` on its
  return value says the opposite of the code.
- *vfork:* the comment at `k_fork.c:286-289` says that the sleep of the parent must not end
  before the child has released the memory and "that's why we mask off all signals"; line
  291 leaves SIGKILL unmasked.  It ends the sleep, and a handler for another pending
  signal may run in the memory of the child before the parent dies of it.
- *Timeout:* `canceltimeout()` with a pointer older than the grace time removes
  whatever timeout has the address now (`timeout.c:310`); a time of -2 ms, the
  "49 hours" of a comment in `rendez.c`, is negative and fails the assertion (137) if it finds the list empty; the
  walk over `expire_list` may go on along `tlist` when a node it stands on has been
  used again (about 278).
- *AesLock:* `recover()` frees the mouse lock only (`app_man.c:470`), and the exit of the
  old owner later frees that of the new one; an END_MCTRL too many releases a
  mouse lock that an update holds (`semaphores.c:287-293`), an END_UPDATE too many that
  of a BEG_MCTRL; a `lock_screen()` that only tries and fails frees a nested
  mouse lock altogether (215); a killed sleeper stays counted, which costs a needless
  wakeup; `wind_update()` is ignored for a traced process (`xa_wind.c:1909`).
- *Pipe:* a lock outlives its owner after a fork (`pipefs.c:1596`, against
  `Fcntl.2:101-103`); a fifo created O_RDONLY keeps a writer and is never erased; it may
  be freed under a sleeping writer; O_NDELAY is ignored for writes up to
  PIPE_BUF (878); EPIPE comes only when there is no room (864, 923); EINTR after a
  partial transfer loses the count (943, 1019); two writers or two readers may wake
  each other for ever; a flush does not wake who selects for writing (1345);
  `Fselect()` may return 0 without a timeout (`dosfile.c:677`).
- *Tcp:* LASTACK, CLOSING and FINWAIT2 never update the send window; `curdatalen`
  falls short when a segment covers the whole receive queue (comment at
  `tcpin.c:745`); a program's own `shutdown()` wakes no one asleep in `tcp_send()` or
  `tcp_recv()` (the exception in `NoLostWakeup`); a FIN in FINWAIT1 or FINWAIT2 wakes no
  reader; of two sleepers on a reset socket the first takes the error and the
  second reads the end of the data; FINWAIT2 is given up after `TCP_CONN_TMOUT` though
  the peer still sends; SYNRCVD accepts any acknowledgement; LASTACK and CLOSING
  leak the buffer of a segment; `tcbs_listen()` tests `tcb` where the new control block
  is meant (`tcpin.c:107`).

## Not modelled

In the modelled components: memory and swapping at the context switch, signal frames
and `sigreturn`, exit codes and resource usage, `Pmsg()` inside a handler that has
interrupted a `Pmsg()`, pgroup arguments of `Pwaitpid()`, the Fcntl interface to
tracing, SLBs; pseudo-terminals, `denyshare()`, several descriptors in one
`Fselect()`, and `Fpipe()`, which is made of sockets; the menu lock, which is only
tried; urgent data, options, simultaneous open, ICMP errors, memory shortage, select,
keepalive, the estimate of the round-trip time and the receive half of `shutdown()`
(SO_CANTRCVMORE, `tcp.c:698`, and the release of the socket for how = 2, `inet.c:520`) in
TCP.  A handler that interrupts a `Psemaphore()` calls no `Psemaphore()` itself.  In
`timeout.c` an interrupt handler does not come between the search, `newtimeout()` and the
insertion of another one (`timeout.c:171-192` drops the interrupt level there).

Not modelled at all are the components marked so in `PROJECT.json`.  Most of the
repository is drawing code and widgets of XaAES, on-disk formats, device drivers and
hardware access, packet formats, boot code, libraries and user programs: sequential
code over large data, in which the questions a model checker answers do not
arise.  Two hazards of the kernel core have no module yet: `dma_block()`
(`dma.c:319`) sleeps once, so a wakeup for another reason ends it before the
transfer, and a late `dma_deblock()` meets the next one; and drivers that follow the
one-pid idiom of `iwake()`.

## Plan

Done: `Sched`, `Psema`, `Pmsg`, `Wait`, `Timeout`, `AesLock`, `Pipe` and `Tcp` with proofs
of all their safety properties and of both refinements.  Left, in this order:

1. `Dma` with `iwake()` and a timeout; `k_semaphore`.
2. `Select` over several descriptors, with collisions; `Signal` with masks and
   `Psigpause`.
3. Unix stream sockets; links of file descriptors and memory regions.
