-------------------------------- MODULE Wait --------------------------------
(***************************************************************************)
(* The life and death of processes: fork, terminate() and pwaitpid() of    *)
(* k_exit.c, stop() and the posting of signals of signal.c, and the        *)
(* tracing of ptrace.c as far as it decides who is told of whose death.    *)
(*                                                                         *)
(* The kernel is not preempted, so a system call is one step up to its     *)
(* sleep().  A process on READY_Q may be the running one; which of them    *)
(* runs next is left open (Sched is about that).                           *)
(***************************************************************************)
EXTENDS Integers, FiniteSets

CONSTANTS Proc,
          Root,      \* process 0, MiNT itself
          Init1,     \* the first process, its child
          NoPid,     \* the ppid -1
          Nobody,    \* the ptracer 0
          AnyPid,    \* the argument -1 of Pwaitpid()
          Ignoring,  \* processes that ignore SIGCHLD
          NoCldStop, \* processes that set SA_NOCLDSTOP
          Signals,   \* the signals that processes send each other
          Waits,     \* the arguments of the calls of Pwaitpid()
          Ops        \* which of "trace", "tsr", "handler" happen

VARIABLES wait_q,    \* the queue of each process, "none" for a free slot;
                     \* on STOP_Q, wait_cond = 0 ("seen") once waited for
          ppid, ptracer,
          sigpending,
          held,      \* stop() has masked the maskable signals
          call,      \* "user"; "pwaitpid" in that system call; "signal" if
                     \* signals are handled in the middle of it
          arg,       \* its argument pid and bit 1 of nohang
          known,     \* somebody was told of the death of a process
          told,      \* who was told of it, and has not attached to it since
          twice      \* processes whose death someone was told of twice

vars == <<wait_q, ppid, ptracer, sigpending, held, call, arg, known, told, twice>>
callVars == <<call, arg>>
history  == <<known, told, twice>>

ASSUME WaitAssumption ==
  /\ Root \in Proc /\ Init1 \in Proc \ {Root}
  /\ {NoPid, Nobody, AnyPid} \cap Proc = {} /\ NoPid # Nobody
  /\ Ignoring \subseteq Proc \ {Root} /\ NoCldStop \subseteq Proc
  /\ Signals \subseteq {"KILL", "TERM", "STOP", "CONT"}
  /\ Waits \subseteq [pid : Proc \cup {AnyPid}, untraced : BOOLEAN]
  /\ Ops \subseteq {"trace", "tsr", "handler"}

Queues == {"none", "READY_Q", "WAIT_Q", "STOP_Q", "STOP_Q seen",
           "ZOMBIE_Q", "TSR_Q"}
Sigs == {"NULL", "KILL", "TERM", "STOP", "CONT", "CHLD"}
Args == [pid : Proc \cup {AnyPid}, untraced : BOOLEAN]
AnyChild == [pid |-> AnyPid, untraced |-> FALSE]

Exists(p) == wait_q[p] # "none"
Dead(p)   == wait_q[p] \in {"ZOMBIE_Q", "TSR_Q"}
Alive(p)  == Exists(p) /\ ~Dead(p)
Stopped(p) == wait_q[p] \in {"STOP_Q", "STOP_Q seen"}

Init ==
  /\ wait_q = [p \in Proc |-> IF p \in {Root, Init1} THEN "READY_Q" ELSE "none"]
  /\ ppid = [p \in Proc |-> IF p = Init1 THEN Root ELSE NoPid]
  /\ ptracer = [p \in Proc |-> Nobody]
  /\ sigpending = [p \in Proc |-> {}]
  /\ held = [p \in Proc |-> FALSE]
  /\ call = [p \in Proc |-> "user"] /\ arg = [p \in Proc |-> AnyChild]
  /\ known = [p \in Proc |-> FALSE] /\ told = [p \in Proc |-> {}] /\ twice = {}

-----------------------------------------------------------------------------
(* Signals                                                                 *)

\* Signals that stop() does not mask for a process that is not traced.
Unmaskable == {"NULL", "KILL", "STOP", "CONT"}
Unmasked(p) == IF held[p] THEN Unmaskable ELSE Sigs

\* What post_sig() drops: signals for the dead, and a SIGCHLD that is ignored
\* by a process that is not traced.  Process 0 never looks at its signals.
Dropped(p, s) == ~Alive(p) \/ (s = "CHLD" /\ p \in Ignoring /\ ptracer[p] = Nobody)

\* post_sig() for a set of pairs of a process and a signal, on top of a set
\* of processes that are moved to READY_Q anyway.
Pended(S) == [p \in Proc |-> sigpending[p] \cup
                {s \in Sigs : <<p, s>> \in S /\ ~Dropped(p, s) /\ p # Root}]
Roused(S) == {p \in Proc : \E s \in Unmasked(p) : <<p, s>> \in S /\ ~Dropped(p, s)}
MadeReady(W) == [p \in Proc |-> IF p \in W /\ Alive(p) THEN "READY_Q" ELSE wait_q[p]]

Post(S, W) == sigpending' = Pended(S) /\ wait_q' = MadeReady(Roused(S) \cup W)

\* A process runs its own code, or a handler, only after check_sigs() has
\* dealt with its signals.
Runs(p) == p # Root /\ wait_q[p] = "READY_Q" /\ sigpending[p] = {} /\ ~held[p]
AtUser(p) == Runs(p) /\ call[p] = "user"

\* Pkill().
Kill(p, q) ==
  /\ AtUser(p) /\ q # Root
  /\ \E s \in Signals \ sigpending[q] :
       /\ s \in {"KILL", "STOP"} => q # Init1
       /\ Alive(q) /\ Post({<<q, s>>}, {})
  /\ UNCHANGED <<ppid, ptracer, held, callVars, history>>

\* Mutant: the parent is left to be woken by its SIGCHLD.
WaiterNever(q) == {}

\* The process whose pid is q, if it sleeps in Pwaitpid().
Waiter(q) == {p \in Proc : p = q /\ wait_q[p] = "WAIT_Q" /\ call[p] = "pwaitpid"}

\* stop(): tell the tracer or else the parent, then sleep on STOP_Q.  If other
\* signals are pending, sleep() deals with them instead and returns.
Stop(p, s) ==
  LET par  == {q \in {ppid[p]} \cap Proc : q \notin NoCldStop}
      S    == IF ptracer[p] # Nobody THEN {<<ptracer[p], "CHLD">>}
                                     ELSE {<<q, "CHLD">> : q \in par}
      W    == IF ptracer[p] # Nobody THEN {} ELSE UNION {Waiter(q) : q \in par}
      mask == held[p] \/ ptracer[p] = Nobody
      left == sigpending[p] \ {s, "NULL"}
      down == left \cap (IF mask THEN Unmaskable ELSE Sigs) = {}
  IN /\ sigpending' = [Pended(S) EXCEPT ![p] = IF down THEN left ELSE left \ {"STOP"}]
     /\ wait_q' = [MadeReady(Roused(S) \cup W) EXCEPT ![p] = IF down THEN "STOP_Q" ELSE @]
     /\ held' = [held EXCEPT ![p] = IF down THEN mask ELSE @]
     /\ UNCHANGED <<ppid, ptracer, callVars, history>>

-----------------------------------------------------------------------------
(* Death                                                                   *)

\* Mutant: children that are dead already are not a reason to wake MiNT.
WakeMintNever(p) == {}

\* wakemint: MiNT inherits dead children of p.
WakeMint(p) == {r \in {Root} : \E q \in Proc : wait_q[q] = "ZOMBIE_Q" /\ ppid[q] = p}

\* Mutant: tracees keep a tracer that is gone.
UntracedNot(p) == ptracer

\* ppid and ptracer after the death of p.
Adopted(p) == [q \in Proc |-> IF ppid[q] = p /\ Exists(q) THEN Root ELSE ppid[q]]
Untraced(p) == [q \in Proc |-> IF ptracer[q] = p THEN Nobody ELSE ptracer[q]]

\* terminate(): tell the parent and the tracer, give the children to MiNT,
\* end the traces, and sleep forever.
Terminate(p, que) ==
  LET par == IF ppid[p] \in Proc THEN ppid[p] ELSE Root
      S   == {<<q, "CHLD">> : q \in {par} \cup ({ptracer[p]} \cap Proc)}
               \cup {<<q, "TERM">> : q \in {t \in Proc : ptracer[t] = p}}
  IN /\ sigpending' = [Pended(S) EXCEPT ![p] = {}]
     /\ wait_q' = [MadeReady(Roused(S) \cup Waiter(par) \cup WakeMint(p))
                     EXCEPT ![p] = que]
     /\ ppid' = Adopted(p) /\ ptracer' = Untraced(p)
     /\ held' = [held EXCEPT ![p] = FALSE] /\ call' = [call EXCEPT ![p] = "user"]
     /\ arg' = [arg EXCEPT ![p] = AnyChild]
     /\ UNCHANGED history

\* Pterm() and Ptermres().
Exit(p) == AtUser(p) /\ p # Init1 /\ Terminate(p, "ZOMBIE_Q")
TermRes(p) == "tsr" \in Ops /\ AtUser(p) /\ p # Init1 /\ Terminate(p, "TSR_Q")

\* The signals check_sigs() looks at: all of them if the process is traced, for
\* its tracer is told of masked ones too.
Visible(p) ==
  sigpending[p] \cap (IF ptracer[p] = Nobody \/ "NULL" \in sigpending[p]
                      THEN Unmasked(p) ELSE Sigs)

\* The signal numbers, by which check_sigs() goes; SIGNULL only marks the others.
Number == [KILL |-> 9, TERM |-> 15, STOP |-> 17, CONT |-> 19, CHLD |-> 20, NULL |-> 32]

\* handle_sig(), once the signals of done are no longer pending.  The first
\* process has a handler for SIGTERM; handlers are steps of the process.
HandleSig(p, s, done) ==
  CASE s = "KILL" \/ (s = "TERM" /\ p # Init1) -> Terminate(p, "ZOMBIE_Q")
    [] s = "STOP" -> Stop(p, "STOP")
    [] OTHER -> /\ sigpending' = [sigpending EXCEPT ![p] = @ \ done]
                /\ UNCHANGED <<wait_q, ppid, ptracer, held, callVars, history>>

\* check_sigs(): the first pending signal, or all of them if the tracer has
\* sent SIGNULL along; otherwise a traced process stops for every signal but
\* SIGKILL and SIGCONT.  A process that wakes up in Pwaitpid() looks for
\* children first (do_wakeup_things()).
CheckSigs(p) ==
  /\ p # Root /\ wait_q[p] = "READY_Q" /\ call[p] # "pwaitpid"
  /\ \E s \in Visible(p) :
       /\ \A t \in Visible(p) : Number[s] <= Number[t]
       /\ \/ /\ ptracer[p] # Nobody /\ "NULL" \notin sigpending[p]
             /\ s \notin {"KILL", "CONT"} /\ Stop(p, s)
          \/ /\ ptracer[p] = Nobody \/ "NULL" \in sigpending[p] \/ s \in {"KILL", "CONT"}
             /\ HandleSig(p, s, IF "NULL" \in sigpending[p] THEN Visible(p) ELSE {s})

\* A stopped process has been woken: stop() restores the mask and discards
\* the stop signals.
Resume(p) ==
  /\ wait_q[p] = "READY_Q" /\ held[p] /\ Visible(p) = {}
  /\ held' = [held EXCEPT ![p] = FALSE]
  /\ UNCHANGED <<wait_q, ppid, ptracer, sigpending, callVars, history>>

-----------------------------------------------------------------------------
(* Birth, and waiting for death                                            *)

\* Pfork() into a free slot.
Fork(p, c) ==
  /\ AtUser(p) /\ ~Exists(c)
  /\ wait_q' = [wait_q EXCEPT ![c] = "READY_Q"]
  /\ ppid' = [ppid EXCEPT ![c] = p] /\ ptracer' = [ptracer EXCEPT ![c] = Nobody]
  /\ sigpending' = [sigpending EXCEPT ![c] = {}]
  /\ twice' = twice \ {c}
  /\ UNCHANGED <<held, callVars, known, told>>

\* The children and tracees of p that pwaitpid() is asked for, and those of
\* them it can report.
Family(p, a) == {c \in Proc : /\ Exists(c) /\ (ppid[c] = p \/ ptracer[c] = p)
                              /\ a.pid \in {AnyPid, c}}
Reportable(p, a) ==
  {c \in Family(p, a) :
     Dead(c) \/ (wait_q[c] = "STOP_Q" /\ (a.untraced \/ ptracer[c] # Nobody))}

Done(p) == call' = [call EXCEPT ![p] = "user"] /\ arg' = [arg EXCEPT ![p] = AnyChild]

\* Parent and tracer of c differ and p is the first of them to be told.
Shared(p, c) == /\ ptracer[c] # Nobody /\ ptracer[c] # ppid[c]
                /\ (p = ptracer[c] => ppid[c] # NoPid)

\* Mutant: the parent that was told before the tracer remains the parent.
ParentKept(p, c) == IF Shared(p, c) THEN ppid[c] ELSE NoPid

\* What is left of c when p has been told of its death: the trace is over, or
\* the parent out of the way, and the last of the two frees the process or, if
\* it is resident, forgets its parent.
ParentAfter(p, c) == IF Shared(p, c) /\ p = ptracer[c] THEN ppid[c] ELSE NoPid
Freed(p, c) == ~Shared(p, c) /\ wait_q[c] = "ZOMBIE_Q"
Buried(p, c) ==
  /\ ptracer' = [ptracer EXCEPT ![c] = IF @ = p /\ p # ppid[c] THEN Nobody ELSE @]
  /\ ppid' = [ppid EXCEPT ![c] = ParentAfter(p, c)]
  /\ wait_q' = [wait_q EXCEPT ![c] = IF Freed(p, c) THEN "none" ELSE @]

\* The rest of pwaitpid(), once it has found c.
Report(p, c) ==
  /\ IF Stopped(c)
     THEN /\ wait_q' = [wait_q EXCEPT ![c] = "STOP_Q seen"]
          /\ UNCHANGED <<ppid, ptracer, history>>
     ELSE /\ Buried(p, c)
          /\ known' = [known EXCEPT ![c] = ~Freed(p, c)]
          /\ told' = [told EXCEPT ![c] = IF Freed(p, c) THEN {} ELSE @ \cup {p}]
          /\ twice' = IF p \in told[c] THEN twice \cup {c} ELSE twice
  /\ UNCHANGED <<sigpending, held>>

\* One round of the loop of pwaitpid().  The code reports the first process
\* of proclist, the model any.  With nothing to report it sleeps, or sleep()
\* deals with pending signals and returns.
Scan(p, a) ==
  \/ \E c \in Reportable(p, a) : Report(p, c) /\ Done(p)
  \/ /\ Reportable(p, a) = {} /\ Family(p, a) # {}
     /\ IF sigpending[p] = {}
        THEN /\ wait_q' = [wait_q EXCEPT ![p] = "WAIT_Q"]
             /\ call' = [call EXCEPT ![p] = "pwaitpid"]
        ELSE UNCHANGED wait_q /\ call' = [call EXCEPT ![p] = "signal"]
     /\ arg' = [arg EXCEPT ![p] = a]
     /\ UNCHANGED <<ppid, ptracer, sigpending, held, history>>
  \/ /\ Family(p, a) = {} /\ Done(p)      \* ENOENT
     /\ UNCHANGED <<wait_q, ppid, ptracer, sigpending, held, history>>

Pwaitpid(p, a) == AtUser(p) /\ Scan(p, a)
WaitAgain(p) ==
  /\ p # Root /\ wait_q[p] = "READY_Q" /\ ~held[p]
  /\ call[p] = "pwaitpid" \/ (call[p] = "signal" /\ sigpending[p] = {})
  /\ Scan(p, arg[p])

\* Pwaitpid(-1, 1), perhaps in a handler that has interrupted a Pwaitpid().
Pwait3(p) ==
  /\ Runs(p) /\ call[p] # "pwaitpid" /\ (call[p] = "signal" => "handler" \in Ops)
  /\ \E c \in Reportable(p, AnyChild) : Report(p, c)
  /\ UNCHANGED callVars

\* Process 0 waits in a loop.  It sleeps on WAIT_Q when nobody is dead, and
\* sleep() runs it when no other process is ready.
RootMayRun == wait_q[Root] = "READY_Q" \/ \A p \in Proc : wait_q[p] # "READY_Q"
RootReap ==
  /\ RootMayRun /\ \E c \in Reportable(Root, AnyChild) : Report(Root, c)
  /\ UNCHANGED callVars
RootSleep ==
  /\ wait_q[Root] = "READY_Q" /\ Reportable(Root, AnyChild) = {}
  /\ wait_q' = [wait_q EXCEPT ![Root] = "WAIT_Q"]
  /\ UNCHANGED <<ppid, ptracer, sigpending, held, callVars, history>>

-----------------------------------------------------------------------------
(* Tracing                                                                 *)

\* Ptrace(PT_ATTACH).  Nothing keeps it from a process that is dead.
Attach(p, t) ==
  /\ "trace" \in Ops /\ AtUser(p)
  /\ t \notin {p, Root} /\ Exists(t) /\ ptracer[t] = Nobody
  /\ ptracer' = [ptracer EXCEPT ![t] = p]
  /\ IF t = Init1 THEN UNCHANGED <<sigpending, wait_q>> ELSE Post({<<t, "STOP">>}, {})
  /\ told' = [told EXCEPT ![t] = @ \ {p}]
  /\ UNCHANGED <<ppid, held, callVars, known, twice>>

\* Ptrace(PT_TRACE_ME).
TraceMe(p) ==
  /\ "trace" \in Ops /\ AtUser(p) /\ ppid[p] \in Proc
  /\ ptracer' = [ptracer EXCEPT ![p] = ppid[p]]
  /\ UNCHANGED <<wait_q, ppid, sigpending, held, callVars, history>>

Traces(p, t) == AtUser(p) /\ ptracer[t] = p /\ Stopped(t)

\* Ptrace(PT_CONTINUE), without a signal or with one to be delivered.
Continue(p, t) ==
  /\ Traces(p, t)
  /\ sigpending' \in {[sigpending EXCEPT ![t] = s] : s \in {{}, {"TERM", "NULL"}}}
  /\ wait_q' = MadeReady({t})
  /\ UNCHANGED <<ppid, ptracer, held, callVars, history>>

\* Ptrace(PT_DETACH) and Ptrace(PT_KILL).
LetGo(p, t) ==
  /\ Traces(p, t)
  /\ ptracer' = [ptracer EXCEPT ![t] = Nobody]
  /\ \/ /\ sigpending' = [sigpending EXCEPT ![t] = (@ \ {"STOP"}) \cup {"CONT"}]
        /\ wait_q' = MadeReady({t})
     \/ IF t = Init1 THEN UNCHANGED <<sigpending, wait_q>> ELSE Post({<<t, "KILL">>}, {})
  /\ UNCHANGED <<ppid, held, callVars, history>>

-----------------------------------------------------------------------------

Next ==
  \/ RootReap \/ RootSleep
  \/ \E p \in Proc :
       \/ CheckSigs(p) \/ Resume(p) \/ Exit(p) \/ TermRes(p)
       \/ WaitAgain(p) \/ Pwait3(p) \/ TraceMe(p)
       \/ \E a \in Waits : Pwaitpid(p, a)
       \/ \E q \in Proc : Kill(p, q) \/ Fork(p, q) \/ Attach(p, q)
                            \/ Continue(p, q) \/ LetGo(p, q)

Spec == Init /\ [][Next]_vars

\* MiNT gets the CPU when it is ready, or when nobody else is.
LiveSpec == Spec /\ WF_vars(RootReap)

-----------------------------------------------------------------------------
(* Properties                                                              *)

TypeOK ==
  /\ wait_q \in [Proc -> Queues]
  /\ ppid \in [Proc -> Proc \cup {NoPid}] /\ ptracer \in [Proc -> Proc \cup {Nobody}]
  /\ sigpending \in [Proc -> SUBSET Sigs]
  /\ held \in [Proc -> BOOLEAN]
  /\ call \in [Proc -> {"user", "pwaitpid", "signal"}] /\ arg \in [Proc -> Args]
  /\ known \in [Proc -> BOOLEAN] /\ told \in [Proc -> SUBSET Proc]
  /\ twice \subseteq Proc

\* The pid in ppid and the pointer in ptracer never lead to a dead process or
\* to one whose structure pwaitpid() has freed: terminate() has reset them.
FamilyAlive ==
  \A c \in Proc : Exists(c) =>
    /\ ppid[c] = NoPid \/ Alive(ppid[c])
    /\ ptracer[c] = Nobody \/ Alive(ptracer[c])

\* Nobody sleeps in Pwaitpid() over a child that has died, whether SIGCHLD is
\* ignored or not ("processes that are ignoring SIGCHLD but are waiting for
\* us"), nor over the death or the stop of a process it traces unless it
\* ignores SIGCHLD ("BUG: should we ensure curproc->ptracer is awake ?").
WaiterMissesNothing ==
  \A p \in Proc : wait_q[p] = "WAIT_Q" /\ call[p] = "pwaitpid" =>
    \A c \in Reportable(p, arg[p]) :
      /\ ~(Dead(c) /\ ppid[c] = p)
      /\ ptracer[c] = p => p \in Ignoring

\* As long as nobody was told of the death of a process, a living process can
\* still wait for it: parents and tracers that come, go and die never leave a
\* dead process unreported.
UntoldHasParent ==
  \A c \in Proc : Dead(c) /\ ~known[c] => ppid[c] # NoPid

\* Nobody is told twice of one death.  The exception are resident processes: if
\* the parent of one traces it, its ppid is reset and its ptracer is not.
NotToldTwice == \A c \in twice : wait_q[c] = "TSR_Q"

\* "similarly a terminated process will be reported only once" (Pwait3.2), to
\* the parent and to the tracer, and to somebody it can be reported.
DeathToldOnce == UntoldHasParent /\ NotToldTwice

\* MiNT frees the dead children it has inherited: terminate() wakes it, or it
\* runs in the end because nobody else does.
OrphanReaped ==
  \A c \in Proc :
    (wait_q[c] = "ZOMBIE_Q" /\ ppid[c] = Root /\ ptracer[c] = Nobody)
      ~> (wait_q[c] = "none" \/ ptracer[c] # Nobody)
=============================================================================
