-------------------------------- MODULE Pmsg --------------------------------
(***************************************************************************)
(* Pmsg(), the rendezvous of sys/rendez.c: two processes that name the     *)
(* same mailbox, one to read and one to write, meet and exchange a message.*)
(* A mailbox is only a number in the process structures of those who wait. *)
(*                                                                         *)
(* As in Psema, a call is one step up to sleep() and one step from there   *)
(* on; between the two, timeouts aside, anything may happen to the process *)
(* structure: a partner, signals, a handler that sleeps itself, death.     *)
(***************************************************************************)
EXTENDS Integers, FiniteSets

CONSTANTS Proc, NoProc,
          Mbox,      \* mailbox ids that programs agree on
          NullBox,   \* mailbox 0, which a cleared process structure names
          Msg, NoMsg,
          Modes,     \* which calls are made: pairs of mode and "0x8000 set"
          Ops        \* which of "signal", "exit", "kill" happen

VARIABLES curproc, wait_q,
          pc,        \* "user", "asleep", "wakeup" (about to test mb_mode),
                     \* "handler", "hsleep" (asleep in a handler), "dead"
          sig,       \* a signal is pending
          mb_mode, mb_mbid, mb_msg, mb_writer,  \* in the process structure
          first,     \* the mode the current call was made with
          mode,      \* its local variable mode when it went to sleep
          ptr,       \* the message in the caller's buffer
          due,       \* what the partner of the rendezvous handed over
          nread,     \* how often the message of the current write was read
          owed,      \* a message of mode 2 was read, the reply is due
          wrong      \* what calls have returned that they should not have

vars == <<curproc, wait_q, pc, sig, mb_mode, mb_mbid, mb_msg, mb_writer, first,
          mode, ptr, due, nread, owed, wrong>>
mbVars   == <<mb_mode, mb_mbid, mb_msg, mb_writer>>
callVars == <<first, mode, ptr>>
history  == <<due, nread, owed, wrong>>

ASSUME PmsgAssumption ==
  /\ NoProc \notin Proc /\ Proc \cap (Mbox \cup {NullBox}) = {}
  /\ NullBox \notin Mbox
  /\ Modes \subseteq {0, 1, 2} \X BOOLEAN
  /\ Ops \subseteq {"signal", "exit", "kill"}

\* The reply mailbox 0xFFFF0000 | pid of process p is written p.
Box == Mbox \cup Proc \cup {NullBox}
Queues == {"CURPROC_Q", "READY_Q", "WAIT_Q", "IO_Q", "ZOMBIE_Q"}
Buffer == [msg : Msg \cup {NoMsg}, pid : Proc \cup {NoProc}]
NoBuffer == [msg |-> NoMsg, pid |-> NoProc]

\* A process structure starts out cleared, mb_mode and mb_mbid included, and
\* fork copies them.
Init ==
  /\ curproc = NoProc
  /\ wait_q = [p \in Proc |-> "READY_Q"]
  /\ pc = [p \in Proc |-> "user"] /\ sig = [p \in Proc |-> FALSE]
  /\ mb_mode = [p \in Proc |-> 0] /\ mb_mbid = [p \in Proc |-> NullBox]
  /\ mb_msg = [p \in Proc |-> NoMsg] /\ mb_writer = [p \in Proc |-> NoProc]
  /\ first = [p \in Proc |-> 0] /\ mode = [p \in Proc |-> 0]
  /\ ptr = [p \in Proc |-> NoMsg] /\ due = [p \in Proc |-> NoBuffer]
  /\ wrong = {}
  /\ nread = [p \in Proc |-> 0] /\ owed = [p \in Proc |-> FALSE]

-----------------------------------------------------------------------------
(* Scheduling and signals                                                  *)

\* Waiting in a Pmsg() call, perhaps in a signal handler meanwhile.
InCall(p) == pc[p] \in {"asleep", "wakeup", "handler", "hsleep"}

AtUser(p) == curproc = p /\ pc[p] = "user"

\* A ready process gets the CPU and continues after its sleep(), if it was in
\* one.
Dispatch(p) ==
  /\ curproc = NoProc /\ wait_q[p] = "READY_Q"
  /\ curproc' = p /\ wait_q' = [wait_q EXCEPT ![p] = "CURPROC_Q"]
  /\ pc' = [pc EXCEPT ![p] = CASE @ = "asleep" -> "wakeup"
                               [] @ = "hsleep" -> "handler"
                               [] OTHER -> @]
  /\ UNCHANGED <<sig, mbVars, callVars, history>>

\* Preemption, in user mode or in a handler.
Yield(p) ==
  /\ curproc = p /\ pc[p] \in {"user", "handler"} /\ (pc[p] = "user" => ~sig[p])
  /\ curproc' = NoProc /\ wait_q' = [wait_q EXCEPT ![p] = "READY_Q"]
  /\ UNCHANGED <<pc, sig, mbVars, callVars, history>>

\* A process is moved to the ready queue if it is not there already.
Awake(q) == [wait_q EXCEPT ![q] = "READY_Q"]

\* post_sig() of a signal that is not masked.  A process that is not running
\* and in no call takes its signals before it makes one; while the handler
\* of a signal runs, the signal is masked.
PostSig(p) ==
  /\ "signal" \in Ops /\ ~sig[p] /\ (pc[p] = "asleep" \/ AtUser(p))
  /\ sig' = [sig EXCEPT ![p] = TRUE]
  /\ wait_q' = IF curproc = p THEN wait_q ELSE Awake(p)
  /\ UNCHANGED <<curproc, pc, mbVars, callVars, history>>

\* check_sigs(), at the end of sleep() or on the way to user mode.
TakeSig(p) ==
  /\ curproc = p /\ pc[p] \in {"wakeup", "user"} /\ sig[p]
  /\ sig' = [sig EXCEPT ![p] = FALSE]
  /\ pc' = IF pc[p] = "wakeup" THEN [pc EXCEPT ![p] = "handler"] ELSE pc
  /\ UNCHANGED <<curproc, wait_q, mbVars, callVars, history>>

\* A system call of the handler sleeps on a queue of its own.
HandlerSleep(p) ==
  /\ curproc = p /\ pc[p] = "handler"
  /\ pc' = [pc EXCEPT ![p] = "hsleep"]
  /\ curproc' = NoProc /\ wait_q' = [wait_q EXCEPT ![p] = "IO_Q"]
  /\ UNCHANGED <<sig, mbVars, callVars, history>>

HandlerWake(p) ==
  /\ wait_q[p] = "IO_Q" /\ wait_q' = Awake(p)
  /\ UNCHANGED <<curproc, pc, sig, mbVars, callVars, history>>

HandlerEnd(p) ==
  /\ curproc = p /\ pc[p] = "handler"
  /\ pc' = [pc EXCEPT ![p] = "wakeup"]
  /\ UNCHANGED <<curproc, wait_q, sig, mbVars, callVars, history>>

\* terminate(), called by the process or instead of a handler.  It does not
\* touch the mb_ fields, and the process stays on proclist.
Terminate(p) ==
  /\ curproc = p
  /\ \/ "exit" \in Ops /\ pc[p] = "user"
     \/ "kill" \in Ops /\ pc[p] = "handler"
  /\ pc' = [pc EXCEPT ![p] = "dead"]
  /\ curproc' = NoProc /\ wait_q' = [wait_q EXCEPT ![p] = "ZOMBIE_Q"]
  /\ UNCHANGED <<sig, mbVars, callVars, history>>

-----------------------------------------------------------------------------
(* Pmsg                                                                    *)

\* Mutant: a writer in mode 2 is overlooked.
WritersOne(b) == {q \in Proc : mb_mode[q] = 1 /\ mb_mbid[q] = b}

\* The processes of proclist that write to, or read from, mailbox b.  The
\* code takes the first one on the list, the model any.
Writers(b) == {q \in Proc : mb_mode[q] \in {1, 2} /\ mb_mbid[q] = b}
Readers(b) == {q \in Proc : mb_mode[q] = 0 /\ mb_mbid[q] = b}

\* sleep(WAIT_Q, WAIT_MB): with a signal pending, the handler runs at once.
SleepMb(p) ==
  IF sig[p]
  THEN /\ pc' = [pc EXCEPT ![p] = "handler"]
       /\ sig' = [sig EXCEPT ![p] = FALSE]
       /\ UNCHANGED curproc
  ELSE /\ pc' = [pc EXCEPT ![p] = "asleep"]
       /\ curproc' = NoProc /\ UNCHANGED sig

QueuedIf(w, p) == IF sig[p] THEN w ELSE [w EXCEPT ![p] = "WAIT_Q"]

\* Mutant: the rendezvous of a writer in mode 1 is not marked.
ModeReadUnmarked(q) == IF mb_mode[q] = 2 THEN 0 ELSE mb_mode[q]

\* Mutant: a writer that is turned around still names the mailbox it wrote to.
MbidReadKept(q) == mb_mbid[q]

\* mb_mode and mb_mbid of a writer q whose message has been read.  In mode 2
\* it becomes a reader of its reply mailbox.
ModeRead(q) == IF mb_mode[q] = 2 THEN 0 ELSE -1
MbidRead(q) == IF mb_mode[q] = 2 THEN q ELSE mb_mbid[q]

\* Mode 0, a writer waits: take its message and return 0; a writer of mode 1
\* is woken, one of mode 2 sleeps on.
ReadNow(p, b) ==
  /\ AtUser(p)
  /\ \E q \in Writers(b) :
       /\ nread' = [nread EXCEPT ![q] = @ + 1]
       /\ mb_mode' = [mb_mode EXCEPT ![q] = ModeRead(q)]
       /\ mb_mbid' = [mb_mbid EXCEPT ![q] = MbidRead(q)]
       /\ IF mb_mode[q] = 2
          THEN /\ owed' = [owed EXCEPT ![q] = TRUE]
               /\ UNCHANGED <<mb_writer, wait_q, due>>
          ELSE /\ mb_writer' = [mb_writer EXCEPT ![q] = p]
               /\ due' = [due EXCEPT ![q] = [msg |-> mb_msg[q], pid |-> p]]
               /\ wait_q' = Awake(q)
               /\ UNCHANGED owed
  /\ UNCHANGED <<curproc, pc, sig, mb_msg, callVars, wrong>>

\* Mutant: the message is not copied into the reader's process structure.
StoredNot(q, m) == mb_msg

Stored(q, m) == [mb_msg EXCEPT ![q] = m]

\* Process p goes to sleep with the arguments and locals of its call.
Enter(p, md, mode0, m) ==
  /\ first' = [first EXCEPT ![p] = md] /\ mode' = [mode EXCEPT ![p] = mode0]
  /\ ptr' = [ptr EXCEPT ![p] = m]
  /\ SleepMb(p)

\* Modes 1 and 2, a reader waits: give it the message.  In mode 1 the call is
\* over, in mode 2 the caller sleeps as a reader of its reply mailbox, or
\* returns -1 if it must not block.
WriteNow(p, b, md, noblock, m) ==
  /\ AtUser(p) /\ md \in {1, 2}
  /\ \E q \in Readers(b) :
       /\ mb_msg' = Stored(q, m)
       /\ mb_writer' = [mb_writer EXCEPT ![q] = p]
       /\ due' = [due EXCEPT ![q] = [msg |-> m, pid |-> p]]
       /\ owed' = [owed EXCEPT ![q] = FALSE, ![p] = (md = 2)]
       /\ IF md = 1 \/ noblock
          THEN /\ mb_mode' = [mb_mode EXCEPT ![q] = -1]
               /\ wrong' = IF md = 2 THEN wrong \cup {"count"} ELSE wrong
               /\ wait_q' = Awake(q)
               /\ UNCHANGED <<curproc, pc, sig, mb_mbid, callVars, nread>>
          ELSE /\ mb_mode' = [mb_mode EXCEPT ![q] = -1, ![p] = 0]
               /\ mb_mbid' = [mb_mbid EXCEPT ![p] = p]
               /\ nread' = [nread EXCEPT ![p] = 1]
               /\ Enter(p, md, 0, m) /\ wait_q' = QueuedIf(Awake(q), p)
               /\ UNCHANGED wrong

\* Nobody waits at the other end: sleep, unless the call must not block.
Block(p, b, md, noblock, m) ==
  /\ AtUser(p)
  /\ IF md = 0 THEN Writers(b) = {} ELSE Readers(b) = {}
  /\ IF noblock
     THEN UNCHANGED <<curproc, wait_q, pc, sig, mbVars, callVars>>
     ELSE /\ mb_mbid' = [mb_mbid EXCEPT ![p] = b]
          /\ mb_mode' = [mb_mode EXCEPT ![p] = md]
          /\ mb_msg' = IF md = 0 THEN mb_msg ELSE [mb_msg EXCEPT ![p] = m]
          /\ Enter(p, md, md, IF md = 0 THEN NoMsg ELSE m)
          /\ wait_q' = QueuedIf(wait_q, p)
          /\ UNCHANGED mb_writer
  /\ UNCHANGED history

\* What the returning call of p leaves in its buffer, and what is wrong with
\* it: another message or pid than the partner's, or a count other than one.
\* The wrong "reply" does happen: a write/read that had to wait for its reader still
\* has 2 in its own variable mode, which the code tests after sleep().
Result(p) == [msg |-> IF mode[p] = 0 THEN mb_msg[p] ELSE ptr[p],
              pid |-> mb_writer[p]]
Faults(p) ==
  {f \in {"message", "reply", "count"} :
     CASE f = "message" -> \/ Result(p).pid # due[p].pid
                           \/ (mode[p] # 2 /\ Result(p).msg # due[p].msg)
       [] f = "reply"   -> mode[p] = 2 /\ Result(p).msg # due[p].msg
       [] f = "count"   -> first[p] # 0 /\ nread[p] # 1}

\* The loop around sleep(): mb_mode tells whether a rendezvous has happened.
\* The fields nobody reads before they are written again are cleared here.
Again(p) ==
  /\ curproc = p /\ pc[p] = "wakeup" /\ ~sig[p]
  /\ IF mb_mode[p] = -1
     THEN /\ wrong' = wrong \cup Faults(p)
          /\ pc' = [pc EXCEPT ![p] = "user"]
          /\ mb_mbid' = [mb_mbid EXCEPT ![p] = NullBox]
          /\ mb_msg' = [mb_msg EXCEPT ![p] = NoMsg]
          /\ mb_writer' = [mb_writer EXCEPT ![p] = NoProc]
          /\ first' = [first EXCEPT ![p] = 0] /\ mode' = [mode EXCEPT ![p] = 0]
          /\ ptr' = [ptr EXCEPT ![p] = NoMsg]
          /\ due' = [due EXCEPT ![p] = NoBuffer]
          /\ nread' = [nread EXCEPT ![p] = 0]
          /\ UNCHANGED <<curproc, wait_q, sig>>
     ELSE /\ SleepMb(p) /\ wait_q' = QueuedIf(wait_q, p)
          /\ UNCHANGED <<mb_mbid, mb_msg, mb_writer, callVars, due, nread, wrong>>
  /\ UNCHANGED <<mb_mode, owed>>

-----------------------------------------------------------------------------

Call(p) ==
  \E b \in Mbox \cup Proc, c \in Modes, m \in Msg :
    \/ c[1] = 0 /\ ReadNow(p, b)
    \/ WriteNow(p, b, c[1], c[2], m)
    \/ Block(p, b, c[1], c[2], m)

Next == \E p \in Proc :
          \/ Call(p) \/ Again(p) \/ Dispatch(p) \/ Yield(p)
          \/ PostSig(p) \/ TakeSig(p) \/ HandlerSleep(p) \/ HandlerWake(p)
          \/ HandlerEnd(p) \/ Terminate(p)

Spec == Init /\ [][Next]_vars

-----------------------------------------------------------------------------
(* Properties                                                              *)

TypeOK ==
  /\ curproc \in Proc \cup {NoProc} /\ wait_q \in [Proc -> Queues]
  /\ pc \in [Proc -> {"user", "asleep", "wakeup", "handler", "hsleep", "dead"}]
  /\ sig \in [Proc -> BOOLEAN]
  /\ mb_mode \in [Proc -> {-1, 0, 1, 2}] /\ mb_mbid \in [Proc -> Box]
  /\ mb_msg \in [Proc -> Msg \cup {NoMsg}]
  /\ mb_writer \in [Proc -> Proc \cup {NoProc}]
  /\ first \in [Proc -> 0 .. 2] /\ mode \in [Proc -> 0 .. 2]
  /\ ptr \in [Proc -> Msg \cup {NoMsg}] /\ due \in [Proc -> Buffer]
  /\ wrong \subseteq {"message", "reply", "count"}
  /\ nread \in [Proc -> Nat] /\ owed \in [Proc -> BOOLEAN]

\* A reader and a writer of one mailbox never both wait: whoever comes second
\* completes the rendezvous, through turnarounds, signals and handlers.  The
\* comment of rendez.c excepts the reply mailbox of a reader in mode 2 ("So
\* you lose: this situation is timing sensitive").
NoMissedRendezvous ==
  \A p, q \in Proc :
    InCall(p) /\ InCall(q) /\ mb_mode[p] = 0 /\ mb_mode[q] \in {1, 2}
      /\ mb_mbid[p] = mb_mbid[q] => mb_mbid[p] = p

\* A process whose rendezvous has happened is not left asleep, even if the
\* partner came while a signal handler had it awake or asleep elsewhere.
RendezvousWakes ==
  \A p \in Proc : InCall(p) /\ mb_mode[p] = -1 => wait_q[p] # "WAIT_Q"

\* A message is read once if its write succeeds, and not at all if the write
\* returns -1 (Pmsg.2: -1 if the call would have to block).
ReadOnce == "count" \notin wrong /\ \A p \in Proc : nread[p] <= 1

\* A call that slept leaves the message and the pid of its partner in the caller's
\* buffer: "On return from writes, the short is the PID of the process that read
\* your message.  On return from reads, it's the PID of the writer."  So it is for
\* the reply to a write/read too, except that the message of the reply is lost if
\* the write/read had to wait for its reader.
ReadsAndWritesAgree == "message" \notin wrong

\* "The process reading the original request is guaranteed not to block when
\* writing the reply": the sender waits at its reply mailbox until then.
ReplyDoesNotBlock ==
  \A p \in Proc : owed[p] => p \in Readers(p)
=============================================================================
