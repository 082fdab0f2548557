----------------------------- MODULE PmsgProofs -----------------------------
(***************************************************************************)
(* Proofs about Pmsg() for every set of processes, mailboxes and messages. *)
(*                                                                         *)
(* The properties rest on two facts about the process structure: only a    *)
(* process asleep in Pmsg() is on WAIT_Q, and a process that owes its      *)
(* partner a reply mailbox is still inside its call (or has died there).   *)
(***************************************************************************)
EXTENDS Pmsg, TLAPS

USE PmsgAssumption

\* The running process is the one on no queue.
CurrentOK == \A p \in Proc : curproc = p => wait_q[p] = "CURPROC_Q"

\* Where processes are while they wait.
WaitersOK == \A p \in Proc : wait_q[p] = "WAIT_Q" => pc[p] = "asleep"

\* A writer in mode 2 whose message has been read is a reader of its reply
\* mailbox, and cannot make another call before the reply has come.
Turned == \A p \in Proc : owed[p] =>
            /\ mb_mode[p] = 0 /\ mb_mbid[p] = p
            /\ pc[p] # "user"

\* Outside of Pmsg() the fields say that the last rendezvous has happened, or
\* that there was none.
Idle == \A p \in Proc : pc[p] = "user" =>
          mb_mode[p] = -1 \/ (mb_mode[p] = 0 /\ mb_mbid[p] = NullBox)

IInv == TypeOK /\ CurrentOK /\ WaitersOK /\ Idle /\ NoMissedRendezvous /\ RendezvousWakes

-----------------------------------------------------------------------------

LEMMA InitIInv == Init => IInv /\ Turned
BY DEF Init, IInv, TypeOK, CurrentOK, WaitersOK, Idle, NoMissedRendezvous, RendezvousWakes,
       Turned, InCall, Queues, Buffer, NoBuffer, Box

\* Steps that leave the rendezvous alone: they move processes between queues,
\* and calls between their states.
LEMMA Quiet ==
  ASSUME IInv, TypeOK', UNCHANGED <<mb_mode, mb_mbid, owed>>,
         \A x \in Proc : InCall(x)' => InCall(x),
         \A x \in Proc : curproc' = x => wait_q'[x] = "CURPROC_Q",
         \A x \in Proc : wait_q'[x] = "WAIT_Q" => wait_q[x] = "WAIT_Q" /\ pc'[x] = "asleep",
         \A x \in Proc : pc'[x] = "user" => pc[x] = "user"
  PROVE  IInv' /\ (Turned => Turned')
BY DEF IInv, CurrentOK, WaitersOK, Idle, NoMissedRendezvous, RendezvousWakes, Turned

LEMMA DispatchStep == ASSUME IInv, NEW p \in Proc, Dispatch(p) PROVE IInv' /\ (Turned => Turned')
<1> USE DEF Dispatch, mbVars, callVars, history, InCall
<1>1. TypeOK'
  BY DEF IInv, TypeOK, Queues
<1> QED
  BY <1>1, Quiet DEF IInv, TypeOK, WaitersOK

LEMMA YieldStep == ASSUME IInv, NEW p \in Proc, Yield(p) PROVE IInv' /\ (Turned => Turned')
<1> USE DEF Yield, mbVars, callVars, history, InCall
<1>1. TypeOK'
  BY DEF IInv, TypeOK, Queues
<1> QED
  BY <1>1, Quiet DEF IInv, TypeOK, WaitersOK

LEMMA PostSigStep == ASSUME IInv, NEW p \in Proc, PostSig(p) PROVE IInv' /\ (Turned => Turned')
<1> USE DEF PostSig, mbVars, callVars, history, InCall, Awake
<1>1. TypeOK'
  BY DEF IInv, TypeOK, Queues
<1> QED
  BY <1>1, Quiet DEF IInv, TypeOK, WaitersOK, CurrentOK, AtUser

LEMMA TakeSigStep == ASSUME IInv, NEW p \in Proc, TakeSig(p) PROVE IInv' /\ (Turned => Turned')
<1> USE DEF TakeSig, mbVars, callVars, history, InCall
<1>1. TypeOK'
  BY DEF IInv, TypeOK
<1> QED
  BY <1>1, Quiet DEF IInv, TypeOK, WaitersOK, CurrentOK

LEMMA HandlerSteps ==
  ASSUME IInv, NEW p \in Proc, HandlerSleep(p) \/ HandlerWake(p) \/ HandlerEnd(p)
  PROVE  IInv' /\ (Turned => Turned')
<1> USE DEF HandlerSleep, HandlerWake, HandlerEnd, mbVars, callVars, history, InCall, Awake
<1>1. TypeOK'
  BY DEF IInv, TypeOK, Queues
<1> QED
  BY <1>1, Quiet DEF IInv, TypeOK, WaitersOK, CurrentOK

LEMMA TerminateStep == ASSUME IInv, NEW p \in Proc, Terminate(p) PROVE IInv' /\ (Turned => Turned')
<1> USE DEF Terminate, mbVars, callVars, history, InCall
<1>1. TypeOK'
  BY DEF IInv, TypeOK, Queues
<1> QED
  BY <1>1, Quiet DEF IInv, TypeOK, WaitersOK, CurrentOK

-----------------------------------------------------------------------------
(* Pmsg()                                                                  *)

\* A read that finds a writer.
LEMMA ReadNowStep ==
  ASSUME IInv, NEW p \in Proc, NEW b \in Mbox \cup Proc, ReadNow(p, b)
  PROVE  IInv' /\ (Turned => Turned')
<1>0. PICK q \in Writers(b) :
       /\ nread' = [nread EXCEPT ![q] = @ + 1]
       /\ mb_mode' = [mb_mode EXCEPT ![q] = ModeRead(q)]
       /\ mb_mbid' = [mb_mbid EXCEPT ![q] = MbidRead(q)]
       /\ IF mb_mode[q] = 2
          THEN /\ owed' = [owed EXCEPT ![q] = TRUE]
               /\ UNCHANGED <<mb_writer, wait_q, due>>
          ELSE /\ mb_writer' = [mb_writer EXCEPT ![q] = p]
               /\ due' = [due EXCEPT ![q] = [msg |-> mb_msg[q], pid |-> p]]
               /\ wait_q' = Awake(q)
               /\ UNCHANGED owed
  BY DEF ReadNow
<1>1. /\ q \in Proc /\ mb_mode[q] \in {1, 2} /\ mb_mbid[q] = b
      /\ curproc = p /\ pc[p] = "user"
      /\ UNCHANGED <<curproc, pc, sig, mb_msg, first, mode, ptr, wrong>>
  BY DEF Writers, ReadNow, AtUser, callVars
<1>2. q # p /\ pc[q] # "user"
  BY <1>1 DEF IInv, Idle
<1>3. /\ ModeRead(q) \in {-1, 0} /\ MbidRead(q) \in Box
      /\ mb_mode[q] = 2 => ModeRead(q) = 0 /\ MbidRead(q) = q
      /\ mb_mode[q] # 2 => ModeRead(q) = -1 /\ MbidRead(q) = b
  BY <1>1 DEF ModeRead, MbidRead, Box
<1>4. TypeOK'
  <2>1. mb_mode' \in [Proc -> {-1, 0, 1, 2}]
    BY <1>0, <1>1, <1>3 DEF IInv, TypeOK
  <2>2. mb_mbid' \in [Proc -> Box]
    BY <1>0, <1>1, <1>3 DEF IInv, TypeOK
  <2>3. nread' \in [Proc -> Nat]
    BY <1>0, <1>1 DEF IInv, TypeOK
  <2>4. owed' \in [Proc -> BOOLEAN] /\ wait_q' \in [Proc -> Queues]
    BY <1>0, <1>1 DEF IInv, TypeOK, Awake, Queues
  <2>5. mb_writer' \in [Proc -> Proc \cup {NoProc}]
    BY <1>0, <1>1 DEF IInv, TypeOK
  <2>6. [msg |-> mb_msg[q], pid |-> p] \in Buffer
    BY <1>1 DEF IInv, TypeOK, Buffer
  <2>7. due' \in [Proc -> Buffer]
    BY <1>0, <1>1, <2>6 DEF IInv, TypeOK
  <2> QED
    BY <1>1, <2>1, <2>2, <2>3, <2>4, <2>5, <2>7 DEF IInv, TypeOK
<1> USE DEF IInv, TypeOK
<1>5. /\ \A x \in Proc \ {q} : /\ mb_mode'[x] = mb_mode[x] /\ mb_mbid'[x] = mb_mbid[x]
                               /\ owed'[x] = owed[x] /\ wait_q'[x] = wait_q[x]
      /\ \/ /\ mb_mode'[q] = 0 /\ mb_mbid'[q] = q /\ wait_q'[q] = wait_q[q]
         \/ /\ mb_mode'[q] = -1 /\ mb_mbid'[q] = b /\ wait_q'[q] = "READY_Q"
            /\ owed'[q] = owed[q]
  BY <1>0, <1>1, <1>3 DEF Awake
<1>6. CurrentOK' /\ WaitersOK' /\ Idle'
  BY <1>1, <1>2, <1>5 DEF CurrentOK, WaitersOK, Idle
<1>7. NoMissedRendezvous'
  BY <1>1, <1>5 DEF NoMissedRendezvous, InCall
<1>8. RendezvousWakes'
  BY <1>1, <1>5 DEF RendezvousWakes, InCall
<1>9. Turned => Turned'
  BY <1>1, <1>2, <1>5 DEF Turned
<1> QED
  BY <1>4, <1>6, <1>7, <1>8, <1>9

\* The sleep of a call: the caller is asleep on WAIT_Q, or runs a handler.
LEMMA Enters ==
  ASSUME IInv, NEW p \in Proc, curproc = p, NEW w, SleepMb(p), wait_q' = QueuedIf(w, p),
         w \in [Proc -> Queues], w[p] = "CURPROC_Q"
  PROVE  /\ wait_q' \in [Proc -> Queues] /\ sig' \in [Proc -> BOOLEAN]
         /\ pc' \in [Proc -> {"user", "asleep", "wakeup", "handler", "hsleep", "dead"}]
         /\ curproc' \in Proc \cup {NoProc}
         /\ \A x \in Proc \ {p} : pc'[x] = pc[x] /\ wait_q'[x] = w[x]
         /\ pc'[p] \in {"asleep", "handler"}
         /\ wait_q'[p] = "WAIT_Q" => pc'[p] = "asleep"
         /\ curproc' = p => wait_q'[p] = "CURPROC_Q"
         /\ curproc' \in {p, NoProc}
<1>1. CASE sig[p]
  BY <1>1, ZenonT(60) DEF IInv, TypeOK, SleepMb, QueuedIf, Queues
<1>2. CASE ~sig[p]
  <2>1. wait_q' = [w EXCEPT ![p] = "WAIT_Q"]
    BY <1>2 DEF QueuedIf
  <2>2. pc' = [pc EXCEPT ![p] = "asleep"] /\ curproc' = NoProc /\ UNCHANGED sig
    BY <1>2 DEF SleepMb
  <2> QED
    BY <2>1, <2>2 DEF IInv, TypeOK, Queues
<1> QED
  BY <1>1, <1>2

\* A call that has to wait.
LEMMA BlockStep ==
  ASSUME IInv, NEW p \in Proc, NEW b \in Mbox \cup Proc, NEW md \in {0, 1, 2},
         NEW noblock \in BOOLEAN, NEW m \in Msg, Block(p, b, md, noblock, m)
  PROVE  IInv' /\ (Turned => Turned')
<1> USE DEF history
<1>1. CASE noblock
  <2>1. UNCHANGED vars
    BY <1>1 DEF Block, vars, mbVars, callVars
  <2>2. TypeOK'
    BY <2>1 DEF IInv, TypeOK, vars
  <2> QED
    BY <2>1, <2>2, Quiet DEF vars, IInv, CurrentOK, WaitersOK, InCall
<1>2. CASE ~noblock
  <2>1. /\ curproc = p /\ pc[p] = "user"
        /\ IF md = 0 THEN Writers(b) = {} ELSE Readers(b) = {}
        /\ mb_mbid' = [mb_mbid EXCEPT ![p] = b]
        /\ mb_mode' = [mb_mode EXCEPT ![p] = md]
        /\ mb_msg' = IF md = 0 THEN mb_msg ELSE [mb_msg EXCEPT ![p] = m]
        /\ first' = [first EXCEPT ![p] = md] /\ mode' = [mode EXCEPT ![p] = md]
        /\ ptr' = [ptr EXCEPT ![p] = IF md = 0 THEN NoMsg ELSE m]
        /\ SleepMb(p) /\ wait_q' = QueuedIf(wait_q, p)
        /\ UNCHANGED <<mb_writer, due, nread, owed, wrong>>
    BY <1>2 DEF Block, AtUser, Enter
  <2>2. wait_q \in [Proc -> Queues] /\ wait_q[p] = "CURPROC_Q"
    BY <2>1 DEF IInv, TypeOK, CurrentOK
  <2>3. /\ wait_q' \in [Proc -> Queues] /\ sig' \in [Proc -> BOOLEAN]
        /\ pc' \in [Proc -> {"user", "asleep", "wakeup", "handler", "hsleep", "dead"}]
        /\ curproc' \in Proc \cup {NoProc}
        /\ \A x \in Proc \ {p} : pc'[x] = pc[x] /\ wait_q'[x] = wait_q[x]
        /\ pc'[p] \in {"asleep", "handler"}
        /\ wait_q'[p] = "WAIT_Q" => pc'[p] = "asleep"
        /\ curproc' = p => wait_q'[p] = "CURPROC_Q"
        /\ curproc' \in {p, NoProc}
    BY <2>1, <2>2, Enters
  <2>4. TypeOK'
    <3>1. mb_mbid' \in [Proc -> Box] /\ mb_mode' \in [Proc -> {-1, 0, 1, 2}]
      BY <2>1 DEF IInv, TypeOK, Box
    <3>2. mb_msg' \in [Proc -> Msg \cup {NoMsg}] /\ ptr' \in [Proc -> Msg \cup {NoMsg}]
      BY <2>1 DEF IInv, TypeOK
    <3>3. first' \in [Proc -> 0 .. 2] /\ mode' \in [Proc -> 0 .. 2]
      BY <2>1 DEF IInv, TypeOK
    <3> QED
      BY <2>1, <2>3, <3>1, <3>2, <3>3 DEF IInv, TypeOK
  <2> USE DEF IInv, TypeOK
  <2>5. CurrentOK' /\ WaitersOK' /\ Idle'
    BY <2>1, <2>3 DEF CurrentOK, WaitersOK, Idle
  <2>6. NoMissedRendezvous'
    BY <2>1, <2>3 DEF NoMissedRendezvous, InCall, Writers, Readers
  <2>7. RendezvousWakes'
    BY <2>1, <2>3 DEF RendezvousWakes, InCall
  <2>8. Turned => Turned'
    BY <2>1, <2>3 DEF Turned
  <2> QED
    BY <2>4, <2>5, <2>6, <2>7, <2>8
<1> QED
  BY <1>1, <1>2

\* A write that finds a reader.
LEMMA WriteNowStep ==
  ASSUME IInv, NEW p \in Proc, NEW b \in Mbox \cup Proc, NEW md \in {0, 1, 2},
         NEW noblock \in BOOLEAN, NEW m \in Msg, WriteNow(p, b, md, noblock, m)
  PROVE  IInv' /\ (Turned /\ ~(md = 2 /\ noblock) => Turned')
<1>1. /\ curproc = p /\ pc[p] = "user" /\ md \in {1, 2}
  BY DEF WriteNow, AtUser
<1>2. PICK q \in Readers(b) :
       /\ mb_msg' = Stored(q, m)
       /\ mb_writer' = [mb_writer EXCEPT ![q] = p]
       /\ due' = [due EXCEPT ![q] = [msg |-> m, pid |-> p]]
       /\ owed' = [owed EXCEPT ![q] = FALSE, ![p] = (md = 2)]
       /\ IF md = 1 \/ noblock
          THEN /\ mb_mode' = [mb_mode EXCEPT ![q] = -1]
               /\ wrong' = IF md = 2 THEN wrong \cup {"count"} ELSE wrong
               /\ wait_q' = Awake(q)
               /\ UNCHANGED <<curproc, pc, sig, mb_mbid, callVars, nread>>
          ELSE /\ mb_mode' = [mb_mode EXCEPT ![q] = -1, ![p] = 0]
               /\ mb_mbid' = [mb_mbid EXCEPT ![p] = p]
               /\ nread' = [nread EXCEPT ![p] = 1]
               /\ Enter(p, md, 0, m) /\ wait_q' = QueuedIf(Awake(q), p)
               /\ UNCHANGED wrong
  BY DEF WriteNow
<1>3. q \in Proc /\ mb_mode[q] = 0 /\ mb_mbid[q] = b
  BY DEF Readers
<1>4. q # p /\ pc[q] # "user"
  BY <1>1, <1>3 DEF IInv, Idle
<1>5. /\ mb_msg' \in [Proc -> Msg \cup {NoMsg}]
      /\ mb_writer' \in [Proc -> Proc \cup {NoProc}]
  BY <1>2, <1>3 DEF IInv, TypeOK, Stored
<1>6. due' \in [Proc -> Buffer]
  <2>1. [msg |-> m, pid |-> p] \in Buffer
    BY DEF Buffer
  <2> QED
    BY <1>2, <1>3, <2>1 DEF IInv, TypeOK
<1>7. /\ owed' \in [Proc -> BOOLEAN] /\ owed'[q] = FALSE /\ owed'[p] = (md = 2)
      /\ \A x \in Proc \ {p, q} : owed'[x] = owed[x]
  <2>1. (md = 2) \in BOOLEAN
    OBVIOUS
  <2> QED
    BY <1>2, <1>3, <1>4, <2>1 DEF IInv, TypeOK
<1>8. /\ Awake(q) \in [Proc -> Queues] /\ Awake(q)[p] = "CURPROC_Q"
      /\ Awake(q)[q] = "READY_Q" /\ \A x \in Proc \ {q} : Awake(q)[x] = wait_q[x]
  BY <1>1, <1>3, <1>4 DEF IInv, TypeOK, CurrentOK, Awake, Queues
<1>9. CASE md = 1 \/ noblock
  <2>1. /\ mb_mode' = [mb_mode EXCEPT ![q] = -1]
        /\ wrong' \in {wrong, wrong \cup {"count"}}
        /\ wait_q' = Awake(q)
        /\ UNCHANGED <<curproc, pc, sig, mb_mbid, first, mode, ptr, nread>>
    BY <1>2, <1>9 DEF callVars
  <2>2. TypeOK'
    <3>1. mb_mode' \in [Proc -> {-1, 0, 1, 2}]
      BY <2>1, <1>3 DEF IInv, TypeOK
    <3> QED
      BY <2>1, <1>5, <1>6, <1>7, <1>8, <3>1 DEF IInv, TypeOK
  <2> USE DEF IInv, TypeOK
  <2>3. CurrentOK' /\ WaitersOK' /\ Idle'
    BY <1>1, <1>3, <1>4, <1>8, <2>1 DEF CurrentOK, WaitersOK, Idle
  <2>4. NoMissedRendezvous'
    BY <1>3, <2>1 DEF NoMissedRendezvous, InCall
  <2>5. RendezvousWakes'
    BY <1>3, <1>8, <2>1 DEF RendezvousWakes, InCall
  <2>6. Turned /\ ~(md = 2 /\ noblock) => Turned'
    BY <1>3, <1>7, <1>9, <2>1 DEF Turned
  <2> QED
    BY <2>2, <2>3, <2>4, <2>5, <2>6
<1>10. CASE ~(md = 1 \/ noblock)
  <2>1. /\ mb_mode' = [mb_mode EXCEPT ![q] = -1, ![p] = 0]
        /\ mb_mbid' = [mb_mbid EXCEPT ![p] = p]
        /\ nread' = [nread EXCEPT ![p] = 1]
        /\ first' = [first EXCEPT ![p] = md] /\ mode' = [mode EXCEPT ![p] = 0]
        /\ ptr' = [ptr EXCEPT ![p] = m]
        /\ SleepMb(p) /\ wait_q' = QueuedIf(Awake(q), p)
        /\ UNCHANGED wrong
    BY <1>2, <1>10 DEF Enter
  <2>2. /\ wait_q' \in [Proc -> Queues] /\ sig' \in [Proc -> BOOLEAN]
        /\ pc' \in [Proc -> {"user", "asleep", "wakeup", "handler", "hsleep", "dead"}]
        /\ curproc' \in Proc \cup {NoProc}
        /\ \A x \in Proc \ {p} : pc'[x] = pc[x] /\ wait_q'[x] = Awake(q)[x]
        /\ pc'[p] \in {"asleep", "handler"}
        /\ wait_q'[p] = "WAIT_Q" => pc'[p] = "asleep"
        /\ curproc' = p => wait_q'[p] = "CURPROC_Q"
        /\ curproc' \in {p, NoProc}
    BY <1>1, <1>8, <2>1, Enters
  <2>3. TypeOK'
    <3>1. mb_mode' \in [Proc -> {-1, 0, 1, 2}] /\ mb_mbid' \in [Proc -> Box]
      BY <2>1, <1>3 DEF IInv, TypeOK, Box
    <3>2. ptr' \in [Proc -> Msg \cup {NoMsg}] /\ nread' \in [Proc -> Nat]
      BY <2>1 DEF IInv, TypeOK
    <3>3. first' \in [Proc -> 0 .. 2] /\ mode' \in [Proc -> 0 .. 2]
      BY <2>1, <1>1 DEF IInv, TypeOK
    <3> QED
      BY <2>1, <2>2, <1>5, <1>6, <1>7, <3>1, <3>2, <3>3 DEF IInv, TypeOK
  <2> USE DEF IInv, TypeOK
  <2>4. /\ mb_mode'[q] = -1 /\ mb_mode'[p] = 0 /\ mb_mbid'[p] = p
        /\ \A x \in Proc \ {p, q} : mb_mode'[x] = mb_mode[x]
        /\ \A x \in Proc \ {p} : mb_mbid'[x] = mb_mbid[x]
    BY <1>3, <1>4, <2>1
  <2>5. CurrentOK' /\ WaitersOK' /\ Idle'
    BY <1>1, <1>3, <1>4, <1>8, <2>2, <2>4 DEF CurrentOK, WaitersOK, Idle
  <2>6. NoMissedRendezvous'
    BY <1>3, <2>2, <2>4 DEF NoMissedRendezvous, InCall
  <2>7. RendezvousWakes'
    BY <1>3, <1>8, <2>2, <2>4 DEF RendezvousWakes, InCall
  <2>8. Turned => Turned'
    BY <1>3, <1>7, <2>2, <2>4 DEF Turned
  <2> QED
    BY <2>3, <2>5, <2>6, <2>7, <2>8
<1> QED
  BY <1>9, <1>10

\* The test of mb_mode after sleep().
LEMMA AgainStep == ASSUME IInv, NEW p \in Proc, Again(p) PROVE IInv' /\ (Turned => Turned')
<1>1. curproc = p /\ pc[p] = "wakeup" /\ UNCHANGED <<mb_mode, owed>>
  BY DEF Again
<1>2. CASE mb_mode[p] = -1
  <2>1. /\ wrong' = wrong \cup Faults(p)
        /\ pc' = [pc EXCEPT ![p] = "user"]
        /\ mb_mbid' = [mb_mbid EXCEPT ![p] = NullBox]
        /\ mb_msg' = [mb_msg EXCEPT ![p] = NoMsg]
        /\ mb_writer' = [mb_writer EXCEPT ![p] = NoProc]
        /\ first' = [first EXCEPT ![p] = 0] /\ mode' = [mode EXCEPT ![p] = 0]
        /\ ptr' = [ptr EXCEPT ![p] = NoMsg]
        /\ due' = [due EXCEPT ![p] = NoBuffer]
        /\ nread' = [nread EXCEPT ![p] = 0]
        /\ UNCHANGED <<curproc, wait_q, sig>>
    BY <1>2 DEF Again
  <2>2. TypeOK'
    <3>1. wrong' \subseteq {"message", "reply", "count"}
      BY <2>1 DEF IInv, TypeOK, Faults
    <3>2. NoBuffer \in Buffer /\ NullBox \in Box
      BY DEF NoBuffer, Buffer, Box
    <3>3. due' \in [Proc -> Buffer] /\ mb_mbid' \in [Proc -> Box]
      BY <2>1, <3>2 DEF IInv, TypeOK
    <3> QED
      BY <1>1, <2>1, <3>1, <3>3 DEF IInv, TypeOK
  <2> USE DEF IInv, TypeOK
  <2>3. CurrentOK' /\ WaitersOK' /\ Idle'
    BY <1>1, <1>2, <2>1 DEF CurrentOK, WaitersOK, Idle
  <2>4. NoMissedRendezvous'
    BY <1>1, <1>2, <2>1 DEF NoMissedRendezvous, InCall
  <2>5. RendezvousWakes'
    BY <1>1, <2>1 DEF RendezvousWakes, InCall
  <2>6. Turned => Turned'
    BY <1>1, <1>2, <2>1 DEF Turned
  <2> QED
    BY <2>2, <2>3, <2>4, <2>5, <2>6
<1>3. CASE mb_mode[p] # -1
  <2>1. /\ SleepMb(p) /\ wait_q' = QueuedIf(wait_q, p)
        /\ UNCHANGED <<mb_mbid, mb_msg, mb_writer, first, mode, ptr, due, nread, wrong>>
    BY <1>3 DEF Again, callVars
  <2>2. wait_q \in [Proc -> Queues] /\ wait_q[p] = "CURPROC_Q"
    BY <1>1 DEF IInv, TypeOK, CurrentOK
  <2>3. /\ wait_q' \in [Proc -> Queues] /\ sig' \in [Proc -> BOOLEAN]
        /\ pc' \in [Proc -> {"user", "asleep", "wakeup", "handler", "hsleep", "dead"}]
        /\ curproc' \in Proc \cup {NoProc}
        /\ \A x \in Proc \ {p} : pc'[x] = pc[x] /\ wait_q'[x] = wait_q[x]
        /\ pc'[p] \in {"asleep", "handler"}
        /\ wait_q'[p] = "WAIT_Q" => pc'[p] = "asleep"
        /\ curproc' = p => wait_q'[p] = "CURPROC_Q"
        /\ curproc' \in {p, NoProc}
    BY <1>1, <2>1, <2>2, Enters
  <2>4. TypeOK'
    BY <1>1, <2>1, <2>3 DEF IInv, TypeOK
  <2> USE DEF IInv, TypeOK
  <2>5. CurrentOK' /\ WaitersOK' /\ Idle'
    BY <1>1, <2>1, <2>3 DEF CurrentOK, WaitersOK, Idle
  <2>6. NoMissedRendezvous'
    BY <1>1, <2>1, <2>3 DEF NoMissedRendezvous, InCall
  <2>7. RendezvousWakes'
    BY <1>1, <1>3, <2>1, <2>3 DEF RendezvousWakes, InCall
  <2>8. Turned => Turned'
    BY <1>1, <2>1, <2>3 DEF Turned
  <2> QED
    BY <2>4, <2>5, <2>6, <2>7, <2>8
<1> QED
  BY <1>2, <1>3

-----------------------------------------------------------------------------
(* What is read, and what calls return.  The process structure of a caller is the
   only place where a rendezvous leaves its message, and other calls use the same
   fields: the count and the message of a call are right because nobody finds the
   caller as a writer twice, or as a reader once it has its message.          *)

\* The message of a call has been read once the call is no longer a writer.
Counted ==
  \A p \in Proc :
    /\ pc[p] = "user" \/ mb_mode[p] \in {1, 2} => nread[p] = 0
    /\ InCall(p) /\ first[p] # 0 /\ mb_mode[p] \in {0, -1} => nread[p] = 1
    /\ nread[p] <= 1

\* The fields of the process structure hold what the partner handed over, and those
\* of a plain write the message of its caller.
HandedOver ==
  \A p \in Proc : InCall(p) =>
    /\ mode[p] = 0 => mb_mode[p] \in {0, -1}
    /\ mode[p] = 1 => mb_mode[p] \in {1, -1} /\ mb_msg[p] = ptr[p]
    /\ mb_mode[p] = -1 => due[p] = [msg |-> mb_msg[p], pid |-> mb_writer[p]]

Exact == Counted /\ HandedOver /\ ReadsAndWritesAgree

\* Steps that leave the fields of the rendezvous alone.
LEMMA QuietExact ==
  ASSUME IInv, Exact, UNCHANGED <<mbVars, callVars, history>>,
         \A x \in Proc : InCall(x)' => InCall(x),
         \A x \in Proc : pc'[x] = "user" => pc[x] = "user"
  PROVE  Exact' /\ wrong' = wrong
<1>1. UNCHANGED <<mb_mode, mb_mbid, mb_msg, mb_writer, first, mode, ptr, due, nread, owed, wrong>>
  BY DEF mbVars, callVars, history
<1> QED
  BY <1>1 DEF Exact, Counted, HandedOver, ReadsAndWritesAgree

LEMMA QueueStepsExact ==
  ASSUME IInv, Exact, NEW p \in Proc,
         Dispatch(p) \/ Yield(p) \/ PostSig(p) \/ TakeSig(p)
           \/ HandlerSleep(p) \/ HandlerWake(p) \/ HandlerEnd(p) \/ Terminate(p)
  PROVE  Exact' /\ wrong' = wrong
<1>1. UNCHANGED <<mbVars, callVars, history>>
  BY DEF Dispatch, Yield, PostSig, TakeSig, HandlerSleep, HandlerWake, HandlerEnd, Terminate
<1>2. /\ \A x \in Proc \ {p} : pc'[x] = pc[x]
      /\ pc'[p] \in {"asleep", "wakeup", "handler", "hsleep"} =>
           pc[p] \in {"asleep", "wakeup", "handler", "hsleep"}
      /\ pc'[p] = "user" => pc[p] = "user"
  BY DEF Dispatch, Yield, PostSig, TakeSig, HandlerSleep, HandlerWake, HandlerEnd, Terminate,
         IInv, TypeOK
<1> QED
  BY <1>1, <1>2, QuietExact DEF InCall

\* A read that finds a writer: its message has not been read before.
LEMMA ReadNowExact ==
  ASSUME IInv, Exact, NEW p \in Proc, NEW b \in Mbox \cup Proc, ReadNow(p, b)
  PROVE  Exact' /\ wrong' = wrong
<1>0. PICK q \in Writers(b) :
       /\ nread' = [nread EXCEPT ![q] = @ + 1]
       /\ mb_mode' = [mb_mode EXCEPT ![q] = ModeRead(q)]
       /\ IF mb_mode[q] = 2
          THEN UNCHANGED <<mb_writer, due>>
          ELSE /\ mb_writer' = [mb_writer EXCEPT ![q] = p]
               /\ due' = [due EXCEPT ![q] = [msg |-> mb_msg[q], pid |-> p]]
  BY DEF ReadNow
<1>1. /\ q \in Proc /\ mb_mode[q] \in {1, 2} /\ mb_mbid[q] = b
      /\ UNCHANGED <<curproc, pc, sig, mb_msg, first, mode, ptr, wrong>>
  BY DEF Writers, ReadNow, AtUser, callVars
<1>2. pc[q] # "user" /\ nread[q] = 0
  BY <1>1 DEF IInv, Idle, Exact, Counted
<1> USE DEF IInv, TypeOK
<1>3. /\ \A x \in Proc \ {q} : /\ mb_mode'[x] = mb_mode[x] /\ mb_writer'[x] = mb_writer[x]
                               /\ due'[x] = due[x] /\ nread'[x] = nread[x]
      /\ nread'[q] = 1
      /\ \/ mb_mode[q] = 2 /\ mb_mode'[q] = 0
         \/ /\ mb_mode[q] = 1 /\ mb_mode'[q] = -1
            /\ mb_writer'[q] = p /\ due'[q] = [msg |-> mb_msg[q], pid |-> p]
  BY <1>0, <1>1, <1>2 DEF ModeRead
<1>4. Counted'
  BY <1>1, <1>2, <1>3 DEF Exact, Counted, InCall
<1>5. HandedOver'
  BY <1>1, <1>3 DEF Exact, HandedOver, InCall
<1> QED
  BY <1>1, <1>4, <1>5 DEF Exact, ReadsAndWritesAgree

\* A call that has to wait: nobody has read its message yet.
LEMMA BlockExact ==
  ASSUME IInv, Exact, NEW p \in Proc, NEW b \in Mbox \cup Proc, NEW md \in {0, 1, 2},
         NEW noblock \in BOOLEAN, NEW m \in Msg, Block(p, b, md, noblock, m)
  PROVE  Exact' /\ wrong' = wrong
<1>1. CASE noblock
  <2>1. UNCHANGED <<pc, mbVars, callVars, history>>
    BY <1>1 DEF Block
  <2> QED
    BY <2>1, QuietExact DEF InCall
<1>2. CASE ~noblock
  <2>1. /\ curproc = p /\ pc[p] = "user"
        /\ mb_mode' = [mb_mode EXCEPT ![p] = md]
        /\ mb_msg' = IF md = 0 THEN mb_msg ELSE [mb_msg EXCEPT ![p] = m]
        /\ first' = [first EXCEPT ![p] = md] /\ mode' = [mode EXCEPT ![p] = md]
        /\ ptr' = [ptr EXCEPT ![p] = IF md = 0 THEN NoMsg ELSE m]
        /\ SleepMb(p) /\ UNCHANGED <<mb_writer, due, nread, wrong>>
    BY <1>2 DEF Block, AtUser, Enter, history
  <2> USE DEF IInv, TypeOK
  <2>2. nread[p] = 0
    BY <2>1 DEF Exact, Counted
  <2>3. /\ \A x \in Proc \ {p} : /\ mb_mode'[x] = mb_mode[x] /\ mb_msg'[x] = mb_msg[x]
                                 /\ first'[x] = first[x] /\ mode'[x] = mode[x]
                                 /\ ptr'[x] = ptr[x] /\ pc'[x] = pc[x]
        /\ mb_mode'[p] = md /\ first'[p] = md /\ mode'[p] = md
        /\ md # 0 => mb_msg'[p] = m /\ ptr'[p] = m
        /\ pc'[p] # "user"
    BY <2>1 DEF SleepMb
  <2>4. Counted'
    BY <2>1, <2>2, <2>3 DEF Exact, Counted, InCall
  <2>5. HandedOver'
    BY <2>1, <2>3 DEF Exact, HandedOver, InCall
  <2> QED
    BY <2>1, <2>4, <2>5 DEF Exact, ReadsAndWritesAgree
<1> QED
  BY <1>1, <1>2

\* A write that finds a reader: a write/read goes on as a reader.
LEMMA WriteNowExact ==
  ASSUME IInv, Exact, NEW p \in Proc, NEW b \in Mbox \cup Proc, NEW md \in {0, 1, 2},
         NEW noblock \in BOOLEAN, NEW m \in Msg, WriteNow(p, b, md, noblock, m)
  PROVE  Exact' /\ (~(md = 2 /\ noblock) => wrong' = wrong)
<1>1. curproc = p /\ pc[p] = "user" /\ md \in {1, 2}
  BY DEF WriteNow, AtUser
<1>2. PICK q \in Readers(b) :
       /\ mb_msg' = Stored(q, m)
       /\ mb_writer' = [mb_writer EXCEPT ![q] = p]
       /\ due' = [due EXCEPT ![q] = [msg |-> m, pid |-> p]]
       /\ IF md = 1 \/ noblock
          THEN /\ mb_mode' = [mb_mode EXCEPT ![q] = -1]
               /\ wrong' = IF md = 2 THEN wrong \cup {"count"} ELSE wrong
               /\ UNCHANGED <<pc, callVars, nread>>
          ELSE /\ mb_mode' = [mb_mode EXCEPT ![q] = -1, ![p] = 0]
               /\ nread' = [nread EXCEPT ![p] = 1]
               /\ Enter(p, md, 0, m)
               /\ UNCHANGED wrong
  BY DEF WriteNow
<1>3. q \in Proc /\ mb_mode[q] = 0 /\ mb_mbid[q] = b
  BY DEF Readers
<1>4. q # p /\ pc[q] # "user"
  BY <1>1, <1>3 DEF IInv, Idle
<1> USE DEF IInv, TypeOK
<1>5. /\ mb_msg'[q] = m /\ mb_writer'[q] = p /\ due'[q] = [msg |-> m, pid |-> p]
      /\ \A x \in Proc \ {q} : /\ mb_msg'[x] = mb_msg[x] /\ mb_writer'[x] = mb_writer[x]
                               /\ due'[x] = due[x]
  BY <1>2, <1>3 DEF Stored
<1>6. CASE md = 1 \/ noblock
  <2>1. /\ mb_mode'[q] = -1 /\ \A x \in Proc \ {q} : mb_mode'[x] = mb_mode[x]
        /\ UNCHANGED <<pc, first, mode, ptr, nread>>
        /\ wrong' \subseteq wrong \cup {"count"}
    BY <1>2, <1>3, <1>6 DEF callVars
  <2>2. Counted'
    BY <1>3, <2>1 DEF Exact, Counted, InCall
  <2>3. HandedOver'
    BY <1>3, <1>5, <2>1 DEF Exact, HandedOver, InCall
  <2>4. ~(md = 2 /\ noblock) => wrong' = wrong
    BY <1>1, <1>2, <1>6
  <2> QED
    BY <2>1, <2>2, <2>3, <2>4 DEF Exact, ReadsAndWritesAgree
<1>7. CASE ~(md = 1 \/ noblock)
  <2>1. /\ mb_mode'[q] = -1 /\ mb_mode'[p] = 0 /\ nread'[p] = 1
        /\ first'[p] = 2 /\ mode'[p] = 0 /\ pc'[p] # "user"
        /\ \A x \in Proc \ {p} : /\ nread'[x] = nread[x] /\ pc'[x] = pc[x]
                                 /\ first'[x] = first[x] /\ mode'[x] = mode[x]
                                 /\ ptr'[x] = ptr[x]
        /\ \A x \in Proc \ {p, q} : mb_mode'[x] = mb_mode[x]
        /\ wrong' = wrong
    BY <1>1, <1>2, <1>3, <1>4, <1>7 DEF Enter, SleepMb
  <2>2. Counted'
    BY <1>3, <1>4, <2>1 DEF Exact, Counted, InCall
  <2>3. HandedOver'
    BY <1>3, <1>4, <1>5, <2>1 DEF Exact, HandedOver, InCall
  <2> QED
    BY <2>1, <2>2, <2>3 DEF Exact, ReadsAndWritesAgree
<1> QED
  BY <1>6, <1>7

\* A call that returns has the right count and partner, and the right message unless
\* it is a write/read that had to wait for its reader.
LEMMA NoFaults ==
  ASSUME IInv, Exact, NEW p \in Proc, InCall(p), mb_mode[p] = -1
  PROVE  "message" \notin Faults(p) /\ "count" \notin Faults(p)
<1>1. first[p] # 0 => nread[p] = 1
  BY DEF Exact, Counted
<1>2. due[p] = [msg |-> mb_msg[p], pid |-> mb_writer[p]]
  BY DEF Exact, HandedOver
<1>3. Result(p).pid = due[p].pid
  BY <1>2 DEF Result
<1>4. ASSUME mode[p] # 2 PROVE Result(p).msg = due[p].msg
  <2>1. mode[p] \in {0, 1}
    BY <1>4 DEF IInv, TypeOK
  <2>2. (IF mode[p] = 0 THEN mb_msg[p] ELSE ptr[p]) = mb_msg[p]
    BY <2>1 DEF Exact, HandedOver
  <2> QED
    BY <1>2, <2>2 DEF Result
<1> QED
  BY <1>1, <1>3, <1>4 DEF Faults

LEMMA AgainExact ==
  ASSUME IInv, Exact, NEW p \in Proc, Again(p)
  PROVE  Exact' /\ ("count" \in wrong' => "count" \in wrong)
<1>1. pc[p] = "wakeup" /\ UNCHANGED mb_mode
  BY DEF Again
<1> USE DEF IInv, TypeOK
<1>2. CASE mb_mode[p] = -1
  <2>1. /\ wrong' = wrong \cup Faults(p)
        /\ pc' = [pc EXCEPT ![p] = "user"]
        /\ mb_msg' = [mb_msg EXCEPT ![p] = NoMsg]
        /\ mb_writer' = [mb_writer EXCEPT ![p] = NoProc]
        /\ first' = [first EXCEPT ![p] = 0] /\ mode' = [mode EXCEPT ![p] = 0]
        /\ ptr' = [ptr EXCEPT ![p] = NoMsg]
        /\ due' = [due EXCEPT ![p] = NoBuffer]
        /\ nread' = [nread EXCEPT ![p] = 0]
    BY <1>2 DEF Again
  <2>2. "message" \notin Faults(p) /\ "count" \notin Faults(p)
    BY <1>1, <1>2, NoFaults DEF InCall
  <2>3. Counted'
    BY <1>1, <1>2, <2>1 DEF Exact, Counted, InCall
  <2>4. HandedOver'
    BY <1>1, <2>1 DEF Exact, HandedOver, InCall
  <2> QED
    BY <2>1, <2>2, <2>3, <2>4 DEF Exact, ReadsAndWritesAgree
<1>3. CASE mb_mode[p] # -1
  <2>1. SleepMb(p) /\ UNCHANGED <<mb_mbid, mb_msg, mb_writer, callVars, due, nread, wrong, owed>>
    BY <1>3 DEF Again
  <2>2. \A x \in Proc : /\ InCall(x)' => InCall(x)
                        /\ pc'[x] = "user" => pc[x] = "user"
    BY <1>1, <2>1 DEF SleepMb, InCall
  <2> QED
    BY <1>1, <2>1, <2>2, QuietExact DEF mbVars, history
<1> QED
  BY <1>2, <1>3

LEMMA NextExact ==
  ASSUME IInv, Exact, [Next]_vars
  PROVE  Exact' /\ (<<2, TRUE>> \notin Modes /\ "count" \in wrong' => "count" \in wrong)
<1>1. CASE UNCHANGED vars
  BY <1>1, QuietExact DEF vars, mbVars, callVars, history, InCall
<1>2. ASSUME NEW p \in Proc, Call(p)
      PROVE  Exact' /\ (<<2, TRUE>> \notin Modes => wrong' = wrong)
  <2>1. PICK b \in Mbox \cup Proc, c \in Modes, m \in Msg :
          ReadNow(p, b) \/ WriteNow(p, b, c[1], c[2], m) \/ Block(p, b, c[1], c[2], m)
    BY <1>2 DEF Call
  <2>2. c[1] \in {0, 1, 2} /\ c[2] \in BOOLEAN /\ c = <<c[1], c[2]>>
    OBVIOUS
  <2>3. <<2, TRUE>> \notin Modes => ~(c[1] = 2 /\ c[2])
    BY <2>2
  <2> QED
    BY <2>1, <2>2, <2>3, ReadNowExact, WriteNowExact, BlockExact
<1>3. ASSUME NEW p \in Proc,
             Dispatch(p) \/ Yield(p) \/ PostSig(p) \/ TakeSig(p)
               \/ HandlerSleep(p) \/ HandlerWake(p) \/ HandlerEnd(p) \/ Terminate(p)
      PROVE  Exact' /\ wrong' = wrong
  BY <1>3, QueueStepsExact
<1>4. ASSUME NEW p \in Proc, Again(p)
      PROVE  Exact' /\ ("count" \in wrong' => "count" \in wrong)
  BY <1>4, AgainExact
<1>5. CASE Next
  BY <1>2, <1>3, <1>4, <1>5 DEF Next
<1> QED
  BY <1>1, <1>5 DEF vars, history

-----------------------------------------------------------------------------

LEMMA NextIInv ==
  ASSUME IInv, [Next]_vars
  PROVE  IInv' /\ (Turned /\ <<2, TRUE>> \notin Modes => Turned')
<1>1. CASE UNCHANGED vars
  <2>1. TypeOK'
    BY <1>1 DEF vars, IInv, TypeOK
  <2> QED
    BY <1>1, <2>1, Quiet DEF vars, IInv, CurrentOK, WaitersOK, InCall
<1>2. ASSUME NEW p \in Proc, Call(p)
      PROVE  IInv' /\ (Turned /\ <<2, TRUE>> \notin Modes => Turned')
  <2>1. PICK b \in Mbox \cup Proc, c \in Modes, m \in Msg :
          ReadNow(p, b) \/ WriteNow(p, b, c[1], c[2], m) \/ Block(p, b, c[1], c[2], m)
    BY <1>2 DEF Call
  <2>2. c[1] \in {0, 1, 2} /\ c[2] \in BOOLEAN /\ c = <<c[1], c[2]>>
    OBVIOUS
  <2>3. <<2, TRUE>> \notin Modes => ~(c[1] = 2 /\ c[2])
    BY <2>2
  <2> QED
    BY <2>1, <2>2, <2>3, ReadNowStep, WriteNowStep, BlockStep
<1>3. ASSUME NEW p \in Proc,
             Again(p) \/ Dispatch(p) \/ Yield(p) \/ PostSig(p) \/ TakeSig(p)
               \/ HandlerSleep(p) \/ HandlerWake(p) \/ HandlerEnd(p) \/ Terminate(p)
      PROVE  IInv' /\ (Turned => Turned')
  BY <1>3, AgainStep, DispatchStep, YieldStep, PostSigStep, TakeSigStep, HandlerSteps,
     TerminateStep
<1> QED
  BY <1>1, <1>2, <1>3 DEF Next

LEMMA Inductive == Spec => []IInv
<1>1. Init => IInv
  BY InitIInv
<1>2. IInv /\ [Next]_vars => IInv'
  BY NextIInv
<1> QED
  BY <1>1, <1>2, PTL DEF Spec

\* The types of the fields of Pmsg().
THEOREM TypeCorrect == Spec => []TypeOK
<1>1. IInv => TypeOK
  BY DEF IInv
<1> QED
  BY <1>1, Inductive, PTL

\* A reader and a writer of one mailbox never both wait, but for a reader of
\* its own reply mailbox.
THEOREM NoneMissed == Spec => []NoMissedRendezvous
<1>1. IInv => NoMissedRendezvous
  BY DEF IInv
<1> QED
  BY <1>1, Inductive, PTL

\* Who has had a rendezvous is not asleep.
THEOREM PartnerWakes == Spec => []RendezvousWakes
<1>1. IInv => RendezvousWakes
  BY DEF IInv
<1> QED
  BY <1>1, Inductive, PTL

\* If write/reads may block, their senders wait at the reply mailbox until the
\* reply has come.
THEOREM ReplyAccepted ==
  ASSUME <<2, TRUE>> \notin Modes
  PROVE  Spec => []ReplyDoesNotBlock
<1>1. Init => IInv /\ Turned
  BY InitIInv
<1>2. (IInv /\ Turned) /\ [Next]_vars => (IInv /\ Turned)'
  BY NextIInv
<1>3. IInv /\ Turned => ReplyDoesNotBlock
  BY DEF Turned, ReplyDoesNotBlock, Readers
<1> QED
  BY <1>1, <1>2, <1>3, PTL DEF Spec

\* Whatever calls, signals and deaths come in between, a call that slept returns the
\* pid of its partner, and a read, a write, or a write/read whose reader was waiting
\* also the partner's message: only a write/read that had to wait for its reader
\* loses the message of the reply.
THEOREM PartnersAgree == Spec => []ReadsAndWritesAgree
<1>1. Init => IInv /\ Exact
  BY InitIInv DEF Init, Exact, Counted, HandedOver, ReadsAndWritesAgree, InCall
<1>2. (IInv /\ Exact) /\ [Next]_vars => (IInv /\ Exact)'
  BY NextIInv, NextExact
<1>3. Exact => ReadsAndWritesAgree
  BY DEF Exact
<1> QED
  BY <1>1, <1>2, <1>3, PTL DEF Spec

\* If write/reads may block, no message is read twice, and a write returns success
\* exactly when its message was read.
THEOREM EachReadOnce ==
  ASSUME <<2, TRUE>> \notin Modes
  PROVE  Spec => []ReadOnce
<1>1. Init => IInv /\ Exact /\ "count" \notin wrong
  BY InitIInv DEF Init, Exact, Counted, HandedOver, ReadsAndWritesAgree, InCall
<1>2. (IInv /\ Exact /\ "count" \notin wrong) /\ [Next]_vars
        => (IInv /\ Exact /\ "count" \notin wrong)'
  BY NextIInv, NextExact
<1>3. Exact /\ "count" \notin wrong => ReadOnce
  BY DEF Exact, Counted, ReadOnce
<1> QED
  BY <1>1, <1>2, <1>3, PTL DEF Spec
=============================================================================
