-------------------------------- MODULE Pipe --------------------------------
(***************************************************************************)
(* A fifo in U:\PIPE (src/sys/pipefs.c) with the part of Fselect()           *)
(* (dosfile.c) and do_close() (k_fds.c) that it needs: the file descriptor    *)
(* of its creator, the head, writes to the ring buffer inp and reads from     *)
(* outp; the others do the opposite.  Pseudo-terminals are left out.          *)
(*                                                                           *)
(* The kernel is not preemptive, so one action is a system call up to its     *)
(* end or to the sleep() in it, or what follows that sleep().                *)
(***************************************************************************)
EXTENDS Integers, Sequences, FiniteSets

CONSTANTS
  Proc,         \* processes
  Nobody,       \* no process
  New,          \* processes that come into being by fork()
  File,         \* file pointers
  Server,       \* the one with O_HEAD
  Attrs,        \* the attributes and modes the fifo may be created with, and the
                \* operations and byte counts that its users then try
  Modes,        \* the modes it may be opened with
  MaxFiles,     \* bound on the file pointers a process opens
  PipeSiz,      \* PIPESIZ
  PipeBuf,      \* PIPE_BUF
  VirginPipe    \* VIRGIN_PIPE

End == {"inp", "outp"}
Mode == {"r", "w", "rw"}
Op == {"ndelay", "fork", "lock", "select", "flush", "signal"}

ASSUME PipeAssumption ==
  /\ Nobody \notin Proc /\ New \subseteq Proc
  /\ Server \in File /\ IsFiniteSet(File)
  /\ Attrs \subseteq [hidden : BOOLEAN, oneway : BOOLEAN, unix : BOOLEAN, mode : Mode,
                     ops : SUBSET Op, lengths : SUBSET (Nat \ {0})]
  /\ Modes \subseteq Mode
  /\ MaxFiles \in Nat
  /\ PipeSiz \in Nat /\ PipeBuf \in 1..PipeSiz
  /\ VirginPipe \in Nat /\ VirginPipe > Cardinality(File) + 1

VARIABLES
  fifo,     \* whether the fifo is on the list of piperoot
  attr,     \* dosflags, the mode of the server, and what is tried
  pipe,     \* readers, writers, start, len, rsel and wsel of inp and outp
  buf,      \* their contents, as far as they have not been read
  file,     \* who has the file pointer, and its flags
  lock,     \* O_LOCK of the fifo, and lockpid
  pc,       \* the system call a process is in
  job,      \* its arguments
  asleep,   \* processes asleep in it
  out       \* the bytes that the last step copied to a reader

vars == <<fifo, attr, pipe, buf, file, lock, pc, job, asleep, out>>
procs == <<pc, job>>

Byte == Nat \X Nat
Empty == <<0, 0>>
Blank == [i \in 0..(PipeSiz - 1) |-> Empty]
\* `missed' records that a process in Fselect() was not told of a change; no
\* action looks at it.
Job(f, left, n, dir) == [f |-> f, left |-> left, n |-> n, dir |-> dir, missed |-> FALSE]
NoJob == Job(Server, 0, 0, "none")
Closed == [holders |-> {}, mode |-> "r", ndelay |-> FALSE, lock |-> FALSE]

Fresh(r, w) == [readers |-> r, writers |-> w, start |-> 0, len |-> 0,
                rsel |-> Nobody, wsel |-> Nobody]

Init ==
  /\ fifo = "none"
  /\ attr \in Attrs
  /\ pipe = [e \in End |-> Fresh(0, 0)]
  /\ buf = [e \in End |-> Blank]
  /\ file = [f \in File |-> Closed]
  /\ lock = [on |-> FALSE, pid |-> Nobody]
  /\ pc = [p \in Proc |-> IF p \in New /\ "fork" \in attr.ops THEN "new" ELSE "user"]
  /\ job = [p \in Proc |-> NoJob]
  /\ asleep = {}
  /\ out = <<>>

Min2(a, b) == IF a < b THEN a ELSE b

\* The ring buffer that a file pointer writes to, and the one it reads from.
Wr(f) == IF f = Server THEN "inp" ELSE "outp"
Rd(f) == IF f = Server THEN "outp" ELSE "inp"
Exists(e) == e = "inp" \/ ~attr.oneway

-----------------------------------------------------------------------------
(* Wakeups.  Readers and writers of a ring buffer sleep on the same          *)
(* condition.                                                              *)

Channel(p) == IF pc[p] = "read" THEN Rd(job[p].f) ELSE Wr(job[p].f)

OnPipe(e) == {p \in asleep : pc[p] \in {"read", "write"} /\ Channel(p) = e}
OnLock == {p \in asleep : pc[p] = "setlk"}
OnColl == {p \in asleep : pc[p] = "coll"}

\* pipe_wake_readers() and pipe_wake_writers(), where there is data or room.
WakeReaders(e) == OnPipe(e) \cup {pipe[e].rsel}
WakeWriters(e) == OnPipe(e) \cup {pipe[e].wsel}

\* The call of p ends, or it goes to sleep in it.
Return(p) == pc' = [pc EXCEPT ![p] = "user"] /\ job' = [job EXCEPT ![p] = NoJob]

Stay(p, call, j) == pc' = [pc EXCEPT ![p] = call] /\ job' = [job EXCEPT ![p] = j]

Calls(p, f) == pc[p] = "user" /\ p \in file[f].holders /\ fifo = "live"

-----------------------------------------------------------------------------
(* Creating and opening.                                                   *)

\* pipe_creat() and pipe_open(): selfread unless the attribute is "hidden".
Create(p, nd) ==
  /\ fifo = "none" /\ pc[p] = "user"
  /\ fifo' = "live"
  /\ pipe' = [e \in End |-> IF ~Exists(e) THEN Fresh(0, 0)
                            ELSE IF e = "inp" THEN Fresh(IF attr.hidden THEN VirginPipe ELSE 1, 1)
                            ELSE Fresh(1, IF attr.hidden THEN VirginPipe ELSE 1)]
  /\ file' = [file EXCEPT ![Server] =
                [holders |-> {p}, mode |-> attr.mode, ndelay |-> nd, lock |-> FALSE]]
  /\ out' = <<>>
  /\ UNCHANGED <<attr, buf, lock, procs, asleep>>

\* Counting on from the magic value.
MoreCounted(n) == n + 1

\* The first opener ends the magic value.
More(n) == IF n = VirginPipe THEN 1 ELSE n + 1

\* O_NDELAY may be set.
Ndelay == IF "ndelay" \in attr.ops THEN BOOLEAN ELSE {FALSE}

Reads(mode) == mode \in {"r", "rw"}
Writes(mode) == mode \in {"w", "rw"}

\* pipe_open() of another file pointer, which inherits O_LOCK.
Open(p, f, mode, nd) ==
  /\ fifo = "live" /\ pc[p] = "user" /\ f # Server /\ file[f].holders = {}
  /\ Cardinality({g \in File : p \in file[g].holders}) < MaxFiles
  /\ pipe' = [pipe EXCEPT
       !["inp"].readers = IF Reads(mode) THEN More(@) ELSE @,
       !["outp"].writers = IF Writes(mode) /\ Exists("outp") THEN More(@) ELSE @]
  /\ file' = [file EXCEPT ![f] =
                [holders |-> {p}, mode |-> mode, ndelay |-> nd, lock |-> lock.on]]
  /\ out' = <<>>
  /\ UNCHANGED <<fifo, attr, buf, lock, procs, asleep>>

\* fork() shares the file pointers.
Fork(p, q) ==
  /\ "fork" \in attr.ops /\ pc[p] = "user" /\ pc[q] = "new"
  /\ pc' = [pc EXCEPT ![q] = "user"]
  /\ file' = [f \in File |-> IF p \in file[f].holders
                             THEN [file[f] EXCEPT !.holders = @ \cup {q}] ELSE file[f]]
  /\ out' = <<>>
  /\ UNCHANGED <<fifo, attr, pipe, buf, lock, job, asleep>>

-----------------------------------------------------------------------------
(* The ring buffers.                                                       *)

\* The bytes that are in a ring buffer.
Wrap(i) == IF i >= PipeSiz THEN i - PipeSiz ELSE i
Contents(e) == [i \in 1..pipe[e].len |-> buf[e][Wrap(pipe[e].start + i - 1)]]

\* Bytes i to n of a message of n bytes.
Part(i, n) == [k \in 1..(n + 1 - i) |-> <<i + k - 1, n>>]

\* pipe_write() copies m bytes of s: up to the end of the buffer, and the others
\* to its beginning.
Stored(e, s, m) ==
  LET at == Wrap(pipe[e].start + pipe[e].len)
      j  == Min2(PipeSiz - at, m)
  IN  [i \in 0..(PipeSiz - 1) |->
         IF at <= i /\ i < at + j THEN s[i - at + 1]
         ELSE IF i < m - j THEN s[j + i + 1]
         ELSE buf[e][i]]

\* pipe_read() does the same in the other direction.
Fetched(e, m) ==
  LET j == Min2(PipeSiz - pipe[e].start, m)
  IN  [i \in 1..m |-> buf[e][IF i <= j THEN pipe[e].start + i - 1 ELSE i - j - 1]]

Forgotten(e, m) ==
  [i \in 0..(PipeSiz - 1) |->
     IF \E k \in 0..(m - 1) : i = Wrap(pipe[e].start + k) THEN Empty ELSE buf[e][i]]

StartAfter(e, m) ==
  LET j == Min2(PipeSiz - pipe[e].start, m)
      s == IF m > j THEN m - j ELSE pipe[e].start + j
  IN  IF pipe[e].len = m \/ s = PipeSiz THEN 0 ELSE s

-----------------------------------------------------------------------------
(* Writing and reading.                                                    *)

Broken(e) == pipe[e].readers \in {0, VirginPipe}

\* A short message in pieces.
RoomAny(e, left, n) == Min2(PipeSiz - pipe[e].len, left)

\* How many of the next `left' bytes pipe_write() copies at once: a short
\* message waits until all of it fits.
Room(e, left, n) ==
  LET r == PipeSiz - pipe[e].len
  IN  IF n <= PipeBuf /\ r < left THEN 0 ELSE Min2(r, left)

\* pipe_write() from its beginning or from behind sleep().
WriteStep(p, f, left, n) ==
  LET e == Wr(f)
      m == Room(e, left, n)
  IN  /\ buf' = [buf EXCEPT ![e] = Stored(e, Part(n + 1 - left, n), m)]
      /\ pipe' = [pipe EXCEPT ![e].len = @ + m]
      /\ \/ /\ m = left
            /\ Return(p)
            /\ asleep' = asleep \ (WakeReaders(e) \cup {p})
         \/ \* broken pipe: SIGPIPE, which is caught or not
            /\ m < left /\ Broken(e)
            /\ \/ Return(p)
               \/ pc' = [pc EXCEPT ![p] = "exit"] /\ job' = [job EXCEPT ![p] = NoJob]
            /\ asleep' = asleep \ ((IF m > 0 THEN WakeReaders(e) ELSE {}) \cup {p})
         \/ \* O_NDELAY, which does not help a short message
            /\ m < left /\ ~Broken(e) /\ file[f].ndelay /\ n > PipeBuf
            /\ Return(p)
            /\ asleep' = asleep \ (WakeReaders(e) \cup {p})
         \/ /\ m < left /\ ~Broken(e) /\ ~(file[f].ndelay /\ n > PipeBuf)
            /\ Stay(p, "write", Job(f, left - m, n, "w"))
            /\ asleep' = (asleep \ WakeReaders(e)) \cup {p}
      /\ out' = <<>>
      /\ UNCHANGED <<fifo, attr, file, lock>>

Eof(e) == pipe[e].writers \in {0, VirginPipe}

\* pipe_read(); a fifo with FA_CHANGED returns as soon as it has something.
ReadStep(p, f, left, n) ==
  LET e == Rd(f)
      m == Min2(pipe[e].len, left)
      enough == m = left \/ Eof(e) \/ file[f].ndelay \/ (attr.unix /\ left - m < n)
  IN  /\ out' = Fetched(e, m)
      /\ buf' = [buf EXCEPT ![e] = Forgotten(e, m)]
      /\ pipe' = [pipe EXCEPT ![e].len = @ - m,
                              ![e].start = IF m = 0 THEN @ ELSE StartAfter(e, m)]
      /\ IF enough THEN Return(p) /\ asleep' = asleep \ (WakeWriters(e) \cup {p})
         ELSE /\ Stay(p, "read", Job(f, left - m, n, "r"))
              /\ asleep' = (asleep \ WakeWriters(e)) \cup {p}
      /\ UNCHANGED <<fifo, attr, file, lock>>

Fwrite(p, f, n) ==
  Calls(p, f) /\ Writes(file[f].mode) /\ Exists(Wr(f)) /\ WriteStep(p, f, n, n)

Fread(p, f, n) ==
  Calls(p, f) /\ Reads(file[f].mode) /\ Exists(Rd(f)) /\ ReadStep(p, f, n, n)

\* Back from sleep() without a signal.
Resume(p) ==
  /\ p \notin asleep /\ fifo = "live"
  /\ \/ pc[p] = "write" /\ WriteStep(p, job[p].f, job[p].left, job[p].n)
     \/ pc[p] = "read" /\ ReadStep(p, job[p].f, job[p].left, job[p].n)

\* The fifo was freed meanwhile; nothing is known of what the code does with it.
Stray(p) ==
  /\ p \notin asleep /\ fifo = "gone" /\ pc[p] \in {"read", "write", "setlk"}
  /\ pc' = [pc EXCEPT ![p] = "stray"]
  /\ out' = <<>>
  /\ UNCHANGED <<fifo, attr, pipe, buf, file, lock, job, asleep>>

\* The process in Fselect() for writing to inp is not told of a change.
Untold ==
  LET w == pipe["inp"].wsel
  IN  IF w = Nobody THEN job ELSE [job EXCEPT ![w].missed = TRUE]

\* Fcntl(TIOCFLUSH): only for outp a process in Fselect() is told.
Flush(p, f, E) ==
  /\ "flush" \in attr.ops /\ Calls(p, f) /\ E # {}
  /\ pipe' = [e \in End |-> IF e \in E THEN [pipe[e] EXCEPT !.start = 0, !.len = 0] ELSE pipe[e]]
  /\ asleep' = asleep \ ((UNION {OnPipe(e) : e \in E})
                           \cup (IF "outp" \in E THEN {pipe["outp"].wsel} ELSE {}))
  /\ buf' = [e \in End |-> IF e \in E THEN Blank ELSE buf[e]]
  /\ job' = IF "inp" \in E THEN Untold ELSE job
  /\ out' = <<>>
  /\ UNCHANGED <<fifo, attr, file, lock, pc>>

-----------------------------------------------------------------------------
(* Fselect() for one file and one direction.                               *)

Side(f, dir) == IF dir = "r" THEN Rd(f) ELSE Wr(f)

\* pipe_select(): whether a read or write would not wait.
Ready(e, dir) ==
  IF dir = "r" THEN pipe[e].len > 0 \/ pipe[e].writers <= 0
  ELSE pipe[e].len < PipeSiz \/ pipe[e].readers <= 0

Selecting(e, dir) == IF dir = "r" THEN pipe[e].rsel ELSE pipe[e].wsel

Register(e, dir, p) ==
  IF dir = "r" THEN [pipe EXCEPT ![e].rsel = p] ELSE [pipe EXCEPT ![e].wsel = p]

\* pipe_unselect() of a file pointer for both directions.
Unselect(P, f, p) ==
  [P EXCEPT ![Rd(f)].rsel = IF @ = p THEN Nobody ELSE @,
            ![Wr(f)].wsel = IF @ = p THEN Nobody ELSE @]

\* Without a word to the others.
SelectReturnsQuietly(p, f) ==
  /\ pipe' = Unselect(pipe, f, p)
  /\ Return(p)
  /\ asleep' = asleep \ {p}

\* Back to the caller, who wakes up those that found another one before them.
SelectReturns(p, f) ==
  /\ pipe' = Unselect(pipe, f, p)
  /\ Return(p)
  /\ asleep' = asleep \ (OnColl \cup {p})

SelectStep(p, f, dir) ==
  LET e == Side(f, dir) IN
  /\ \/ fifo = "live" /\ Ready(e, dir) /\ SelectReturns(p, f)
     \/ \* EBADF does not count
        /\ fifo = "gone"
        /\ Stay(p, "select", Job(f, 0, 0, dir))
        /\ asleep' = asleep \cup {p}
        /\ UNCHANGED pipe
     \/ /\ fifo = "live" /\ ~Ready(e, dir) /\ Selecting(e, dir) # Nobody
        /\ Stay(p, "coll", Job(f, 0, 0, dir))
        /\ asleep' = asleep \cup {p}
        /\ UNCHANGED pipe
     \/ /\ fifo = "live" /\ ~Ready(e, dir) /\ Selecting(e, dir) = Nobody
        /\ Stay(p, "select", Job(f, 0, 0, dir))
        /\ asleep' = asleep \cup {p}
        /\ pipe' = Register(e, dir, p)
  /\ out' = <<>>
  /\ UNCHANGED <<fifo, attr, buf, file, lock>>

Fselect(p, f, dir) ==
  /\ "select" \in attr.ops /\ pc[p] = "user" /\ p \in file[f].holders /\ Exists(Side(f, dir))
  /\ IF dir = "r" THEN Reads(file[f].mode) ELSE Writes(file[f].mode)
  /\ SelectStep(p, f, dir)

\* wake() on select_coll: the call starts again.
SelectAgain(p) ==
  /\ pc[p] = "coll" /\ p \notin asleep
  /\ SelectStep(p, job[p].f, job[p].dir)

\* wakeselect() or the timeout: the call reports what is ready now, if anything.
SelectEnds(p) ==
  /\ pc[p] \in {"select", "coll"}
  /\ pc[p] = "select" \/ p \in asleep
  /\ SelectReturns(p, job[p].f)
  /\ out' = <<>>
  /\ UNCHANGED <<fifo, attr, buf, file, lock>>

-----------------------------------------------------------------------------
(* Locks.                                                                  *)

Taken(p) == lock.on /\ lock.pid # p

\* Fcntl(F_SETLK) and Fcntl(F_SETLKW), which waits, and the latter's loop.
SetLk(p, f) ==
  /\ "lock" \in attr.ops
  /\ \/ Calls(p, f)
     \/ pc[p] = "setlk" /\ p \notin asleep /\ f = job[p].f /\ fifo = "live"
  /\ \/ /\ Taken(p)
        /\ Stay(p, "setlk", Job(f, 0, 0, "none"))
        /\ asleep' = asleep \cup {p}
        /\ UNCHANGED <<lock, file>>
     \/ /\ ~Taken(p)
        /\ lock' = [on |-> TRUE, pid |-> p]
        /\ file' = [file EXCEPT ![f].lock = TRUE]
        /\ Return(p)
        /\ asleep' = asleep \ {p}
  /\ out' = <<>>
  /\ UNCHANGED <<fifo, attr, pipe, buf>>

UnLk(p, f) ==
  /\ "lock" \in attr.ops /\ Calls(p, f)
  /\ ~Taken(p) /\ file[f].lock
  /\ lock' = [on |-> FALSE, pid |-> Nobody]
  /\ file' = [file EXCEPT ![f].lock = FALSE]
  /\ asleep' = asleep \ OnLock
  /\ out' = <<>>
  /\ UNCHANGED <<fifo, attr, pipe, buf, procs>>

-----------------------------------------------------------------------------
(* Signals, termination and closing.                                       *)

\* sleep() returns 1 and the call EINTR, whatever has been transferred.
Interrupt(p) ==
  /\ "signal" \in attr.ops
  /\ \/ /\ pc[p] \in {"read", "write", "setlk"}
        /\ Return(p)
        /\ asleep' = asleep \ {p}
        /\ UNCHANGED pipe
     \/ pc[p] \in {"select", "coll"} /\ SelectReturns(p, job[p].f)
  /\ out' = <<>>
  /\ UNCHANGED <<fifo, attr, buf, file, lock>>

\* terminate(), from user mode or from sleep(), closes the files next.
Exit(p) ==
  /\ pc[p] \notin {"new", "exit", "stray"}
  /\ pc' = [pc EXCEPT ![p] = "exit"]
  /\ job' = [job EXCEPT ![p] = NoJob]
  /\ asleep' = asleep \ {p}
  /\ out' = <<>>
  /\ UNCHANGED <<fifo, attr, pipe, buf, file, lock>>

\* The counts after the last close of f.
Less(P, f) ==
  LET m == file[f].mode
      Q == [P EXCEPT ![Rd(f)].readers = IF Reads(m) /\ Exists(Rd(f)) THEN @ - 1 ELSE @,
                     ![Wr(f)].writers = IF Writes(m) /\ Exists(Wr(f)) THEN @ - 1 ELSE @]
  IN  IF f = Server /\ ~attr.hidden THEN [Q EXCEPT !["inp"].readers = @ - 1] ELSE Q

\* As if nobody was going to open it any more.
NotVirgin(P) ==
  [P EXCEPT !["inp"].readers = IF @ = VirginPipe THEN 0 ELSE @,
            !["inp"].writers = IF @ = VirginPipe THEN 0 ELSE @]

\* Without a look at the readers.
FinishedWriting(P) == P["inp"].writers <= 0

Finished(P) == P["inp"].readers <= 0 /\ P["inp"].writers <= 0

\* Without a look at the locks.
UnlockedNever(p, f) == FALSE

Unlocked(p, f) == file[f].lock /\ lock.pid = p

\* Without outp.
WokenByCloseInp(f) == OnPipe("inp") \cup {pipe["inp"].rsel, pipe["inp"].wsel}

\* Everybody asleep on the fifo's buffers, and in Fselect() for them.
WokenByClose(f) ==
  UNION {OnPipe(e) \cup {pipe[e].rsel, pipe[e].wsel} : e \in End}

\* do_close() and pipe_close(), which looks for locks only after the last link
\* is gone, and at the counts in any case.
CloseLive(p, f) ==
  LET last == file[f].holders = {p}
      U == Unselect(pipe, f, p)
      P == NotVirgin(IF last THEN Less(U, f) ELSE U)
      unlocks == last /\ Unlocked(p, f)
  IN  /\ fifo' = IF Finished(P) THEN "gone" ELSE "live"
      /\ pipe' = IF Finished(P) THEN [e \in End |-> Fresh(0, 0)] ELSE P
      /\ lock' = IF Finished(P) THEN [on |-> FALSE, pid |-> Nobody]
                 ELSE IF unlocks THEN [lock EXCEPT !.on = FALSE] ELSE lock
      /\ asleep' = asleep \ (OnColl \cup (IF last THEN WokenByClose(f) ELSE {})
                                     \cup (IF unlocks THEN OnLock ELSE {}))

Close(p, f) ==
  /\ pc[p] \in {"user", "exit"} /\ p \in file[f].holders
  /\ file' = [file EXCEPT ![f] = IF file[f].holders = {p} THEN Closed
                                 ELSE [file[f] EXCEPT !.holders = @ \ {p}]]
  /\ \/ fifo = "live" /\ CloseLive(p, f)
     \/ fifo = "gone" /\ asleep' = asleep \ OnColl /\ UNCHANGED <<fifo, pipe, lock>>
  /\ out' = <<>>
  /\ buf' = IF fifo' = "gone" THEN [e \in End |-> Blank] ELSE buf
  /\ job' = IF file[f].holders # {p} /\ pipe["inp"].readers = VirginPipe THEN Untold ELSE job
  /\ UNCHANGED <<attr, pc>>

-----------------------------------------------------------------------------
Next ==
  \E p \in Proc :
    \/ \E nd \in Ndelay : Create(p, nd)
    \/ \E f \in File, m \in Modes, nd \in Ndelay : Open(p, f, m, nd)
    \/ \E q \in Proc : Fork(p, q)
    \/ \E f \in File, n \in attr.lengths : Fwrite(p, f, n) \/ Fread(p, f, n)
    \/ Resume(p) \/ Stray(p)
    \/ \E f \in File, E \in SUBSET {e \in End : Exists(e)} : Flush(p, f, E)
    \/ \E f \in File, dir \in {"r", "w"} : Fselect(p, f, dir)
    \/ SelectAgain(p) \/ SelectEnds(p)
    \/ \E f \in File : SetLk(p, f) \/ UnLk(p, f) \/ Close(p, f)
    \/ Interrupt(p) \/ Exit(p)

Spec == Init /\ [][Next]_vars

-----------------------------------------------------------------------------
(* Properties.                                                             *)

Calling == {"read", "write", "setlk", "select", "coll"}

\* The variables keep their types; the counts of readers and writers are never
\* negative and the ring buffers never hold more than they can.
TypeOK ==
  /\ fifo \in {"none", "live", "gone"} /\ attr \in Attrs
  /\ pipe \in [End -> [readers : Nat, writers : Nat, start : 0..(PipeSiz - 1), len : 0..PipeSiz,
                       rsel : Proc \cup {Nobody}, wsel : Proc \cup {Nobody}]]
  /\ buf \in [End -> [0..(PipeSiz - 1) -> Byte \cup {Empty}]]
  /\ file \in [File -> [holders : SUBSET Proc, mode : Mode, ndelay : BOOLEAN, lock : BOOLEAN]]
  /\ lock \in [on : BOOLEAN, pid : Proc \cup {Nobody}]
  /\ pc \in [Proc -> {"new", "user", "exit", "stray"} \cup Calling]
  /\ job \in [Proc -> [f : File, left : Nat, n : Nat, dir : {"none", "r", "w"}, missed : BOOLEAN]]
  /\ asleep \subseteq {p \in Proc : pc[p] \in Calling}

\* Nobody sleeps in Fread(), Fwrite() or Fcntl(F_SETLKW) who could go on, although
\* readers and writers share a condition, a reader may want more than there is and a
\* short message may not fit where there is room.
NoLostWakeup ==
  fifo = "live" => \A p \in asleep :
    /\ pc[p] = "read" => pipe[Channel(p)].len = 0 /\ ~Eof(Channel(p))
    /\ pc[p] = "write" => Room(Channel(p), job[p].left, job[p].n) = 0 /\ ~Broken(Channel(p))
    /\ pc[p] = "setlk" => Taken(p)

\* Nobody sleeps in Fselect() although the fifo is ready, except to write to inp when
\* it was flushed or a fork of the server gave up hope for readers; who found another
\* one before him is told when that one leaves, by whatever way.
SelectMissesNothing ==
  fifo = "live" => \A p \in asleep :
    LET e == Side(job[p].f, job[p].dir)
        s == Selecting(e, job[p].dir)
    IN  /\ pc[p] = "select" => s = p /\ (Ready(e, job[p].dir) => job[p].missed)
        /\ pc[p] = "coll" => s # Nobody /\ pc[s] \in {"select", "exit"}

Openers(P(_)) == Cardinality({f \in File \ {Server} : file[f].holders # {} /\ P(file[f].mode)})
One(b) == IF b THEN 1 ELSE 0
HeadOpen == file[Server].holders # {}

\* The counts of readers and writers are those of the open file pointers, and one
\* for the head where it may read what it writes, in whatever order they are opened,
\* shared and closed.  A head that cannot read or write is never subtracted.  When
\* the last file pointer is closed the fifo is deleted, unless its creator opened
\* it for reading only.
CountsRight ==
  fifo = "live" =>
    LET r == Openers(Reads) + One(HeadOpen /\ ~attr.hidden)
        w == Openers(Writes) + One(~attr.hidden)
    IN  /\ pipe["inp"].readers = r \/ (r = 0 /\ pipe["inp"].readers = VirginPipe)
        /\ pipe["inp"].writers = One(HeadOpen \/ attr.mode = "r")
        /\ ~attr.oneway =>
             /\ pipe["outp"].writers = w \/ (w = 0 /\ pipe["outp"].writers = VirginPipe)
             /\ pipe["outp"].readers = One(HeadOpen \/ attr.mode = "w")
        /\ (\A f \in File : file[f].holders = {}) => attr.mode = "r"

\* It is not freed under a process that is in a call with the head, or with a file
\* pointer that can read.
NotFreedInUse ==
  fifo = "gone" => \A p \in Proc :
    pc[p] \in {"read", "write", "setlk", "stray"}
      => job[p].f # Server /\ file[job[p].f].mode = "w"

\* As long as no process has forked, the owner of a lock still has the file pointer
\* that it used, so that the lock does not outlive it.
LockOwned ==
  fifo = "live" /\ lock.on /\ ("fork" \in attr.ops => \A q \in New : pc[q] = "new")
    => \E f \in File : lock.pid \in file[f].holders /\ file[f].lock

\* A fifo is two queues of bytes.
S == INSTANCE Stream WITH
       Capacity <- PipeSiz, Short <- PipeBuf, Lengths <- UNION {a.lengths : a \in Attrs},
       q <- [e \in End |-> Contents(e)],
       todo <- [p \in Proc |-> IF pc[p] = "write"
                               THEN Part(job[p].n + 1 - job[p].left, job[p].n) ELSE <<>>]

\* What is read is what was written, in its order, with short messages in one piece:
\* every step of the fifo is a step of the queues.
IsStream == S!StreamSpec
=============================================================================
