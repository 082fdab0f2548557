------------------------------- MODULE TcpInv -------------------------------
(***************************************************************************)
(* The inductive invariant of Tcp, TInv, and the vocabulary of its proof.   *)
(* First what a host may look like (IsBlock to StartOK): the send queue       *)
(* covers what is not acknowledged, a timer runs just as long, the receive    *)
(* queue is ordered and has everything before rnxt.  Then how the two sides   *)
(* and the segments between them agree: on what is acknowledged (Below,       *)
(* AcksOK), on the place of each byte (MsgOK, NetOK) and on where the stream   *)
(* ends (StreamEnd).  What follows describes what the functions of            *)
(* tcpin.c, tcpout.c and tcputil.c make of a block, one formula for each step, *)
(* so that the lemmas of TcpProofs can be stated.                             *)
(***************************************************************************)
EXTENDS Tcp

\* The values of the fields of a block.
States == {"none", "CLOSED", "SYNSENT", "SYNRCVD", "ESTABLISHED", "FINWAIT1", "FINWAIT2",
           "CLOSEWAIT", "LASTACK", "CLOSING", "TIMEWAIT"}

Ostates == {"IDLE", "XMIT", "RETRANS", "PERSIST"}

Item == [seq : Int, len : Nat, syn : BOOLEAN, fin : BOOLEAN, ack : BOOLEAN, room : Nat]

Chunk == [seq : Int, data : Seq(Int)]

Segment == [seq : Int, ack : Int, flags : SUBSET {"SYN", "FIN", "ACK", "RST"}, wnd : Int,
            data : Seq(Int)]

Fields == {"state", "ostate", "una", "nxt", "max", "write", "wnd", "wndseq", "wndack", "wndmax",
           "rnxt", "rwnd", "read", "fin", "sndq", "rcvq", "cur", "nretrans", "dupacks", "sock",
           "disc", "timer", "del", "delack", "err", "out", "wake", "fatal"}

IsBlock(t) ==
  /\ DOMAIN t = Fields
  /\ t.state \in States /\ t.ostate \in Ostates
  /\ t.una \in Int /\ t.nxt \in Int /\ t.max \in Int /\ t.write \in Int
  /\ t.wnd \in Int /\ t.wndseq \in Int /\ t.wndack \in Int /\ t.wndmax \in Int
  /\ t.rnxt \in Int /\ t.rwnd \in Int /\ t.read \in Int /\ t.fin \in Int
  /\ t.cur \in Int /\ t.nretrans \in Nat /\ t.dupacks \in Int
  /\ t.sndq \in Seq(Item) /\ t.rcvq \in Seq(Chunk) /\ t.out \in Seq(Segment)
  /\ t.sock \in BOOLEAN /\ t.disc \in BOOLEAN /\ t.timer \in BOOLEAN /\ t.del \in BOOLEAN
  /\ t.delack \in BOOLEAN /\ t.err \in BOOLEAN /\ t.wake \in BOOLEAN /\ t.fatal \in BOOLEAN

\* A block with a connection, and one that has sent its FIN
Live(t) == t.state \notin {"none", "CLOSED"}

FinSent(t) == t.state \in {"FINWAIT1", "FINWAIT2", "CLOSING", "TIMEWAIT", "LASTACK"}

\* The send queue has what lies between its first segment and write, without holes.
Chain(q) ==
  /\ \A i \in 1..(Len(q) - 1) : q[i + 1].seq = EndOf(q[i]) /\ ~q[i].fin /\ ~q[i + 1].syn
  /\ \A i, j \in 1..Len(q) : i < j => EndOf(q[i]) <= q[j].seq

\* The sender: the send queue ends where the stream that was written ends.
SndOK(h, t) ==
  /\ t.una <= t.max /\ t.nxt <= t.max /\ t.max <= t.write
  /\ Chain(t.sndq)
  /\ t.sndq = <<>> => t.write <= t.una
  /\ t.sndq # <<>> => (t.sndq[Len(t.sndq)].fin <=> FinSent(t))
  /\ t.sndq # <<>> => EndOf(t.sndq[Len(t.sndq)]) = t.write
  /\ \A i \in 1..Len(t.sndq) :
       t.sndq[i].syn => /\ t.sndq[i].seq = Isn[h] /\ t.sndq[i].len = 0 /\ ~t.sndq[i].fin
                        /\ (t.sndq[i].ack <=> h = "sv")

\* A SYN was sent.
SynGone(t) == \A i \in 1..Len(t.sndq) : t.sndq[i].syn => t.sndq[i].seq < t.max

\* A timer runs as long as something is not acknowledged.
TimerOK(t) ==
  /\ t.timer <=> t.una < t.write
  /\ t.ostate = "IDLE" <=> t.write <= t.una

StateOK(h, t) ==
  /\ t.state \in {"FINWAIT1", "CLOSING", "LASTACK"} => t.una < t.write
  /\ t.state \in {"FINWAIT2", "TIMEWAIT"} => t.write <= t.una /\ t.del
  /\ t.state \in {"CLOSEWAIT", "LASTACK"} => Finished(t)
  /\ ~t.sock => t.state = "none" \/ FinSent(t)
  /\ t.state = "SYNSENT" => /\ h = "cl" /\ t.una = Isn[h] /\ t.rnxt = 0 /\ t.fin = NoFin
                            /\ t.rcvq = <<>>
  /\ t.state = "SYNRCVD" => h = "sv"
  /\ t.state = "none" => ~t.sock /\ ~t.del /\ ~t.delack /\ t.rcvq = <<>> /\ t.una = 0
  /\ ~Live(t) => ~t.timer
  /\ t.del => t.state \in {"FINWAIT2", "TIMEWAIT", "CLOSED"}

\* The receive queue: segments of which none contains another, each byte at its place.
Placed(q) == \A i \in 1..Len(q) : \A j \in 1..Len(q[i].data) : q[i].data[j] = q[i].seq + j - 1

Staggered(q) ==
  /\ \A i \in 1..Len(q) : q[i].seq < NxtOf(q[i])
  /\ \A i, j \in 1..Len(q) : i < j => q[i].seq < q[j].seq /\ NxtOf(q[i]) < NxtOf(q[j])

\* The receiver has everything before rnxt, and nothing at rnxt.
RcvOK(t) ==
  /\ Placed(t.rcvq) /\ Staggered(t.rcvq)
  /\ Synced(t) => /\ 0 <= t.rnxt /\ t.read <= t.rnxt
                  /\ ~Kept(t, t.rnxt)
                  /\ t.sock => \A x \in t.read..(t.rnxt - 1) : Kept(t, x) \/ x = t.fin

\* The programs of h.
Prog == [fd : {"none", "open", "gone"}, rd : {"idle", "asleep", "awake"},
         wr : {"idle", "asleep", "awake"}, conn : BOOLEAN, shut : BOOLEAN,
         todo : Seq(Nat \ {0}), left : Nat]

TypeOK ==
  /\ DOMAIN tcb = Host /\ \A h \in Host : IsBlock(tcb[h])
  /\ prog \in [Host -> Prog] /\ got \in [Host -> Seq(Int)]
  /\ listening \in {"new", "used", "closed"}

\* What a program knows of its socket, when it has read n bytes from it
ProgFine(h, t, p, n) ==
  /\ p.fd = "none" => /\ p.rd = "idle" /\ p.wr = "idle" /\ ~p.conn /\ ~FinSent(t)
                      /\ t.state # "none" => t.sock
  /\ p.fd = "open" => t.sock /\ t.state # "SYNRCVD"
  /\ p.fd = "gone" => ~t.sock /\ p.rd = "idle" /\ p.wr = "idle"
  /\ p.fd = "open" /\ FinSent(t) => p.shut
  /\ (Synced(t) \/ t.rcvq # <<>>) /\ p.fd # "gone" => t.read = Isn[Peer(h)] + 1 + n
  /\ p.conn => p.wr # "idle"
  /\ p.wr # "idle" /\ ~p.conn => p.left > 0

ProgOK(h) == ProgFine(h, tcb[h], prog[h], Len(got[h]))

\* What a sleeping program may rely on
SleepFine(t, p) ==
  /\ p.rd = "asleep" => ~t.err /\ Readable(t) = 0 /\ (p.shut \/ t.state = "ESTABLISHED")
  /\ p.wr = "asleep" /\ ~p.conn
        => ~t.err /\ Canwrite(t) = 0 /\ (p.shut \/ Connected(t) \/ Connecting(t))
  /\ p.wr = "asleep" /\ p.conn => Connecting(t)

Sleepers(h) == SleepFine(tcb[h], prog[h])

\* Before h has a connection.
NotYet(h) ==
  IF h = "cl" THEN prog["cl"].fd = "none" \/ tcb["cl"].state = "SYNSENT" ELSE listening = "new"

Started(h) == IF h = "cl" THEN prog["cl"].fd # "none" ELSE listening # "new"

StartOK == \A h \in Host : /\ ~Started(h) => tcb[h].state = "none" /\ prog[h].fd = "none"
                           /\ Synced(tcb[h]) => ~NotYet(h)
                           /\ NotYet(h) => got[h] = <<>>

\* h has acknowledged everything before x, or has no block left to tell.
Below(h, x) ==
  /\ Synced(tcb[h]) => x <= tcb[h].rnxt
  /\ NotYet(h) => x <= Isn[Peer(h)]

EndsAt(s) == s.seq + One(Has(s, "SYN")) + Len(s.data)

AtPlace(s) == \A i \in 1..Len(s.data) : s.data[i] = s.seq + One(Has(s, "SYN")) + i - 1

\* A segment from h to g
MsgOK(h, g, s) ==
  Has(s, "RST") \/
    /\ Started(h)
    /\ Below(h, s.ack)
    /\ AtPlace(s) \/ (s.flags = {"ACK"} /\ Len(s.data) = 1 /\ Below(g, s.seq + 1))
    /\ Has(s, "SYN") => s.seq = Isn[h] /\ s.flags = (IF h = "cl" THEN {"SYN"} ELSE {"SYN", "ACK"})

\* F is where the bytes from h to g end.
StreamEnd(h, g, F) ==
  LET t == tcb[h]
      u == tcb[g]
  IN  /\ Live(t) => t.write = IF FinSent(t) THEN F + 1 ELSE F
      /\ \A m \in net : m.to = g /\ ~Has(m.seg, "RST") =>
           /\ Has(m.seg, "FIN") => EndsAt(m.seg) = F /\ (Live(t) => FinSent(t))
           /\ m.seg.data # <<>> \/ Has(m.seg, "SYN") => EndsAt(m.seg) <= F
      /\ Synced(u) => /\ Started(h)
                      /\ FinSeen(u) => u.fin = F /\ (Live(t) => FinSent(t))
                      /\ \A i \in 1..Len(u.rcvq) : NxtOf(u.rcvq[i]) <= F
                      /\ u.sock => u.read <= F

HostOK(h) ==
  /\ tcb[h].out = <<>> /\ ~tcb[h].wake
  /\ Live(tcb[h]) => SndOK(h, tcb[h]) /\ SynGone(tcb[h]) /\ TimerOK(tcb[h])
  /\ StateOK(h, tcb[h])
  /\ RcvOK(tcb[h])
  /\ ProgOK(h)

NetOK == \A m \in net : m.to \in Host /\ m.seg \in Segment /\ MsgOK(Peer(m.to), m.to, m.seg)

AcksOK == \A h \in Host : Below(Peer(h), tcb[h].una)

\* What no operation of the sending side touches.
Untouched(t, u) ==
  /\ u.state = t.state /\ u.write = t.write /\ u.rnxt = t.rnxt /\ u.read = t.read /\ u.fin = t.fin
  /\ u.rcvq = t.rcvq /\ u.cur = t.cur /\ u.sock = t.sock /\ u.disc = t.disc /\ u.del = t.del
  /\ u.err = t.err

\* What sending a segment does not touch besides.
Unmoved(t, u) ==
  /\ Untouched(t, u)
  /\ u.una = t.una /\ u.ostate = t.ostate /\ u.timer = t.timer /\ u.nretrans = t.nretrans
  /\ u.dupacks = t.dupacks /\ u.wake = t.wake /\ u.wnd = t.wnd /\ u.wndack = t.wndack
  /\ u.wndseq = t.wndseq /\ u.wndmax = t.wndmax

-----------------------------------------------------------------------------
(* One segment out.                                                        *)

\* A segment that a block may send: it acknowledges nothing that has not come, its
\* bytes are at their places and were written, and its FIN is at the end.
LastByte(t) == IF FinSent(t) THEN t.write - 1 ELSE t.write

OutSeg(h, t, s) ==
  Has(s, "RST") \/
    /\ s.ack <= t.rnxt
    /\ AtPlace(s) \/ (s.flags = {"ACK"} /\ Len(s.data) = 1 /\ s.seq + 2 <= t.una)
    /\ Has(s, "SYN") => s.seq = Isn[h] /\ s.flags = (IF h = "cl" THEN {"SYN"} ELSE {"SYN", "ACK"})
    /\ Has(s, "FIN") => EndsAt(s) = LastByte(t) /\ FinSent(t)
    /\ s.data # <<>> \/ Has(s, "SYN") => EndsAt(s) <= LastByte(t)

Outs(h, t, u) == \A i \in 1..Len(u.out) : OutSeg(h, t, u.out[i])

\* What a segment carries that tcp_sndseg() makes of the i'th one of the queue.
SegFlags(b, w1, w2) ==
  (IF b.ack THEN {"ACK"} ELSE {})
    \cup (IF b.syn /\ b.seq >= w1 THEN {"SYN"} ELSE {})
    \cup (IF b.fin /\ w2 >= EndOf(b) THEN {"FIN"} ELSE {})

SegData(t, i, offs, len, more) ==
  Bytes(t.sndq[i], offs, len) \o (IF more = 0 THEN <<>> ELSE Bytes(t.sndq[i + 1], 0, more))

SegLenOf(b, w1, w2) == b.len - Offset(b, w1) - Beyond(b, w2)

SegMore(t, i, n, w1, w2) ==
  IF w2 < EndOf(t.sndq[i]) THEN 0 ELSE Extra(t, i, n, SegFlags(t.sndq[i], w1, w2))

SegOf(t, i, n, w1, w2) ==
  Seg(Most(t.sndq[i].seq, w1), t.rnxt, SegFlags(t.sndq[i], w1, w2), Rcvwnd(t),
      SegData(t, i, Offset(t.sndq[i], w1), SegLenOf(t.sndq[i], w1, w2), SegMore(t, i, n, w1, w2)))

\* Its bytes, one after the other.
Joined(t, i, offs, len, more) ==
  more > 0 => /\ i + 1 \in 1..Len(t.sndq) /\ ~t.sndq[i + 1].syn
              /\ t.sndq[i + 1].seq = t.sndq[i].seq + One(t.sndq[i].syn) + offs + len

\* Where the bytes of that segment begin and how far they reach.
Reach(t, i, n, w1, w2, bs, offs, sy, len, more, last) ==
  /\ bs = t.sndq[i].seq /\ sy = One(t.sndq[i].syn) /\ offs = Offset(t.sndq[i], w1)
  /\ len = SegLenOf(t.sndq[i], w1, w2) /\ more = SegMore(t, i, n, w1, w2)
  /\ last = LastByte(t)
  /\ more > 0 => /\ i + 1 \in 1..Len(t.sndq) /\ ~t.sndq[i + 1].syn
                 /\ t.sndq[i + 1].seq = bs + sy + offs + len
  /\ bs + sy + offs + len + more <= last
  /\ t.sndq[i].fin /\ w2 >= EndOf(t.sndq[i]) => /\ bs + sy + offs + len + more = last
                                                /\ FinSent(t)
  /\ bs >= w1 => offs = 0
  /\ bs < w1 => bs + sy + offs = w1

\* Two queues that differ in the room of their segments only.
Alike(p, q) ==
  /\ Len(p) = Len(q)
  /\ \A i \in 1..Len(p) : /\ q[i].seq = p[i].seq /\ q[i].len = p[i].len /\ q[i].syn = p[i].syn
                          /\ q[i].fin = p[i].fin /\ q[i].ack = p[i].ack

\* What sending leaves behind: u has sent more of what t has in its queue.
Sends(h, t, u) ==
  /\ IsBlock(u) /\ Unmoved(t, u) /\ SndOK(h, u) /\ Alike(t.sndq, u.sndq)
  /\ t.max <= u.max
  /\ Outs(h, t, t) => Outs(h, t, u)

\* The blocks of tcp_sndhead(), one for each turn.
Turns(t, w, n, f) ==
  f = [k \in 0..n |-> IF k = 0 THEN t ELSE SendOne(f[k - 1], FirstUnsent(f[k - 1]), w)]

-----------------------------------------------------------------------------
(* What is in the send queue.                                              *)

\* The running sums of a queue, and tcp_canwrite()'s count of the bytes in it.
Sums(s, n, f) == f = [k \in 0..n |-> IF k = 0 THEN 0 ELSE f[k - 1] + s[k]]

-----------------------------------------------------------------------------
(* The output state machine.                                               *)

\* The sleeping writer is woken when there is room for it.
WakeOK(t, u) == /\ t.wake => u.wake
                /\ t.sock /\ Canwrite(t) = 0 => Canwrite(u) = 0 \/ u.wake

\* What an event leaves behind.
Steps(h, t, u) ==
  /\ IsBlock(u) /\ SndOK(h, u) /\ Untouched(t, u) /\ u.una = t.una /\ t.max <= u.max
  /\ SynGone(t) => SynGone(u)
  /\ WakeOK(t, u)
  /\ Outs(h, t, t) => Outs(h, t, u)

\* An event that changes the state machine's own fields only.
Quiet(t, u) ==
  /\ Untouched(t, u) /\ u.una = t.una /\ u.nxt = t.nxt /\ u.max = t.max /\ u.sndq = t.sndq
  /\ u.out = t.out /\ u.wake = t.wake

\* The timer runs and the machine is not idle.
Busy(t) == t.timer /\ t.ostate # "IDLE"

\* tcp_retrans() once the retransmission is counted
Counted(t, x) ==
  IF x.nretrans > MaxRetry THEN Abort(t)
  ELSE IF t.sndq = <<>> THEN Ostate(x, "IDLE")
  ELSE Start(SndSeg(x, 1, x.nretrans, t.una, t.nxt))

-----------------------------------------------------------------------------
(* What a step makes of a block.                                            *)

\* The invariant of a block by itself.
BlockOK(h, t) ==
  /\ IsBlock(t)
  /\ Live(t) => SndOK(h, t) /\ SynGone(t) /\ TimerOK(t)
  /\ StateOK(h, t)
  /\ RcvOK(t)

\* The sleepers are woken when something changes for them.
Sleep(t, u) ==
  t.sock => \/ u.wake
            \/ /\ u.err = t.err
               /\ u.state = t.state \/ FinSent(t)
               /\ Readable(t) = 0 => Readable(u) = 0
               /\ Canwrite(t) = 0 => Canwrite(u) = 0

\* What goes out was said by a block like t that had received no more than u.
AllRst(u) == \A i \in 1..Len(u.out) : Has(u.out[i], "RST")

Speaks(t, u, x, b) ==
  /\ IsBlock(b)
  /\ (FinSent(b) <=> FinSent(t)) /\ LastByte(b) = LastByte(t) /\ b.una \in {t.una, x}
  /\ Synced(u) => b.rnxt <= u.rnxt
  /\ u.state = "SYNSENT" => b.rnxt = 0

AllPlain(u) == \A i \in 1..Len(u.out) : u.out[i].data = <<>> /\ u.out[i].flags = {"ACK"}

Said(h, t, u, x) ==
  \/ AllRst(u)
  \/ t.state # "none" /\ (Live(t) \/ AllPlain(u)) /\ \E b : Speaks(t, u, x, b) /\ Outs(h, b, u)

\* A step that is no call of a program, and that brings the acknowledgement x.
Turn(h, t, u, x) ==
  /\ BlockOK(h, u)
  /\ u.una \in {0, t.una, x}
  /\ Live(u) => Live(t) /\ u.write = t.write /\ (FinSent(u) <=> FinSent(t))
  /\ \/ u.sock = t.sock /\ Sleep(t, u)
     \/ t.state = "SYNRCVD" /\ u.state = "none"
  /\ u.state \in {"SYNRCVD", "SYNSENT"} => u.state = t.state
  /\ Synced(u) => IF Synced(t) THEN t.rnxt <= u.rnxt /\ u.read = t.read
                  ELSE t.state = "SYNSENT" /\ Isn[Peer(h)] <= u.rnxt /\ u.read = Isn[Peer(h)] + 1
  /\ u.rcvq # <<>> => Synced(u) \/ (u.rcvq = t.rcvq /\ u.read = t.read)
  /\ Said(h, t, u, x)

\* The stream from the other side ends at G; z: it has sent its FIN.
RcvEnd(u, G, z) ==
  Synced(u) => /\ FinSeen(u) => u.fin = G /\ z
               /\ \A i \in 1..Len(u.rcvq) : NxtOf(u.rcvq[i]) <= G
               /\ u.sock => u.read <= G

\* tcb_reset() and tcb_delete() leave nothing that waits.
Gone(h, t, u) ==
  /\ BlockOK(h, u) /\ u.state \in {"none", "CLOSED"}
  /\ u.sock = t.sock /\ u.out = t.out /\ u.una \in {0, t.una}

\* The two parts of the send queue that tcp_output() leaves: the last segment filled up,
\* and the new segments.
OldSegs(t, c) ==
  LET n == Len(t.sndq)
  IN  IF c = 0 THEN t.sndq ELSE [t.sndq EXCEPT ![n].len = @ + c, ![n].room = @ - c]

NewSegs(w, c, len) ==
  [i \in 1..Parts(len - c) |->
     LET done == c + (i - 1) * SegMax IN Queued(w + done, Least(SegMax, len - done), FALSE, TRUE)]

\* The segment i of p new ones, of s bytes each but the last, that hold the L bytes from w on.
Piece(b, w, L, s, p, i) ==
  \E a \in Nat, l \in Nat, m \in Nat :
    /\ a = (i - 1) * s
    /\ a + s = i * s
    /\ i < p => l = s
    /\ i = p => l = L - a
    /\ b = [seq |-> w + a, len |-> l, syn |-> FALSE, fin |-> FALSE, ack |-> TRUE, room |-> m]

\* What adding to the send queue does not touch.
Longer(t, u) ==
  /\ u.state = t.state /\ u.ostate = t.ostate /\ u.una = t.una /\ u.nxt = t.nxt /\ u.max = t.max
  /\ u.rnxt = t.rnxt /\ u.read = t.read /\ u.fin = t.fin /\ u.rcvq = t.rcvq /\ u.cur = t.cur
  /\ u.sock = t.sock /\ u.disc = t.disc /\ u.timer = t.timer /\ u.del = t.del /\ u.err = t.err
  /\ u.delack = t.delack /\ u.out = t.out /\ u.wake = t.wake /\ u.wnd = t.wnd
  /\ u.wndack = t.wndack

\* Another last segment that begins where the old one did
Replaced(q, n, d, p) ==
  /\ p \in Seq(Item) /\ Len(p) = n /\ p # <<>> /\ p[n] = d /\ Chain(p)
  /\ \A i \in 1..(n - 1) : p[i] = q[i]

\* tcp_output() of a FIN: its segment
FinQueue(t) ==
  IF Combinable(t) > 0 THEN t.sndq ELSE Append(t.sndq, Queued(t.write, 0, FALSE, TRUE))

FinEnd(q) == [q EXCEPT ![Len(q)].fin = TRUE, ![Len(q)].room = 0]

\* What tcp_ack() makes of a block
AckOf(h, t, s, a) ==
  /\ IsBlock(a) /\ Untouched(t, a) /\ SndOK(h, a) /\ SynGone(a) /\ TimerOK(a) /\ WakeOK(t, a)
  /\ Outs(h, a, a)
  /\ a.una \in {t.una, s.ack} /\ t.una <= a.una

\* An acknowledgement of something new
AckNews(t, a, cwnd) == [Event([t EXCEPT !.una = a], "ACKRCVD", cwnd, FALSE) EXCEPT !.dupacks = 0]

\* What comes of an acknowledgement: x is the block when it has been taken.
AckedTo(h, t, s, u) ==
  \E x : /\ IsBlock(x) /\ Untouched(t, x) /\ x.out = <<>> /\ SynGone(x) /\ WakeOK(t, x)
         /\ Steps(h, x, u) /\ TimerOK(u)
         /\ x.una = t.una \/ x.una = s.ack
         /\ t.una <= x.una
         /\ t.una < s.ack /\ s.ack <= t.max => x.una = s.ack

Duplicate(t) == [t EXCEPT !.dupacks = Least(@ + 1, DupThresh + Len(t.sndq))]

DupNews(t, cwnd) == Event(Duplicate(t), "DUPACK", cwnd, FALSE)

\* The byte x is in the queue.
Holds(q, x) == \E i \in 1..Len(q) : q[i].seq <= x /\ x < NxtOf(q[i])

\* The walk along a queue without what is not contiguous
Walk(q, nxt, k) ==
  /\ k \in 0..Len(q)
  /\ \A j \in 1..k : q[j].seq <= Reached(q, nxt, j - 1)
  /\ k < Len(q) => Reached(q, nxt, k) < q[k + 1].seq

\* The queue q with b in the place of the segments after k up to l
Inserted(q, b, k, l, r) ==
  /\ r \in Seq(Chunk) /\ Len(r) = k + 1 + (Len(q) - l)
  /\ \A j \in 1..k : r[j] = q[j]
  /\ r[k + 1] = b
  /\ \A j \in 1..(Len(q) - l) : r[k + 1 + j] = q[l + j]

InsertElem(q, b, k, l, r, m) ==
  \/ m <= k /\ r[m] = q[m]
  \/ m = k + 1 /\ r[m] = b
  \/ m > k + 1 /\ m - (k + 1) + l \in (l + 1)..Len(q) /\ r[m] = q[m - (k + 1) + l]

\* A part of a queue is in order if the queue is.
Part(q, k, r) ==
  /\ r \in Seq(Chunk) /\ Len(r) = Len(q) - k
  /\ \A j \in 1..(Len(q) - k) : r[j] = q[k + j]

\* What of the queue is left behind a segment
AfterAt(q, b, i, l, a) ==
  /\ l \in (i - 1)..Len(q)
  /\ a \in Seq(Chunk) /\ Len(a) = Len(q) - l
  /\ \A j \in 1..(Len(q) - l) : a[j] = q[l + j]
  /\ \A j \in i..l : NxtOf(q[j]) <= NxtOf(b)
  /\ l < Len(q) => NxtOf(b) < NxtOf(q[l + 1])

\* Where tcp_addseg() puts a segment, and what it takes out for it
Fits(q, b, k, l) ==
  /\ k \in 0..Len(q) /\ l \in k..Len(q)
  /\ k > 0 => q[k].seq < b.seq /\ NxtOf(q[k]) < NxtOf(b)
  /\ l < Len(q) => b.seq < q[l + 1].seq /\ NxtOf(b) < NxtOf(q[l + 1])
  /\ \A j \in (k + 1)..l : b.seq <= q[j].seq /\ NxtOf(q[j]) <= NxtOf(b)

\* The receive queue s from the new segment b on, and all of it, r
Added(q, b, s, r) ==
  /\ s \in Seq(Chunk) /\ r \in Seq(Chunk) /\ Staggered(s) /\ Staggered(r) /\ Placed(r)
  /\ Len(s) > 0 /\ s[1] = b
  /\ \A x \in Int : Holds(q, x) => Holds(r, x)
  /\ \A x \in Int : Holds(s, x) => Holds(r, x)
  /\ \A x \in Int : Holds(r, x) => Holds(s, x) \/ (Holds(q, x) /\ x < NxtOf(b))
  /\ \A m \in 1..Len(r) : r[m] = b \/ \E j \in 1..Len(q) : r[m] = q[j]

\* tcp_rcvdata() piece by piece
RcvChunk(s) == [seq |-> s.seq + One(Has(s, "SYN")), data |-> s.data]

RcvAt(t, s) == IF s.data = <<>> THEN 0 ELSE Place(t.rcvq, RcvChunk(s))

RcvTail(t, s) == <<RcvChunk(s)>> \o After(t.rcvq, RcvChunk(s), RcvAt(t, s))

RcvNxt(t, s) ==
  IF RcvAt(t, s) = 0 THEN t.rnxt + One(Has(s, "SYN"))
  ELSE Contiguous(RcvTail(t, s), t.rnxt + One(Has(s, "SYN")))

RcvFin(t, s) == IF Has(s, "FIN") THEN NxtOf(RcvChunk(s)) ELSE t.fin

RcvQueue(t, s) ==
  IF RcvAt(t, s) = 0 THEN t.rcvq ELSE Before(t.rcvq, RcvChunk(s), RcvAt(t, s)) \o RcvTail(t, s)

RcvCur(t, s) == IF RcvAt(t, s) = 0 THEN t.cur ELSE CurAfter(t, RcvChunk(s), RcvAt(t, s))

RcvWake(t, s) == RcvAt(t, s) # 0 /\ t.sock /\ t.read < RcvNxt(t, s)

RcvBlock(t, s) ==
  [t EXCEPT !.fin = RcvFin(t, s), !.rnxt = RcvNxt(t, s) + One(RcvFin(t, s) = RcvNxt(t, s)),
            !.rcvq = RcvQueue(t, s), !.cur = RcvCur(t, s), !.wake = t.wake \/ RcvWake(t, s)]

\* What is received is kept up to nxt, and nothing at nxt.
Ready(t, nxt) ==
  /\ Placed(t.rcvq) /\ Staggered(t.rcvq)
  /\ t.read <= nxt /\ ~Kept(t, nxt)
  /\ t.sock => 0 <= t.read /\ \A x \in t.read..(nxt - 1) : Kept(t, x) \/ x = t.fin

\* A segment of a stream that ends at F, with something from nxt on
Comes(s, nxt, F) ==
  /\ AtPlace(s)
  /\ Has(s, "FIN") => EndsAt(s) = F
  /\ s.data # <<>> => EndsAt(s) <= F
  /\ Has(s, "FIN") \/ s.data # <<>> => nxt <= EndsAt(s)

\* What tcp_rcvdata() leaves alone
SndSame(t, u) ==
  /\ u.state = t.state /\ u.ostate = t.ostate /\ u.una = t.una /\ u.nxt = t.nxt /\ u.max = t.max
  /\ u.write = t.write /\ u.read = t.read /\ u.sndq = t.sndq /\ u.sock = t.sock /\ u.disc = t.disc
  /\ u.timer = t.timer /\ u.del = t.del /\ u.err = t.err

\* What it brings
Rcvd(t, s, nxt, F, v) ==
  /\ IsBlock(v) /\ SndSame(t, v)
  /\ nxt <= v.rnxt /\ Ready(v, v.rnxt)
  /\ \A i \in 1..Len(v.rcvq) : NxtOf(v.rcvq[i]) <= F
  /\ FinSeen(v) => v.fin = F /\ (FinSeen(t) \/ Has(s, "FIN"))
  /\ t.wake => v.wake
  /\ t.sock /\ Readable(t) = 0 => Readable(v) = 0 \/ v.wake

RcvSet(t, f, n, q, c, w) ==
  [t EXCEPT !.fin = f, !.rnxt = n, !.rcvq = q, !.cur = c, !.wake = w]

\* A segment of a stream that ends at F, under way to a block that has all up to nxt
NetSeg(nxt, s, F) ==
  Has(s, "RST") \/
    /\ AtPlace(s) \/ (s.flags = {"ACK"} /\ Len(s.data) = 1 /\ s.seq + 1 <= nxt)
    /\ Has(s, "FIN") => EndsAt(s) = F
    /\ s.data # <<>> \/ Has(s, "SYN") => EndsAt(s) <= F

\* What tcp_valid() leaves of a segment
Trim(s, x) ==
  /\ x \in Segment /\ x.ack = s.ack /\ x.wnd = s.wnd /\ x.data = s.data
  /\ x.seq + One(Has(x, "SYN")) = s.seq + One(Has(s, "SYN"))
  /\ Has(x, "ACK") <=> Has(s, "ACK")
  /\ Has(x, "RST") <=> Has(s, "RST")
  /\ Has(x, "FIN") => Has(s, "FIN")
  /\ Has(x, "SYN") => Has(s, "SYN")

-----------------------------------------------------------------------------
(* The handlers of the states of a connection.                             *)

\* What tcp_ack(), the opening and tcp_rcvdata() make of a block t on the way to its
\* next state: k is what is acknowledged, the stream from the other side ends at F, and
\* z says that it has sent its FIN.
Pre(h, t, k, F, z, p) ==
  /\ IsBlock(p) /\ SndOK(h, p) /\ SynGone(p) /\ TimerOK(p) /\ Outs(h, p, p)
  /\ p.write = t.write /\ (p.una = t.una \/ p.una = k) /\ t.una <= p.una
  /\ FinSent(p) <=> FinSent(t)
  /\ p.sock = t.sock /\ p.err = t.err /\ p.read = t.read /\ p.del = t.del
  /\ t.rnxt <= p.rnxt /\ Ready(p, p.rnxt)
  /\ FinSeen(p) => p.fin = F /\ z
  /\ \A i \in 1..Len(p.rcvq) : NxtOf(p.rcvq[i]) <= F
  /\ t.sock => \/ p.wake
               \/ /\ p.state = t.state
                  /\ Readable(t) = 0 => Readable(p) = 0
                  /\ Canwrite(t) = 0 => Canwrite(p) = 0

\* A block with a connection
Linked(h, t, F, z) ==
  /\ BlockOK(h, t) /\ Synced(t) /\ t.out = <<>> /\ F \in Nat /\ RcvEnd(t, F, z)
  /\ t.sock => 0 <= t.read

Received(h, t, k, F, z, p, v) ==
  Pre(h, t, k, F, z, v) /\ v.state = p.state /\ v.una = p.una /\ (p.wake => v.wake)

\* The next state
Moved(p, u) ==
  /\ IsBlock(u)
  /\ u.ostate = p.ostate /\ u.una = p.una /\ u.nxt = p.nxt /\ u.max = p.max
  /\ u.write = p.write /\ u.sndq = p.sndq /\ u.timer = p.timer
  /\ u.sock = p.sock /\ u.err = p.err /\ u.read = p.read /\ u.rnxt = p.rnxt
  /\ u.rcvq = p.rcvq /\ u.fin = p.fin /\ u.out = p.out
  /\ p.wake => u.wake
  /\ FinSent(u) <=> FinSent(p)
  /\ u.state = p.state \/ u.wake \/ FinSent(u)

\* A block whose state, timer and flags are set, and nothing else
Restated(p, u) ==
  /\ IsBlock(u)
  /\ u.ostate = p.ostate /\ u.una = p.una /\ u.nxt = p.nxt /\ u.max = p.max
  /\ u.write = p.write /\ u.sndq = p.sndq
  /\ u.sock = p.sock /\ u.err = p.err /\ u.read = p.read /\ u.rnxt = p.rnxt
  /\ u.rcvq = p.rcvq /\ u.fin = p.fin /\ u.out = p.out

Ended(p, st, w) == [p EXCEPT !.state = st, !.wake = @ \/ w]

\* What a handler has to show
Answer(h, t, u, k, F, z) == Turn(h, t, u, k) /\ RcvEnd(u, F, z)

\* A segment of the stream from the other side, which has something for t.
Inbound(t, s, F, z) ==
  /\ s \in Segment
  /\ ~Has(s, "RST") /\ ~Has(s, "SYN") => Comes(s, t.rnxt, F) /\ (Has(s, "FIN") => z)

\* What a handler gets
Given(h, t, s, a, F, z) ==
  /\ Linked(h, t, F, z) /\ Inbound(t, s, F, z) /\ AckOf(h, t, s, a)

\* What a SYN from the other side g is to a client that waits for it: nothing but the
\* server's answer, whose acknowledgement is x.
SynSeg(s, i, F, z) ==
  /\ AtPlace(s) /\ Has(s, "ACK") /\ s.seq = i /\ EndsAt(s) <= F
  /\ Has(s, "FIN") => EndsAt(s) = F /\ z

Asked(t, n, m) == [t EXCEPT !.rnxt = n, !.rwnd = n, !.read = m]

\* A connection that gets what it asked for
Joins(h, t, s, i, F, z, x, u) ==
  /\ BlockOK(h, u) /\ RcvEnd(u, F, z)
  /\ u.una = x /\ u.write = t.write /\ u.state = "ESTABLISHED" /\ u.sock = t.sock /\ u.wake
  /\ i <= u.rnxt /\ u.read = i + 1 /\ Outs(h, u, u)

\* The block that has its answer, before it looks at what else there is in it
Joining(h, t, s, o, F, x, p) ==
  /\ IsBlock(p) /\ SndOK(h, p) /\ SynGone(p) /\ TimerOK(p) /\ Outs(h, p, p)
  /\ p.state = "ESTABLISHED" /\ p.wake /\ p.una = x /\ p.write = t.write /\ p.sock = t.sock
  /\ p.read = o /\ ~p.del /\ p.rcvq = <<>> /\ p.fin = NoFin /\ p.sock
  /\ o = p.rnxt + One(Has(s, "SYN"))

Welcome(t, i, o, s, g, cwnd) == Opened(Ack(Asked(t, i, o), s, g, cwnd), s)

\* The arms of the handler in SYNSENT
OursIs(t, s, isn) == Has(s, "ACK") /\ isn < s.ack /\ s.ack <= t.max

SynsentArms(t, s, isn, cwnd, u) ==
         /\ Has(s, "ACK") /\ ~OursIs(t, s, isn) => u = SndRst(t, s)
         /\ OursIs(t, s, isn) /\ Has(s, "RST") => u = [Reset(t) EXCEPT !.state = "CLOSED", !.disc = TRUE]
         /\ OursIs(t, s, isn) /\ Has(s, "SYN") /\ ~Has(s, "RST") =>
              u = SndAckOnly(Rcvdata(SynAcked(Ack(Asked(t, s.seq, s.seq + 1), s, FALSE, cwnd), s, isn), s))
         /\ ~Has(s, "ACK") /\ ~(Has(s, "SYN") /\ ~Has(s, "RST")) => u = t
         /\ OursIs(t, s, isn) /\ ~Has(s, "SYN") /\ ~Has(s, "RST") => u = t

\* What may come in: a block like t that waits for the stream that ends at F is the receiver.
Arrives(h, t, s, F, z) ==
  /\ s \in Segment
  /\ ~Has(s, "RST") =>
       /\ Synced(t) => NetSeg(t.rnxt, s, F)
       /\ Has(s, "FIN") => z
       /\ Has(s, "SYN") /\ t.state = "SYNSENT" => SynSeg(s, Isn[Peer(h)], F, z)
       /\ Has(s, "SYN") /\ ~Has(s, "ACK") => s.flags = {"SYN"}

Flagged(t, a, b) == [t EXCEPT !.timer = a, !.del = b]

SndAlike(h, p, u) ==
  /\ SndOK(h, u)
  /\ SynGone(p) => SynGone(u)
  /\ Canwrite(u) = Canwrite(p)
  /\ FinSent(u) <=> FinSent(p)
  /\ LastByte(u) = LastByte(p)

TimedOut(h, t, u) ==
  \/ Steps(h, t, u) /\ u.timer /\ u.ostate # "IDLE"
  \/ \E v : Steps(h, t, v) /\ u = Abort(v)

\* A timer runs out.
Expired(t) == [t EXCEPT !.timer = FALSE]

\* A block that has sent its SYN
Synning(h, b, n, u) ==
  /\ IsBlock(u) /\ SndOK(h, u) /\ SynGone(u) /\ TimerOK(u) /\ Outs(h, u, u)
  /\ u.una = n /\ u.write = n + 1 /\ u.state = b.state /\ u.rnxt = b.rnxt /\ u.read = b.read
  /\ u.rcvq = b.rcvq /\ u.fin = b.fin /\ u.sock = b.sock /\ u.del = b.del /\ u.err = b.err

\* The SYN that opens the server's side
Opening(u, n, o, F, z) ==
  /\ BlockOK("sv", u) /\ RcvEnd(u, F, z) /\ Outs("sv", u, u)
  /\ u.state = "SYNRCVD" /\ u.una = n /\ u.write = n + 1 /\ o <= u.rnxt /\ u.read = o /\ u.sock

SynAck(v, cwnd) == OutputSyn(v, TRUE, cwnd)

\* connect()
Asking(u, n) ==
  /\ BlockOK("cl", u) /\ Outs("cl", u, u)
  /\ u.state = "SYNSENT" /\ u.una = n /\ u.write = n + 1 /\ u.rnxt = 0 /\ u.sock /\ u.rcvq = <<>>
  /\ ~u.err

Syn(b, cwnd) == OutputSyn(b, FALSE, cwnd)

Asks(v) == [v EXCEPT !.state = "SYNSENT"]

\* A block that was handed over: what it says and whom it wakes is seen to.
Clean(u) == [u EXCEPT !.out = <<>>, !.wake = FALSE]

Cleaned(u, c) ==
  /\ IsBlock(c) /\ c.out = <<>> /\ ~c.wake
  /\ c.state = u.state /\ c.ostate = u.ostate /\ c.una = u.una /\ c.nxt = u.nxt /\ c.max = u.max
  /\ c.write = u.write /\ c.rnxt = u.rnxt /\ c.read = u.read /\ c.fin = u.fin /\ c.sndq = u.sndq
  /\ c.rcvq = u.rcvq /\ c.sock = u.sock /\ c.timer = u.timer /\ c.del = u.del /\ c.delack = u.delack
  /\ c.err = u.err

CleanFine(h, u, c) ==
  /\ BlockOK(h, u) => BlockOK(h, c)
  /\ \A p, n : ProgFine(h, u, p, n) => ProgFine(h, c, p, n)
  /\ \A p : SleepFine(u, p) => SleepFine(c, p)

\* Whom a step of h concerns: its block becomes c, and nothing is taken back.
Frame(h, g, c) ==
  /\ tcb' = [tcb EXCEPT ![h] = c] /\ DOMAIN tcb = Host
  /\ NotYet(h)' => NotYet(h)
  /\ Started(h) => Started(h)'
  /\ NotYet(g)' <=> NotYet(g)
  /\ Started(g)' <=> Started(g)

\* The receiving side of h goes forward.
Forward(h, g, t, u) ==
  Synced(u) => \/ Synced(t) /\ t.rnxt <= u.rnxt
               \/ NotYet(h) /\ Isn[g] <= u.rnxt /\ Started(g)

\* A block b that says what goes out, when the step leaves u.  The stream ends at F.
Says(g, u, F, b) ==
  /\ IsBlock(b) /\ Below(g, b.una)
  /\ Synced(u) => b.rnxt <= u.rnxt
  /\ u.state = "SYNSENT" => b.rnxt = 0
  /\ LastByte(b) = F \/ AllPlain(u)
  /\ FinSent(b) /\ Live(u) => FinSent(u)

Utters(h, g, u, F) == AllRst(u) \/ \E b : Says(g, u, F, b) /\ Outs(h, b, u)

\* Every segment that comes in is one that was there, or one that was said.
Hears(h, u) == net' \subseteq net \cup {[to |-> Peer(h), seg |-> u.out[i]] : i \in 1..Len(u.out)}

Going(h, g, t, u, c) ==
  /\ Frame(h, g, c) /\ Forward(h, g, t, u)
  /\ t = tcb[h] /\ IsBlock(t) /\ IsBlock(tcb[g]) /\ IsBlock(u)
  /\ Synced(c) <=> Synced(u)
  /\ c.rnxt = u.rnxt

\* What h has written ends at F1 after the step, at F before it.
Grows(h, t, u, F, F1) ==
  /\ Live(u) => u.write = IF FinSent(u) THEN F1 + 1 ELSE F1
  /\ \/ F1 = F /\ (Live(u) => Live(t) /\ (FinSent(t) => FinSent(u)))
     \/ F <= F1 /\ Live(t) /\ ~FinSent(t)
     \/ ~Started(h)

\* The end of the stream, if it is known, stays where it is.
EndFixed(t, F, e) == e = F /\ (Live(t) => FinSent(t))

\* A segment on its way from a block t whose stream ends at F
SegEnds(t, F, s) ==
  /\ Has(s, "FIN") => EndFixed(t, F, EndsAt(s))
  /\ s.data # <<>> \/ Has(s, "SYN") => EndsAt(s) <= F

\* The inductive invariant
TInv ==
  /\ TypeOK
  /\ \A h \in Host : HostOK(h)
  /\ StartOK /\ NetOK /\ AcksOK
  /\ \A h \in Host : \E F \in Nat : StreamEnd(h, Peer(h), F)
  /\ \A h \in Host : Sleepers(h)
  /\ InOrder

\* The block u may follow t.
Legal(h, g, t, u, F, F1, G, z) ==
  /\ BlockOK(h, u) /\ RcvEnd(u, G, z) /\ Below(g, u.una)
  /\ Forward(h, g, t, u)
  /\ Grows(h, t, u, F, F1)
  /\ Utters(h, g, u, F1)

\* The programs may go on with u as w, when they have read l.
Serves(h, g, u, w, l) ==
  /\ w \in Prog /\ ProgFine(h, u, w, Len(l)) /\ SleepFine(u, w)
  /\ AllRst(u) \/ Started(h)'
  /\ ~Started(h)' => u.state = "none" /\ w.fd = "none"
  /\ l \in Seq(Int) /\ (NotYet(h)' => l = <<>>)
  /\ \A i \in 1..Len(l) : l[i] = Isn[g] + i

Outcome(h, u, w, l) ==
  /\ tcb' = [tcb EXCEPT ![h] = Clean(u)]
  /\ net' = Sent(h, u)
  /\ prog' = [prog EXCEPT ![h] = w]
  /\ got' = [got EXCEPT ![h] = l]
  /\ listening' \in {"new", "used", "closed"}

Waked(p, u, w) ==
  /\ w \in Prog /\ w.fd = p.fd /\ w.conn = p.conn /\ w.shut = p.shut /\ w.todo = p.todo
  /\ w.left = p.left
  /\ w.rd = "idle" <=> p.rd = "idle"
  /\ w.wr = "idle" <=> p.wr = "idle"
  /\ u.wake => w.rd # "asleep" /\ w.wr # "asleep"
  /\ ~u.wake => w = p

\* Where the two streams end
Streams(h, g, F, G, z) ==
  /\ g \in Host /\ g = Peer(h) /\ F \in Nat /\ G \in Nat
  /\ StreamEnd(h, g, F) /\ StreamEnd(g, h, G)
  /\ z <=> (Live(tcb[g]) => FinSent(tcb[g]))

Served(h, u, w, p, n) == w \in Prog /\ w.fd = p.fd /\ ProgFine(h, u, w, n) /\ SleepFine(u, w)

\* A block of which only an error is taken
Cleared(t, e) == [t EXCEPT !.err = e]

\* A step that leaves the connection as it is
Still(h, t, u) ==
  /\ BlockOK(h, u) /\ u.out = <<>> /\ u.state = t.state /\ u.una = t.una /\ u.rnxt = t.rnxt
  /\ u.write = t.write /\ u.fin = t.fin /\ u.rcvq = t.rcvq /\ u.sock = t.sock /\ u.read = t.read
  /\ u.sndq = t.sndq

\* The writer of p, or what it is at, becomes another.
Writer(p, a, b, n) == [p EXCEPT !.wr = a, !.conn = b, !.left = n]

Wrote(p, a, b, n, q) ==
  /\ q \in Prog /\ q.wr = a /\ q.conn = b /\ q.left = n /\ q.fd = p.fd /\ q.rd = p.rd
  /\ q.shut = p.shut /\ q.todo = p.todo

\* The file descriptor of p
Opener(p, f) == [p EXCEPT !.fd = f]

OpenerOf(p, f, q) ==
  /\ q \in Prog /\ q.fd = f /\ q.wr = p.wr /\ q.conn = p.conn /\ q.left = p.left /\ q.rd = p.rd
  /\ q.shut = p.shut

\* Who waits in tcp_connect()
WaiterOf(o, p) ==
  p \in Prog /\ p.wr = "asleep" /\ p.conn /\ p.fd = o.fd /\ p.rd = o.rd

\* What a call that writes leaves alone
Kin(t, e) ==
  /\ e.una = t.una /\ e.rnxt = t.rnxt /\ e.read = t.read /\ e.fin = t.fin /\ e.rcvq = t.rcvq
  /\ e.sock = t.sock /\ e.del = t.del /\ e.err = t.err

\* The output side sends what a call has added to the queue of t, which made it e.
Adds(h, t, e, u, E) ==
  /\ IsBlock(e) /\ Kin(t, e) /\ e.out = <<>> /\ SynGone(e) /\ Steps(h, e, u) /\ TimerOK(u)
  /\ Synced(e) /\ LastByte(e) = E /\ e.write = IF FinSent(e) THEN E + 1 ELSE E

\* The program after shutdown()
Shut(p) == [p EXCEPT !.shut = TRUE]

ShutOf(p, q) ==
  /\ q \in Prog /\ q.shut /\ q.fd = p.fd /\ q.rd = p.rd /\ q.wr = p.wr /\ q.conn = p.conn /\ q.left = p.left

\* tcp_detach() after the FIN: the socket and what it has not read are dropped.
Bare(u, n) == [u EXCEPT !.sock = FALSE, !.rcvq = <<>>, !.read = n, !.cur = 0]

Sever(u, n) == Dropsegs([[u EXCEPT !.sock = FALSE] EXCEPT !.rcvq = <<>>], n)

BareOf(u, n, v) ==
  /\ IsBlock(v) /\ v.state = u.state /\ v.una = u.una /\ v.nxt = u.nxt /\ v.max = u.max
  /\ v.write = u.write /\ v.sndq = u.sndq /\ v.ostate = u.ostate /\ v.timer = u.timer /\ v.del = u.del
  /\ v.rnxt = u.rnxt /\ v.fin = u.fin /\ v.rcvq = <<>> /\ ~v.sock /\ v.read = n

\* The program after close()
Closer(p) == [p EXCEPT !.fd = "gone"]

Catted(r, b, o, n, l) ==
  /\ l \in Seq(Int) /\ Len(l) = o + n
  /\ \A i \in 1..o : l[i] = r[i]
  /\ \A i \in 1..n : l[o + i] = b[i]

\* The bytes that are read
Read(t, n) == [i \in 1..n |-> ByteAt(t.rcvq, t.read + i - 1)]

Reads(l, o, n, a) == l \in Seq(Int) /\ Len(l) = o + n /\ \A i \in 1..Len(l) : l[i] = a + i

\* A block of which the bytes before x have been read
Taken(t, x, q, k) == [t EXCEPT !.read = x, !.rcvq = q, !.cur = k]

TakenOf(t, x, q, v) ==
  /\ IsBlock(v) /\ v.state = t.state /\ v.una = t.una /\ v.nxt = t.nxt /\ v.max = t.max
  /\ v.write = t.write /\ v.sndq = t.sndq /\ v.ostate = t.ostate /\ v.timer = t.timer /\ v.del = t.del
  /\ v.rnxt = t.rnxt /\ v.fin = t.fin /\ v.sock = t.sock /\ v.err = t.err
  /\ v.rcvq = q /\ v.read = x

\* An acknowledgement and nothing else
Acknowledges(h, c, v) ==
  /\ IsBlock(v) /\ Unmoved(c, v) /\ v.sndq = c.sndq /\ v.nxt = c.nxt /\ v.max = c.max
  /\ AllPlain(v) /\ Outs(h, c, v)

Dropped(h, t, x, q, v) == TakenOf(t, x, q, v) /\ AllPlain(v) /\ \E c : TakenOf(t, x, q, c) /\ Outs(h, c, v)

\* The reader of p goes on as a.
Reader(p, a) == [p EXCEPT !.rd = a]

ReaderOf(p, a, q) ==
  /\ q \in Prog /\ q.rd = a /\ q.wr = p.wr /\ q.conn = p.conn /\ q.left = p.left /\ q.fd = p.fd
  /\ q.shut = p.shut

=============================================================================
