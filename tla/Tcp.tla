--------------------------------- MODULE Tcp ---------------------------------
(***************************************************************************)
(* One TCP connection of MiNT-Net (src/sys/sockets/inet4): a client that      *)
(* connects, a server that accepts, and a network that loses, repeats and     *)
(* reorders segments.  Input is tcpin.c, output tcpout.c, the calls of the     *)
(* programs are tcp.c.                                                       *)
(*                                                                           *)
(* Sequence numbers are integers: the comparisons of tcp.h are those of       *)
(* integers as long as less than 2^31 bytes are under way.  A byte is its      *)
(* sequence number, so that bytes that end up in the wrong place are seen.     *)
(* Timers may run out at any time, and the congestion window is any that       *)
(* holds a full segment.  Urgent data, the options of a segment, ICMP errors   *)
(* and shortage of memory are left out.                                      *)
(***************************************************************************)
EXTENDS Integers, FiniteSets, Sequences

CONSTANTS
  Isn,        \* what tcp_isn() gives to each host
  Writes,     \* the sizes of the writes of each host, in order
  Calls,      \* what the programs of each host do besides
  SegMax,     \* the data of a full segment, snd_mss - TCP_MAXRETRY
  SndMax,     \* snd.maxdatalen
  RcvMax,     \* rcv.maxdatalen
  MaxRetry,   \* TCP_MAXRETRY
  DupThresh,  \* TCP_DUPTHRESH
  MaxNet      \* bound on the segments under way

Host == {"cl", "sv"}

ASSUME TcpAssumption ==
  /\ Isn \in [Host -> Nat \ {0}] /\ Writes \in [Host -> Seq(Nat \ {0})]
  /\ Calls \in [Host -> SUBSET {"recv", "shutdown", "close", "signal"}]
  /\ {MaxRetry, MaxNet} \subseteq Nat
  /\ {SegMax, SndMax, RcvMax, DupThresh} \subseteq Nat \ {0}

VARIABLES
  tcb,         \* the control block of each host, with its two queues
  listening,   \* the server's listening socket: "new", "used" or "closed"
  net,         \* segments that may still come
  prog,        \* the socket and the calls of the programs of each host
  got          \* the bytes they have read

vars == <<tcb, listening, net, prog, got>>

Peer(h) == CHOOSE g \in Host : g # h
Least(a, b) == IF a < b THEN a ELSE b
Most(a, b) == IF a < b THEN b ELSE a
One(b) == IF b THEN 1 ELSE 0

Mss == SegMax + MaxRetry

-----------------------------------------------------------------------------
(* The control block.  The last three fields are what a step hands to the    *)
(* outside: segments for ip_send(), the wakeup of the socket's sleepers, and   *)
(* whether it has called FATAL or copied a negative number of bytes.          *)

NoFin == -1

Block(state, isn, risn) ==
  [state |-> state, ostate |-> "IDLE", una |-> isn, nxt |-> isn, max |-> isn,
   write |-> isn, wnd |-> Mss, wndseq |-> 0, wndack |-> isn, wndmax |-> 0,
   rnxt |-> risn, rwnd |-> risn, read |-> risn + 1, fin |-> NoFin,
   sndq |-> <<>>, rcvq |-> <<>>, cur |-> 0, nretrans |-> 0, dupacks |-> 0,
   sock |-> TRUE, disc |-> FALSE, timer |-> FALSE, del |-> FALSE, delack |-> FALSE,
   err |-> FALSE, out |-> <<>>, wake |-> FALSE, fatal |-> FALSE]

NoTcb == [Block("none", 0, 0) EXCEPT !.sock = FALSE]

\* The reader and the writer of a host share its socket; the writer may be in
\* connect().  shut is SO_CANTSNDMORE.
Idle(h) == [fd |-> "none", rd |-> "idle", wr |-> "idle", conn |-> FALSE, shut |-> FALSE,
            todo |-> Writes[h], left |-> 0]

Init ==
  /\ tcb = [h \in Host |-> NoTcb]
  /\ listening = "new"
  /\ net = {}
  /\ prog = [h \in Host |-> Idle(h)]
  /\ got = [h \in Host |-> <<>>]

Synced(t) == t.state \notin {"none", "CLOSED", "SYNSENT"}
Connecting(t) == t.state \in {"SYNSENT", "SYNRCVD"}
Connected(t) == t.state \in {"ESTABLISHED", "CLOSEWAIT"}
FinSeen(t) == t.fin # NoFin
Finished(t) == t.fin # NoFin /\ t.fin < t.rnxt

\* A segment of the send queue: room is what cancombine() may add to it.
Queued(seq, len, syn, ack) ==
  [seq |-> seq, len |-> len, syn |-> syn, fin |-> FALSE, ack |-> ack, room |-> SegMax - len]
EndOf(b) == b.seq + b.len + One(b.syn) + One(b.fin)

\* A segment on its way, and one of the receive queue.
Seg(seq, ack, flags, wnd, data) ==
  [seq |-> seq, ack |-> ack, flags |-> flags, wnd |-> wnd, data |-> data]
Has(s, f) == f \in s.flags
SegLen(s) == Len(s.data) + One(Has(s, "SYN")) + One(Has(s, "FIN"))
NxtOf(b) == b.seq + Len(b.data)

\* A walk along a queue passes the segments that end at x or before it, and stops at
\* the first one that does not: how many it passes when s has their ends, and the
\* queue from there on.
Passed(s, x) ==
  CHOOSE k \in 0..Len(s) : (\A j \in 1..k : s[j] <= x) /\ (k < Len(s) => x < s[k + 1])
Ends(q) == [i \in 1..Len(q) |-> EndOf(q[i])]
Nxts(q) == [i \in 1..Len(q) |-> NxtOf(q[i])]
Rest(q, k) == SubSeq(q, k + 1, Len(q))

\* curdatalen of the send queue, and tcp_canwrite()
Total(s) ==
  LET upto[n \in 0..Len(s)] == IF n = 0 THEN 0 ELSE upto[n - 1] + s[n] IN upto[Len(s)]
Used(t) == Total([i \in 1..Len(t.sndq) |-> t.sndq[i].len])
Canwrite(t) ==
  LET space == SndMax - Used(t)
  IN  IF ~Connected(t) \/ (space < Mss /\ 2 * Mss <= SndMax) THEN 0 ELSE Most(space, 0)

-----------------------------------------------------------------------------
(* Sending: tcputil.c, tcpout.c.                                           *)

\* tcp_rcvwnd(): the window to advertise, and where it ends if it is a promise.
Space(t) ==
  LET space == RcvMax - t.cur IN IF space < Mss /\ 4 * space < RcvMax THEN 0 ELSE space
Promised(t) == IF Synced(t) THEN t.rwnd - t.rnxt ELSE Space(t)
Rcvwnd(t) == Most(Space(t), Promised(t))
Edge(t) == IF Synced(t) THEN t.rnxt + Rcvwnd(t) ELSE t.rwnd

\* A segment with an acknowledgement of everything received and a new window.
Acking(t, seq, flags, data) ==
  [t EXCEPT !.out = Append(@, Seg(seq, t.rnxt, flags, Rcvwnd(t), data)),
            !.rwnd = Edge(t), !.delack = FALSE]

\* tcp_output() of an ACK only, tcp_sndack(), tcp_sndrst()
SndAckOnly(t) == Acking(t, t.nxt, {"ACK"}, <<>>)

SndAck(t, s) ==
  LET wndlast == t.wndack + t.wnd - One(t.wnd > 0)
  IN  IF Has(s, "RST") THEN t ELSE Acking(t, Least(t.nxt, wndlast), {"ACK"}, <<>>)

SndRst(t, s) ==
  LET seq   == IF Has(s, "ACK") THEN s.ack ELSE 0
      flags == IF Has(s, "ACK") THEN {"RST"} ELSE {"RST", "ACK"}
  IN  IF Has(s, "RST") THEN t
      ELSE [t EXCEPT !.out = Append(@, Seg(seq, s.seq + SegLen(s), flags, 0, <<>>))]

\* The bytes of segment b of the queue from the offs'th on.
Bytes(b, offs, len) == [i \in 1..len |-> b.seq + One(b.syn) + offs + i - 1]

\* tcp_sndseg(): the part of segment i that lies between w1 and w2, with up to n
\* bytes of the next one to tell the retransmissions apart.  When w2 < w1, what is
\* left may be less than nothing: it is taken off the header, and the other side
\* drops the segment as too short, or else a negative number of bytes is copied.
Offset(b, w1) == IF b.seq < w1 THEN w1 - (b.seq + One(b.syn)) ELSE 0
Beyond(b, w2) == IF w2 < EndOf(b) THEN EndOf(b) - One(b.fin) - w2 ELSE 0

Extra(t, i, n, flags) ==
  LET b == t.sndq[i + 1]
      m == Least(b.len, n)
  IN  IF /\ i < Len(t.sndq)
         /\ b.seq + m <= t.wndack + t.wnd
         /\ ("SYN" \in flags) = b.syn /\ ("FIN" \in flags) = b.fin
      THEN m ELSE 0

SndSeg(t, i, n, w1, w2) ==
  LET b     == t.sndq[i]
      seq   == Most(b.seq, w1)
      len   == b.len - Offset(b, w1) - Beyond(b, w2)
      flags == (IF b.ack THEN {"ACK"} ELSE {})
                 \cup (IF b.syn /\ b.seq >= w1 THEN {"SYN"} ELSE {})
                 \cup (IF b.fin /\ w2 >= EndOf(b) THEN {"FIN"} ELSE {})
      more  == IF w2 < EndOf(b) THEN 0 ELSE Extra(t, i, n, flags)
      data  == Bytes(b, Offset(b, w1), len)
                 \o (IF more = 0 THEN <<>> ELSE Bytes(t.sndq[i + 1], 0, more))
      top   == IF more = 0 THEN t.max ELSE Most(t.max, t.sndq[i + 1].seq + more)
  IN  CASE len < 0 /\ b.seq < w1 -> [t EXCEPT !.fatal = TRUE]
        [] len < 0 /\ b.seq >= w1 -> [Acking(t, seq, flags, <<>>) EXCEPT !.out = t.out]
        [] OTHER -> [Acking(t, seq, flags, data) EXCEPT !.max = top]

\* tcp_sndhead(): what the windows and Nagle's algorithm let go, one segment after
\* the other.  A segment that has to stay, or to stay in part, is still the first
\* unsent one at the next turn, and stays again.
FirstUnsent(t) == Passed(Ends(t.sndq), t.nxt) + 1

Goes(t, i, wndnxt) ==
  /\ i <= Len(t.sndq) /\ t.sndq[i].seq < wndnxt
  /\ \/ EndOf(t.sndq[i]) <= wndnxt
     \/ t.nxt < wndnxt /\ 2 * (wndnxt - t.nxt) > t.wndmax

SendOne(t, i, wndnxt) ==
  LET e == Least(EndOf(t.sndq[i]), wndnxt)
  IN  IF ~Goes(t, i, wndnxt) THEN t
      ELSE [SndSeg(t, i, 0, t.nxt, wndnxt) EXCEPT !.nxt = e, !.max = Most(@, e),
                                                  !.sndq[i].room = SegMax]

SendFrom(t, wndnxt) ==
  LET sent[k \in 0..Len(t.sndq)] ==
        IF k = 0 THEN t ELSE SendOne(sent[k - 1], FirstUnsent(sent[k - 1]), wndnxt)
  IN  sent[Len(t.sndq)]

SndHead(t, cwnd) ==
  LET last  == t.sndq[Len(t.sndq)]
      nagle == last.room > 0 /\ (t.una < t.nxt \/ Len(t.sndq) > 1)
      r     == IF nagle THEN Least(last.seq - t.wndack, cwnd) ELSE cwnd
  IN  IF t.nxt >= t.write THEN t
      ELSE SendFrom(t, t.wndack + Least(t.wnd, r))

\* canretrans()
Canretrans(t) ==
  t.wnd > 0 /\ t.sndq # <<>> /\ t.una < t.nxt /\ t.sndq[1].seq < t.nxt

\* tcp_dropdata()
Dropdata(t) ==
  LET rest == Rest(t.sndq, Passed(Ends(t.sndq), t.una))
      u    == [t EXCEPT !.sndq = rest]
  IN  IF rest = t.sndq THEN t
      ELSE [u EXCEPT !.nretrans = 0, !.wake = @ \/ (t.sock /\ Canwrite(u) > 0)]

\* tcb_reset() and tcb_delete()
Reset(t) ==
  [t EXCEPT !.ostate = "IDLE", !.timer = FALSE, !.del = FALSE, !.delack = FALSE,
            !.err = TRUE, !.sndq = <<>>, !.rcvq = <<>>, !.cur = 0, !.wake = @ \/ t.sock]

Delete(t) ==
  IF t.sock THEN [t EXCEPT !.state = "CLOSED"]
  ELSE [NoTcb EXCEPT !.out = t.out, !.fatal = t.fatal]

Abort(t) == Delete([Reset(t) EXCEPT !.state = "CLOSED"])

-----------------------------------------------------------------------------
(* The output state machine.                                               *)

Start(t) == [t EXCEPT !.timer = TRUE]
\* event_reset() of a timer that is not running is FATAL.
Restart(t) == [t EXCEPT !.fatal = @ \/ ~t.timer]
Ostate(t, o) == [t EXCEPT !.ostate = o]

\* tcp_probe(): one byte outside the window.  g: nothing was heard for
\* TCP_CONN_TMOUT.
Bogus == 0
Probe(t, g) ==
  IF g THEN Abort(t)
  ELSE Start([t EXCEPT !.out = Append(@, Seg(t.una - 2, t.rnxt, {"ACK"}, Rcvwnd(t), <<Bogus>>))])

\* tcp_retrans()
RetransOnce(t) ==
  LET u == [t EXCEPT !.nretrans = @ + 1]
  IN  IF u.nretrans > MaxRetry THEN Abort(t)
      ELSE IF t.sndq = <<>> THEN Ostate(u, "IDLE")
      ELSE SndSeg(u, 1, u.nretrans, t.una, t.nxt)

Retrans(t) ==
  LET u == [t EXCEPT !.nretrans = @ + 1]
  IN  IF u.nretrans > MaxRetry THEN Abort(t)
      ELSE IF t.sndq = <<>> THEN Ostate(u, "IDLE")
      ELSE Start(SndSeg(u, 1, u.nretrans, t.una, t.nxt))

\* Everything is acknowledged: the timer is stopped.
Done(t) == [t EXCEPT !.ostate = "IDLE", !.timer = FALSE]

IdleSend(t, cwnd) ==
  IF t.nxt >= t.write THEN t
  ELSE LET u == SndHead(t, cwnd)
       IN  Start(Ostate(u, IF Canretrans(u) THEN "XMIT" ELSE "PERSIST"))

XmitWnd(t) == IF Canretrans(t) THEN t ELSE Ostate(t, "PERSIST")

XmitAck(t) == LET u == Dropdata(t) IN IF u.una >= u.write THEN Done(u) ELSE Restart(u)

XmitTimeout(t) == Retrans([Ostate(t, "RETRANS") EXCEPT !.dupacks = Least(@, DupThresh - 1)])

RetransDup(t) ==
  LET i == t.dupacks - DupThresh + 1
  IN  IF /\ i \in 1..Len(t.sndq) /\ Canretrans(t) /\ EndOf(t.sndq[i]) <= t.nxt
      THEN SndSeg(t, i, IF i = 1 THEN t.nretrans ELSE 0, t.una, t.nxt)
      ELSE t

RetransAck(t, cwnd) ==
  LET u == Dropdata(t)
  IN  IF u.una >= u.write THEN Done(u)
      ELSE IF u.una >= u.nxt THEN Restart(Ostate(SndHead(u, cwnd), "XMIT"))
      ELSE Restart(u)

PersistTimeout(t, cwnd, g) ==
  LET u == SndHead([t EXCEPT !.wndmax = t.wnd], cwnd)
  IN  IF t.wnd = 0 THEN Probe(t, g)
      ELSE IF Canretrans(u) THEN Start(Ostate(u, "XMIT"))
      ELSE Probe(u, g)

PersistAck(t) == LET u == Dropdata(t) IN IF u.una >= u.write THEN Done(u) ELSE u

PersistOpen(t, cwnd) ==
  LET u == SndHead(t, cwnd)
  IN  IF Canretrans(u) THEN Restart(Ostate(u, "XMIT")) ELSE u

\* TCB_OSTATE; an event that is not named is ignored.
Event(t, e, cwnd, g) ==
  CASE t.ostate = "IDLE" /\ e = "SEND" -> IdleSend(t, cwnd)
    [] t.ostate = "XMIT" /\ e = "SEND" -> SndHead(t, cwnd)
    [] t.ostate = "XMIT" /\ e = "WNDOPEN" -> XmitWnd(SndHead(t, cwnd))
    [] t.ostate \in {"XMIT", "RETRANS"} /\ e = "WNDCLOSE" -> XmitWnd(t)
    [] t.ostate = "XMIT" /\ e = "ACKRCVD" -> XmitAck(t)
    [] t.ostate = "XMIT" /\ e = "TIMEOUT" -> XmitTimeout(t)
    [] t.ostate = "RETRANS" /\ e = "TIMEOUT" -> Retrans(t)
    [] t.ostate = "RETRANS" /\ e = "DUPACK" -> RetransDup(t)
    [] t.ostate = "RETRANS" /\ e = "ACKRCVD" -> RetransAck(t, cwnd)
    [] t.ostate = "PERSIST" /\ e = "TIMEOUT" -> PersistTimeout(t, cwnd, g)
    [] t.ostate = "PERSIST" /\ e = "ACKRCVD" -> PersistAck(t)
    [] t.ostate = "PERSIST" /\ e = "WNDOPEN" -> PersistOpen(t, cwnd)
    [] OTHER -> t

\* tcp_output() of data, which goes into the last segment if that was never sent,
\* and into new ones, all full but the last; of a FIN; of a SYN.
Combinable(t) ==
  LET last == t.sndq[Len(t.sndq)]
  IN  IF t.sndq # <<>> /\ t.max <= last.seq THEN last.room ELSE 0

Parts(len) == (len + SegMax - 1) \div SegMax

Enqueue(t, len) ==
  LET n == Len(t.sndq)
      c == Least(len, Combinable(t))
      old == IF c = 0 THEN t.sndq ELSE [t.sndq EXCEPT ![n].len = @ + c, ![n].room = @ - c]
      new == [i \in 1..Parts(len - c) |->
                LET done == c + (i - 1) * SegMax
                IN  Queued(t.write + done, Least(SegMax, len - done), FALSE, TRUE)]
  IN  [t EXCEPT !.sndq = old \o new, !.write = @ + len]

OutputData(t, len, cwnd) == Event(Enqueue(t, len), "SEND", cwnd, FALSE)

OutputFin(t, cwnd) ==
  LET u == IF Combinable(t) > 0 THEN t
           ELSE [t EXCEPT !.sndq = Append(@, Queued(t.write, 0, FALSE, TRUE))]
      n == Len(u.sndq)
  IN  Event([u EXCEPT !.sndq[n].fin = TRUE, !.sndq[n].room = 0, !.write = @ + 1],
            "SEND", cwnd, FALSE)

OutputSyn(t, ack, cwnd) ==
  Event([t EXCEPT !.sndq = Append(@, Queued(t.write, 0, TRUE, ack)), !.write = @ + 1],
        "SEND", cwnd, FALSE)

-----------------------------------------------------------------------------
(* Receiving: tcpin.c.                                                     *)

\* tcp_valid(): SYN and FIN flags outside the window are removed, and the segment
\* must have something for it.
LastOf(s) == s.seq + SegLen(s) - One(SegLen(s) > 0)

Trimmed(t, s) ==
  LET old  == Has(s, "SYN") /\ s.seq < t.rnxt
      late == Has(s, "FIN") /\ LastOf(s) >= t.rnxt + Rcvwnd(t)
  IN  IF ~Synced(t) \/ Rcvwnd(t) = 0 THEN s
      ELSE [s EXCEPT !.seq = @ + One(old),
                     !.flags = @ \ ((IF old THEN {"SYN"} ELSE {}) \cup (IF late THEN {"FIN"} ELSE {}))]

Valid(t, s) ==
  \/ ~Synced(t)
  \/ Rcvwnd(t) > 0 /\ t.rnxt <= LastOf(s) /\ s.seq < t.rnxt + Rcvwnd(t)
  \/ Rcvwnd(t) = 0 /\ SegLen(s) = 0 /\ s.seq = t.rnxt

\* tcp_sndwnd(): whether the segment has news of the window, the new window, and
\* the event for the output side.
WndNews(t, s) == ~(s.seq < t.wndseq \/ (s.seq = t.wndseq /\ s.ack < t.wndack))

Windowed(t, s) ==
  LET wlast == s.ack + s.wnd
  IN  [t EXCEPT !.nxt = IF wlast < t.wndack + t.wnd THEN Least(@, wlast) ELSE @,
                !.wnd = s.wnd, !.wndseq = s.seq, !.wndack = s.ack,
                !.wndmax = Most(@, s.wnd)]

WndEvent(t, s) ==
  IF t.wndack + t.wnd <= s.ack + s.wnd /\ s.wnd > 0 THEN "WNDOPEN" ELSE "WNDCLOSE"

News(t, s, update) == update /\ Has(s, "ACK") /\ WndNews(t, s)

\* tcp_ack() of a segment that has an acknowledgement.  The count of duplicates
\* stops where the queue ends.
Acked(t, s, wnd, cwnd) ==
  CASE s.ack > t.max -> IF t.state = "SYNRCVD" THEN SndRst(t, s) ELSE SndAck(t, s)
    [] t.una < s.ack /\ s.ack <= t.max ->
         [Event([t EXCEPT !.una = s.ack], "ACKRCVD", cwnd, FALSE) EXCEPT !.dupacks = 0]
    [] s.ack = t.una /\ wnd = s.wnd /\ SegLen(s) = 0 ->
         Event([t EXCEPT !.dupacks = Least(@ + 1, DupThresh + Len(t.sndq))], "DUPACK", cwnd, FALSE)
    [] OTHER -> t

Ack(t, s, update, cwnd) ==
  LET new == News(t, s, update)
  IN  IF ~Has(s, "ACK") THEN t
      ELSE Event(Acked(IF new THEN Windowed(t, s) ELSE t, s, t.wnd, cwnd),
                 IF new THEN WndEvent(t, s) ELSE "NONE", cwnd, FALSE)

\* tcp_addseg(): where the segment goes in the queue of those received, 0 if it is
\* a duplicate, and the queue without what it contains.
Place(q, b) ==
  LET n == Len(q)
      holes == {i \in 2..n : /\ NxtOf(q[i - 1]) < q[i].seq /\ b.seq < q[i].seq
                             /\ NxtOf(q[i - 1]) < NxtOf(b)}
  IN  IF n = 0 \/ NxtOf(q[n]) < NxtOf(b) THEN n + 1
      ELSE IF b.seq < q[1].seq THEN 1
      ELSE IF holes = {} THEN 0 ELSE CHOOSE i \in holes : \A j \in holes : j <= i

Before(q, b, i) ==
  LET kept == CHOOSE k \in 0..(i - 1) : /\ \A j \in (k + 1)..(i - 1) : b.seq <= q[j].seq
                                        /\ k > 0 => q[k].seq < b.seq
  IN  SubSeq(q, 1, kept)
After(q, b, i) == LET r == Rest(q, i - 1) IN Rest(r, Passed(Nxts(r), NxtOf(b)))

\* curdatalen of the receive queue
CurAfter(t, b, i) ==
  LET q == t.rcvq
      n == Len(q)
  IN  CASE n = 0 -> Len(b.data)
        [] n > 0 /\ i = n + 1 -> t.cur + NxtOf(b) - NxtOf(q[n])
        [] n > 0 /\ i = 1 -> t.cur + q[1].seq - b.seq
        [] OTHER -> t.cur

\* The next byte expected, when the queue from the new segment on is q: the walk goes
\* on as long as the next segment starts no later than where the ones before it end.
Reached(q, nxt, k) == IF k = 0 THEN nxt ELSE NxtOf(q[k])
Contiguous(q, nxt) ==
  LET k == CHOOSE k \in 0..Len(q) : /\ \A j \in 1..k : q[j].seq <= Reached(q, nxt, j - 1)
                                    /\ k < Len(q) => Reached(q, nxt, k) < q[k + 1].seq
  IN  Reached(q, nxt, k)

\* tcp_rcvdata(), and tcp_delack().
Delack(t) == IF t.delack THEN SndAckOnly(t) ELSE [t EXCEPT !.delack = TRUE]

Rcvdata(t, s) ==
  LET syn  == One(Has(s, "SYN"))
      b    == [seq |-> s.seq + syn, data |-> s.data]
      onxt == t.rnxt + syn
      i    == IF s.data = <<>> THEN 0 ELSE Place(t.rcvq, b)
      tail == <<b>> \o After(t.rcvq, b, i)
      nxt  == IF i = 0 THEN onxt ELSE Contiguous(tail, onxt)
      fin  == IF Has(s, "FIN") THEN NxtOf(b) ELSE t.fin
      now  == i = 0 \/ onxt # b.seq \/ nxt - onxt # Len(s.data) \/ fin = nxt
      u    == [t EXCEPT !.fin = fin, !.rnxt = nxt + One(fin = nxt),
                        !.rcvq = IF i = 0 THEN @ ELSE Before(@, b, i) \o tail,
                        !.cur = IF i = 0 THEN @ ELSE CurAfter(t, b, i),
                        !.wake = @ \/ (i # 0 /\ t.sock /\ t.read < nxt)]
  IN  IF s.data = <<>> /\ ~Has(s, "FIN") THEN u
      ELSE IF t.state = "ESTABLISHED" /\ ~now THEN Delack(u) ELSE SndAckOnly(u)

-----------------------------------------------------------------------------
(* The input state machine.  A handler gets the segment as tcp_valid() left it,  *)
(* the block t before it, and the block a that tcp_ack() makes of it.            *)

Bad(s) == Has(s, "RST") \/ Has(s, "SYN")
Stray(t, s) == Bad(s) \/ (~t.sock /\ s.data # <<>>)
SentAll(t) == t.write <= t.una

\* tcb_wait()
WaitFin(t) == [t EXCEPT !.state = "FINWAIT2", !.del = TRUE]
TimeWait(t) ==
  [t EXCEPT !.state = "TIMEWAIT", !.timer = FALSE, !.delack = FALSE, !.del = TRUE]

\* The window of the segment that completes the opening.
Opened(t, s) ==
  [t EXCEPT !.state = "ESTABLISHED", !.wnd = s.wnd, !.wndseq = s.seq, !.wndack = s.ack,
            !.wake = TRUE]

Listen(s, cwnd) ==
  CASE Has(s, "RST") \/ ~Has(s, "SYN") -> NoTcb
    [] Has(s, "SYN") /\ Has(s, "ACK") /\ ~Has(s, "RST") -> SndRst(NoTcb, s)
    [] OTHER -> OutputSyn(Rcvdata(Block("SYNRCVD", Isn["sv"], s.seq), s), TRUE, cwnd)

SynAcked(a, s, isn) ==
  IF a.una > isn THEN Opened(a, s) ELSE [a EXCEPT !.state = "SYNRCVD"]

Synsent(t, s, isn, cwnd) ==
  LET u == [t EXCEPT !.rnxt = s.seq, !.rwnd = s.seq, !.read = s.seq + 1]
      ours == Has(s, "ACK") /\ isn < s.ack /\ s.ack <= t.max
  IN  CASE Has(s, "ACK") /\ ~ours -> SndRst(t, s)
        [] ours /\ Has(s, "RST") -> [Reset(t) EXCEPT !.state = "CLOSED", !.disc = TRUE]
        [] (ours \/ ~Has(s, "ACK")) /\ Has(s, "SYN") /\ ~Has(s, "RST") ->
             SndAckOnly(Rcvdata(SynAcked(Ack(u, s, FALSE, cwnd), s, isn), s))
        [] OTHER -> t

\* The state that the FIN of the other side, once received, leads to.
EndingQuietly(t, state, wake) == IF Finished(t) THEN [t EXCEPT !.state = state] ELSE t

Ending(t, state, wake) ==
  IF Finished(t) THEN [t EXCEPT !.state = state, !.wake = @ \/ wake] ELSE t

\* Of a connection that was opened from the other side.
Synrcvd(t, s, a) ==
  IF Bad(s) THEN [NoTcb EXCEPT !.out = SndRst(t, s).out]
  ELSE IF ~Has(s, "ACK") THEN t
  ELSE Ending(Rcvdata(Opened(a, s), s), "CLOSEWAIT", FALSE)

Established(t, s, a) ==
  IF Bad(s) THEN [Reset(SndRst(t, s)) EXCEPT !.state = "CLOSED"]
  ELSE IF ~Has(s, "ACK") THEN t
  ELSE Ending(Rcvdata(a, s), "CLOSEWAIT", TRUE)

Finishing1(u) ==
  CASE Finished(u) /\ ~SentAll(u) -> [u EXCEPT !.state = "CLOSING"]
    [] Finished(u) /\ SentAll(u) -> TimeWait(u)
    [] ~Finished(u) /\ SentAll(u) -> WaitFin(u)
    [] OTHER -> u

Finwait1(t, s, a) ==
  IF Stray(t, s) THEN Abort(SndRst(t, s))
  ELSE IF ~Has(s, "ACK") THEN t ELSE Finishing1(Rcvdata(a, s))

Finishing2(u) == IF Finished(u) THEN TimeWait(u) ELSE u

Finwait2(t, s, a) ==
  IF Stray(t, s) THEN Abort(SndRst(t, s))
  ELSE IF ~Has(s, "ACK") THEN t ELSE Finishing2(Rcvdata(a, s))

Closewait(t, s, a) == IF Bad(s) THEN Abort(SndRst(t, s)) ELSE a

Lastack(t, s, a) ==
  IF Stray(t, s) THEN Abort(SndRst(t, s)) ELSE IF SentAll(a) THEN Delete(a) ELSE a

Closing(t, s, a) ==
  IF Stray(t, s) THEN Abort(SndRst(t, s)) ELSE IF SentAll(a) THEN TimeWait(a) ELSE a

Timewait(t, s, a) ==
  IF Stray(t, s) THEN Delete(SndRst(t, s)) ELSE TimeWait(Rcvdata(a, s))

\* tcp_input().  Three of the handlers let tcp_ack() update the window.
Updates(t) == t.state \in {"ESTABLISHED", "FINWAIT1", "CLOSEWAIT"}

Dispatch(t, s, a) ==
  CASE t.state = "SYNRCVD" -> Synrcvd(t, s, a)
    [] t.state = "ESTABLISHED" -> Established(t, s, a)
    [] t.state = "FINWAIT1" -> Finwait1(t, s, a)
    [] t.state = "FINWAIT2" -> Finwait2(t, s, a)
    [] t.state = "CLOSEWAIT" -> Closewait(t, s, a)
    [] t.state = "LASTACK" -> Lastack(t, s, a)
    [] t.state = "CLOSING" -> Closing(t, s, a)
    [] t.state = "TIMEWAIT" -> Timewait(t, s, a)

Handle(h, t, s, cwnd) ==
  CASE t.state = "CLOSED" -> SndRst(t, s)
    [] t.state = "SYNSENT" -> Synsent(t, s, Isn[h], cwnd)
    [] OTHER -> Dispatch(t, s, Ack(t, s, Updates(t), cwnd))

Input(h, s, cwnd) ==
  LET t == tcb[h]
  IN  IF t.state = "none"
      THEN IF h = "sv" /\ listening # "closed" THEN Listen(s, cwnd) ELSE SndRst(t, s)
      ELSE IF Valid(t, s) THEN Handle(h, t, Trimmed(t, s), cwnd) ELSE SndAck(t, s)

-----------------------------------------------------------------------------
(* What the programs and the network see of a step.                         *)

\* ip_send(): the segments that do not fit under the bound are lost.
Sent(h, t) ==
  LET upto(n) == net \cup {[to |-> Peer(h), seg |-> t.out[i]] : i \in 1..n}
  IN  UNION {upto(n) : n \in {k \in 0..Len(t.out) : k = 0 \/ Cardinality(upto(k)) <= MaxNet}}

Woken(x) == IF x = "asleep" THEN "awake" ELSE x
Wakeup(p, t) == IF t.wake THEN [p EXCEPT !.rd = Woken(@), !.wr = Woken(@)] ELSE p

\* t is what the step made of the control block of h, p of its programs.  A host
\* that has copied a negative number of bytes is not there any more.
Finish(h, t, p) ==
  /\ ~tcb[h].fatal
  /\ tcb' = [tcb EXCEPT ![h] = [t EXCEPT !.out = <<>>, !.wake = FALSE]]
  /\ net' = Sent(h, t)
  /\ prog' = [prog EXCEPT ![h] = Wakeup(p, t)]

Cwnds == Mss..Most(Mss, RcvMax)

-----------------------------------------------------------------------------
(* The network and the timers.                                             *)

\* The segment stays: it may come again, later than others, until it is lost.
\* The bound on connections: one SYN reaches the listening socket.
Opens(h, s) == h = "sv" /\ tcb[h].state = "none" /\ listening # "closed" /\ s.flags = {"SYN"}

Deliver ==
  \E m \in net, cwnd \in Cwnds :
    LET h == m.to
        s == m.seg
    IN  /\ Opens(h, s) => listening = "new"
        /\ Finish(h, Input(h, s, cwnd), prog[h])
        /\ listening' = IF Opens(h, s) THEN "used" ELSE listening
        /\ UNCHANGED got

Lose ==
  /\ \E m \in net : net' = net \ {m}
  /\ UNCHANGED <<tcb, listening, prog, got>>

\* wakeme(), deleteme() and dodelack()
Timeout(h) ==
  /\ tcb[h].timer
  /\ \E cwnd \in Cwnds, g \in BOOLEAN :
       Finish(h, Event([tcb[h] EXCEPT !.timer = FALSE], "TIMEOUT", cwnd, g), prog[h])
  /\ UNCHANGED <<listening, got>>

Deleteme(h) ==
  /\ tcb[h].del
  /\ Finish(h, Delete([tcb[h] EXCEPT !.del = FALSE]), prog[h])
  /\ UNCHANGED <<listening, got>>

Dodelack(h) ==
  /\ tcb[h].delack
  /\ Finish(h, SndAckOnly(tcb[h]), prog[h])
  /\ UNCHANGED <<listening, got>>

-----------------------------------------------------------------------------
(* The calls of the programs.                                              *)

Open(h) == prog[h].fd = "open"

\* The sleep of tcp_connect()
ConnectLoop(p, t) == [p EXCEPT !.wr = IF Connecting(t) THEN "asleep" ELSE "idle",
                               !.conn = Connecting(t)]

Connect ==
  /\ prog["cl"].fd = "none"
  /\ \E cwnd \in Cwnds :
       LET t == [OutputSyn(Block("CLOSED", Isn["cl"], 0), FALSE, cwnd) EXCEPT !.state = "SYNSENT"]
       IN  Finish("cl", t, ConnectLoop([prog["cl"] EXCEPT !.fd = "open"], t))
  /\ UNCHANGED <<listening, got>>

ConnectAgain ==
  LET t == tcb["cl"]
  IN  /\ prog["cl"].conn /\ prog["cl"].wr = "awake"
      /\ Finish("cl", [t EXCEPT !.err = @ /\ (Connecting(t) \/ t.state = "ESTABLISHED")],
                ConnectLoop(prog["cl"], t))
      /\ UNCHANGED <<listening, got>>

\* tcp_accept(), and the server closes the listening socket.
Accept ==
  /\ prog["sv"].fd = "none" /\ tcb["sv"].state \notin {"none", "SYNRCVD"}
  /\ Finish("sv", tcb["sv"], [prog["sv"] EXCEPT !.fd = "open"])
  /\ listening' = "closed"
  /\ UNCHANGED got

\* inet_send() and tcp_send()
Back(p) == [p EXCEPT !.wr = "idle", !.left = 0]

SendLoop(h, t, p, cwnd) ==
  LET n == Least(Canwrite(t), p.left)
  IN  CASE Connecting(t) \/ (Connected(t) /\ n = 0) -> Finish(h, t, [p EXCEPT !.wr = "asleep"])
        [] Connected(t) /\ n > 0 ->
             Finish(h, OutputData(t, n, cwnd),
                    [p EXCEPT !.left = @ - n, !.wr = IF n < p.left THEN "asleep" ELSE "idle"])
        [] OTHER -> Finish(h, t, Back(p))

Send(h) ==
  LET t == tcb[h]
      p == [prog[h] EXCEPT !.todo = Tail(@)]
  IN  /\ Open(h) /\ prog[h].wr = "idle" /\ prog[h].todo # <<>>
      /\ ~t.disc /\ (t.err \/ (t.state # "CLOSED" /\ ~prog[h].shut))
      /\ \E cwnd \in Cwnds :
           IF t.err THEN Finish(h, [t EXCEPT !.err = FALSE], p)
           ELSE SendLoop(h, t, [p EXCEPT !.left = Head(prog[h].todo)], cwnd)
      /\ UNCHANGED <<listening, got>>

SendAgain(h) ==
  LET t == tcb[h]
  IN  /\ prog[h].wr = "awake" /\ ~prog[h].conn
      /\ \E cwnd \in Cwnds :
           IF t.err \/ prog[h].shut
           THEN Finish(h, [t EXCEPT !.err = FALSE], Back(prog[h]))
           ELSE SendLoop(h, t, prog[h], cwnd)
      /\ UNCHANGED <<listening, got>>

\* inet_recv() and tcp_recv(): up to n bytes from the segments without a hole.
NotBegun(t, read) == SelectSeq(t.rcvq, LAMBDA b : b.seq >= read)

\* The segments in front that have been read: FREEME, which a segment in the queue is
\* when its last byte is (none there is empty); the walk stops at the first other one.
NotRead(t, read) == Rest(t.rcvq, Passed(Nxts(t.rcvq), read))
Readable(t) == Contiguous(NotRead(t, t.read), t.read) - t.read

SegmentOf(q, x) ==
  q[CHOOSE j \in 1..Len(q) : /\ q[j].seq <= x /\ x < NxtOf(q[j])
                             /\ \A k \in 1..(j - 1) : NxtOf(q[k]) <= x]

ByteFirst(q, x) == SegmentOf(q, x).data[1]
ByteAt(q, x) == LET b == SegmentOf(q, x) IN b.data[x - b.seq + 1]

\* tcp_dropsegs()
Dropsegs(t, read) ==
  LET q == NotRead(t, read)
      u == [t EXCEPT !.read = read, !.rcvq = q,
                     !.cur = IF q = <<>> THEN 0 ELSE @ - (q[1].seq - t.rcvq[1].seq)]
      win == Rcvwnd(u) - (u.rwnd - u.rnxt)
  IN  IF win >= 2 * Mss \/ 2 * win >= RcvMax THEN SndAckOnly(u) ELSE u

RecvLoop(h, t, p) ==
  IF Readable(t) > 0
  THEN \E n \in 1..Readable(t) :
         /\ Finish(h, Dropsegs(t, t.read + n), [p EXCEPT !.rd = "idle"])
         /\ got' = [got EXCEPT ![h] = @ \o [i \in 1..n |-> ByteAt(t.rcvq, t.read + i - 1)]]
  ELSE /\ Finish(h, t, [p EXCEPT !.rd = IF t.state = "ESTABLISHED" THEN "asleep" ELSE "idle"])
       /\ UNCHANGED got

Recv(h) ==
  LET t == tcb[h]
  IN  /\ "recv" \in Calls[h] /\ Open(h) /\ prog[h].rd = "idle"
      /\ ~t.disc /\ (t.err \/ t.state \notin {"CLOSED", "SYNSENT"})
      /\ IF t.err THEN Finish(h, [t EXCEPT !.err = FALSE], prog[h]) /\ UNCHANGED got
         ELSE RecvLoop(h, t, prog[h])
      /\ UNCHANGED listening

RecvAgain(h) ==
  LET t == tcb[h]
  IN  /\ prog[h].rd = "awake"
      /\ IF t.err
         THEN Finish(h, [t EXCEPT !.err = FALSE], [prog[h] EXCEPT !.rd = "idle"]) /\ UNCHANGED got
         ELSE RecvLoop(h, t, prog[h])
      /\ UNCHANGED listening

\* tcp_shutdown() and tcp_detach()
Fin(t, cwnd) ==
  CASE t.state \in {"SYNRCVD", "ESTABLISHED"} -> OutputFin([t EXCEPT !.state = "FINWAIT1"], cwnd)
    [] t.state = "CLOSEWAIT" -> OutputFin([t EXCEPT !.state = "LASTACK"], cwnd)
    [] OTHER -> t

Shutdown(h) ==
  /\ "shutdown" \in Calls[h] /\ Open(h) /\ ~prog[h].shut
  /\ \E cwnd \in Cwnds : Finish(h, Fin(tcb[h], cwnd), [prog[h] EXCEPT !.shut = TRUE])
  /\ UNCHANGED <<listening, got>>

Detach(t, cwnd) ==
  LET u == [Fin(t, cwnd) EXCEPT !.sock = FALSE]
  IN  IF t.state \in {"CLOSED", "SYNSENT"} THEN NoTcb
      ELSE Dropsegs([u EXCEPT !.rcvq = <<>>], t.rnxt)

Close(h) ==
  /\ "close" \in Calls[h] /\ Open(h) /\ prog[h].rd = "idle" /\ prog[h].wr = "idle"
  /\ \E cwnd \in Cwnds : Finish(h, Detach(tcb[h], cwnd), [prog[h] EXCEPT !.fd = "gone"])
  /\ UNCHANGED <<listening, got>>

\* A signal ends a sleep.
Interrupt(h) ==
  /\ "signal" \in Calls[h]
  /\ \/ /\ prog[h].rd = "asleep"
        /\ prog' = [prog EXCEPT ![h].rd = "idle"]
     \/ /\ prog[h].wr = "asleep"
        /\ prog' = [prog EXCEPT ![h] = [Back(@) EXCEPT !.conn = FALSE]]
  /\ UNCHANGED <<tcb, listening, net, got>>

Next ==
  \/ Deliver
  \/ Lose
  \/ Connect
  \/ ConnectAgain
  \/ Accept
  \/ \E h \in Host :
       \/ Timeout(h)
       \/ Deleteme(h)
       \/ Dodelack(h)
       \/ Send(h)
       \/ SendAgain(h)
       \/ Recv(h)
       \/ RecvAgain(h)
       \/ Shutdown(h)
       \/ Close(h)
       \/ Interrupt(h)

Spec == Init /\ [][Next]_vars

-----------------------------------------------------------------------------
(* Properties.                                                             *)

\* What a program reads is what the other one wrote, in order, with nothing missing,
\* repeated or made up: not when segments are lost, repeated or reordered, not when
\* a retransmission overlaps what is there (tcp_addseg(), tcp_sndseg()), and not
\* the byte of a window probe (tcp_probe()).
InOrder ==
  \A h \in Host : \A i \in 1..Len(got[h]) : got[h][i] = Isn[Peer(h)] + i

Kept(t, x) == \E i \in DOMAIN t.rcvq : t.rcvq[i].seq <= x /\ x < NxtOf(t.rcvq[i])

\* A byte that its sender has dropped from its queue because it was acknowledged
\* (tcp_dropdata()) has been read, or is kept for the reader, as long as the reader's
\* socket and connection are there: no acknowledgement runs ahead of the data.
AckedKept ==
  \A h \in Host :
    LET t == tcb[h]
        u == tcb[Peer(h)]
    IN  Synced(t) /\ Synced(u) /\ u.sock
          => \A x \in u.read..(t.una - 1) : Kept(u, x) \/ x = u.fin

\* In CLOSEWAIT and LASTACK tcp_recv() with nothing to read returns 0, the end of the
\* data: the program then has every byte up to the FIN, however early it came.
EofRight ==
  \A h \in Host :
    tcb[h].state \in {"CLOSEWAIT", "LASTACK"} /\ tcb[h].sock /\ Readable(tcb[h]) = 0
      => Len(got[h]) = tcb[h].fin - Isn[Peer(h)] - 1

\* Data, SYN or FIN that is not acknowledged has a retransmission or a persist timer,
\* and a control block whose socket is closed has that or the timer that deletes it:
\* no loss leaves a connection that waits for ever (TCB_OSTATE, tcb_wait()).
NeverStuck ==
  \A h \in Host :
    LET t == tcb[h]
    IN  t.state \notin {"none", "CLOSED"}
          => /\ t.una < t.write => t.timer
             /\ ~t.sock => t.timer \/ t.del

\* A program sleeps in tcp_recv() or tcp_send() only while there is nothing for it: no
\* data, no room, no error, and a connection that may still bring some; in
\* tcp_connect() only while the connection is being opened.  The exception is its own
\* shutdown(), which wakes nobody.
NoLostWakeup ==
  \A h \in Host :
    LET t == tcb[h]
        p == prog[h]
    IN  /\ p.rd = "asleep" => ~t.err /\ Readable(t) = 0 /\ (p.shut \/ t.state = "ESTABLISHED")
        /\ p.wr = "asleep" /\ ~p.conn
              => ~t.err /\ Canwrite(t) = 0 /\ (p.shut \/ Connected(t) \/ Connecting(t))
        /\ p.wr = "asleep" /\ p.conn => Connecting(t)

=============================================================================
