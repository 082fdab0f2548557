------------------------------ MODULE Timeout ------------------------------
(***************************************************************************)
(* The timeouts of the kernel (src/sys/timeout.c).  A pending timeout is on *)
(* tlist, whose nodes hold the time to wait after the node before them; the *)
(* timer interrupt counts down the head alone.  checkalarms() moves what is *)
(* due to expire_list, where the structure stays valid for a while because   *)
(* its owner may not know yet that it has expired, and calls its function.   *)
(*                                                                           *)
(* The kernel is not preemptive, but every routine drops the interrupt level *)
(* between its steps, and an interrupt handler may then install a timeout of *)
(* its own with addroottimeout(..., 1).  One action is one stretch of code    *)
(* under spl7().                                                             *)
(***************************************************************************)
EXTENDS Integers, Sequences

CONSTANTS
  Proc,       \* processes
  Root,       \* process 0, the owner of the drivers' timeouts
  Func,       \* the functions passed to addtimeout()
  Uses,       \* who asks for which of them and for what time
  Heap,       \* addresses kmalloc() may return
  Static,     \* the addresses of timeouts[]
  Null,       \* no structure
  NoCall,     \* no function is being called
  Clearing,   \* functions that reset the pointer of their owner (alarmme)
  Keep,       \* TIMEOUT_EXPIRE_LIMIT
  MaxTime     \* bound on the clock

Addr == Heap \cup Static

ASSUME TimeoutAssumption ==
  /\ Root \in Proc
  /\ Func # {}
  /\ Uses \subseteq Proc \X Func \X Int
  /\ Heap \cap Static = {}
  /\ Null \notin Addr
  /\ Clearing \subseteq Func
  /\ Keep \in Nat
  /\ MaxTime \in Nat
  /\ NoCall \notin [addr : Addr, proc : Proc, func : Func, due : Int]

VARIABLES
  hz_200,       \* the clock
  tlist,        \* pending timeouts
  expire_list,  \* expired ones, the latest first
  used,         \* static structures with TIMEOUT_USED and allocated ones
  pc,           \* what the kernel is in the middle of
  req,          \* the arguments of the __addtimeout() in progress
  node,         \* the structure it has, if any
  chain,        \* structures off their list, about to be disposed
  at,           \* cancelalltimeouts(): the node whose next field is `prev'
  cb,           \* the timeout whose function checkalarms() is calling
  held,         \* the pointers that callers of addtimeout() keep
  dead          \* processes that have terminated

vars == <<hz_200, tlist, expire_list, used, pc, req, node, chain, at, cb, held, dead>>
lists == <<tlist, expire_list>>

\* `when' is the field of the source.  `due' records the time that was asked
\* for; no action looks at it.
Timeout == [addr : Addr, proc : Proc, func : Func, when : Int, due : Int]
Request == [proc : Proc, func : Func, delta : Int]
NoReq == [proc |-> Root, func |-> CHOOSE f \in Func : TRUE, delta |-> 0]

Addrs(l) == {l[i].addr : i \in DOMAIN l}

Init ==
  /\ hz_200 = 0
  /\ tlist = <<>> /\ expire_list = <<>>
  /\ used = {}
  /\ pc = "run"
  /\ req = NoReq /\ node = Null /\ chain = <<>> /\ at = Null /\ cb = NoCall
  /\ held = [p \in Proc |-> [f \in Func |-> Null]]
  /\ dead = {}

\* The kernel calls these routines for a process, or in the function of a
\* timeout that has expired, and returns there.
Kernel == pc \in {"run", "callback"}
Back == IF cb = NoCall THEN "run" ELSE "callback"

-----------------------------------------------------------------------------
(* The lists.                                                              *)

\* inserttimeout(): what is left of delta once the first k nodes are passed.
Left(l, delta) ==
  LET left[k \in 0..Len(l)] == IF k = 0 THEN delta ELSE left[k - 1] - l[k].when
  IN  left

StopsAtSwapped(l, delta, k) ==
  /\ \A j \in 1..(k - 1) : l[j].when > Left(l, delta)[j - 1]
  /\ k <= Len(l) => l[k].when <= Left(l, delta)[k - 1]

\* The loop stops at the first node that is not earlier.
StopsAt(l, delta, k) ==
  /\ \A j \in 1..(k - 1) : l[j].when < Left(l, delta)[j - 1]
  /\ k <= Len(l) => l[k].when >= Left(l, delta)[k - 1]

\* The new node takes its share from the one it is put before.
LinkBefore(l, t, left, k) ==
  [i \in 1..(Len(l) + 1) |->
     IF i < k THEN l[i]
     ELSE IF i = k THEN [t EXCEPT !.when = left]
     ELSE IF i = k + 1 THEN [l[k] EXCEPT !.when = @ - left]
     ELSE l[i - 1]]

\* Off expire_list, where times are absolute.
RemoveAt(l, k) == [i \in 1..(Len(l) - 1) |-> IF i < k THEN l[i] ELSE l[i + 1]]

\* Taking a node off tlist: the next one inherits its time.
Unlink(l, k) ==
  [i \in 1..(Len(l) - 1) |->
     IF i < k THEN l[i]
     ELSE IF i = k THEN [l[k + 1] EXCEPT !.when = @ + l[k].when]
     ELSE l[i + 1]]

\* The assertion at the end of inserttimeout(), for a node that comes last: what
\* is left of its time is not negative.
Fails(delta) ==
  \E k \in 1..(Len(tlist) + 1) :
    /\ StopsAt(tlist, delta, k)
    /\ k = Len(tlist) + 1 /\ Left(tlist, delta)[k - 1] < 0

\* inserttimeout(), when its assertion holds.
Insert(t, delta, next) ==
  /\ ~Fails(delta)
  /\ \E k \in 1..(Len(tlist) + 1) :
       /\ StopsAt(tlist, delta, k)
       /\ tlist' = LinkBefore(tlist, t, Left(tlist, delta)[k - 1], k)
  /\ pc' = next

\* __addtimeout(): an expired structure of the same process and function.
SameFunc(t, p, f) == t.proc = p /\ t.func = f

Reusable(p, f) == {i \in DOMAIN expire_list : SameFunc(expire_list[i], p, f)}

Node(a, p, f, delta) ==
  [addr |-> a, proc |-> p, func |-> f, when |-> 0, due |-> hz_200 + delta]

-----------------------------------------------------------------------------
(* Interrupts.                                                             *)

CountDownToZero(l) ==
  IF l = <<>> \/ l[1].when = 0 THEN l ELSE [l EXCEPT ![1].when = @ - 1]

\* The timer interrupt counts the head down, below zero if need be.
CountDown(l) == IF l = <<>> THEN l ELSE [l EXCEPT ![1].when = @ - 1]

Tick ==
  /\ pc # "fatal"
  /\ hz_200 < MaxTime
  /\ hz_200' = hz_200 + 1
  /\ tlist' = CountDown(tlist)
  /\ UNCHANGED <<expire_list, used, pc, req, node, chain, at, cb, held, dead>>

\* addroottimeout(delta, f, 1) in an interrupt handler, which may come between
\* any two steps of the kernel; it gets a static structure or none.
IntAddroottimeout(p, f, delta) ==
  /\ pc # "fatal"
  /\ p = Root
  /\ \/ \E i \in Reusable(Root, f) :
          /\ \A j \in Reusable(Root, f) : i <= j
          /\ expire_list' = RemoveAt(expire_list, i)
          /\ Insert(Node(expire_list[i].addr, Root, f, delta), delta, pc)
          /\ held' = [held EXCEPT ![Root][f] = expire_list[i].addr]
          /\ UNCHANGED used
     \/ /\ Reusable(Root, f) = {}
        /\ \E a \in Static \ used :
             /\ used' = used \cup {a}
             /\ Insert(Node(a, Root, f, delta), delta, pc)
             /\ held' = [held EXCEPT ![Root][f] = a]
        /\ UNCHANGED expire_list
  /\ UNCHANGED <<hz_200, req, node, chain, at, cb, dead>>

\* The times inserttimeout() may be called with: by the process that has a
\* structure, and by an interrupt handler that gets one.
Handlers == {u \in Uses : u[1] = Root}
Obtains(f) == Reusable(Root, f) # {} \/ ~(Static \subseteq used)
Inserted == (IF pc = "insert" THEN {req.delta} ELSE {})
              \cup {u[3] : u \in {v \in Handlers : Obtains(v[2])}}

\* Its assertion fails: FATAL() halts the machine.
AssertFails ==
  /\ pc # "fatal"
  /\ \E delta \in Inserted : Fails(delta)
  /\ pc' = "fatal"
  /\ UNCHANGED <<hz_200, lists, used, req, node, chain, at, cb, held, dead>>

-----------------------------------------------------------------------------
(* addtimeout(), addroottimeout() and canceltimeout(), called by processes   *)
(* and by the functions of timeouts.                                        *)

\* The search of expire_list.
Addtimeout(p, f, delta) ==
  /\ Kernel /\ p \notin dead
  /\ cb # NoCall => p \in {cb.proc, Root}
  /\ req' = [proc |-> p, func |-> f, delta |-> delta]
  /\ \/ \E i \in Reusable(p, f) :
          /\ \A j \in Reusable(p, f) : i <= j
          /\ node' = expire_list[i].addr
          /\ expire_list' = RemoveAt(expire_list, i)
          /\ pc' = "insert"
     \/ /\ Reusable(p, f) = {}
        /\ pc' = "alloc"
        /\ UNCHANGED <<node, expire_list>>
  /\ UNCHANGED <<hz_200, tlist, used, chain, at, cb, held, dead>>

\* newtimeout(): kmalloc(), which may fail, and then a static one.
Newtimeout ==
  /\ pc = "alloc"
  /\ \/ \E a \in Addr \ used :
          /\ used' = used \cup {a}
          /\ node' = a
          /\ pc' = "insert"
          /\ UNCHANGED <<req, held>>
     \/ /\ Static \subseteq used
        /\ held' = [held EXCEPT ![req.proc][req.func] = Null]
        /\ pc' = Back
        /\ req' = NoReq
        /\ UNCHANGED <<used, node>>
  /\ UNCHANGED <<hz_200, tlist, expire_list, chain, at, cb, dead>>

Inserttimeout ==
  /\ pc = "insert"
  /\ Insert(Node(node, req.proc, req.func, req.delta), req.delta, Back)
  /\ held' = [held EXCEPT ![req.proc][req.func] = node]
  /\ node' = Null /\ req' = NoReq
  /\ UNCHANGED <<hz_200, expire_list, used, chain, at, cb, dead>>

\* __canceltimeout(): by address, and only if the process is the owner.
Named(l, a, p) == {i \in DOMAIN l : l[i].addr = a /\ l[i].proc = p}

Canceltimeout(p, f) ==
  LET a == held[p][f] IN
  /\ Kernel /\ p \notin dead
  /\ a # Null
  /\ held' = [held EXCEPT ![p][f] = Null]
  /\ \/ \E i \in Named(expire_list, a, p) :
          /\ expire_list' = RemoveAt(expire_list, i)
          /\ chain' = <<a>> /\ pc' = "dispose"
          /\ UNCHANGED tlist
     \/ /\ Named(expire_list, a, p) = {}
        /\ \E i \in Named(tlist, a, p) :
             /\ tlist' = Unlink(tlist, i)
             /\ chain' = <<a>> /\ pc' = "dispose"
        /\ UNCHANGED expire_list
     \/ /\ Named(expire_list, a, p) = {} /\ Named(tlist, a, p) = {}
        /\ UNCHANGED <<lists, chain, pc>>
  /\ UNCHANGED <<hz_200, used, req, node, at, cb, dead>>

\* disposetimeout(): one structure at a time, with interrupts allowed.
Disposetimeout ==
  /\ pc \in {"dispose", "dispose tlist", "dispose expired"}
  /\ used' = used \ {Head(chain)}
  /\ chain' = Tail(chain)
  /\ pc' = IF Len(chain) > 1 THEN pc
           ELSE CASE pc = "dispose tlist"   -> "cancel tlist"
                  [] pc = "dispose expired" -> "cancel expired"
                  [] pc = "dispose"         -> Back
  /\ UNCHANGED <<hz_200, lists, req, node, at, cb, held, dead>>

-----------------------------------------------------------------------------
(* cancelalltimeouts(), called by terminate().  `prev' points into the node  *)
(* at, or to the list itself (at = Null); after each removal interrupts are  *)
(* let in, and the walk goes on from there.                                 *)

Cancelalltimeouts(p) ==
  /\ pc = "run"
  /\ p # Root /\ p \notin dead
  /\ pc' = "cancel tlist"
  /\ req' = [req EXCEPT !.proc = p]
  /\ held' = [held EXCEPT ![p] = [f \in Func |-> Null]]
  /\ UNCHANGED <<hz_200, lists, used, node, chain, at, cb, dead>>

\* The place of a node in a list, 0 for the list itself.
Place(l, a) == IF a \in Addrs(l) THEN CHOOSE i \in DOMAIN l : l[i].addr = a ELSE 0

\* The first node of the process behind `prev'.
NextOwn(l, p) ==
  {i \in DOMAIN l : /\ i > Place(l, at) /\ l[i].proc = p
                    /\ \A j \in (Place(l, at) + 1)..(i - 1) : l[j].proc # p}

BeforeSkip(l, i) == IF i < Len(l) THEN l[i + 1].addr ELSE IF i = 1 THEN Null ELSE l[i - 1].addr

Before(l, i) == IF i = 1 THEN Null ELSE l[i - 1].addr

\* Without the re-read of *prev: the list continues with the node that came
\* next when the level was dropped, and what an interrupt put before it is lost.
CancelTlistNoReread ==
  /\ pc = "cancel tlist"
  /\ \/ \E i \in NextOwn(tlist, req.proc) :
          /\ tlist' = SubSeq(Unlink(tlist, i), 1, Place(tlist, at))
                        \o SubSeq(Unlink(tlist, i), i, Len(tlist) - 1)
          /\ chain' = <<tlist[i].addr>>
          /\ at' = Before(tlist, i)
          /\ pc' = "dispose tlist"
     \/ /\ NextOwn(tlist, req.proc) = {}
        /\ at' = Null /\ pc' = "cancel expired"
        /\ UNCHANGED <<tlist, chain>>
  /\ UNCHANGED <<hz_200, expire_list, used, req, node, cb, held, dead>>

CancelTlist ==
  /\ pc = "cancel tlist"
  /\ \/ \E i \in NextOwn(tlist, req.proc) :
          /\ tlist' = Unlink(tlist, i)
          /\ chain' = <<tlist[i].addr>>
          /\ at' = Before(tlist, i)
          /\ pc' = "dispose tlist"
     \/ /\ NextOwn(tlist, req.proc) = {}
        /\ at' = Null /\ pc' = "cancel expired"
        /\ UNCHANGED <<tlist, chain>>
  /\ UNCHANGED <<hz_200, expire_list, used, req, node, cb, held, dead>>

\* An interrupt may have taken the node `prev' points into off expire_list to
\* use it again: the walk then follows tlist to its end.
CancelExpired ==
  /\ pc = "cancel expired"
  /\ LET astray == at # Null /\ at \notin Addrs(expire_list)
         l == IF astray THEN tlist ELSE expire_list
     IN  \/ \E i \in NextOwn(l, req.proc) :
              /\ expire_list' = IF astray THEN expire_list ELSE RemoveAt(l, i)
              /\ tlist' = IF astray THEN RemoveAt(l, i) ELSE tlist
              /\ chain' = <<l[i].addr>>
              /\ at' = Before(l, i)
              /\ pc' = "dispose expired"
              /\ UNCHANGED <<req, dead>>
         \/ /\ NextOwn(l, req.proc) = {}
            /\ at' = Null /\ pc' = "run" /\ req' = NoReq
            /\ dead' = dead \cup {req.proc}
            /\ UNCHANGED <<lists, chain>>
  /\ UNCHANGED <<hz_200, used, node, cb, held>>

\* A process structure is used again for a new process.
Fork(p) ==
  /\ pc = "run"
  /\ p \in dead
  /\ dead' = dead \ {p}
  /\ UNCHANGED <<hz_200, lists, used, pc, req, node, chain, at, cb, held>>

-----------------------------------------------------------------------------
(* checkalarms(), at the end of every sleep().                              *)

Checkalarms ==
  /\ pc = "run"
  /\ pc' = "alarms"
  /\ UNCHANGED <<hz_200, lists, used, req, node, chain, at, cb, held, dead>>

\* The head leaves tlist before its function is called, and what it is late by
\* is passed on.
Pop(l) == Unlink(l, 1)

Expire ==
  /\ pc = "alarms"
  /\ tlist # <<>> /\ Head(tlist).when <= 0
  /\ LET t == Head(tlist) IN
       /\ tlist' = Pop(tlist)
       /\ expire_list' = <<[addr |-> t.addr, proc |-> t.proc, func |-> t.func,
                            when |-> hz_200 + Keep, due |-> 0]>> \o expire_list
       /\ cb' = [addr |-> t.addr, proc |-> t.proc, func |-> t.func, due |-> t.due]
       /\ held' = IF t.func \in Clearing /\ held[t.proc][t.func] = t.addr
                  THEN [held EXCEPT ![t.proc][t.func] = Null] ELSE held
  /\ pc' = "callback"
  /\ UNCHANGED <<hz_200, used, req, node, chain, at, dead>>

\* The function returns; before that it may have called addtimeout().
CallbackReturns ==
  /\ pc = "callback"
  /\ pc' = "alarms" /\ cb' = NoCall
  /\ UNCHANGED <<hz_200, lists, used, req, node, chain, at, held, dead>>

OldSoon(t) == t.when <= hz_200

\* dispose_old_timeouts(): the first old one and all behind it.
Old(t) == t.when < hz_200

AlarmsDone ==
  /\ pc = "alarms"
  /\ tlist # <<>> => Head(tlist).when > 0
  /\ pc' = "old"
  /\ UNCHANGED <<hz_200, lists, used, req, node, chain, at, cb, held, dead>>

DisposeOld ==
  /\ pc = "old"
  /\ \/ \E i \in DOMAIN expire_list :
          /\ Old(expire_list[i])
          /\ \A j \in 1..(i - 1) : ~Old(expire_list[j])
          /\ expire_list' = SubSeq(expire_list, 1, i - 1)
          /\ chain' = [j \in 1..(Len(expire_list) - i + 1) |-> expire_list[i + j - 1].addr]
          /\ pc' = "dispose"
     \/ /\ \A i \in DOMAIN expire_list : ~Old(expire_list[i])
        /\ pc' = "run"
        /\ UNCHANGED <<expire_list, chain>>
  /\ UNCHANGED <<hz_200, tlist, used, req, node, at, cb, held, dead>>

-----------------------------------------------------------------------------
Next ==
  \/ Tick
  \/ \E u \in Uses : IntAddroottimeout(u[1], u[2], u[3]) \/ Addtimeout(u[1], u[2], u[3])
  \/ Newtimeout \/ Inserttimeout \/ AssertFails
  \/ \E p \in Proc, f \in Func : Canceltimeout(p, f)
  \/ Disposetimeout
  \/ \E p \in Proc : Cancelalltimeouts(p) \/ Fork(p)
  \/ CancelTlist \/ CancelExpired
  \/ Checkalarms \/ Expire \/ CallbackReturns \/ AlarmsDone \/ DisposeOld

Spec == Init /\ [][Next]_vars

-----------------------------------------------------------------------------
(* Properties.                                                             *)

Places == {"run", "alloc", "insert", "dispose", "dispose tlist", "dispose expired",
           "cancel tlist", "cancel expired", "alarms", "callback", "old", "fatal"}

\* The variables keep their types: the lists hold timeouts, the pointers are
\* structures or null.
TypeOK ==
  /\ hz_200 \in 0..MaxTime
  /\ tlist \in Seq(Timeout) /\ expire_list \in Seq(Timeout)
  /\ used \subseteq Addr
  /\ pc \in Places
  /\ req \in Request
  /\ node \in Addr \cup {Null}
  /\ chain \in Seq(Addr)
  /\ at \in Addr \cup {Null}
  /\ cb \in [addr : Addr, proc : Proc, func : Func, due : Int] \cup {NoCall}
  /\ held \in [Proc -> [Func -> Addr \cup {Null}]]
  /\ dead \subseteq Proc

Distinct(l) == \A i, j \in DOMAIN l : l[i].addr = l[j].addr => i = j
InHand == {node} \ {Null}
InChain == {chain[i] : i \in DOMAIN chain}

\* A structure in use is in one place only, on one of the lists, about to be
\* inserted or about to be disposed, and a free one is nowhere: no interrupt
\* between two steps of a removal leaks a structure or hands it out twice.
PoolOK ==
  /\ Distinct(tlist) /\ Distinct(expire_list)
  /\ \A i, j \in DOMAIN chain : chain[i] = chain[j] => i = j
  /\ Addrs(tlist) \cap (Addrs(expire_list) \cup InHand \cup InChain) = {}
  /\ Addrs(expire_list) \cap (InHand \cup InChain) = {}
  /\ InHand \cap InChain = {}
  /\ used = Addrs(tlist) \cup Addrs(expire_list) \cup InHand \cup InChain

\* Every prefix of the differences on tlist adds up to the time its last node
\* was asked for, whatever was inserted, cancelled or late before it.
DeltasRight ==
  \A k \in DOMAIN tlist : hz_200 - Left(tlist, 0)[k] = tlist[k].due

\* The assertion of inserttimeout() fails for nothing but a negative time that
\* meets an empty list, which is what a Pmsg() or Psemaphore() with the timeout
\* -2 asks for.  However late the head is, and whatever is pending, every other
\* time, the negative ones included, finds its place.
FatalOnlyIfNegative ==
  pc = "fatal" => /\ tlist = <<>>
                  /\ req.delta < 0 \/ \E u \in Handlers : u[3] < 0

\* No function is called for a process that has terminated: cancelalltimeouts()
\* takes all of its timeouts off tlist although interrupts change the list.
DeadHaveNone == \A i \in DOMAIN tlist : tlist[i].proc \notin dead

Owns(p, f) ==
  LET a == held[p][f]
      Is(l) == \E i \in DOMAIN l : l[i].addr = a /\ l[i].proc = p /\ l[i].func = f
  IN  a # Null => Is(tlist) \/ Is(expire_list)
                    \/ (a = node /\ req.proc = p /\ req.func = f)

\* The structure a caller has a pointer to stays its own, pending or expired,
\* until the caller cancels it or it has been expired for the whole grace time.
\* Nobody else can take it away but the process itself, when it cancels through
\* an older pointer after the grace time of that one.
HolderKept ==
  [][\A p \in Proc, f \in Func :
       Owns(p, f) /\ ~Owns(p, f)'
         => \/ \E i \in DOMAIN expire_list :
                 expire_list[i].addr = held[p][f] /\ expire_list[i].when < hz_200
            \/ \E g \in Func \ {f} : held[p][g] = held[p][f] /\ held'[p][g] = Null]_vars

Pending == {[addr |-> tlist[i].addr, proc |-> tlist[i].proc, func |-> tlist[i].func,
             due |-> hz_200 - Left(tlist, 0)[i]] : i \in DOMAIN tlist}

A == INSTANCE Alarm WITH
       Deltas <- {u[3] : u \in Uses}, now <- hz_200, pending <- Pending,
       checking <- (pc = "alarms" \/ cb # NoCall), call <- cb

\* The list of differences implements requests for absolute times: a function is
\* called no earlier than asked, after every earlier request, once, never after
\* it was cancelled, and a check of the alarms leaves nothing behind that is due.
KeepsTime == A!AlarmSpec
=============================================================================
