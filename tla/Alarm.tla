------------------------------- MODULE Alarm -------------------------------
(***************************************************************************)
(* What the callers of addtimeout() count on, without lists: a request is   *)
(* an absolute time, the functions of due requests are called one after the *)
(* other, the earliest first, and a check of the alarms ends only when       *)
(* nothing is due.  Timeout implements this with a list of time differences. *)
(***************************************************************************)
EXTENDS Integers

CONSTANTS Addr, Proc, Func, Deltas, NoCall

VARIABLES
  now,        \* the clock
  pending,    \* the requests that have neither been served nor cancelled
  checking,   \* somebody is in checkalarms()
  call        \* the request whose function is being called

alarmVars == <<now, pending, checking, call>>

Request == [addr : Addr, proc : Proc, func : Func, due : Int]

AlarmInit == now = 0 /\ pending = {} /\ checking = FALSE /\ call = NoCall

Advance == now' = now + 1 /\ UNCHANGED <<pending, checking, call>>

Install(a, p, f, d) ==
  /\ \A q \in pending : q.addr # a
  /\ pending' = pending \cup {[addr |-> a, proc |-> p, func |-> f, due |-> now + d]}
  /\ UNCHANGED <<now, checking, call>>

Cancel(q) == pending' = pending \ {q} /\ UNCHANGED <<now, checking, call>>

Check == ~checking /\ checking' = TRUE /\ UNCHANGED <<now, pending, call>>

\* Never early, never twice, and never before a request that is due earlier.
Fire(q) ==
  /\ checking /\ call = NoCall
  /\ q.due <= now
  /\ \A o \in pending : q.due <= o.due
  /\ pending' = pending \ {q}
  /\ call' = q
  /\ UNCHANGED <<now, checking>>

Return == call # NoCall /\ call' = NoCall /\ UNCHANGED <<now, pending, checking>>

\* A check forgets nothing.
Done ==
  /\ checking /\ call = NoCall
  /\ \A o \in pending : o.due > now
  /\ checking' = FALSE
  /\ UNCHANGED <<now, pending, call>>

AlarmNext ==
  \/ Advance \/ Check \/ Return \/ Done
  \/ \E a \in Addr, p \in Proc, f \in Func, d \in Deltas : Install(a, p, f, d)
  \/ \E q \in pending : Cancel(q) \/ Fire(q)

AlarmSpec == AlarmInit /\ [][AlarmNext]_alarmVars
=============================================================================
