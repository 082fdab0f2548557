----------------------------- MODULE MCTimeout -----------------------------
(* An instance of Timeout for TLC.                                         *)
EXTENDS Timeout, TLC

CONSTANTS r, p, drv, nap, alarm

\* Drivers have timeouts of process 0; the process has a nap and an alarm.
EachItsOwn == {<<r, drv, 0>>, <<p, nap, -1>>, <<p, alarm, 2>>}

Symm == Permutations(Static)
=============================================================================
