------------------------------ MODULE MCPmsg -------------------------------
(* Instances of Pmsg for TLC.                                              *)
EXTENDS Pmsg, TLC

Symm == Permutations(Proc)

\* Every call but a write/read that must not block: that one hands its message
\* over and returns -1 all the same, which ReadOnce and ReplyDoesNotBlock forbid.
ModesButPolledWriteRead ==
  {<<0, FALSE>>, <<0, TRUE>>, <<1, FALSE>>, <<1, TRUE>>, <<2, FALSE>>}
=============================================================================
