------------------------------- MODULE MCTcp --------------------------------
(* A client that sends two segments and shuts down, and a server that reads and *)
(* closes.  Both may be interrupted by signals.                               *)
EXTENDS Tcp

MCIsn == [h \in Host |-> IF h = "cl" THEN 10 ELSE 50]
MCWrites == [h \in Host |-> IF h = "cl" THEN <<2>> ELSE <<>>]
MCCalls ==
  [h \in Host |-> IF h = "cl" THEN {"shutdown", "signal"} ELSE {"recv", "close", "signal"}]

=============================================================================
