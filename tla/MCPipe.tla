------------------------------- MODULE MCPipe -------------------------------
(* Instances of Pipe for TLC.                                              *)
EXTENDS Pipe, TLC

Symm == Permutations(Proc \ New) \cup Permutations(File \ {Server})

\* A fifo for both directions and a pipe.
TwoWay == [hidden |-> FALSE, oneway |-> FALSE, unix |-> FALSE, mode |-> "rw"]
OneWay == [hidden |-> TRUE, oneway |-> TRUE, unix |-> TRUE, mode |-> "w"]

With(a, ops, lengths) ==
  [hidden |-> a.hidden, oneway |-> a.oneway, unix |-> a.unix, mode |-> a.mode,
   ops |-> ops, lengths |-> lengths]

\* Locks without data; Fselect() with buffers that are empty or full; messages that
\* fit in part, with two writers or two readers.
MCAttrs ==
  {With(TwoWay, {"lock", "signal", "fork"}, {}),
   With(TwoWay, {"select", "signal", "flush"}, {3}),
   With([TwoWay EXCEPT !.hidden = TRUE], {"select"}, {3}),
   With(OneWay, {"select", "signal", "flush", "fork"}, {3}),
   With(OneWay, {"signal", "ndelay"}, {2, 3}),
   With([TwoWay EXCEPT !.mode = "r"], {"signal"}, {2, 3})}
=============================================================================
