------------------------------- MODULE MCWait -------------------------------
(* Instances of Wait for TLC.                                              *)
EXTENDS Wait, TLC

\* Processes other than MiNT and the first one are interchangeable.
Symm == Permutations(Proc \ {Root, Init1})

\* Any child, dead only or stopped as well.
AnyWaits == [pid : {AnyPid}, untraced : BOOLEAN]
=============================================================================
