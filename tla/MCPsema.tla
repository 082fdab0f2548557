------------------------------ MODULE MCPsema ------------------------------
(* Instances of Psema for TLC.                                             *)
EXTENDS Psema, TLC

Symm == Permutations(Proc)
=============================================================================
