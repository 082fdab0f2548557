----------------------------- MODULE MCAesLock -----------------------------
(* An instance of AesLock for TLC.                                         *)
EXTENDS AesLock, TLC

Symm == Permutations(Proc)
=============================================================================
