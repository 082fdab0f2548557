------------------------------ MODULE MCSched ------------------------------
(* Instances of Sched for TLC.                                             *)
EXTENDS Sched, TLC

CONSTANTS r, a, b

Pri0   == [p \in Proc |-> 0]
\* a is a CPU hog with the best priority, b has the worst.
PriHog == (r :> 0) @@ (a :> MAX_NICE) @@ (b :> MIN_NICE)

PriLow == (r :> 0) @@ (a :> 0) @@ (b :> MIN_NICE)
\* a and b differ in nothing when all priorities are equal.
Symm == Permutations({a, b})

Minus1 == -1
Minus20 == -20
=============================================================================
