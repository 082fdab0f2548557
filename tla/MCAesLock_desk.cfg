CONSTANTS
  Proc = {p1, p2, p3}
  None = None
  MaxNest = 2
  MaxCount = 3
SPECIFICATION Spec
SYMMETRY Symm
CHECK_DEADLOCK FALSE
INVARIANTS NoLostWakeup UpdateMine MouseMine NoDeadlock DeadHoldNothing
