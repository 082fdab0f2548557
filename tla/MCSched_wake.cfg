CONSTANTS
  r = r
  a = a
  b = b
  Proc = {r, a, b}
  Root = r
  NoProc = NoProc
  SyncCond = {"c"}
  DevCond = {"d"}
  Shared = FALSE
  Ops = {"select", "signal"}
  pri <- Pri0
  MIN_NICE = 0
  MAX_NICE = 0
  time_slice = 1
  Boost = 0
  Second = 2
  Overdue = 1
  KernelTicks = TRUE
SPECIFICATION Spec
SYMMETRY Symm
INVARIANTS QueueOK NoLostWakeup

