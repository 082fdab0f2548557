CONSTANTS
  r = r
  a = a
  b = b
  Proc = {r, a, b}
  Root = r
  NoProc = NoProc
  SyncCond = {}
  DevCond = {}
  Shared = FALSE
  Ops = {"yield", "nap", "fork", "exec", "exit", "signal"}
  pri <- PriLow
  MIN_NICE <- Minus1
  MAX_NICE = 1
  time_slice = 1
  Boost = 1
  Second = 2
  Overdue = 1
  KernelTicks = TRUE
SPECIFICATION Spec
INVARIANTS NewProcessRunsNext PenaltyBounded
PROPERTIES ZombieStays
