CONSTANTS
  r = r
  a = a
  b = b
  Proc = {r, a, b}
  Root = r
  NoProc = NoProc
  SyncCond = {}
  DevCond = {}
  Shared = FALSE
  Ops = {}
  pri <- PriHog
  MIN_NICE <- Minus20
  MAX_NICE = 20
  time_slice = 2
  Boost = 3
  Second = 50
  Overdue = 3
  KernelTicks = FALSE
SPECIFICATION LiveSpec
PROPERTIES ReadyRuns
