CONSTANTS
  Proc = {r, p}
  Root = r
  Func = {drv, nap, alarm}
  Uses <- EachItsOwn
  Heap = {h}
  Static = {s1, s2}
  Null = Null
  NoCall = NoCall
  Clearing = {alarm}
  Keep = 1
  MaxTime = 3
  drv = drv
  nap = nap
  alarm = alarm
  p = p
  r = r
SPECIFICATION Spec
SYMMETRY Symm
CHECK_DEADLOCK FALSE
INVARIANTS PoolOK FatalOnlyIfNegative DeadHaveNone
PROPERTIES HolderKept KeepsTime
