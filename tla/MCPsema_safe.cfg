CONSTANTS
  Proc = {p1, p2, p3}
  NoProc = NoProc
  Sema = {"s"}
  Ops = {"signal", "io", "exit"}
  HandlerConds = {"io", "WAIT_SEMA"}
  MaxStale = 1
SPECIFICATION Spec
SYMMETRY Symm
CHECK_DEADLOCK FALSE
INVARIANTS SleepersHaveOwner EaccesOnlyAfterTimeout OtherSleepsKept
