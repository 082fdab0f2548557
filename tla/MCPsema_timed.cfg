CONSTANTS
  Proc = {p1, p2}
  NoProc = NoProc
  Sema = {"s"}
  Ops = {"signal", "vfork", "exit"}
  HandlerConds = {"io"}
  MaxStale = 1
SPECIFICATION LiveSpec
CHECK_DEADLOCK FALSE
INVARIANTS OtherSleepsKept
PROPERTIES TimedGetReturns
