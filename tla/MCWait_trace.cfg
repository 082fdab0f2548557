CONSTANTS
  r = r
  a = a
  b = b
  c = c
  Proc = {r, a, b, c}
  Root = r
  Init1 = a
  NoPid = NoPid
  Nobody = Nobody
  AnyPid = AnyPid
  Waits <- AnyWaits
  Ignoring = {a}
  NoCldStop = {}
  Signals = {}
  Ops = {"trace", "tsr", "handler"}
SPECIFICATION Spec
SYMMETRY Symm
CHECK_DEADLOCK FALSE
INVARIANTS FamilyAlive WaiterMissesNothing DeathToldOnce
