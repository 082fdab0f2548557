CONSTANTS
  r = r
  a = a
  b = b
  c = c
  Proc = {r, a, b, c}
  Root = r
  Init1 = a
  NoPid = NoPid
  Nobody = Nobody
  AnyPid = AnyPid
  Waits <- AnyWaits
  Ignoring = {a}
  NoCldStop = {}
  Signals = {"KILL", "STOP", "CONT"}
  Ops = {}
SPECIFICATION LiveSpec
CHECK_DEADLOCK FALSE
PROPERTIES OrphanReaped
