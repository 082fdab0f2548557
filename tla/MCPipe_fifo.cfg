CONSTANTS
  a = a
  b = b
  c = c
  h = h
  f1 = f1
  f2 = f2
  Proc = {a, b, c}
  Nobody = Nobody
  New = {c}
  File = {h, f1, f2}
  Server = h
  Attrs <- MCAttrs
  Modes = {"r", "w"}
  MaxFiles = 2
  PipeSiz = 3
  PipeBuf = 2
  VirginPipe = 99
SPECIFICATION Spec
SYMMETRY Symm
CHECK_DEADLOCK FALSE
INVARIANTS NoLostWakeup SelectMissesNothing CountsRight NotFreedInUse LockOwned
PROPERTIES IsStream
