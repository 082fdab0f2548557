SPECIFICATION Spec
CONSTANTS
  Isn <- MCIsn
  Writes <- MCWrites
  Calls <- MCCalls
  SegMax = 1
  SndMax = 2
  RcvMax = 2
  MaxRetry = 1
  DupThresh = 1
  MaxNet = 2
INVARIANTS InOrder AckedKept EofRight NeverStuck NoLostWakeup
CHECK_DEADLOCK FALSE
