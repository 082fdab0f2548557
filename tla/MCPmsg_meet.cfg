CONSTANTS
  Proc = {p1, p2, p3}
  NoProc = NoProc
  Mbox = {"m"}
  NullBox = "0"
  Msg = {x}
  NoMsg = NoMsg
  Modes <- ModesButPolledWriteRead
  Ops = {"signal", "exit", "kill"}
SPECIFICATION Spec
SYMMETRY Symm
CHECK_DEADLOCK FALSE
INVARIANTS NoMissedRendezvous ReadOnce ReadsAndWritesAgree ReplyDoesNotBlock
