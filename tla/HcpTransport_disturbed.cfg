SPECIFICATION Spec
CONSTANTS
  MTU = 16
  PKT_SIZE_MAX = 5
  CmdSizes = {1, 2, 3}
  RspSizes = {1, 2, 3, 6}
  Late = {"ack", "hdr"}
  Untimed = {2}
  ResetOn = {"IO_ERROR", "TIMEOUT"}
  Faults = {"corrupt", "spurious", "restart"}
  MaxFaults = 2
  MaxCalls = 2
INVARIANTS TypeOK SentWhole CommandIntact ReplyIsOurs ReplyDrained
PROPERTIES ImplementsExchange
