SPECIFICATION Spec
CONSTANTS
  MTU = 17
  PKT_SIZE_MAX = 12
  CmdSizes = {1, 2, 3, 5, 6, 7, 10}
  RspSizes = {1, 2, 3, 4, 5, 6, 8, 9, 11, 12, 13}
  Late = {}
  Untimed = {}
  ResetOn = {}
  Faults = {}
  MaxFaults = 0
  MaxCalls = 2
INVARIANTS CleanExchangeSucceeds ReplyIsOurs
