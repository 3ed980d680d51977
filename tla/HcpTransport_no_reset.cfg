SPECIFICATION Spec
CONSTANTS
  MTU = 16
  PKT_SIZE_MAX = 5
  CmdSizes = {1, 2}
  RspSizes = {1, 2}
  Late = {"ack"}
  Untimed = {}
  ResetOn = {"TIMEOUT"}
  Faults = {}
  MaxFaults = 0
  MaxCalls = 2
INVARIANTS ReplyIsOurs
