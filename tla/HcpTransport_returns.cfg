SPECIFICATION FairSpec
CONSTANTS
  MTU = 16
  PKT_SIZE_MAX = 5
  CmdSizes = {1, 2}
  RspSizes = {1, 6}
  Late = {"ack", "hdr", "body"}
  Untimed = {2}
  ResetOn = {}
  Faults = {"corrupt", "spurious", "restart"}
  MaxFaults = 2
  MaxCalls = 2
PROPERTIES EveryCallReturns
