SPECIFICATION PrFairSpec
CONSTANTS
  W = 6
  Delays = {0, 2}
  MaxHold = 4
  MaxLag = 1
  Timeouts = {0, 2}
  RESET_TIME = 1
INVARIANTS TbTypeOK PressTimeExact ReadOnlyWhenReady
PROPERTIES DelayKept DelayEnds TimeoutKept ReceiveReturns ReceiveBreaks ResetKept ResetReturns
