SPECIFICATION TbSpec
CONSTANTS
  W = 8
  Delays = {0, 1, 3}
  MaxHold = 6
  MaxLag = 2
INVARIANTS PressKept
