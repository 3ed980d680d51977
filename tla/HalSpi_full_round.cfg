SPECIFICATION SpiSpec
CONSTANTS
  ROUND = 3
  Sizes = {2, 3}
INVARIANTS NoExtraByte
