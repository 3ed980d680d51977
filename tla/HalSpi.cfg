SPECIFICATION SpiFairSpec
CONSTANTS
  ROUND = 4
  Sizes = {1, 2, 3, 4, 5, 6, 7, 8, 9, 12, 14}
INVARIANTS SpiTypeOK NeverBusy
PROPERTIES ImplementsTransfer TransferEnds
