SPECIFICATION TransferSpec
CONSTANTS
  Sizes = {0, 1, 2, 3, 4}
  MaxSize = 3
  PerRound = 2
  MaxLoss = 2
  MaxRequests = 2
INVARIANTS TransferTypeOK DiskIsPrefix  LinkedIsComplete 
  
CHECK_DEADLOCK FALSE
