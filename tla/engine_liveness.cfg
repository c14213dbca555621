SPECIFICATION FairSpec
CONSTANTS
  o1 = o1
  o2 = o2
  Ops = {o1}
  MaxRetries = 3
  Pieces = 2
  NoRef = NoRef
PROPERTIES
  TransfersReturn
