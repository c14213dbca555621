SPECIFICATION Spec
CONSTANTS
  o1 = o1
  o2 = o2
  Ops = {o1, o2}
  MaxRetries = 3
  Pieces = 1
  NoRef = NoRef
SYMMETRY MCSymmetry
INVARIANTS
  OkMeansStored
  RetryBound
  StagingReleased
