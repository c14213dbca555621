SPECIFICATION QueueSpec
CONSTANTS
  j1 = j1  j2 = j2  j3 = j3  c1 = c1
  w1 = w1  w2 = w2  w3 = w3
  NoJob = NoJob
  JobIds <- MCJobIds
  CallIds <- MCCallIds
  Workers <- MCWorkers
  MaxConcurrency = 2
SYMMETRY MCSymmetry
INVARIANTS ConcurrencyBound ExclusiveExecution SlotsMatchWorkers Disjoint NoJobLost
PROPERTY CancelledStaysOut
