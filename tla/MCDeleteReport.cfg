\* A log's deletion alone: SIGINT between its service's return and the rebuild.
CONSTANTS
  a = a
  b = b
  p1 = p1
  p2 = p2
  None = None
  Procs <- MCProcs
  Keys <- MCKeys
  Scenarios <- LogScenario
  MaxTrouble = 1
SPECIFICATION Spec
INVARIANT CancelledNamesDurable
