\* By hand: an init that loses the race removes the out/ the winner took over.
CONSTANTS
  a = a
  b = b
  p1 = p1
  p2 = p2
  None = None
  Procs <- MCProcs
  Keys <- MCKeys
  Scenarios <- MCScenarios
  MaxTrouble = 1
SPECIFICATION Spec
INVARIANT CreatedIsRecognized
