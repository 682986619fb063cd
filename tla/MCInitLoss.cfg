\* By hand: an init that fails behind its commit removes a captured record.
CONSTANTS
  a = a
  b = b
  p1 = p1
  p2 = p2
  None = None
  Procs <- MCProcs
  Keys <- MCKeys
  Scenarios <- InitScenario
  MaxTrouble = 1
SPECIFICATION Spec
PROPERTY NothingLost
