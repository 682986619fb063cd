CONSTANTS
  a = a
  b = b
  p1 = p1
  p2 = p2
  None = None
  Procs <- MCProcs
  Keys <- MCKeys
  Scenarios <- MCScenarios
  MaxTrouble = 2
SPECIFICATION Spec
INVARIANTS
  WorkspaceTypeOK
  CreatedStays
  MigrationKeepsAll
  ReportsWhatItDid
  ErasedOrReported
  NoNeedlessFailure
PROPERTIES
  NothingLost
