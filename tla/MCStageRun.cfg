\* Two stage commands beside other writers, two calls, one attempt per round.
CONSTANTS
  Commands = {c1, c2}
  NoRun = NoRun
  MaxCalls = 2
  AttemptCap = 1
SPECIFICATION Spec
SYMMETRY Interchangeable
INVARIANTS
  TypeOK
  RowsAgree
  StaleReported
PROPERTIES
  LiveRowsAreOwn
  ImplementsAtomicStage
