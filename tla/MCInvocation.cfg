\* One stage command beside other writers, two calls of three attempts each.
CONSTANTS
  Commands = {c1}
  NoRun = NoRun
  MaxCalls = 2
  AttemptCap = 3
SPECIFICATION FairSpec
INVARIANT AttemptsAccounted
PROPERTY RowsClose
