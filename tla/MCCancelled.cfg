\* One command: an interrupt between the creation of a call row and its rounds.
CONSTANTS
  Commands = {c1}
  NoRun = NoRun
  MaxCalls = 1
  AttemptCap = 1
SPECIFICATION Spec
INVARIANT CancelledRowsClosed
