\* One connection, two interrupts: forced closes and nested handlers.
CONSTANTS
  Conns = {c1}
  NoConn = NoConn
  Slots = 1
  MaxSignals = 2
SPECIFICATION FairSpec
INVARIANTS DrainedIsComplete
PROPERTIES SlotsComeBack ServingEnds
CHECK_DEADLOCK FALSE
