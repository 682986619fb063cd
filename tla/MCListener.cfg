\* By hand: The listener registered behind an interrupt (Python 3.10) stays open.
CONSTANTS
  Conns = {c1}
  NoConn = NoConn
  Slots = 1
  MaxSignals = 1
SPECIFICATION Spec
INVARIANT ListenerClosed
CHECK_DEADLOCK FALSE
