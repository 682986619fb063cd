\* One connection, two interrupts: the handler meets a lock of its own thread.
CONSTANTS
  Conns = {c1}
  NoConn = NoConn
  Slots = 1
  MaxSignals = 2
SPECIFICATION Spec
INVARIANT NoSelfWait
CHECK_DEADLOCK FALSE
