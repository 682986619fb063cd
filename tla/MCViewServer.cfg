\* Two connections for one slot, one start at a time, one interrupt.
CONSTANTS
  Conns = {c1, c2}
  NoConn = NoConn
  Slots = 1
  MaxSignals = 1
SPECIFICATION Spec
SYMMETRY Interchangeable
INVARIANTS TypeOK SlotCoversWork ReaperOutlivesWork
CHECK_DEADLOCK FALSE
