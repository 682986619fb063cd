\* By hand: One snapshot and its successor: a removal relied on, but never flushed.
CONSTANTS
  Entities = {a, b}
  Inodes = {i1, i2, i3}
  MaxRender = 2
  NoEntity = NoEntity
SPECIFICATION Spec
SYMMETRY Interchangeable
INVARIANT InvalidationIsDurable
