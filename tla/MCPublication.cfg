\* Two snapshots, one after the other, each rendered at most twice.
CONSTANTS
  Entities = {a, b}
  Inodes = {i1, i2, i3}
  MaxRender = 2
  NoEntity = NoEntity
SPECIFICATION Spec
SYMMETRY Interchangeable
INVARIANTS
  TypeOK
  OneSibling
  CurrentNeverTorn
  DoneIsDurable
  LeftoversReported
PROPERTY ImplementsStore
