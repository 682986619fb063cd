\* One snapshot and its successor: a rollback that no invalidation attempts.
CONSTANTS
  Entities = {a, b}
  Inodes = {i1, i2, i3}
  MaxRender = 2
  NoEntity = NoEntity
SPECIFICATION Spec
SYMMETRY Interchangeable
INVARIANT InvalidationAttemptsSiblings
