\* One snapshot over the lifetime of several builds, under fairness.
CONSTANTS
  Entities = {a}
  Inodes = {i1, i2}
  MaxRender = 2
  NoEntity = NoEntity
SPECIFICATION LifetimeSpec
PROPERTY RollbackComesBack
PROPERTY ExportSparesUnreadable
