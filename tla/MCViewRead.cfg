\* One reader beside the writer; member "questions" is rendering independent.
CONSTANTS
  Entities = {a}
  Inodes = {i1, i2}
  MaxRender = 2
  NoEntity = NoEntity
  Members = {report, questions}
  Shared = {questions}
SPECIFICATION ReadSpec
SYMMETRY Interchangeable
INVARIANTS
  ServedIsLoadedGraph
  SteadyReadServes
