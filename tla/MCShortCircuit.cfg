CONSTANTS
  Logs = {l1, l2}
  Strengths = {"manual_claim", "code"}
  None = None
  Manual = "manual_claim"
  Narrative = "narrative"
  Facts = {f1, f2}
  Gaps = {g1}
  Clashes = {x1}
  Snapshots = {s1, s2}
  Branches = {b1, b2}
  Names = {"backend"}
  Vacancies = {"jd"}
  Slots = {"narrative"}
  Captures <- MCCaptures
  RefTypes = {"raw_log", "evidence_item"}
  ClashTypes = {"experience_fact"}
  Findings <- MCFindings
  MaxCited = 1
SPECIFICATION Spec
CHECK_DEADLOCK FALSE
SYMMETRY Symmetry
INVARIANT ShortCircuitRetainsItsGeneration
