SPECIFICATION LiveSpec
CONSTANTS
  Executions = {e1, e2}
  Runs = {r1, r2}
  Configs = {e1, e2}
  Config <- OwnConfig
  Partial = Partial
  MaxLosses = 1
  Absent = Absent
SYMMETRY Symmetry
INVARIANTS
  OneApply
  EvidenceBacked
PROPERTIES
  LedgerForward
CHECK_DEADLOCK FALSE
