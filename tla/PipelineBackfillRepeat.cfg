SPECIFICATION Spec
CONSTANTS
  x1 = x1
  x2 = x2
  x3 = x3
  x4 = x4
  s1 = s1
  s2 = s2
  Row = {x1, x2, x3}
  Mark <- MCMark
  Fate <- MCFateFilter
  InitialMark = 0
  Schema = {s1}
  DriftPolicy <- MCDriftPolicy
  Windows <- MCWindow
  Run = {r1, r2, r3}
  None = None
  Serial = FALSE
  HistoryOnly = TRUE
  OrderedSource = TRUE
INVARIANTS
  BackfillsReplaceEachOther
CHECK_DEADLOCK FALSE
