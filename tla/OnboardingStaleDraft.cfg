SPECIFICATION Spec
CONSTANTS
  s1 = s1
  s2 = s2
  t1 = t1
  t2 = t2
  t3 = t3
  c1 = c1
  c2 = c2
  None = None
  Session = {s1}
  Thread = {t1, t2}
  Kinds = {"profile", "edit", "validate", "approve"}
  Change = {c1, c2}
  Required = {c1}
  DraftsAlone = FALSE
  Faults = {}
  MaxCrashes = 0
INVARIANTS
  PromotesTheValidated
