SPECIFICATION Spec
CONSTANTS
  k1 = k1
  k2 = k2
  va = va
  vb = vb
  Key = {k1, k2}
  Value = {va, vb}
  Batches <- MCBatches
  Run = {r1, r2, r3}
  None = None
SYMMETRY MCSymmetry
INVARIANTS
  ConflictsAreRefused
CHECK_DEADLOCK FALSE
