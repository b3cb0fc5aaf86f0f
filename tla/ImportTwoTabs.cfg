SPECIFICATION Spec
CONSTANTS
  r1 = r1
  r2 = r2
  p1 = p1
  p2 = p2
  p3 = p3
  Procs = {p1, p2, p3}
  k1 = k1
  k2 = k2
  Keys = {k1, k2}
  NoKey = NoKey
  Carried = {k1, k2}
  Rows = {r1, r2}
  File <- TwoRows
  Included = {}
  Quota = 2
  MaxSent = 2
  MaxCopies = 4
INVARIANTS NoExtraCopies
CHECK_DEADLOCK FALSE
