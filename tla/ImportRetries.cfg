SPECIFICATION FairSpec
CONSTANTS
  r1 = r1
  r2 = r2
  p1 = p1
  p2 = p2
  p3 = p3
  Procs = {p1, p2, p3}
  k1 = k1
  k2 = k2
  Keys = {k1}
  NoKey = NoKey
  Carried = {k1}
  Rows = {r1, r2}
  File <- TwoRows
  Included = {r1}
  Quota = 2
  MaxSent = 4
  MaxCopies = 3
INVARIANTS TypeOK SavedOncePerId NoExtraCopies
PROPERTIES WaitersAnswered
CHECK_DEADLOCK FALSE
