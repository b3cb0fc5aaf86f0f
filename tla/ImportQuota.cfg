SPECIFICATION AccountSpec
CONSTANTS
  None = None
  Devices = {"phone", "laptop"}
  Apps = {"phone"}
  MaxRequests = 3
  MaxAtOnce = 2
  MaxEmails = 1
  MaxSignIns = 1
  MaxTroubles = 1
  r1 = r1
  r2 = r2
  p1 = p1
  p2 = p2
  p3 = p3
  Procs = {p1, p2, p3}
  k1 = k1
  k2 = k2
  Keys = {k1, k2}
  NoKey = NoKey
  Carried = {k1, k2, NoKey}
  Rows = {r1}
  File <- OneRow
  Included = {}
  Quota = 1
  MaxSent = 4
  MaxCopies = 5
INVARIANTS
  QuotaOvershootBounded SessionsOfThePassword SweptNeverConfirmed ShownOnlyWhenChecked KeychainFollows
CHECK_DEADLOCK FALSE
