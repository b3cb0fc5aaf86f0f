SPECIFICATION Spec
CONSTANTS
  p1 = p1
  p2 = p2
  p3 = p3
  Procs = {p1, p2}
  Users = {"ann"}
  Assets = {"nvda", "btc"}
  Locks = {1, 2, 3}
  NoLock = NoLock
  NoRequest = NoRequest
  Never = Never
  TTL = 2
  Cooldown = 1
  Window = 2
  MaxWork = 2
  PerUser = 2
  Global = 3
  MaxTime = 3
CHECK_DEADLOCK FALSE
INVARIANT HourlyLimit
