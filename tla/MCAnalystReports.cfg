SPECIFICATION FairSpec
CONSTANTS
  p1 = p1
  p2 = p2
  p3 = p3
  Procs = {p1, p2}
  Users = {"ann"}
  Assets = {"nvda", "btc"}
  Locks = {1, 2, 3}
  NoLock = NoLock
  NoRequest = NoRequest
  Never = Never
  TTL = 2
  Cooldown = 1
  Window = 1
  MaxWork = 2
  PerUser = 2
  Global = 2
  MaxTime = 2
CHECK_DEADLOCK FALSE
INVARIANTS TypeOK OneAtATime SlotsGivenBack
PROPERTIES ReplacedWhenDue WaitersAnswered
