SPECIFICATION MovesSpec
CONSTANTS
  None = None
  k1 = k1
  k2 = k2
  p1 = p1
  p2 = p2
  p3 = p3
  Procs = {p1, p2}
  NoProc = NoProc
  NoTrade = NoTrade
  NoRequest = NoRequest
  ToleranceScale = 1000
  NAccounts = 2
  Ids = {1, 2, 3}
  Symbols = {"aapl", "btc"}
  Apis = {"aapl", "btc"}
  Templates <- MoveTemplates
  Edits <- MoveEdits
  Histories <- MoveHistories
  MaxTransactions = 9
  MaxSymbols = 2
  EditsOverlap = FALSE
  TradeFields = {"quantity", "account"}
  TradeValues = {1, 2}
  FirstValue = 1
  MaxChanges = 1
  MaxWrites = 2
  Askers = {p1, p2, p3}
  FreshFor = 3
  RetryAfter = 2
  ColdFailure = 1
  RatesUntil = 7
  Keys = {k1, k2}
  KeepFor = 1
  EmptyFor = 1
  FailureFor = 1
  StaleFor = 2
  MaxEntries = 1
  Tasks = {1, 2, 3, 4}
  SeriesUntil = 3
CHECK_DEADLOCK FALSE
SYMMETRY PartsAlike
INVARIANTS ProfitsFollowHistory AskedOnceAndKept
PROPERTIES HarmlessChangesSaved OthersChangesStay
