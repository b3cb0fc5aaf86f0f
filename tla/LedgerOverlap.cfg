SPECIFICATION Spec
CONSTANTS
  p1 = p1
  p2 = p2
  p3 = p3
  Procs = {p1, p2}
  NoProc = NoProc
  NoTrade = NoTrade
  NoRequest = NoRequest
  ToleranceScale = 1000
  NAccounts = 2
  Ids = {1, 2, 3}
  Symbols = {"aapl", "btc"}
  Apis = {"aapl", "btc"}
  Templates <- NoTemplates
  Edits <- OverlapEdits
  Histories <- OverlapHistories
  MaxTransactions = 9
  MaxSymbols = 2
  EditsOverlap = TRUE
CHECK_DEADLOCK FALSE
SYMMETRY BothAlike
INVARIANT NeverOversold
