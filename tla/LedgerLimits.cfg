SPECIFICATION PagesSpec
CONSTANTS
  None = None
  eth = eth
  sol = sol
  p1 = p1
  p2 = p2
  p3 = p3
  Procs = {p1, p2}
  NoProc = NoProc
  NoTrade = NoTrade
  NoRequest = NoRequest
  ToleranceScale = 1000
  NAccounts = 1
  Ids = {1, 2, 3, 4, 5}
  Symbols = {"aapl", "btc", eth, sol}
  Apis = {"aapl", "btc", eth, sol}
  Templates <- TwoBuys
  Edits <- MoveAway
  Histories <- OneAsset
  MaxTransactions = 3
  MaxSymbols = 1
  EditsOverlap = FALSE
  Texts = {"", "a"}
  Actions = {"any", "sell"}
  MaxChanges = 1
  MaxRequests = 2
  Stocks = {"AAPL"}
  Coins = {"bridged", "native"}
  TickerOf <- OneTicker
  MaxSearches = 2
  MaxSaves = 2
  ScansAdded = 2
  Natives = {TRUE, FALSE}
  ScansPicked = 3
  MaxRunning = 2
  MaxRows = 4
  FileRows = {1, 2, 3}
  BadRows = {3}
  RowsSaved = {1}
  MaxIds = 2
  MaxTries = 3
CHECK_DEADLOCK FALSE
INVARIANTS
  LimitsBounded ListIsOfItsFilters FormFollowsPick ScansKeepUp ReadFromItsOwn ReadAsWritten SavedAsTicked
SYMMETRY PagesAlike
