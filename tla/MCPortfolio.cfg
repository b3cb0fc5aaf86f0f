SPECIFICATION PortfolioSpec
CONSTANTS
  None = None
  ToleranceScale = 3
  NAccounts = 2
  Quantities = {1, 2, 4, 6}
  MaxTrades = 6
  People = {"ann", "bob"}
  CopiedScreens = {"holdings"}
  MaxRequests = 2
  MaxAppAsked = 5
  Changes <- AnnChangesTwice
  Settings <- ThereAndBack
  CopiedKeys = {1, 2, 3, 4, 5}
  LimitedKeys = {1, 2, 3}
  LimitedKept = 2
  AllKept = 3
  Dropped = 2
  Capacity = 5
  HomeRanges = {"day", "week"}
  HomeCurrencies = {"cad", "usd"}
  MaxCurrency = 2
  HomeSettings <- BothThereAndBack
  MaxLoads = 2
  MaxRefresh = 1
  MaxMinute = 1
  ChartRanges = {"1M", "5Y"}
  AssetTypes = {"stock", "crypto"}
  Texts = {"", "a", "b"}
  Years = {2024, 2025}
  MaxAsked = 5
  Cooldown = 3
  Cap = 4
  Skews <- FewSkews
  MaxTime = 7
  MaxSent = 5
INVARIANTS
  SplitsAgree LedgerCoversHolding HintAgreesWithServer
  CopiesFaithful SavedSettingsStay EndsOnlyRevoked
  KeptAreRecent AmountsNotOlderThanSymbol ScreensKeepUp ButtonKeepsItsWord
PROPERTIES OwnAccountFirst
CHECK_DEADLOCK FALSE
