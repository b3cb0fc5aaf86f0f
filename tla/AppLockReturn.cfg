SPECIFICATION Spec
CONSTANTS
  MaxSignIns = 1
  MaxTroubles = 0
PROPERTIES QuickReturnOpensOnlyUnlocked
CHECK_DEADLOCK FALSE
