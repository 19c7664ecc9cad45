\* Every page; calls that overtake each other, one of which may be lost.
SPECIFICATION FairSpec
CONSTANTS
  Pages = {"intake", "requests", "unmatched", "players"}
  Networks = {"polygon", "base"}
  Addresses = {"a"}
  Rows = {"r", "s"}
  People = {"p"}
  MaxPresses = 3
  MaxCalls = 2
  MaxLosses = 1
  MaxMoney = 2
INVARIANTS FlagsFall SwitchesAsPressed
PROPERTIES ScreenCatchesUp
CHECK_DEADLOCK FALSE
