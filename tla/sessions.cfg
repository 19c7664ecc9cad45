\* Two tabs, two calls at a time, three deeds, one of them a fault at most.
SPECIFICATION FairSpec
CONSTANTS
  Tabs = {1, 2}
  Calls = {1, 2}
  MaxDeeds = 3
  MaxFaults = 1
  MaxPairs = 6
INVARIANTS RotationIsSingle EndedStaysEnded NoFalseAlarm
PROPERTIES EveryCallEnds
CHECK_DEADLOCK FALSE
