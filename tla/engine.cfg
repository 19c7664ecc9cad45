\* One pick, four ticks of up to two moves, a row thrown away as soon as it may be.
SPECIFICATION Spec
CONSTANTS
  Mines <- MCMines
  LastRow = 6
  Cols = 2
  NPicks = 1
  TierHp <- Hp
  TierDmg <- Dmg
  OreTough = 2
  OreValue = 1
  TopHeal = 2
  GrowSec = 2
  GrowMax = 1
  Reach <- MCReach
  MultWindow = 2
  MultCap = 4
  ChainRadius = 1
  ChainGuard = 3
  RayReach = 1
  TntMaxHits = 1
  HitCooldown = 2
  MaxHits = 6
  MaxTime = 3
  PruneEvery = 1
  Margin = 4
  Screen = 3
  Climb = 1
  Chain = 1
  Substeps = 2
  StartHeight = 1
INVARIANTS MineIsHonest ScreenIsHonest EachBlockOnce
PROPERTIES ChainIsComplete
CHECK_DEADLOCK FALSE
