\* All four readers, which scan for ever; more transfers than the pages hold,
\* any of them shown late.
SPECIFICATION FairSpec
CONSTANTS
  Readers = {"evm", "tron", "ton", "solana"}
  Events = {1, 2, 3, 4}
  PageSize = 1
  MaxPages = 2
  MaxTime = 4
  MaxFailures = 1
  Late = {"evm", "tron", "ton", "solana"}
INVARIANT SkipsOnlyTheMissed
PROPERTY EveryTransferReported
CHECK_DEADLOCK FALSE
