\* Two families, three networks, two tokens; the CRM switches between two modes.
SPECIFICATION Spec
CONSTANTS
  p1 = p1
  p2 = p2
  t1 = t1
  t2 = t2
  Players = {p1, p2}
  Requests = {1, 2}
  AddressIds = {1}
  Addresses = {"0xab", "0:ab"}
  Networks = {"polygon", "base", "ton"}
  Families = {"evm", "ton"}
  MemoFamilies = {"ton"}
  Tokens = {"usdt", "usdc"}
  Transfers = {t1}
  Txids = {t1}
  MemoSteps = 2
  Quotes = {1}
  FamilyOf <- MCFamilyOf
  TokensOf <- MCTokensOf
  AddressFamily <- MCAddressFamily
  Canonical <- MCCanonical
  TonRaw <- MCTonRaw
  TxidOf <- OwnTxid
  Configs <- WatchAndAuto
  Slips <- EverySlip
SYMMETRY Symmetry
INVARIANTS OneOpenPerPlayer TxidClaimedOnce CreditedOnce BotWorkIsCovered DistinctTails
PROPERTIES KeepsPromise PaysItsOwn PaidAsToldIsFound
CHECK_DEADLOCK FALSE
