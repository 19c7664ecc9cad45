\* Two networks of one family; a transfer may be made in either of them.
SPECIFICATION WSpec
CONSTANTS
  p1 = p1
  p2 = p2
  t1 = t1
  t2 = t2
  Players = {p1}
  Requests = {1}
  AddressIds = {1}
  Addresses = {"0xab"}
  Networks = {"polygon", "base"}
  Families = {"evm", "ton"}
  MemoFamilies = {"ton"}
  Tokens = {"usdc"}
  Transfers = {t1, t2}
  Txids = {t1, t2}
  MemoSteps = 2
  Quotes = {1}
  FamilyOf <- MCFamilyOf
  TokensOf <- MCTokensOf
  AddressFamily <- MCAddressFamily
  Canonical <- MCCanonical
  TonRaw <- MCTonRaw
  TxidOf <- OwnTxid
  Configs <- OnAndOff
  Slips <- ExactOnly
  Callers = {"timer", "button"}
  KeyFamilies = {"evm"}
  MaxFailures = 1
INVARIANT BotRejectsOnlyWhatIsGone
CHECK_DEADLOCK FALSE
