\* A wallet of TON entered in its friendly form.
SPECIFICATION Spec
CONSTANTS
  p1 = p1
  p2 = p2
  t1 = t1
  t2 = t2
  Players = {p1, p2}
  Requests = {1, 2}
  AddressIds = {1}
  Addresses = {"UQ", "0:ab"}
  Networks = {"ton"}
  Families = {"evm", "ton"}
  MemoFamilies = {"ton"}
  Tokens = {"usdt"}
  Transfers = {t1}
  Txids = {t1}
  MemoSteps = 2
  Quotes = {1}
  FamilyOf <- MCFamilyOf
  TokensOf <- MCTokensOf
  AddressFamily <- MCAddressFamily
  Canonical <- MCCanonical
  TonRaw <- MCTonRaw
  TxidOf <- OwnTxid
  Configs <- WatchAndAuto
  Slips <- ExactOnly
SYMMETRY Symmetry
PROPERTY PaidAsToldIsFound
CHECK_DEADLOCK FALSE
