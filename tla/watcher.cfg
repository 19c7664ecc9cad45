\* Two networks of one family, a transfer made in either, an address that may be
\* deleted and added again, while the CRM switches the listener off and on.
SPECIFICATION FairWSpec
CONSTANTS
  p1 = p1
  p2 = p2
  t1 = t1
  t2 = t2
  Players = {p1}
  Requests = {1}
  AddressIds = {1, 2}
  Addresses = {"0xab"}
  Networks = {"polygon", "base"}
  Families = {"evm", "ton"}
  MemoFamilies = {"ton"}
  Tokens = {"usdc"}
  Transfers = {t1}
  Txids = {t1}
  MemoSteps = 2
  Quotes = {1}
  FamilyOf <- MCFamilyOf
  TokensOf <- MCTokensOf
  AddressFamily <- MCAddressFamily
  Canonical <- MCCanonical
  TonRaw <- MCTonRaw
  TxidOf <- OwnTxid
  Configs <- OnAndOff
  Slips <- ExactOnly
  Callers = {"timer", "button"}
  KeyFamilies = {"evm"}
  MaxFailures = 1
INVARIANTS PassedIsBooked BotRejectsOnlyWhatItMisses
PROPERTIES ImplementsDeposits EveryTransferBooked EveryPaidSettled
CHECK_DEADLOCK FALSE
