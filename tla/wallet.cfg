\* Two rounds of one player, retried, and a withdrawal on the side.
SPECIFICATION Spec
CONSTANTS
  p1 = p1
  Players = {p1}
  Keys = {1, 2}
  Withdrawals = {1}
  Bets = {1, 2}
  AskedBets = {1, 2, 3}
  Price = 2
  StartBalance = 2
  Pity = 1
  Payouts = {0, 1}
  Amounts = {2}
  TopUps = {2}
  MaxSeeds = 2
  MaxSupply = 2
INVARIANTS OneChargePerKey SeedUsedOnce MoneyAddsUp FreeRoundsAreWon
CHECK_DEADLOCK FALSE
