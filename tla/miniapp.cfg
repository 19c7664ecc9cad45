SPECIFICATION FairSpec
CONSTANTS
  Bet = 1
  Price = 2
  Spins = 1
  Payouts = {0, 2}
  StartBalance = 1
  Deposit = 1
  MaxBalance = 1
  MaxPlays = 3
  MaxDeeds = 2
INVARIANTS RunIsOfTheRound ShownWhilePlaying
PROPERTIES EveryRoundEnds
CHECK_DEADLOCK FALSE
