SPECIFICATION FairSpec
CONSTANTS
  c = c
  p = p
  q = q
  Users = {c, p, q}
  Creator = c
  StartingCoin <- EvenCoins
  CoinWon <- NothingWon
  EntryCoin = 1
  MaxAccountCoin = 10
  MaximumPlayers = 3
  MaxAdmissions = 3
  MaxRequests = 0
INVARIANTS
  StakedPlayersPlay
CHECK_DEADLOCK FALSE
