SPECIFICATION FairSpec
CONSTANTS
  c = c
  p = p
  q = q
  Users = {c, p}
  Creator = c
  StartingCoin <- RichCreator
  CoinWon <- NothingWon
  EntryCoin = 1
  MaxAccountCoin = 4
  MaximumPlayers = 2
  MaxAdmissions = 3
  MaxRequests = 1
INVARIANTS
  CoinsAccountedFor
  StakesFollowOutcome
  LeaversDoNotPay
  RunningSessionHasGame
PROPERTIES
  OutcomeIsFinal
  WaitingEnds
  GamesAreDecided
CHECK_DEADLOCK FALSE
