SPECIFICATION Spec
CONSTANTS
  None = None
  Seats = {0, 1}
  GAMEPLAY_POLICY <- TurnPolicy
  BOARD_SPACES <- TurnBoard
  CHANCE_CARDS <- ChanceCards
  COMMUNITY_CHEST_CARDS <- CommunityChestCards
  NearestTargets = {2, 4}
  MAX_MATCH_CASH = 2000000
  MAX_STATE_VERSION = 12
  Dice <- TurnDice
  TradeTerms <- NoTerms
  TimeLimited = FALSE
  QuietVersions = 0
INVARIANTS
  OnlyTradesAreRefused
  TurnsCanBePlayed
CHECK_DEADLOCK FALSE
