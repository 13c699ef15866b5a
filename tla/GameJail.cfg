SPECIFICATION FairSpec
CONSTANTS
  None = None
  Seats = {0, 2}
  GAMEPLAY_POLICY <- JailPolicy
  BOARD_SPACES <- JailBoard
  CHANCE_CARDS <- JailChance
  COMMUNITY_CHEST_CARDS <- NoCards
  NearestTargets = {3}
  MAX_MATCH_CASH = 2000000
  MAX_STATE_VERSION = 16
  Dice <- TurnDice
  TradeTerms <- JailTerms
  TimeLimited = TRUE
  QuietVersions = 6
INVARIANTS
  TurnsCanBePlayed
PROPERTIES
  SilentGamesEnd
CHECK_DEADLOCK FALSE
