SPECIFICATION RoomSpec
CONSTANTS
  None = None
  Seats = {0, 1, 2}
  GAMEPLAY_POLICY <- TradePolicy
  BOARD_SPACES <- TradeBoard
  CHANCE_CARDS <- NoCards
  COMMUNITY_CHEST_CARDS <- NoCards
  NearestTargets = {3}
  MAX_MATCH_CASH = 2000000
  MAX_STATE_VERSION = 10
  Dice <- TurnDice
  TradeTerms <- SomeTerms
  TimeLimited = TRUE
  QuietVersions = 0
  c = c
  p = p
  q = q
  Users = {c, p, q}
  Creator = c
  Times = {0, 1, 2}
  DEFAULT_TURN_TIMEOUT_MS = 1
  MaxLobbyVersion = 6
INVARIANTS
  LobbyIsPlayable
  PublishedStateIsReadable
  TradeButtonsWork
PROPERTIES
  OwnersConsent
  OthersCashIsMatched
CHECK_DEADLOCK FALSE
