SPECIFICATION Spec
CONSTANTS
  Tabs = {t1, t2}
  NoTab = NoTab
  Users = {u1}
  NoUser = NoUser
  MaxSessions = 2
  MaxTokens = 3
  MaxRequests = 2
  MaxQueue = 2
  MaxMoves = 3
  InitialGrant = 1
  RescueBalance = 1
  MaxJobs = 2
INVARIANTS
  TokensExchangedOnce
  SignedOutStaysOut
  WaitersAreServed
  RescuedOncePerWindow
  OneAnswerPerKey
CHECK_DEADLOCK FALSE
