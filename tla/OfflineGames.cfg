SPECIFICATION FairSpec
CONSTANTS
  Rooms = {r1, r2}
  FirstRoom = r1
  Players = {p1, p2}
  NoRoom = NoRoom
  LeaseDuration = 1
  Window = 2
  MaxTime = 4
  MaxToken = 2
  MaxJoins = 1
INVARIANTS
  FullWindowToReconnect
PROPERTIES
  DesertedGamesAreAborted
CHECK_DEADLOCK FALSE
