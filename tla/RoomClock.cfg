SPECIFICATION FairSpec
CONSTANTS
  Never = Never
  GameUnits = 5
  TradeUnits = 2
  MaxCommands = 3
INVARIANTS
  NoSilentStall
  PunctualTimersAccepted
PROPERTIES
  TurnsEnd
CHECK_DEADLOCK FALSE
