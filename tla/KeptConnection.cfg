SPECIFICATION FairSpec
CONSTANTS
  Ops = {o1, o2, o3}
  NoOp = NoOp
  MaxMoves = 4
  MaxFaults = 0
INVARIANTS
  CancelledIsNotKept
CHECK_DEADLOCK FALSE
