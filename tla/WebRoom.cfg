SPECIFICATION FairSpec
CONSTANTS
  Ops = {o1, o2, o3}
  NoOp = NoOp
  MaxMoves = 4
  MaxFaults = 1
INVARIANTS
  AnswersAreTrue
  NoTransportIsLost

  
CHECK_DEADLOCK FALSE
