SPECIFICATION FairSpec
CONSTANTS
  a = a
  b = b
  r1 = r1
  r2 = r2
  r3 = r3
  Owners = {a, b}
  NoOwner = NoOwner
  Rooms = {r1, r3}
  OwnerOf <- MCOwnerOfPair
  Players = {c1, p1}
  Creator = c1
  SystemTimer = SystemTimer
  Requests = {q1}
  MaximumPlayers = 2
  MaxVersion = 3
INVARIANTS
  AppliedOnce
  TokensIdentifyOwners
  SoleHolderIsCurrent
  ProofMatchesCheckpoint
PROPERTIES
  FencedRoomIsFrozen
  HistoryOnlyGrows
  ImplementsCommandLog
  ServedAgain
CHECK_DEADLOCK FALSE
