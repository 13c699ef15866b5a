SPECIFICATION Spec
CONSTANTS
  a = a
  b = b
  r1 = r1
  r2 = r2
  r3 = r3
  Owners = {a}
  NoOwner = NoOwner
  Rooms = {r1, r2}
  OwnerOf <- MCOwnerOfSiblings
  Players = {c1, p1}
  Creator = c1
  SystemTimer = SystemTimer
  Requests = {q1}
  MaximumPlayers = 2
  MaxVersion = 3
INVARIANTS
  MemoryIsDurable
  PublishedIsDurable
CHECK_DEADLOCK FALSE
