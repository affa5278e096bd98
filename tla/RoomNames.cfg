CONSTANTS
  Servers = {s1, s2}
  Calls = {c1, c2}
  Rooms = {r1, r2}
  Names = {n1, n2}
  MaxLog = 3
  MaxTries = 2
  PlainUpdates = TRUE
  None = None
SPECIFICATION Spec
SYMMETRY Perms
CHECK_DEADLOCK FALSE
INVARIANTS TypeOK DeletedRoomStaysDeleted
PROPERTIES ClaimedNameIsFree
