CONSTANTS
  Servers = {s1, s2}
  Calls = {c1, c2}
  Groups = {g1, g2}
  Rooms = {r1}
  Links = {}
  Ops = {"delete", "place", "moveRoom"}
  MaxLog = 4
  MaxTries = 2
  None = None
SPECIFICATION Spec
SYMMETRY Perms
CHECK_DEADLOCK FALSE
INVARIANTS TypeOK ItemInAtMostOneGroup GroupedRoomStaysGrouped
PROPERTIES MoveLeavesAuthorizedGroup
