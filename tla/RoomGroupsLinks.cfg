CONSTANTS
  Servers = {s1, s2}
  Calls = {c1, c2}
  Groups = {g1, g2}
  Rooms = {}
  Links = {l1}
  Ops = {"delete", "moveLink"}
  MaxLog = 7
  MaxTries = 1
  None = None
SPECIFICATION Spec
SYMMETRY Perms
CHECK_DEADLOCK FALSE
PROPERTIES LinkStaysGrouped
