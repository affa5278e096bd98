CONSTANTS
  Servers = {s1}
  Calls = {c1, c2}
  Groups = {g1, g2}
  Rooms = {r1}
  Links = {l1}
  Ops = {"create", "update", "moveLink", "addLink", "dropLink", "editLink",
         "arrange", "reorder", "dropRoom"}
  MaxLog = 2
  MaxTries = 1
  None = None
SPECIFICATION Spec
SYMMETRY Perms
CHECK_DEADLOCK FALSE
INVARIANTS SectionMatchesGroup
