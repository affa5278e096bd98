CONSTANTS
    p1 = p1
    p2 = p2
    s1 = s1
    s2 = s2
    Subjects = {s1, s2}
    Projectors = {p1, p2}
    Consumes <- TwoConsume
    Clients = {c1}
    Shared = TRUE
    MaxLog = 2
    None = None
SPECIFICATION Spec
INVARIANTS TypeOK ReadYourWrites NoStrandedWaiter ReplayCompletesOnce
CHECK_DEADLOCK FALSE
