CONSTANTS
    p1 = p1
    p2 = p2
    s1 = s1
    s2 = s2
    Subjects = {s1, s2}
    Projectors = {p1}
    Consumes <- OneConsumes
    Clients = {c1}
    Shared = FALSE
    MaxLog = 3
    None = None
SPECIFICATION FairSpec
PROPERTIES StopsApplyingAfterFailure WaitReturns
CHECK_DEADLOCK FALSE
