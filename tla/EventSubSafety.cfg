\* Every fault, two requests of two users.
SPECIFICATION Spec
CONSTANTS
    r1 = r1
    r2 = r2
    r3 = r3
    u1 = u1
    u2 = u2
    s1 = s1
    s2 = s2
    None = None
    Requests = {r1, r2}
    Users = {u1, u2}
    Owner <- TwoUsers
    Sessions = {s1, s2}
    Answers = {"ok", "failed", "forbidden", "retry"}
    Faults = {"drop", "racing drop", "migrate", "early release", "two accounts"}
    MaxHandles <- TwoHandlesOfOne
    MaxQueue = 2
    MaxCreates = 1
    MaxDisturbances = 1
SYMMETRY SessionSymmetry
INVARIANTS
    TypeOK
    HandlesAreCounted
    AtMostOneNotReady
    UnsubscribedIsUnreferenced
    StateIsBacked
    ConnectionListsRequest
    BoundWhileInUse
CHECK_DEADLOCK FALSE
