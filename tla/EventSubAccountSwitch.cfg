\* The account changes while the first attempt of the old one is in progress.
SPECIFICATION Spec
CONSTANTS
    r1 = r1
    r2 = r2
    r3 = r3
    u1 = u1
    u2 = u2
    s1 = s1
    s2 = s2
    None = None
    Requests = {r1, r2}
    Users = {u1, u2}
    Owner <- TwoUsers
    Sessions = {s1, s2}
    Answers = {"ok", "failed", "retry"}
    Faults = {"early release"}
    MaxHandles <- OneHandle
    MaxQueue = 3
    MaxCreates = 2
    MaxDisturbances = 1
INVARIANT OneUserPerSession
CHECK_DEADLOCK FALSE
