\* A calm environment: sessions drop, but not under a Helix request, and requests
\* are released once they are settled.  Liveness under FairSpec.
SPECIFICATION FairSpec
CONSTANTS
    r1 = r1
    r2 = r2
    r3 = r3
    u1 = u1
    u2 = u2
    s1 = s1
    s2 = s2
    None = None
    Requests = {r1, r2, r3}
    Users = {u1, u2}
    Owner <- ThreeRequests
    Sessions = {s1, s2}
    Answers = {"ok", "failed", "retry"}
    Faults = {"drop"}
    MaxHandles <- OneHandle
    MaxQueue = 3
    MaxCreates = 2
    MaxDisturbances = 2
INVARIANTS
    OneDriver
    AssertionsHold
    OneUserPerSession
    SessionsMatchRegistry
PROPERTIES
    HeldIsSettled
    ReleasedIsUnsubscribed
CHECK_DEADLOCK FALSE
