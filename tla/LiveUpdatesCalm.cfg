\* Two topics of three subscriptions, two per client: a client fills up, and the
\* rest needs another.  Topics are dropped only when they have no subscription
\* waiting.
SPECIFICATION FairSpec
CONSTANTS
    user = user
    channel = channel
    u = u
    create = create
    delete = delete
    c1 = c1
    c2 = c2
    c3 = c3
    c4 = c4
    NoClient = NoClient
    Topics = {user, channel}
    Subscriptions = {u, create, delete}
    SubsOf <- Topic
    Clients = {c1, c2, c3, c4}
    MaxSubscriptions = 2
    Faults = {}
    MaxCalls = 3
    MaxDisturbances = 2
INVARIANTS
    InOnePlace
    NothingForgotten
    PendingIsDriven
    SubscribedIsWanted
PROPERTIES
    WantedIsCarried
    StopEndsAll
CHECK_DEADLOCK FALSE
