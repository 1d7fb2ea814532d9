\* A topic is dropped while one of its subscriptions waits for a client.
SPECIFICATION Spec
CONSTANTS
    user = user
    channel = channel
    u = u
    create = create
    delete = delete
    c1 = c1
    c2 = c2
    c3 = c3
    c4 = c4
    NoClient = NoClient
    Topics = {user, channel}
    Subscriptions = {u, create, delete}
    SubsOf <- Topic
    Clients = {c1, c2, c3}
    MaxSubscriptions = 2
    Faults = {"early release"}
    MaxCalls = 4
    MaxDisturbances = 2
INVARIANT SubscribedIsWanted
CHECK_DEADLOCK FALSE
