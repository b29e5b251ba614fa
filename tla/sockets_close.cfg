SPECIFICATION FairSpec
CONSTANTS
    u = u
    v = v
    r1 = r1
    r2 = r2
    w1 = w1
    w2 = w2
    sweeper = sweeper
    Users = {u}
    Requests = {r1}
    Sockets = {w1, w2}
    Sweeper = sweeper
    MaxSessions = 1
    MaxTickets = 2
    MaxAttempts = 2
    SlowStores = TRUE
    Operations = {"login", "disable", "revoke", "ticket"}
INVARIANTS
    KickIsComing
PROPERTIES
    SocketFollowsSession
