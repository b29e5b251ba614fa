SPECIFICATION Spec
CONSTANTS
    u = u
    v = v
    r1 = r1
    r2 = r2
    w1 = w1
    w2 = w2
    sweeper = sweeper
    Users = {u}
    Requests = {r1, r2}
    Sockets = {}
    Sweeper = sweeper
    MaxSessions = 1
    MaxTickets = 0
    MaxAttempts = 2
    SlowStores = FALSE
    Operations = {"login", "disable"}
SYMMETRY TaskSymmetry
INVARIANTS
    DisabledUserLosesSessions
