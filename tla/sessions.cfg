SPECIFICATION Spec
CONSTANTS
    u = u
    v = v
    r1 = r1
    r2 = r2
    w1 = w1
    w2 = w2
    sweeper = sweeper
    Users = {u}
    Requests = {r1, r2}
    Sockets = {w1}
    Sweeper = sweeper
    MaxSessions = 2
    MaxTickets = 1
    MaxAttempts = 2
    SlowStores = FALSE
    Operations = {"login", "verify", "own password", "reset", "disable", "enable", "delete", "logout", "revoke", "ticket", "list"}
SYMMETRY TaskSymmetry
INVARIANTS
    AttemptsAreBounded
    EndIsAnnounced
    DeletedUserLosesSessions
