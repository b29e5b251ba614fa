SPECIFICATION FairSpec
CONSTANTS
    c1 = c1
    c2 = c2
    u1 = u1
    Conns = {c1, c2}
    Callers = {u1}
    Configs <- EveryMode
    MaxSessions = 2
    MaxPerUser = 1
    Started = {"daemon", "stray"}
    Hops = 1
    EnvSet = {"QCLI_SHELL_ID"}
    Nobody = Nobody
INVARIANTS
    ShellLimits
    EndReachesShell
    NoOrphans
    FirstReasonIsAudited
PROPERTY
    ShellFollowsSession
CHECK_DEADLOCK FALSE
