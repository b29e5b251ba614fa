--------------------------- MODULE MCJobScheduler ---------------------------
(* JobScheduler on small instances: the job options the runs draw from.    *)
EXTENDS JobScheduler

CONSTANTS a, b

Opt(limit, policy, kind, retries) ==
    [limit |-> limit, policy |-> policy, kind |-> kind, retries |-> retries]

\* Both limits, the policies that make a due run wait, with and without a
\* retry.
SlotOptions ==
    {Opt(1, "queue", "cron", 0), Opt(2, "cancel", "cron", 1)}

SlotBase == [j \in Jobs |-> Opt(1, "queue", "cron", 0)]

\* Job a runs on a cron schedule; any other job runs when triggered and may be
\* given a schedule.
ScheduleOptions ==
    {Opt(1, "queue", "cron", 0), Opt(1, "queue", "none", 0)}

ScheduleBase ==
    [j \in Jobs |-> IF j = a THEN Opt(1, "queue", "cron", 0) ELSE Opt(1, "queue", "none", 0)]

\* One job with one retry, which skips what comes due while it runs.
RetryOptions == {Opt(1, "skip", "none", 1)}
RetryBase == [j \in Jobs |-> Opt(1, "skip", "none", 1)]
=============================================================================
