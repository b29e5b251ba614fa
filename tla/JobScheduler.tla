---------------------------- MODULE JobScheduler ----------------------------
(***************************************************************************)
(* The background job scheduler of the jobs plugin: CliJobScheduler in     *)
(* plugins/jobs/qodalis_cli_jobs/cli_job_scheduler.py.                     *)
(*                                                                         *)
(* The scheduler runs on one asyncio event loop: the code between two      *)
(* awaits is one action, and everything else may happen at an await.  The  *)
(* awaits that matter are the calls of the job storage (a pluggable        *)
(* provider that may be remote), the job itself, the timers, the retry     *)
(* delay, and the broadcast between taking a trigger's slot and launching  *)
(* its run.  The other broadcasts change nothing and read nothing that a   *)
(* later step uses, so they are merged with the step before them.          *)
(*                                                                         *)
(* Time is abstracted: a timer or a retry delay may end at any moment.     *)
(***************************************************************************)
EXTENDS Integers, FiniteSets, Sequences

CONSTANTS
    Jobs,             \* the registered jobs
    Disabled,         \* the jobs registered with enabled=False
    RunOnStart,       \* the jobs registered with run_on_start=True
    Options,          \* the option values an update may set
    BaseOpt,          \* the options each job is registered with
    MaxRuns,          \* bound: runs over the whole history
    MaxWrites,        \* bound: state writes of one job in flight
    Aliased,          \* the store keeps the scheduler's own record objects
                      \* (InMemoryJobStorageProvider) and dies with it
    StoreInOrder,     \* the store applies the state writes in call order
    StoreMayFail,     \* a call of the store may raise
    NoDelay,          \* the retry delay is "0s"
    InProcessRestart, \* start() may be called again after stop()
    Requests,         \* bound: the API calls made
    Endings           \* bound: the ways a job's code may end

Run == 1..MaxRuns
Policies == {"skip", "queue", "cancel"}
Kinds == {"none", "interval", "cron"}
Statuses == {"active", "paused", "stopped"}
Outcomes == {"completed", "failed", "cancelled", "timed_out"}

ASSUME BoundsAssumption == MaxRuns \in Nat /\ MaxWrites \in Nat
ASSUME JobsAssumption == Jobs # {} /\ Disabled \subseteq Jobs /\ RunOnStart \subseteq Jobs
ASSUME OptionsAssumption ==
    /\ Options \subseteq [limit: Nat \ {0}, policy: Policies, kind: Kinds, retries: Nat]
    /\ BaseOpt \in [Jobs -> Options]
ASSUME FlagsAssumption ==
    /\ Aliased \in BOOLEAN /\ StoreInOrder \in BOOLEAN /\ StoreMayFail \in BOOLEAN
    /\ NoDelay \in BOOLEAN /\ InProcessRestart \in BOOLEAN
ASSUME EnvironmentAssumption ==
    /\ Requests \subseteq {"trigger", "pause", "resume", "stop", "cancel", "update",
                           "invalid update", "delete"}
    /\ Endings \subseteq {"returns", "discards", "raises", "times out", "is cancelled"}

\* Attempts are numbered from 0; the largest max_retries bounds them.
Attempts == UNION {0..o.retries : o \in Options}

\* An execution is one attempt of one run: its record in the store.
Execs == Run \X Attempts

\* Who issued a state write: a run, an API call, or the scheduler's stop().
Api == 0
Stopper == MaxRuns + 1
Writes == [by: 0..(MaxRuns + 1), status: Statuses]

VARIABLES
    phase,      \* where start() and stop() are
    todo,       \* jobs that start() or stop() has not visited yet
    stale,      \* executions start() still has to finish as interrupted
    status,     \* JobRegistration.status
    opt,        \* JobRegistration.options
    timers,     \* live timer tasks of the job
    runs,       \* JobRegistration.runs (ids grow, so the oldest is the least)
    queued,     \* JobRegistration.queued
    started,    \* the runs 1..started have taken a slot so far
    jobOf,      \* the job of a run
    pc,         \* where the run's task is
    attempt,    \* the run's attempt number
    cancelled,  \* JobRun.cancellation is set
    outcome,    \* the status of the run's finished attempt
    store,      \* the execution records: a status, "none" or "gone"
    doomed,     \* executions a delete request found finished, not yet deleted
    saved,      \* the persisted JobState.status, or "none"
    writes      \* state writes in flight, oldest first

lifeVars == <<phase, todo, stale>>
jobVars == <<status, opt, timers>>
slotVars == <<runs, queued, started, jobOf, pc, cancelled>>
attemptVars == <<attempt, outcome>>
historyVars == <<store, doomed>>
stateVars == <<saved, writes>>
vars == <<lifeVars, jobVars, slotVars, attemptVars, historyVars, stateVars>>

Phases == {"down", "finishing", "listing", "loading", "up", "stopping", "stopped"}
Stages == {"idle", "admitted", "launched", "opening", "executing", "saving",
           "persisting", "delaying", "retryDue", "done"}

\* The scheduler's _running flag.
Running == phase \in {"finishing", "listing", "loading", "up"}

Live(r) == pc[r] \notin {"idle", "done"}

\* JobRun.execution_id of run r is set, to the execution of its attempt.
InAttempt(r) == pc[r] \in {"opening", "executing", "saving"}

\* JobRegistration.running_execution_ids, of every job.
RunningExecutions == {<<r, attempt[r]>> : r \in {q \in UNION {runs[j] : j \in Jobs} : InAttempt(q)}}

Room == started + Cardinality({j \in Jobs : queued[j]}) < MaxRuns

-----------------------------------------------------------------------------
(* register(): the state a process starts with. *)

RegisteredStatus == [j \in Jobs |-> IF j \in Disabled THEN "stopped" ELSE "active"]

Init ==
    /\ phase = "down" /\ todo = {} /\ stale = {}
    /\ status = RegisteredStatus
    /\ opt = BaseOpt
    /\ timers = [j \in Jobs |-> 0]
    /\ runs = [j \in Jobs |-> {}]
    /\ queued = [j \in Jobs |-> FALSE]
    /\ started = 0
    /\ jobOf = [r \in Run |-> CHOOSE j \in Jobs : TRUE]
    /\ pc = [r \in Run |-> "idle"]
    /\ attempt = [r \in Run |-> 0]
    /\ cancelled = [r \in Run |-> FALSE]
    /\ outcome = [r \in Run |-> "none"]
    /\ store = [e \in Execs |-> "none"]
    /\ doomed = {}
    /\ saved = [j \in Jobs |-> "none"]
    /\ writes = [j \in Jobs |-> <<>>]

-----------------------------------------------------------------------------
(* The slots: _take_slot, _launch, _start_queued, _admit, _release,        *)
(* _cancel_runs.                                                           *)

\* Job j's new run takes a slot besides those of "others"; "stages" is pc
\* before it.  It is launched at once, or ("admitted") after a broadcast.
TakeSlot(j, others, stages, stage) ==
    /\ started < MaxRuns
    /\ started' = started + 1
    /\ runs' = [runs EXCEPT ![j] = others \cup {started + 1}]
    /\ jobOf' = [jobOf EXCEPT ![started + 1] = j]
    /\ pc' = [stages EXCEPT ![started + 1] = stage]

\* Mutant of StartQueued: off by one, the last free slot is not used.
StartQueuedOffByOne(j, others, limit, stages) ==
    \/ /\ queued[j] /\ Cardinality(others) + 1 < limit
       /\ queued' = [queued EXCEPT ![j] = FALSE]
       /\ TakeSlot(j, others, stages, "launched")
    \/ /\ ~(queued[j] /\ Cardinality(others) + 1 < limit)
       /\ runs' = [runs EXCEPT ![j] = others]
       /\ pc' = stages
       /\ UNCHANGED <<queued, started, jobOf>>

\* A freed slot goes to the waiting run in the same step.
StartQueued(j, others, limit, stages) ==
    \/ /\ queued[j] /\ Cardinality(others) < limit
       /\ queued' = [queued EXCEPT ![j] = FALSE]
       /\ TakeSlot(j, others, stages, "launched")
    \/ /\ ~(queued[j] /\ Cardinality(others) < limit)
       /\ runs' = [runs EXCEPT ![j] = others]
       /\ pc' = stages
       /\ UNCHANGED <<queued, started, jobOf>>

Oldest(j) == CHOOSE r \in runs[j] : \A q \in runs[j] : r <= q

\* Mutant of Admit: the limit is checked with <=.
AdmitOneTooMany(j, stage) ==
    /\ Cardinality(runs[j]) <= opt[j].limit
    /\ Room
    /\ TakeSlot(j, runs[j], pc, stage)
    /\ UNCHANGED <<queued, cancelled>>

\* A due run: it takes a slot, waits, or is dropped (a manual one is refused).
Admit(j, stage) ==
    \/ /\ Cardinality(runs[j]) < opt[j].limit
       /\ Room
       /\ TakeSlot(j, runs[j], pc, stage)
       /\ UNCHANGED <<queued, cancelled>>
    \/ /\ Cardinality(runs[j]) >= opt[j].limit
       /\ \/ /\ opt[j].policy = "queue"
             /\ queued[j] \/ Room
             /\ queued' = [queued EXCEPT ![j] = TRUE]
             /\ UNCHANGED cancelled
          \/ /\ opt[j].policy = "cancel" /\ ~queued[j]
             /\ Room
             /\ cancelled' = [cancelled EXCEPT ![Oldest(j)] = TRUE]
             /\ queued' = [queued EXCEPT ![j] = TRUE]
          \/ /\ opt[j].policy = "cancel" /\ queued[j]
             /\ UNCHANGED <<queued, cancelled>>
          \/ /\ opt[j].policy = "skip" /\ stage # "admitted"
             /\ UNCHANGED <<queued, cancelled>>
       /\ UNCHANGED <<runs, started, jobOf, pc>>

\* The run ends, whatever ended it: the finally of _run.
Release(r) ==
    /\ StartQueued(jobOf[r], runs[jobOf[r]] \ {r}, opt[jobOf[r]].limit,
                   [pc EXCEPT ![r] = "done"])
    /\ attempt' = [attempt EXCEPT ![r] = 0]
    /\ outcome' = [outcome EXCEPT ![r] = "none"]
    /\ cancelled' = [cancelled EXCEPT ![r] = FALSE]

\* Mutant of CancelRuns: a waiting run is not dropped.
CancelRunsKeepsQueued(j) ==
    /\ cancelled' = [r \in Run |-> cancelled[r] \/ r \in runs[j]]
    /\ UNCHANGED queued

CancelRuns(j) ==
    /\ queued' = [queued EXCEPT ![j] = FALSE]
    /\ cancelled' = [r \in Run |-> cancelled[r] \/ r \in runs[j]]

-----------------------------------------------------------------------------
(* Timers and saved states: _cancel_timer, _schedule_next, _persist_state. *)

\* The timer tasks of a job after _cancel_timer, and after _schedule_next.
Disarmed(n) == IF n > 0 THEN n - 1 ELSE 0
Armed(n, kind) == IF kind = "none" THEN n ELSE n + 1

PersistState(j, by, st) ==
    writes' = [writes EXCEPT ![j] = Append(@, [by |-> by, status |-> st])]


NoWriteBy(by) == \A j \in Jobs : \A i \in 1..Len(writes[j]) : writes[j][i].by # by

-----------------------------------------------------------------------------
(* start(): finish interrupted runs, restore the states, arm the timers.   *)
(* The server answers requests only once it has returned.                  *)

\* Mutant of StartBegin: interrupted runs are not looked for.
StartBeginLoadsAtOnce ==
    /\ phase = "down" \/ (InProcessRestart /\ phase = "stopped")
    /\ phase' = "loading"
    /\ todo' = Jobs
    /\ UNCHANGED <<stale, jobVars, slotVars, attemptVars, historyVars, stateVars>>

StartBegin ==
    /\ phase = "down" \/ (InProcessRestart /\ phase = "stopped")
    /\ phase' = "finishing"
    /\ todo' = Jobs
    /\ UNCHANGED <<stale, jobVars, slotVars, attemptVars, historyVars, stateVars>>

\* The store reads the running executions of the next job ...
ListStale(j) ==
    /\ phase = "finishing" /\ stale = {} /\ j \in todo
    /\ phase' = "listing"
    /\ todo' = todo \ {j}
    /\ stale' = {e \in Execs : store[e] = "running" /\ jobOf[e[1]] = j}
    /\ UNCHANGED <<jobVars, slotVars, attemptVars, historyVars, stateVars>>

\* ... and when the listing has arrived, the runs of this process are left out.
ListReturned ==
    /\ phase = "listing"
    /\ phase' = "finishing"
    /\ stale' = stale \ RunningExecutions
    /\ UNCHANGED <<todo, jobVars, slotVars, attemptVars, historyVars, stateVars>>

SaveStale(e) ==
    /\ phase = "finishing" /\ e \in stale
    /\ store' = [store EXCEPT ![e] = "cancelled"]
    /\ stale' = stale \ {e}
    /\ UNCHANGED <<phase, todo, doomed, jobVars, slotVars, attemptVars, stateVars>>

\* A failing listing or save is logged and leaves out the rest of the job.
ScanFails ==
    /\ StoreMayFail
    /\ phase = "listing" \/ (phase = "finishing" /\ stale # {})
    /\ phase' = "finishing"
    /\ stale' = {}
    /\ UNCHANGED <<todo, jobVars, slotVars, attemptVars, historyVars, stateVars>>

ScanEnd ==
    /\ phase = "finishing" /\ stale = {} /\ todo = {}
    /\ phase' = "loading"
    /\ todo' = Jobs
    /\ UNCHANGED <<stale, jobVars, slotVars, attemptVars, historyVars, stateVars>>

Restored(j) ==
    IF saved[j] # "none" /\ j \notin Disabled THEN saved[j] ELSE status[j]

\* _due_on_start depends on the last run, except for a job without a schedule.
DueOnStart(j) ==
    IF j \notin RunOnStart \/ opt[j].kind = "interval" THEN {FALSE}
    ELSE IF opt[j].kind = "none" /\ Room THEN {TRUE} ELSE {Room, FALSE}

\* One turn of the loop over the registrations (jobs share no state).  An
\* interval job that is due runs through its timer, which fires at once.
LoadJob(j) ==
    /\ phase = "loading" /\ j \in todo
    /\ todo' = todo \ {j}
    /\ phase' = IF todo = {j} THEN "up" ELSE "loading"
    /\ status' = [status EXCEPT ![j] = Restored(j)]
    /\ \/ /\ Restored(j) # "active"
          /\ UNCHANGED <<timers, slotVars>>
       \/ /\ Restored(j) = "active"
          /\ timers' = [timers EXCEPT ![j] = Armed(@, opt[j].kind)]
          /\ \E due \in DueOnStart(j) :
                IF due THEN Admit(j, "launched") ELSE UNCHANGED slotVars
    /\ UNCHANGED <<stale, opt, attemptVars, historyVars, stateVars>>

-----------------------------------------------------------------------------
(* stop(), and the end of the process.                                     *)

\* One turn of stop()'s loop; the next waits until the state is saved.
Stop(j) ==
    /\ phase = "up" \/ (phase = "stopping" /\ j \in todo)
    /\ NoWriteBy(Stopper)
    /\ phase' = "stopping"
    /\ todo' = (IF phase = "up" THEN Jobs ELSE todo) \ {j}
    /\ CancelRuns(j)
    /\ timers' = [timers EXCEPT ![j] = Disarmed(@)]
    /\ PersistState(j, Stopper, status[j])
    /\ UNCHANGED <<stale, status, opt, runs, started, jobOf, pc, attemptVars,
                   historyVars, saved>>

StopEnd ==
    /\ phase = "stopping" /\ todo = {} /\ NoWriteBy(Stopper)
    /\ phase' = "stopped"
    /\ UNCHANGED <<todo, stale, jobVars, slotVars, attemptVars, historyVars, stateVars>>

\* The process ends, by a crash at any point or after stop(): the tasks and
\* the registrations are lost, and so is a store in memory.
Crash ==
    /\ phase # "down"
    /\ phase' = "down" /\ todo' = {} /\ stale' = {}
    /\ status' = RegisteredStatus
    /\ opt' = BaseOpt
    /\ timers' = [j \in Jobs |-> 0]
    /\ runs' = [j \in Jobs |-> {}]
    /\ queued' = [j \in Jobs |-> FALSE]
    /\ pc' = [r \in Run |-> IF Live(r) THEN "done" ELSE pc[r]]
    /\ attempt' = [r \in Run |-> 0]
    /\ cancelled' = [r \in Run |-> FALSE]
    /\ outcome' = [r \in Run |-> "none"]
    /\ doomed' = {}
    /\ writes' = [j \in Jobs |-> <<>>]
    /\ store' = IF Aliased THEN [e \in Execs |-> IF store[e] = "none" THEN "none" ELSE "gone"]
                ELSE store
    /\ saved' = IF Aliased THEN [j \in Jobs |-> "none"] ELSE saved
    /\ UNCHANGED <<started, jobOf>>

-----------------------------------------------------------------------------
(* The schedule and the API: _timer_fire, trigger, pause, resume, stop_job,*)
(* cancel_current, update_options, delete_execution(s).                    *)

\* The timer's sleep is over: a due run, and the next timer.
TimerFire(j) ==
    /\ timers[j] > 0
    /\ \/ /\ Running /\ status[j] = "active"
          /\ Admit(j, "launched")
          /\ timers' = [timers EXCEPT ![j] = Armed(@ - 1, opt[j].kind)]
       \/ /\ ~(Running /\ status[j] = "active")
          /\ timers' = [timers EXCEPT ![j] = @ - 1]
          /\ UNCHANGED slotVars
    /\ UNCHANGED <<lifeVars, status, opt, attemptVars, historyVars, stateVars>>

\* The slot is taken before job:triggered is published, the run launched after.
Trigger(j) ==
    /\ phase = "up" /\ "trigger" \in Requests
    /\ Admit(j, "admitted")
    /\ UNCHANGED <<lifeVars, jobVars, attemptVars, historyVars, stateVars>>

\* Mutant of Pause: the timer goes on.
PauseKeepsTimer(j) ==
    /\ phase = "up" /\ "pause" \in Requests /\ Len(writes[j]) < MaxWrites
    /\ status[j] # "paused"
    /\ status' = [status EXCEPT ![j] = "paused"]
    /\ PersistState(j, Api, "paused")
    /\ UNCHANGED <<lifeVars, opt, timers, slotVars, attemptVars, historyVars, saved>>

Pause(j) ==
    /\ phase = "up" /\ "pause" \in Requests /\ Len(writes[j]) < MaxWrites
    /\ status[j] # "paused"
    /\ status' = [status EXCEPT ![j] = "paused"]
    /\ timers' = [timers EXCEPT ![j] = Disarmed(@)]
    /\ PersistState(j, Api, "paused")
    /\ UNCHANGED <<lifeVars, opt, slotVars, attemptVars, historyVars, saved>>

\* Mutant of Resume: the state is saved before the status is assigned.
ResumeSavesTooEarly(j) ==
    /\ phase = "up" /\ "resume" \in Requests /\ Len(writes[j]) < MaxWrites
    /\ status[j] = "paused"
    /\ status' = [status EXCEPT ![j] = "active"]
    /\ timers' = [timers EXCEPT ![j] = Armed(@, opt[j].kind)]
    /\ PersistState(j, Api, "paused")
    /\ UNCHANGED <<lifeVars, opt, slotVars, attemptVars, historyVars, saved>>

Resume(j) ==
    /\ phase = "up" /\ "resume" \in Requests /\ Len(writes[j]) < MaxWrites
    /\ status[j] = "paused"
    /\ status' = [status EXCEPT ![j] = "active"]
    /\ timers' = [timers EXCEPT ![j] = Armed(@, opt[j].kind)]
    /\ PersistState(j, Api, "active")
    /\ UNCHANGED <<lifeVars, opt, slotVars, attemptVars, historyVars, saved>>

StopJob(j) ==
    /\ phase = "up" /\ "stop" \in Requests /\ Len(writes[j]) < MaxWrites
    /\ status' = [status EXCEPT ![j] = "stopped"]
    /\ timers' = [timers EXCEPT ![j] = Disarmed(@)]
    /\ CancelRuns(j)
    /\ PersistState(j, Api, "stopped")
    /\ UNCHANGED <<lifeVars, opt, runs, started, jobOf, pc, attemptVars,
                   historyVars, saved>>

CancelCurrent(j) ==
    /\ phase = "up" /\ "cancel" \in Requests
    /\ runs[j] # {} \/ queued[j]
    /\ CancelRuns(j)
    /\ UNCHANGED <<lifeVars, jobVars, runs, started, jobOf, pc, attemptVars,
                   historyVars, stateVars>>

\* Mutant of UpdateOptions: a higher limit does not start the waiting run.
UpdateOptionsStartsNothing(j, o) ==
    /\ phase = "up" /\ "update" \in Requests
    /\ o.kind # "none" \/ opt[j].kind = "none"
    /\ opt' = [opt EXCEPT ![j] = o]
    /\ timers' = IF status[j] = "active"
                 THEN [timers EXCEPT ![j] = Armed(Disarmed(@), o.kind)]
                 ELSE timers
    /\ UNCHANGED <<lifeVars, status, slotVars, attemptVars, historyVars, stateVars>>

\* A given limit may start the waiting run; an active job is rescheduled.
UpdateOptions(j, o) ==
    /\ phase = "up" /\ "update" \in Requests
    /\ o.kind # "none" \/ opt[j].kind = "none"
    /\ opt' = [opt EXCEPT ![j] = o]
    /\ \/ StartQueued(j, runs[j], o.limit, pc)
       \/ o.limit = opt[j].limit /\ UNCHANGED <<runs, queued, started, jobOf, pc>>
    /\ timers' = IF status[j] = "active"
                 THEN [timers EXCEPT ![j] = Armed(Disarmed(@), o.kind)]
                 ELSE timers
    /\ UNCHANGED <<lifeVars, status, cancelled, attemptVars, historyVars, stateVars>>

\* An invalid field raises after the schedule and max_retries were assigned.
UpdateRejected(j, o) ==
    /\ phase = "up" /\ "invalid update" \in Requests
    /\ o.kind # "none" \/ opt[j].kind = "none"
    /\ o.limit = opt[j].limit /\ o.policy = opt[j].policy
    /\ opt' = [opt EXCEPT ![j] = o]
    /\ UNCHANGED <<lifeVars, status, timers, slotVars, attemptVars, historyVars, stateVars>>

\* Mutant of IsRunning: only the record's own status counts.
IsRunningByRecord(e) == store[e] = "running"

\* _is_running, on the record a delete request has read.
IsRunning(e) == store[e] = "running" \/ e \in RunningExecutions

DeleteChecked(e) ==
    /\ phase = "up" /\ "delete" \in Requests
    /\ store[e] \notin {"none", "gone"}
    /\ ~IsRunning(e)
    /\ doomed' = doomed \cup {e}
    /\ UNCHANGED <<store, lifeVars, jobVars, slotVars, attemptVars, stateVars>>

DeleteApplied(e) ==
    /\ e \in doomed
    /\ doomed' = doomed \ {e}
    /\ store' = [store EXCEPT ![e] = "gone"]
    /\ UNCHANGED <<lifeVars, jobVars, slotVars, attemptVars, stateVars>>

-----------------------------------------------------------------------------
(* The task of a run: _run and _execute_attempt.                           *)

Exec(r) == <<r, attempt[r]>>

MoveTo(r, stage) == pc' = [pc EXCEPT ![r] = stage]

TriggerLaunch(r) ==
    /\ pc[r] = "admitted"
    /\ MoveTo(r, "launched")
    /\ UNCHANGED <<lifeVars, jobVars, runs, queued, started, jobOf, cancelled,
                   attemptVars, historyVars, stateVars>>

\* Mutant of BeginAttempt: a retry goes on with the execution of the attempt before.
BeginAttemptSameExecution(r) ==
    /\ pc[r] \in {"launched", "retryDue"}
    /\ MoveTo(r, "opening")
    /\ UNCHANGED <<lifeVars, jobVars, runs, queued, started, jobOf, cancelled,
                   attemptVars, historyVars, stateVars>>

\* The task starts, or its retry delay was over: execution_id is set.
BeginAttempt(r) ==
    /\ pc[r] \in {"launched", "retryDue"}
    /\ MoveTo(r, "opening")
    /\ attempt' = [attempt EXCEPT ![r] = IF pc[r] = "retryDue" THEN @ + 1 ELSE @]
    /\ UNCHANGED <<lifeVars, jobVars, runs, queued, started, jobOf, cancelled,
                   outcome, historyVars, stateVars>>

OpenSaved(r) ==
    /\ pc[r] = "opening"
    /\ MoveTo(r, "executing")
    /\ store' = [store EXCEPT ![Exec(r)] = "running"]
    /\ UNCHANGED <<lifeVars, jobVars, runs, queued, started, jobOf, cancelled,
                   attemptVars, doomed, stateVars>>

\* The first save raises: the run ends without an execution.
OpenFails(r) ==
    /\ StoreMayFail
    /\ pc[r] = "opening"
    /\ Release(r)
    /\ UNCHANGED <<lifeVars, jobVars, historyVars, stateVars>>

\* The status of an attempt whose job ended in a given way.
StatusOf(r, how) ==
    IF how = "raises" THEN "failed"
    ELSE IF cancelled[r] \/ how = "is cancelled" THEN "cancelled"
    ELSE IF how = "times out" THEN "timed_out" ELSE "completed"

\* The job ends.  A store of the record object itself shows the new status
\* at once; a timeout sets the cancellation for the job that ignores it.
JobEnds(r, how) ==
    /\ pc[r] = "executing"
    /\ MoveTo(r, "saving")
    /\ outcome' = [outcome EXCEPT ![r] = StatusOf(r, how)]
    /\ cancelled' = [cancelled EXCEPT ![r] = @ \/ how = "times out"]
    /\ store' = IF Aliased /\ store[Exec(r)] # "gone"
                THEN [store EXCEPT ![Exec(r)] = StatusOf(r, how)] ELSE store
    /\ UNCHANGED <<lifeVars, jobVars, runs, queued, started, jobOf, attempt,
                   doomed, stateVars>>

\* _save_finished, then execution_id is cleared and the job's state saved.
FinishSaved(r, discard) ==
    /\ pc[r] = "saving"
    /\ discard => outcome[r] = "completed" /\ "discards" \in Endings
    /\ MoveTo(r, "persisting")
    /\ store' = [store EXCEPT ![Exec(r)] = IF discard THEN "gone" ELSE outcome[r]]
    /\ PersistState(jobOf[r], r, status[jobOf[r]])
    /\ UNCHANGED <<lifeVars, jobVars, runs, queued, started, jobOf, cancelled,
                   attemptVars, doomed, saved>>

\* Mutant of FinishFails: the slot is not released when the save raises.
FinishFailsKeepsSlot(r) ==
    /\ StoreMayFail
    /\ pc[r] = "saving"
    /\ MoveTo(r, "done")
    /\ UNCHANGED <<lifeVars, jobVars, runs, queued, started, jobOf, cancelled,
                   attemptVars, historyVars, stateVars>>

\* Every save of the finished run raises: the run ends, its record stays.
FinishFails(r) ==
    /\ StoreMayFail
    /\ pc[r] = "saving"
    /\ Release(r)
    /\ UNCHANGED <<lifeVars, jobVars, historyVars, stateVars>>

\* The state is saved (or its save failed and was logged): retry, or end.
Retries(r) ==
    outcome[r] = "failed" /\ attempt[r] < opt[jobOf[r]].retries /\ ~cancelled[r]

RetryLater(r) ==
    /\ pc[r] = "persisting" /\ NoWriteBy(r)
    /\ Retries(r)
    /\ MoveTo(r, "delaying")
    /\ UNCHANGED <<lifeVars, jobVars, runs, queued, started, jobOf, cancelled,
                   attemptVars, historyVars, stateVars>>

RunEnds(r) ==
    /\ pc[r] = "persisting" /\ NoWriteBy(r)
    /\ ~Retries(r)
    /\ Release(r)
    /\ UNCHANGED <<lifeVars, jobVars, historyVars, stateVars>>

\* The wait for the cancellation ends: set, or timed out.  A timeout of zero
\* is over at once, whether or not the cancellation is set.  The task resumes
\* (BeginAttempt) after the timeout, and a cancellation may come in between.
DelayCancelled(r) ==
    /\ pc[r] = "delaying"
    /\ cancelled[r] /\ ~NoDelay
    /\ Release(r)
    /\ UNCHANGED <<lifeVars, jobVars, historyVars, stateVars>>

DelayExpires(r) ==
    /\ pc[r] = "delaying"
    /\ ~cancelled[r] \/ NoDelay
    /\ MoveTo(r, "retryDue")
    /\ UNCHANGED <<lifeVars, jobVars, runs, queued, started, jobOf, cancelled,
                   attemptVars, historyVars, stateVars>>

-----------------------------------------------------------------------------
(* The store applies a state write, or raises.  stop() does not catch it.  *)

Without(s, i) == [k \in 1..(Len(s) - 1) |-> IF k < i THEN s[k] ELSE s[k + 1]]

StoreApplies(j, i) ==
    /\ i \in 1..Len(writes[j])
    /\ StoreInOrder => i = 1
    /\ saved' = [saved EXCEPT ![j] = writes[j][i].status]
    /\ writes' = [writes EXCEPT ![j] = Without(@, i)]
    /\ UNCHANGED <<lifeVars, jobVars, slotVars, attemptVars, historyVars>>

StoreRaises(j, i) ==
    /\ StoreMayFail
    /\ i \in 1..Len(writes[j])
    /\ phase' = IF writes[j][i].by = Stopper THEN "stopped" ELSE phase
    /\ writes' = [writes EXCEPT ![j] = Without(@, i)]
    /\ UNCHANGED <<todo, stale, saved, jobVars, slotVars, attemptVars, historyVars>>

-----------------------------------------------------------------------------

\* What the task of a run does next by itself.
RunStep(r) ==
    \/ TriggerLaunch(r) \/ BeginAttempt(r) \/ OpenSaved(r)
    \/ \E how \in Endings : JobEnds(r, how)
    \/ \E discard \in BOOLEAN : FinishSaved(r, discard)
    \/ RetryLater(r) \/ RunEnds(r) \/ DelayCancelled(r) \/ DelayExpires(r)

StoreStep(j) == \E i \in 1..Len(writes[j]) : StoreApplies(j, i)

Lifecycle ==
    \/ StartBegin \/ ListReturned \/ ScanFails \/ ScanEnd \/ StopEnd \/ Crash
    \/ \E j \in Jobs : ListStale(j) \/ LoadJob(j) \/ Stop(j)
    \/ \E e \in Execs : SaveStale(e)

Request ==
    \/ \E j \in Jobs : \/ Trigger(j) \/ Pause(j) \/ Resume(j) \/ StopJob(j)
                       \/ CancelCurrent(j)
    \/ \E j \in Jobs, o \in Options : UpdateOptions(j, o) \/ UpdateRejected(j, o)
    \/ \E e \in Execs : DeleteChecked(e)

Next ==
    \/ Lifecycle
    \/ Request
    \/ \E j \in Jobs : TimerFire(j) \/ StoreStep(j)
    \/ \E j \in Jobs : \E i \in 1..Len(writes[j]) : StoreRaises(j, i)
    \/ \E e \in Execs : DeleteApplied(e)
    \/ \E r \in Run : RunStep(r) \/ OpenFails(r) \/ FinishFails(r)

Spec == Init /\ [][Next]_vars

\* The event loop runs every ready task and the store answers every call; a
\* job's own code is assumed to return (README.md, "Fairness").
Fairness ==
    /\ \A r \in Run : WF_vars(RunStep(r))
    /\ \A j \in Jobs : WF_vars(StoreStep(j))

FairSpec == Spec /\ Fairness

-----------------------------------------------------------------------------
(* Properties *)

\* Every variable has its type, with the stages, statuses and outcomes the code
\* knows.
TypeOK ==
    /\ phase \in Phases /\ todo \subseteq Jobs /\ stale \subseteq Execs
    /\ status \in [Jobs -> Statuses]
    /\ opt \in [Jobs -> Options]
    /\ timers \in [Jobs -> Nat]
    /\ runs \in [Jobs -> SUBSET Run]
    /\ queued \in [Jobs -> BOOLEAN]
    /\ started \in 0..MaxRuns
    /\ jobOf \in [Run -> Jobs]
    /\ pc \in [Run -> Stages]
    /\ attempt \in [Run -> Nat]
    /\ cancelled \in [Run -> BOOLEAN]
    /\ outcome \in [Run -> Outcomes \cup {"none"}]
    /\ store \in [Execs -> Outcomes \cup {"none", "running", "gone"}]
    /\ doomed \subseteq Execs
    /\ saved \in [Jobs -> Statuses \cup {"none"}]
    /\ writes \in [Jobs -> Seq(Writes)]

\* No lost wake-up: a due run waits only while every slot of its job is taken,
\* so no order of run ends, cancels and limit changes strands it
\* (_release, _start_queued, update_options).
QueuedOnlyWhenFull ==
    \A j \in Jobs : queued[j] => Cardinality(runs[j]) >= opt[j].limit

\* No slot leak: the slots of a job are exactly those of its runs whose task
\* has not ended, also when the store raises in the middle of a run (_run's
\* finally).
SlotsHeldByLiveRuns ==
    \A j \in Jobs : runs[j] = {r \in Run : Live(r) /\ jobOf[r] = j}

\* A schedule has one timer: an active job with a schedule has exactly one live
\* timer task and any other job none, whatever the order of pauses, resumes,
\* stops, updates and firings (_schedule_next never cancels the timer it
\* replaces, so every caller must).
OneTimerPerSchedule ==
    phase = "up" =>
        \A j \in Jobs :
            timers[j] = IF status[j] = "active" /\ opt[j].kind # "none" THEN 1 ELSE 0

\* "running" is the truth: once the server is up, the history shows an
\* execution as running only while its run is in that attempt, also after a
\* crash (_finish_interrupted_runs).
RunningIsOwned ==
    phase = "up" =>
        \A e \in Execs : store[e] = "running" => e \in RunningExecutions

\* Deleting from the history never takes the record of a running attempt, also
\* when the store holds the record the run is writing to (_is_running).
RunningRunsAreKept ==
    \A r \in Run : pc[r] \in {"executing", "saving"} => store[Exec(r)] # "gone"

\* stop() leaves nothing that could start or go on by itself: no timer, no
\* waiting run, and every run still alive is cancelled.
StopReachesEveryJob ==
    phase = "stopped" =>
        \A j \in Jobs : /\ timers[j] = 0 /\ ~queued[j]
                        /\ \A r \in runs[j] : cancelled[r]

\* A pause or stop survives a restart: when the writes in flight have been
\* applied, the saved status is the job's status (_persist_state saves the
\* whole state, from API calls and from every finished run).
StatusReachesStore ==
    phase = "up" =>
        \A j \in Jobs \ Disabled :
            IF writes[j] # <<>> THEN writes[j][Len(writes[j])].status = status[j]
            ELSE saved[j] \in {status[j], "none"}

\* The limit holds when a run starts: a step that gives a job a run leaves it
\* within max_concurrent_runs (README "Concurrency"; lowering the limit ends
\* nothing, so a state may have more).
SlotLimit ==
    [][\A j \in Jobs : ~(runs'[j] \subseteq runs[j])
                         => Cardinality(runs'[j]) <= opt'[j].limit]_vars

\* History is final: a finished record never changes, and only leaves.
HistoryIsFinal ==
    [][\A e \in Execs : store[e] \in Outcomes \cup {"gone"}
                          => store'[e] \in {store[e], "gone"}]_vars

\* What a waiting run is promised: it starts or is dropped.
QueuedRunStarts == \A j \in Jobs : queued[j] ~> ~queued[j]

\* The run a "cancel" policy queued starts when a cancelled run ends
\* (README "Concurrency": it waits "until that run has ended").
StartsAfterTheCancelled ==
    [][\A j \in Jobs :
          /\ opt[j].policy = "cancel" /\ opt' = opt
          /\ queued[j] /\ ~queued'[j] /\ ~(runs'[j] \subseteq runs[j])
          => \E r \in runs[j] \ runs'[j] : cancelled[r]]_vars

\* Cancelling covers the retry to come (JobRun.cancellation).
NoRetryAfterCancel ==
    [][\A r \in Run : attempt'[r] > attempt[r] => ~cancelled[r]]_vars

Slots == INSTANCE JobSlots WITH
    held <- [j \in Jobs |-> Cardinality(runs[j])],
    waiting <- queued,
    limit <- [j \in Jobs |-> opt[j].limit]

\* The scheduler keeps the promises of its concurrency model (JobSlots).
KeepsSlotPromises == Slots!SlotsSpec
=============================================================================
