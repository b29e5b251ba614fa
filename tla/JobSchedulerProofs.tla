-------------------------- MODULE JobSchedulerProofs --------------------------
(***************************************************************************)
(* Theorems about JobScheduler, for every set of jobs, every set of        *)
(* options, every bound and every behaviour of the store.                  *)
(***************************************************************************)
EXTENDS JobScheduler, FiniteSetTheorems, TLAPS

-----------------------------------------------------------------------------
(* Type correctness.                                                       *)

\* Removing a write from the queue of those in flight leaves a queue of writes.
LEMMA WithoutType ==
    ASSUME NEW S, NEW s \in Seq(S), NEW i \in 1..Len(s)
    PROVE  Without(s, i) \in Seq(S)
  BY DEF Without

\* An attempt ends with one of the statuses of a finished execution.
LEMMA StatusOfType ==
    ASSUME TypeOK, NEW r \in Run, NEW how \in Endings
    PROVE  StatusOf(r, how) \in Outcomes
  BY EnvironmentAssumption DEF StatusOf, Outcomes

LEMMA InitType == Init => TypeOK
  BY BoundsAssumption, JobsAssumption, OptionsAssumption
  DEF Init, TypeOK, Phases, Statuses, Stages, RegisteredStatus, Run

LEMMA TakeSlotType ==
    ASSUME TypeOK, NEW j \in Jobs, NEW others \in SUBSET Run,
           NEW stages \in [Run -> Stages], NEW stage \in Stages,
           TakeSlot(j, others, stages, stage)
    PROVE  /\ runs' \in [Jobs -> SUBSET Run] /\ started' \in 0..MaxRuns
           /\ jobOf' \in [Run -> Jobs] /\ pc' \in [Run -> Stages]
  BY BoundsAssumption DEF TypeOK, TakeSlot, Run

LEMMA StartQueuedType ==
    ASSUME TypeOK, NEW j \in Jobs, NEW others \in SUBSET Run, NEW limit,
           NEW stages \in [Run -> Stages],
           StartQueued(j, others, limit, stages)
    PROVE  /\ runs' \in [Jobs -> SUBSET Run] /\ started' \in 0..MaxRuns
           /\ jobOf' \in [Run -> Jobs] /\ pc' \in [Run -> Stages]
           /\ queued' \in [Jobs -> BOOLEAN]
  <1>1. "launched" \in Stages
    BY DEF Stages
  <1>2. CASE queued[j] /\ Cardinality(others) < limit
    BY <1>1, <1>2, TakeSlotType DEF StartQueued, TypeOK
  <1>3. CASE ~(queued[j] /\ Cardinality(others) < limit)
    BY <1>3 DEF StartQueued, TypeOK
  <1> QED BY <1>2, <1>3

LEMMA AdmitType ==
    ASSUME TypeOK, NEW j \in Jobs, NEW stage \in Stages, Admit(j, stage)
    PROVE  /\ runs' \in [Jobs -> SUBSET Run] /\ started' \in 0..MaxRuns
           /\ jobOf' \in [Run -> Jobs] /\ pc' \in [Run -> Stages]
           /\ queued' \in [Jobs -> BOOLEAN] /\ cancelled' \in [Run -> BOOLEAN]
  <1>1. CASE TakeSlot(j, runs[j], pc, stage) /\ UNCHANGED <<queued, cancelled>>
    BY <1>1, TakeSlotType DEF TypeOK
  <1>2. CASE UNCHANGED <<runs, started, jobOf, pc>>
    BY <1>2 DEF Admit, TypeOK
  <1> QED BY <1>1, <1>2 DEF Admit

LEMMA ReleaseType ==
    ASSUME TypeOK, NEW r \in Run, Release(r)
    PROVE  /\ runs' \in [Jobs -> SUBSET Run] /\ started' \in 0..MaxRuns
           /\ jobOf' \in [Run -> Jobs] /\ pc' \in [Run -> Stages]
           /\ queued' \in [Jobs -> BOOLEAN] /\ cancelled' \in [Run -> BOOLEAN]
           /\ attempt' \in [Run -> Nat] /\ outcome' \in [Run -> Outcomes \cup {"none"}]
  <1>1. jobOf[r] \in Jobs /\ runs[jobOf[r]] \ {r} \in SUBSET Run
    BY DEF TypeOK
  <1>2. [pc EXCEPT ![r] = "done"] \in [Run -> Stages]
    BY DEF TypeOK, Stages
  <1>3. StartQueued(jobOf[r], runs[jobOf[r]] \ {r}, opt[jobOf[r]].limit, [pc EXCEPT ![r] = "done"])
    BY DEF Release
  <1>4. /\ cancelled' \in [Run -> BOOLEAN] /\ attempt' \in [Run -> Nat]
        /\ outcome' \in [Run -> Outcomes \cup {"none"}]
    BY DEF Release, TypeOK
  <1> QED BY <1>1, <1>2, <1>3, <1>4, StartQueuedType

LEMMA PersistType ==
    ASSUME TypeOK, NEW j \in Jobs, NEW by \in 0..(MaxRuns + 1), NEW st \in Statuses,
           PersistState(j, by, st)
    PROVE  writes' \in [Jobs -> Seq(Writes)]
  <1>1. [by |-> by, status |-> st] \in Writes
    BY DEF Writes
  <1>2. Append(writes[j], [by |-> by, status |-> st]) \in Seq(Writes)
    BY <1>1 DEF TypeOK
  <1> QED BY <1>2 DEF PersistState, TypeOK

\* Every step keeps the types.
LEMMA NextType == TypeOK /\ [Next]_vars => TypeOK'
  <1> SUFFICES ASSUME TypeOK, [Next]_vars PROVE TypeOK'
    OBVIOUS
  <1> USE DEF lifeVars, jobVars, slotVars, attemptVars, historyVars, stateVars
  <1>1. ASSUME StartBegin PROVE TypeOK'
    BY <1>1 DEF StartBegin, TypeOK, Phases
  <1>2. ASSUME NEW j \in Jobs, ListStale(j) PROVE TypeOK'
    BY <1>2 DEF ListStale, TypeOK, Phases
  <1>3. ASSUME ListReturned PROVE TypeOK'
    BY <1>3 DEF ListReturned, TypeOK, Phases
  <1>4. ASSUME NEW e \in Execs, SaveStale(e) PROVE TypeOK'
    BY <1>4 DEF SaveStale, TypeOK, Outcomes
  <1>5. ASSUME ScanFails PROVE TypeOK'
    BY <1>5 DEF ScanFails, TypeOK, Phases
  <1>6. ASSUME ScanEnd PROVE TypeOK'
    BY <1>6 DEF ScanEnd, TypeOK, Phases
  <1>7. ASSUME NEW j \in Jobs, LoadJob(j) PROVE TypeOK'
    <2>1. Restored(j) \in Statuses
      BY DEF Restored, TypeOK
    <2>2. timers' \in [Jobs -> Nat]
      BY <1>7 DEF LoadJob, TypeOK, Armed
    <2>3. "launched" \in Stages
      BY DEF Stages
    <2>4. /\ runs' \in [Jobs -> SUBSET Run] /\ started' \in 0..MaxRuns
          /\ jobOf' \in [Run -> Jobs] /\ pc' \in [Run -> Stages]
          /\ queued' \in [Jobs -> BOOLEAN] /\ cancelled' \in [Run -> BOOLEAN]
      <3>1. CASE UNCHANGED slotVars
        BY <3>1 DEF TypeOK
      <3>2. CASE Admit(j, "launched")
        BY <3>2, <2>3, AdmitType
      <3> QED BY <1>7, <3>1, <3>2 DEF LoadJob
    <2> QED BY <1>7, <2>1, <2>2, <2>4 DEF LoadJob, TypeOK, Phases
  <1>8. ASSUME NEW j \in Jobs, Stop(j) PROVE TypeOK'
    <2>1. writes' \in [Jobs -> Seq(Writes)]
      <3>1. Stopper \in 0..(MaxRuns + 1) /\ status[j] \in Statuses
        BY BoundsAssumption DEF Stopper, TypeOK
      <3>2. PersistState(j, Stopper, status[j])
        BY <1>8 DEF Stop
      <3> QED BY <3>1, <3>2, PersistType
    <2>2. timers' \in [Jobs -> Nat] /\ todo' \subseteq Jobs
      BY <1>8 DEF Stop, TypeOK, Disarmed
    <2>3. queued' \in [Jobs -> BOOLEAN] /\ cancelled' \in [Run -> BOOLEAN]
      BY <1>8 DEF Stop, CancelRuns, TypeOK
    <2> QED BY <1>8, <2>1, <2>2, <2>3 DEF Stop, TypeOK, Phases
  <1>9. ASSUME StopEnd PROVE TypeOK'
    BY <1>9 DEF StopEnd, TypeOK, Phases
  <1>10. ASSUME Crash PROVE TypeOK'
    <2>1. pc' \in [Run -> Stages]
      BY <1>10 DEF Crash, TypeOK, Stages
    <2>2. store' \in [Execs -> Outcomes \cup {"none", "running", "gone"}]
      BY <1>10 DEF Crash, TypeOK
    <2>3. saved' \in [Jobs -> Statuses \cup {"none"}]
      BY <1>10 DEF Crash, TypeOK
    <2>4. writes' \in [Jobs -> Seq(Writes)]
      BY <1>10 DEF Crash
    <2> QED BY <1>10, <2>1, <2>2, <2>3, <2>4, OptionsAssumption
        DEF Crash, TypeOK, Phases, RegisteredStatus, Statuses
  <1>11. ASSUME NEW j \in Jobs, TimerFire(j) PROVE TypeOK'
    <2>1. "launched" \in Stages
      BY DEF Stages
    <2>2. timers' \in [Jobs -> Nat]
      <3>1. timers[j] \in Nat /\ timers[j] - 1 \in Nat
        BY <1>11 DEF TimerFire, TypeOK
      <3>2. Armed(timers[j] - 1, opt[j].kind) \in Nat
        BY <3>1 DEF Armed
      <3> QED BY <1>11, <3>1, <3>2 DEF TimerFire, TypeOK
    <2>3. /\ runs' \in [Jobs -> SUBSET Run] /\ started' \in 0..MaxRuns
          /\ jobOf' \in [Run -> Jobs] /\ pc' \in [Run -> Stages]
          /\ queued' \in [Jobs -> BOOLEAN] /\ cancelled' \in [Run -> BOOLEAN]
      <3>1. CASE UNCHANGED slotVars
        BY <3>1 DEF TypeOK
      <3>2. CASE Admit(j, "launched")
        BY <3>2, <2>1, AdmitType
      <3> QED BY <1>11, <3>1, <3>2 DEF TimerFire
    <2> QED BY <1>11, <2>2, <2>3 DEF TimerFire, TypeOK
  <1>12. ASSUME NEW j \in Jobs, Trigger(j) PROVE TypeOK'
    <2>1. "admitted" \in Stages /\ Admit(j, "admitted")
      BY <1>12 DEF Stages, Trigger
    <2>2. /\ runs' \in [Jobs -> SUBSET Run] /\ started' \in 0..MaxRuns
          /\ jobOf' \in [Run -> Jobs] /\ pc' \in [Run -> Stages]
          /\ queued' \in [Jobs -> BOOLEAN] /\ cancelled' \in [Run -> BOOLEAN]
      BY <2>1, AdmitType
    <2> QED BY <1>12, <2>2 DEF Trigger, TypeOK
  <1>13. ASSUME NEW j \in Jobs, Pause(j) PROVE TypeOK'
    <2>1. Api \in 0..(MaxRuns + 1) /\ "paused" \in Statuses
      BY BoundsAssumption DEF Api, Statuses
    <2>2. writes' \in [Jobs -> Seq(Writes)]
      BY <1>13, <2>1, PersistType DEF Pause
    <2>3. timers' \in [Jobs -> Nat]
      BY <1>13 DEF Pause, TypeOK, Disarmed
    <2> QED BY <1>13, <2>1, <2>2, <2>3 DEF Pause, TypeOK
  <1>14. ASSUME NEW j \in Jobs, Resume(j) PROVE TypeOK'
    <2>1. Api \in 0..(MaxRuns + 1) /\ "active" \in Statuses
      BY BoundsAssumption DEF Api, Statuses
    <2>2. writes' \in [Jobs -> Seq(Writes)]
      BY <1>14, <2>1, PersistType DEF Resume
    <2>3. timers' \in [Jobs -> Nat]
      BY <1>14 DEF Resume, TypeOK, Armed
    <2> QED BY <1>14, <2>1, <2>2, <2>3 DEF Resume, TypeOK
  <1>15. ASSUME NEW j \in Jobs, StopJob(j) PROVE TypeOK'
    <2>1. Api \in 0..(MaxRuns + 1) /\ "stopped" \in Statuses
      BY BoundsAssumption DEF Api, Statuses
    <2>2. writes' \in [Jobs -> Seq(Writes)]
      BY <1>15, <2>1, PersistType DEF StopJob
    <2>3. timers' \in [Jobs -> Nat]
      BY <1>15 DEF StopJob, TypeOK, Disarmed
    <2>4. queued' \in [Jobs -> BOOLEAN] /\ cancelled' \in [Run -> BOOLEAN]
      BY <1>15 DEF StopJob, CancelRuns, TypeOK
    <2> QED BY <1>15, <2>1, <2>2, <2>3, <2>4 DEF StopJob, TypeOK
  <1>16. ASSUME NEW j \in Jobs, CancelCurrent(j) PROVE TypeOK'
    BY <1>16 DEF CancelCurrent, CancelRuns, TypeOK
  <1>17. ASSUME NEW j \in Jobs, NEW o \in Options, UpdateOptions(j, o) PROVE TypeOK'
    <2>1. /\ runs' \in [Jobs -> SUBSET Run] /\ started' \in 0..MaxRuns
          /\ jobOf' \in [Run -> Jobs] /\ pc' \in [Run -> Stages]
          /\ queued' \in [Jobs -> BOOLEAN]
      <3>1. CASE StartQueued(j, runs[j], o.limit, pc)
        <4>1. runs[j] \in SUBSET Run /\ pc \in [Run -> Stages]
          BY DEF TypeOK
        <4> QED BY <3>1, <4>1, StartQueuedType
      <3>2. CASE UNCHANGED <<runs, queued, started, jobOf, pc>>
        BY <3>2 DEF TypeOK
      <3> QED BY <1>17, <3>1, <3>2 DEF UpdateOptions
    <2>2. timers' \in [Jobs -> Nat]
      BY <1>17 DEF UpdateOptions, TypeOK, Armed, Disarmed
    <2> QED BY <1>17, <2>1, <2>2 DEF UpdateOptions, TypeOK
  <1>18. ASSUME NEW j \in Jobs, NEW o \in Options, UpdateRejected(j, o) PROVE TypeOK'
    BY <1>18 DEF UpdateRejected, TypeOK
  <1>19. ASSUME NEW e \in Execs, DeleteChecked(e) \/ DeleteApplied(e) PROVE TypeOK'
    BY <1>19 DEF DeleteChecked, DeleteApplied, TypeOK
  <1>20. ASSUME NEW r \in Run, TriggerLaunch(r) \/ BeginAttempt(r) PROVE TypeOK'
    <2>1. CASE TriggerLaunch(r)
      BY <2>1 DEF TriggerLaunch, MoveTo, TypeOK, Stages
    <2>2. CASE BeginAttempt(r)
      <3>1. pc' \in [Run -> Stages]
        BY <2>2 DEF BeginAttempt, MoveTo, TypeOK, Stages
      <3>2. attempt' \in [Run -> Nat]
        BY <2>2 DEF BeginAttempt, TypeOK
      <3> QED BY <2>2, <3>1, <3>2 DEF BeginAttempt, TypeOK
    <2> QED BY <1>20, <2>1, <2>2
  <1>21. ASSUME NEW r \in Run, OpenSaved(r) PROVE TypeOK'
    BY <1>21 DEF OpenSaved, MoveTo, TypeOK, Stages
  <1>22. ASSUME NEW r \in Run, OpenFails(r) \/ FinishFails(r) \/ RunEnds(r) \/ DelayCancelled(r)
         PROVE TypeOK'
    <2>1. Release(r) /\ UNCHANGED <<lifeVars, jobVars, historyVars, stateVars>>
      BY <1>22 DEF OpenFails, FinishFails, RunEnds, DelayCancelled
    <2> QED BY <2>1, ReleaseType DEF TypeOK
  <1>23. ASSUME NEW r \in Run, NEW how \in Endings, JobEnds(r, how) PROVE TypeOK'
    <2>1. StatusOf(r, how) \in Outcomes
      BY StatusOfType
    <2> QED BY <1>23, <2>1 DEF JobEnds, MoveTo, TypeOK, Stages
  <1>24. ASSUME NEW r \in Run, NEW discard \in BOOLEAN, FinishSaved(r, discard) PROVE TypeOK'
    <2>1. r \in 0..(MaxRuns + 1) /\ jobOf[r] \in Jobs /\ status[jobOf[r]] \in Statuses
      BY BoundsAssumption DEF TypeOK, Run
    <2>2. writes' \in [Jobs -> Seq(Writes)]
      BY <1>24, <2>1, PersistType DEF FinishSaved
    <2>3. store' \in [Execs -> Outcomes \cup {"none", "running", "gone"}]
      BY <1>24 DEF FinishSaved, TypeOK
    <2> QED BY <1>24, <2>2, <2>3 DEF FinishSaved, MoveTo, TypeOK, Stages
  <1>25. ASSUME NEW r \in Run, RetryLater(r) \/ DelayExpires(r) PROVE TypeOK'
    <2>1. pc' \in [Run -> Stages]
      BY <1>25 DEF RetryLater, DelayExpires, MoveTo, TypeOK, Stages
    <2> QED BY <1>25, <2>1 DEF RetryLater, DelayExpires, TypeOK
  <1>26. ASSUME NEW j \in Jobs, NEW i \in 1..Len(writes[j]), StoreApplies(j, i) PROVE TypeOK'
    <2>1. writes[j] \in Seq(Writes) /\ writes[j][i] \in Writes
      BY DEF TypeOK
    <2>2. Without(writes[j], i) \in Seq(Writes) /\ writes[j][i].status \in Statuses
      BY <2>1, WithoutType DEF Writes
    <2> QED BY <1>26, <2>2 DEF StoreApplies, TypeOK
  <1>27. ASSUME NEW j \in Jobs, NEW i \in 1..Len(writes[j]), StoreRaises(j, i) PROVE TypeOK'
    <2>1. writes[j] \in Seq(Writes)
      BY DEF TypeOK
    <2>2. Without(writes[j], i) \in Seq(Writes)
      BY <2>1, WithoutType
    <2> QED BY <1>27, <2>2 DEF StoreRaises, TypeOK, Phases
  <1>28. CASE UNCHANGED vars
    BY <1>28 DEF vars, TypeOK
  <1> QED
    BY <1>1, <1>2, <1>3, <1>4, <1>5, <1>6, <1>7, <1>8, <1>9, <1>10, <1>11, <1>12, <1>13,
       <1>14, <1>15, <1>16, <1>17, <1>18, <1>19, <1>20, <1>21, <1>22, <1>23, <1>24, <1>25,
       <1>26, <1>27, <1>28
    DEF Next, Lifecycle, Request, RunStep, StoreStep

\* The scheduler's state always has its types: run ids, statuses, stages and
\* queued writes, for any jobs and options and any order of calls and crashes.
THEOREM TypeCorrect == Spec => []TypeOK
  BY InitType, NextType, PTL DEF Spec

-----------------------------------------------------------------------------
(* The slots.  Seen from them a step is one of seven: every action either  *)
(* leaves them alone or is an Admit, a Release, a StartQueued, a CancelRuns*)
(* or the end of the process.                                              *)

LiveStages == Stages \ {"idle", "done"}

Keeps ==
    /\ UNCHANGED <<runs, queued, started, jobOf, pc>>
    /\ \A j \in Jobs : opt'[j].limit = opt[j].limit

Moves(r) ==
    /\ Live(r)
    /\ \E stage \in LiveStages : MoveTo(r, stage)
    /\ UNCHANGED <<runs, queued, started, jobOf, opt>>

Admits(j) == UNCHANGED opt /\ \E stage \in {"admitted", "launched"} : Admit(j, stage)

Ends(r) == Live(r) /\ Release(r) /\ UNCHANGED opt

Updates(j, o) == opt' = [opt EXCEPT ![j] = o] /\ StartQueued(j, runs[j], o.limit, pc)

Drops(j) == CancelRuns(j) /\ UNCHANGED <<runs, started, jobOf, pc, opt>>

SlotStep ==
    \/ Keeps
    \/ \E r \in Run : Moves(r)
    \/ \E j \in Jobs : Admits(j)
    \/ \E r \in Run : Ends(r)
    \/ \E j \in Jobs, o \in Options : Updates(j, o)
    \/ \E j \in Jobs : Drops(j)
    \/ Crash

\* Every step of the scheduler is one of the seven slot steps.
LEMMA SlotSteps == TypeOK /\ [Next]_vars => SlotStep
  <1> SUFFICES ASSUME TypeOK, [Next]_vars PROVE SlotStep
    OBVIOUS
  <1> USE DEF lifeVars, jobVars, slotVars, attemptVars, historyVars, stateVars
  <1>1. CASE \/ StartBegin \/ ListReturned \/ ScanFails \/ ScanEnd \/ StopEnd
             \/ \E j \in Jobs : ListStale(j)
             \/ \E e \in Execs : SaveStale(e) \/ DeleteChecked(e) \/ DeleteApplied(e)
    BY <1>1 DEF StartBegin, ListReturned, ScanFails, ScanEnd, StopEnd, ListStale, SaveStale,
       DeleteChecked, DeleteApplied, SlotStep, Keeps
  <1>2. CASE \E j \in Jobs : Pause(j) \/ Resume(j)
    BY <1>2 DEF Pause, Resume, SlotStep, Keeps
  <1>3. CASE \E j \in Jobs : \E i \in 1..Len(writes[j]) : StoreApplies(j, i) \/ StoreRaises(j, i)
    BY <1>3 DEF StoreApplies, StoreRaises, SlotStep, Keeps
  <1>4. ASSUME NEW j \in Jobs, LoadJob(j) \/ TimerFire(j) \/ Trigger(j) PROVE SlotStep
    <2>1. UNCHANGED opt
      BY <1>4 DEF LoadJob, TimerFire, Trigger
    <2>2. CASE Admit(j, "launched") \/ Admit(j, "admitted")
      BY <2>1, <2>2 DEF SlotStep, Admits
    <2>3. CASE UNCHANGED slotVars
      BY <2>1, <2>3 DEF SlotStep, Keeps
    <2> QED BY <1>4, <2>2, <2>3 DEF LoadJob, TimerFire, Trigger
  <1>5. ASSUME NEW j \in Jobs, Stop(j) \/ StopJob(j) \/ CancelCurrent(j) PROVE SlotStep
    BY <1>5 DEF Stop, StopJob, CancelCurrent, SlotStep, Drops
  <1>6. ASSUME NEW j \in Jobs, NEW o \in Options, UpdateOptions(j, o) \/ UpdateRejected(j, o)
        PROVE SlotStep
    <2>1. opt' = [opt EXCEPT ![j] = o] /\ opt \in [Jobs -> Options]
      BY <1>6 DEF UpdateOptions, UpdateRejected, TypeOK
    <2>2. CASE StartQueued(j, runs[j], o.limit, pc)
      BY <2>1, <2>2 DEF SlotStep, Updates
    <2>3. CASE o.limit = opt[j].limit /\ UNCHANGED <<runs, queued, started, jobOf, pc>>
      BY <2>1, <2>3 DEF SlotStep, Keeps
    <2> QED BY <1>6, <2>2, <2>3 DEF UpdateOptions, UpdateRejected
  <1>7. ASSUME NEW r \in Run,
               \/ TriggerLaunch(r) \/ BeginAttempt(r) \/ OpenSaved(r)
               \/ \E how \in Endings : JobEnds(r, how)
               \/ \E discard \in BOOLEAN : FinishSaved(r, discard)
               \/ RetryLater(r) \/ DelayExpires(r)
        PROVE SlotStep
    <2>1. Live(r)
      BY <1>7 DEF TriggerLaunch, BeginAttempt, OpenSaved, JobEnds, FinishSaved, RetryLater,
         DelayExpires, Live
    <2>2. UNCHANGED <<runs, queued, started, jobOf, opt>>
      BY <1>7 DEF TriggerLaunch, BeginAttempt, OpenSaved, JobEnds, FinishSaved, RetryLater,
         DelayExpires
    <2>3. \E stage \in LiveStages : MoveTo(r, stage)
      BY <1>7 DEF TriggerLaunch, BeginAttempt, OpenSaved, JobEnds, FinishSaved, RetryLater,
         DelayExpires, LiveStages, Stages
    <2> QED BY <2>1, <2>2, <2>3 DEF SlotStep, Moves
  <1>8. ASSUME NEW r \in Run, OpenFails(r) \/ FinishFails(r) \/ RunEnds(r) \/ DelayCancelled(r)
        PROVE SlotStep
    BY <1>8 DEF OpenFails, FinishFails, RunEnds, DelayCancelled, Live, SlotStep, Ends
  <1>9. CASE UNCHANGED vars
    BY <1>9 DEF vars, SlotStep, Keeps
  <1>10. CASE Crash
    BY <1>10 DEF SlotStep
  <1> QED
    BY <1>1, <1>2, <1>3, <1>4, <1>5, <1>6, <1>7, <1>8, <1>9, <1>10
    DEF Next, Lifecycle, Request, RunStep, StoreStep

\* The runs of a job are finitely many, and so are any fewer.
LEMMA RunSetCardinality ==
    ASSUME NEW S \in SUBSET Run
    PROVE  /\ IsFiniteSet(S) /\ Cardinality(S) \in Nat
           /\ \A x : Cardinality(S \cup {x}) = IF x \in S THEN Cardinality(S) ELSE Cardinality(S) + 1
           /\ \A x : Cardinality(S \ {x}) = IF x \in S THEN Cardinality(S) - 1 ELSE Cardinality(S)
  <1>1. IsFiniteSet(Run)
    BY FS_Interval, BoundsAssumption DEF Run
  <1>2. IsFiniteSet(S)
    BY <1>1, FS_Subset
  <1> QED BY <1>2, FS_CardinalityType, FS_AddElement, FS_RemoveElement

\* A job's limit is a positive number, before and after any change of options.
LEMMA LimitType ==
    ASSUME NEW o \in Options PROVE o.limit \in Nat \ {0}
  BY OptionsAssumption

-----------------------------------------------------------------------------
(* The inductive invariant of the slots.                                   *)

\* Run ids are used in order, so the next one belongs to no run yet.
NextRunIsFresh == \A r \in Run : r > started => pc[r] = "idle"

SlotInv == TypeOK /\ NextRunIsFresh /\ SlotsHeldByLiveRuns /\ QueuedOnlyWhenFull

\* The first run of a job takes one of the run ids that are free.
LEMMA FreshRun ==
    ASSUME SlotInv, started < MaxRuns
    PROVE  /\ started + 1 \in Run
           /\ pc[started + 1] = "idle"
           /\ \A j \in Jobs : started + 1 \notin runs[j]
  BY BoundsAssumption DEF SlotInv, TypeOK, NextRunIsFresh, SlotsHeldByLiveRuns, Live, Run

LEMMA InitSlotInv == Init => SlotInv
  <1> SUFFICES ASSUME Init PROVE SlotInv
    OBVIOUS
  <1>1. TypeOK
    BY InitType
  <1>2. NextRunIsFresh
    BY DEF Init, NextRunIsFresh
  <1>3. SlotsHeldByLiveRuns
    BY DEF Init, SlotsHeldByLiveRuns, Live
  <1>4. QueuedOnlyWhenFull
    BY DEF Init, QueuedOnlyWhenFull
  <1> QED BY <1>1, <1>2, <1>3, <1>4 DEF SlotInv

\* Taking a slot keeps run ids in order and the slots with the live runs; the
\* runs in "stages" are those of pc, less the one that just ended (if any).
LEMMA TakeSlotKeeps ==
    ASSUME SlotInv, NEW j \in Jobs, NEW gone \in SUBSET Run, NEW stage \in LiveStages,
           NEW stages \in [Run -> Stages],
           \A r \in gone : Live(r) /\ jobOf[r] = j,
           stages = [r \in Run |-> IF r \in gone THEN "done" ELSE pc[r]],
           TakeSlot(j, runs[j] \ gone, stages, stage)
    PROVE  NextRunIsFresh' /\ SlotsHeldByLiveRuns'
  <1> DEFINE n == started + 1
  <1>1. n \in Run /\ pc[n] = "idle" /\ \A k \in Jobs : n \notin runs[k]
    BY FreshRun DEF TakeSlot
  <1>2. n \notin gone
    BY <1>1 DEF Live
  <1>3. started' = n /\ started \in Nat
    BY DEF TakeSlot, SlotInv, TypeOK
  <1>4. \A r \in Run : /\ pc'[r] = IF r = n THEN stage ELSE IF r \in gone THEN "done" ELSE pc[r]
                       /\ jobOf'[r] = IF r = n THEN j ELSE jobOf[r]
    BY DEF TakeSlot, SlotInv, TypeOK
  <1>5. \A k \in Jobs : runs'[k] = IF k = j THEN (runs[j] \ gone) \cup {n} ELSE runs[k]
    BY DEF TakeSlot, SlotInv, TypeOK
  <1>6. NextRunIsFresh'
    <2> SUFFICES ASSUME NEW r \in Run, r > n PROVE pc'[r] = "idle"
      BY <1>3 DEF NextRunIsFresh
    <2>1. pc[r] = "idle"
      BY <1>3 DEF SlotInv, NextRunIsFresh, Run
    <2>2. r \notin gone /\ r # n
      BY <2>1, <1>3 DEF Live, Run
    <2> QED BY <2>1, <2>2, <1>4
  <1>7. SlotsHeldByLiveRuns'
    <2> SUFFICES ASSUME NEW k \in Jobs
                 PROVE runs'[k] = {r \in Run : Live(r)' /\ jobOf'[r] = k}
      BY DEF SlotsHeldByLiveRuns
    <2>1. \A r \in Run : Live(r)' <=> r = n \/ (r \notin gone /\ Live(r))
      BY <1>1, <1>4 DEF Live, LiveStages
    <2>2. runs[k] = {r \in Run : Live(r) /\ jobOf[r] = k}
      BY DEF SlotInv, SlotsHeldByLiveRuns
    <2>3. CASE k = j
      BY <2>1, <2>2, <2>3, <1>1, <1>4, <1>5
    <2>4. CASE k # j
      BY <2>1, <2>2, <2>4, <1>1, <1>4, <1>5
    <2> QED BY <2>3, <2>4
  <1> QED BY <1>6, <1>7

\* Freeing a slot, with or without handing it to the waiting run.
LEMMA StartQueuedKeeps ==
    ASSUME SlotInv, NEW j \in Jobs, NEW gone \in SUBSET Run, NEW limit \in Nat,
           NEW stages \in [Run -> Stages],
           \A r \in gone : Live(r) /\ jobOf[r] = j,
           stages = [r \in Run |-> IF r \in gone THEN "done" ELSE pc[r]],
           StartQueued(j, runs[j] \ gone, limit, stages)
    PROVE  /\ NextRunIsFresh' /\ SlotsHeldByLiveRuns'
           /\ queued'[j] => Cardinality(runs'[j]) >= limit
           /\ \A k \in Jobs \ {j} : queued'[k] = queued[k] /\ runs'[k] = runs[k]
  <1>0. runs[j] \ gone \in SUBSET Run
    BY DEF SlotInv, TypeOK
  <1>1. CASE queued[j] /\ Cardinality(runs[j] \ gone) < limit
    <2>1. /\ TakeSlot(j, runs[j] \ gone, stages, "launched")
          /\ queued' = [queued EXCEPT ![j] = FALSE]
      BY <1>1 DEF StartQueued
    <2>2. "launched" \in LiveStages
      BY DEF LiveStages, Stages
    <2>3. NextRunIsFresh' /\ SlotsHeldByLiveRuns'
      BY <2>1, <2>2, TakeSlotKeeps
    <2>4. /\ ~queued'[j]
          /\ \A k \in Jobs \ {j} : queued'[k] = queued[k] /\ runs'[k] = runs[k]
      BY <2>1 DEF TakeSlot, SlotInv, TypeOK
    <2> QED BY <2>3, <2>4
  <1>2. CASE ~(queued[j] /\ Cardinality(runs[j] \ gone) < limit)
    <2>1. /\ runs' = [runs EXCEPT ![j] = runs[j] \ gone]
          /\ pc' = stages /\ UNCHANGED <<queued, started, jobOf>>
      BY <1>2 DEF StartQueued
    <2>2. NextRunIsFresh'
      BY <2>1 DEF SlotInv, NextRunIsFresh, Live
    <2>3. SlotsHeldByLiveRuns'
      <3> SUFFICES ASSUME NEW k \in Jobs
                   PROVE runs'[k] = {r \in Run : Live(r)' /\ jobOf'[r] = k}
        BY DEF SlotsHeldByLiveRuns
      <3>1. \A r \in Run : Live(r)' <=> r \notin gone /\ Live(r)
        BY <2>1 DEF Live
      <3>2. runs[k] = {r \in Run : Live(r) /\ jobOf[r] = k}
        BY DEF SlotInv, SlotsHeldByLiveRuns
      <3>3. runs'[k] = IF k = j THEN runs[j] \ gone ELSE runs[k]
        BY <2>1 DEF SlotInv, TypeOK
      <3>4. \A r \in Run : jobOf'[r] = jobOf[r]
        BY <2>1
      <3>5. CASE k = j
        BY <3>1, <3>2, <3>3, <3>4, <3>5
      <3>6. CASE k # j
        <4>1. \A r \in runs[k] : r \notin gone
          BY <3>2, <3>6
        <4> QED BY <3>1, <3>2, <3>3, <3>4, <3>6, <4>1
      <3> QED BY <3>5, <3>6
    <2>4. queued'[j] => Cardinality(runs'[j]) >= limit
      <3>1. runs'[j] = runs[j] \ gone
        BY <2>1 DEF SlotInv, TypeOK
      <3>2. Cardinality(runs[j] \ gone) \in Nat
        BY <1>0, RunSetCardinality
      <3>3. queued'[j] => ~(Cardinality(runs[j] \ gone) < limit)
        BY <1>2, <2>1
      <3>4. ~(Cardinality(runs[j] \ gone) < limit) => Cardinality(runs[j] \ gone) >= limit
        BY <3>2
      <3> QED BY <3>1, <3>3, <3>4
    <2>5. \A k \in Jobs \ {j} : queued'[k] = queued[k] /\ runs'[k] = runs[k]
      BY <2>1 DEF SlotInv, TypeOK
    <2> QED BY <2>2, <2>3, <2>4, <2>5
  <1> QED BY <1>1, <1>2

\* Each of the seven slot steps keeps the invariant.
LEMMA NextSlotInv == SlotInv /\ [Next]_vars => SlotInv'
  <1> SUFFICES ASSUME SlotInv, [Next]_vars PROVE SlotInv'
    OBVIOUS
  <1>1. TypeOK /\ TypeOK'
    BY NextType DEF SlotInv
  <1>2. CASE Keeps
    <2>1. NextRunIsFresh' /\ SlotsHeldByLiveRuns'
      BY <1>2 DEF Keeps, SlotInv, NextRunIsFresh, SlotsHeldByLiveRuns, Live
    <2>2. QueuedOnlyWhenFull'
      BY <1>2 DEF Keeps, SlotInv, QueuedOnlyWhenFull
    <2> QED BY <1>1, <2>1, <2>2 DEF SlotInv
  <1>3. ASSUME NEW r \in Run, Moves(r) PROVE SlotInv'
    <2>1. PICK stage \in LiveStages : MoveTo(r, stage)
      BY <1>3 DEF Moves
    <2>2. \A q \in Run : pc'[q] = IF q = r THEN stage ELSE pc[q]
      BY <1>1, <2>1 DEF MoveTo, TypeOK
    <2>3. UNCHANGED <<runs, queued, started, jobOf, opt>> /\ Live(r)
      BY <1>3 DEF Moves
    <2>4. \A q \in Run : Live(q)' <=> Live(q)
      BY <2>2, <2>3 DEF Live, LiveStages
    <2>5. NextRunIsFresh'
      BY <2>2, <2>3 DEF SlotInv, NextRunIsFresh, Live
    <2>6. SlotsHeldByLiveRuns'
      BY <2>3, <2>4 DEF SlotInv, SlotsHeldByLiveRuns
    <2>7. QueuedOnlyWhenFull'
      BY <2>3 DEF SlotInv, QueuedOnlyWhenFull
    <2> QED BY <1>1, <2>5, <2>6, <2>7 DEF SlotInv
  <1>4. ASSUME NEW j \in Jobs, Admits(j) PROVE SlotInv'
    <2>1. PICK stage \in {"admitted", "launched"} : Admit(j, stage)
      BY <1>4 DEF Admits
    <2>2. opt' = opt
      BY <1>4 DEF Admits
    <2>3. CASE /\ Cardinality(runs[j]) < opt[j].limit
               /\ TakeSlot(j, runs[j], pc, stage) /\ UNCHANGED <<queued, cancelled>>
      <3>1. stage \in LiveStages
        BY DEF LiveStages, Stages
      <3> DEFINE nobody == {}
      <3>2. /\ nobody \in SUBSET Run /\ \A r \in nobody : Live(r) /\ jobOf[r] = j
            /\ runs[j] \ nobody = runs[j]
            /\ pc = [r \in Run |-> IF r \in nobody THEN "done" ELSE pc[r]]
            /\ pc \in [Run -> Stages]
        BY <1>1 DEF TypeOK
      <3>3. NextRunIsFresh' /\ SlotsHeldByLiveRuns'
        <4> HIDE DEF nobody
        <4>1. TakeSlot(j, runs[j] \ nobody, pc, stage)
          BY <2>3, <3>2
        <4> QED BY <3>1, <3>2, <4>1, TakeSlotKeeps
      <3>4. QueuedOnlyWhenFull'
        <4> SUFFICES ASSUME NEW k \in Jobs, queued'[k]
                     PROVE Cardinality(runs'[k]) >= opt'[k].limit
          BY DEF QueuedOnlyWhenFull
        <4>1. queued[k] /\ Cardinality(runs[k]) >= opt[k].limit
          BY <2>3 DEF SlotInv, QueuedOnlyWhenFull
        <4>2. Cardinality(runs[j]) \in Nat /\ opt[j].limit \in Nat
          BY <1>1, RunSetCardinality, LimitType DEF TypeOK
        <4>3. k # j
          BY <2>3, <4>1, <4>2
        <4>4. runs'[k] = runs[k]
          BY <1>1, <2>3, <4>3 DEF TakeSlot, TypeOK
        <4> QED BY <2>2, <4>1, <4>4
      <3> QED BY <1>1, <3>3, <3>4 DEF SlotInv
    <2>4. CASE /\ Cardinality(runs[j]) >= opt[j].limit
               /\ UNCHANGED <<runs, started, jobOf, pc>>
               /\ \/ queued' = [queued EXCEPT ![j] = TRUE]
                  \/ UNCHANGED queued
      <3>1. NextRunIsFresh' /\ SlotsHeldByLiveRuns'
        BY <2>4 DEF SlotInv, NextRunIsFresh, SlotsHeldByLiveRuns, Live
      <3>2. QueuedOnlyWhenFull'
        BY <1>1, <2>2, <2>4 DEF SlotInv, QueuedOnlyWhenFull, TypeOK
      <3> QED BY <1>1, <3>1, <3>2 DEF SlotInv
    <2> QED BY <2>1, <2>3, <2>4 DEF Admit
  <1>5. ASSUME NEW r \in Run, Ends(r) PROVE SlotInv'
    <2> DEFINE j == jobOf[r]
    <2>1. opt' = opt /\ Live(r) /\ Release(r)
      BY <1>5 DEF Ends
    <2>2. j \in Jobs /\ opt[j].limit \in Nat
      BY <1>1, LimitType DEF TypeOK
    <2>3. /\ [pc EXCEPT ![r] = "done"] \in [Run -> Stages]
          /\ [pc EXCEPT ![r] = "done"] = [q \in Run |-> IF q \in {r} THEN "done" ELSE pc[q]]
      BY <1>1 DEF TypeOK, Stages
    <2>4. StartQueued(j, runs[j] \ {r}, opt[j].limit, [pc EXCEPT ![r] = "done"])
      BY <2>1 DEF Release
    <2>5. /\ NextRunIsFresh' /\ SlotsHeldByLiveRuns'
          /\ queued'[j] => Cardinality(runs'[j]) >= opt[j].limit
          /\ \A k \in Jobs \ {j} : queued'[k] = queued[k] /\ runs'[k] = runs[k]
      <3>1. \A q \in {r} : Live(q) /\ jobOf[q] = j
        BY <2>1
      <3>2. {r} \in SUBSET Run
        OBVIOUS
      <3> HIDE DEF j
      <3> QED BY <2>2, <2>3, <2>4, <3>1, <3>2, StartQueuedKeeps
    <2>6. QueuedOnlyWhenFull'
      BY <2>1, <2>5 DEF SlotInv, QueuedOnlyWhenFull
    <2> QED BY <1>1, <2>5, <2>6 DEF SlotInv
  <1>6. ASSUME NEW j \in Jobs, NEW o \in Options, Updates(j, o) PROVE SlotInv'
    <2>1. /\ opt' = [opt EXCEPT ![j] = o] /\ opt'[j] = o
          /\ \A k \in Jobs \ {j} : opt'[k] = opt[k]
      BY <1>1, <1>6 DEF Updates, TypeOK
    <2> DEFINE nobody == {}
    <2>2. /\ nobody \in SUBSET Run /\ \A r \in nobody : Live(r) /\ jobOf[r] = j
          /\ runs[j] \ nobody = runs[j]
          /\ pc = [r \in Run |-> IF r \in nobody THEN "done" ELSE pc[r]]
          /\ pc \in [Run -> Stages]
      BY <1>1 DEF TypeOK
    <2>3. o.limit \in Nat
      BY LimitType
    <2>4. /\ NextRunIsFresh' /\ SlotsHeldByLiveRuns'
          /\ queued'[j] => Cardinality(runs'[j]) >= o.limit
          /\ \A k \in Jobs \ {j} : queued'[k] = queued[k] /\ runs'[k] = runs[k]
      <3> HIDE DEF nobody
      <3>1. StartQueued(j, runs[j] \ nobody, o.limit, pc)
        BY <1>6, <2>2 DEF Updates
      <3> QED BY <2>2, <2>3, <3>1, StartQueuedKeeps
    <2>5. QueuedOnlyWhenFull'
      BY <2>1, <2>4 DEF SlotInv, QueuedOnlyWhenFull
    <2> QED BY <1>1, <2>4, <2>5 DEF SlotInv
  <1>7. ASSUME NEW j \in Jobs, Drops(j) PROVE SlotInv'
    <2>1. /\ UNCHANGED <<runs, started, jobOf, pc, opt>>
          /\ queued' = [queued EXCEPT ![j] = FALSE]
      BY <1>7 DEF Drops, CancelRuns
    <2>2. NextRunIsFresh' /\ SlotsHeldByLiveRuns'
      BY <2>1 DEF SlotInv, NextRunIsFresh, SlotsHeldByLiveRuns, Live
    <2>3. QueuedOnlyWhenFull'
      BY <1>1, <2>1 DEF SlotInv, QueuedOnlyWhenFull, TypeOK
    <2> QED BY <1>1, <2>2, <2>3 DEF SlotInv
  <1>8. CASE Crash
    <2>1. NextRunIsFresh'
      BY <1>8 DEF Crash, SlotInv, NextRunIsFresh, Live
    <2>2. SlotsHeldByLiveRuns'
      BY <1>8 DEF Crash, SlotsHeldByLiveRuns, Live
    <2>3. QueuedOnlyWhenFull'
      BY <1>8 DEF Crash, QueuedOnlyWhenFull
    <2> QED BY <1>1, <2>1, <2>2, <2>3 DEF SlotInv
  <1>9. SlotStep
    BY <1>1, SlotSteps
  <1> QED BY <1>2, <1>3, <1>4, <1>5, <1>6, <1>7, <1>8, <1>9 DEF SlotStep

LEMMA SlotInvariance == Spec => []SlotInv
  BY InitSlotInv, NextSlotInv, PTL DEF Spec

\* No lost wake-up, for every job, limit, policy and order of steps: a due run
\* waits only while every slot of its job is taken.
THEOREM NoLostWakeUp == Spec => []QueuedOnlyWhenFull
  BY SlotInvariance, PTL DEF SlotInv

\* No slot leak: slots belong to exactly the runs whose task has not ended,
\* also when any call of the store raises.
THEOREM NoSlotLeak == Spec => []SlotsHeldByLiveRuns
  BY SlotInvariance, PTL DEF SlotInv

-----------------------------------------------------------------------------
(* The limit, and the promises of JobSlots.                                *)

\* A job's new run: one more slot is taken, within the limit it was checked
\* against (others: the runs that keep their slots).
LEMMA TakeSlotCounts ==
    ASSUME SlotInv, NEW j \in Jobs, NEW others \in SUBSET runs[j], NEW stages, NEW stage,
           TakeSlot(j, others, stages, stage)
    PROVE  /\ Cardinality(runs'[j]) = Cardinality(others) + 1
           /\ \A k \in Jobs \ {j} : runs'[k] = runs[k]
  <1>1. others \in SUBSET Run /\ started + 1 \notin others
    BY FreshRun DEF TakeSlot, SlotInv, TypeOK
  <1>2. runs'[j] = others \cup {started + 1} /\ \A k \in Jobs \ {j} : runs'[k] = runs[k]
    BY DEF TakeSlot, SlotInv, TypeOK
  <1> QED BY <1>1, <1>2, RunSetCardinality

\* StartQueued hands a free slot on exactly when a run waits for it.
LEMMA StartQueuedCounts ==
    ASSUME SlotInv, NEW j \in Jobs, NEW others \in SUBSET runs[j], NEW limit, NEW stages,
           StartQueued(j, others, limit, stages)
    PROVE  /\ \/ /\ queued[j] /\ Cardinality(others) < limit
                 /\ queued' = [queued EXCEPT ![j] = FALSE]
                 /\ Cardinality(runs'[j]) = Cardinality(others) + 1
              \/ /\ ~(queued[j] /\ Cardinality(others) < limit)
                 /\ queued' = queued
                 /\ runs'[j] = others
           /\ \A k \in Jobs \ {j} : runs'[k] = runs[k]
  <1>1. CASE /\ queued[j] /\ Cardinality(others) < limit
             /\ queued' = [queued EXCEPT ![j] = FALSE]
             /\ TakeSlot(j, others, stages, "launched")
    BY <1>1, TakeSlotCounts
  <1>2. CASE /\ ~(queued[j] /\ Cardinality(others) < limit)
             /\ runs' = [runs EXCEPT ![j] = others]
             /\ UNCHANGED <<queued, started, jobOf>>
    BY <1>2 DEF SlotInv, TypeOK
  <1> QED BY <1>1, <1>2 DEF StartQueued

\* The step form of SlotLimit.
LEMMA SlotLimitStep ==
    ASSUME SlotInv, [Next]_vars, NEW k \in Jobs, ~(runs'[k] \subseteq runs[k])
    PROVE  Cardinality(runs'[k]) <= opt'[k].limit
  <1>1. TypeOK /\ SlotStep /\ SlotInv'
    BY SlotSteps, NextSlotInv DEF SlotInv
  <1>2. ~Keeps /\ ~(\E r \in Run : Moves(r)) /\ ~(\E j \in Jobs : Drops(j))
    BY DEF Keeps, Moves, Drops
  <1>3. ~Crash
    BY DEF Crash
  <1>4. \A j \in Jobs : opt[j].limit \in Nat /\ Cardinality(runs[j]) \in Nat
    BY <1>1, LimitType, RunSetCardinality DEF TypeOK
  <1>5. ASSUME NEW j \in Jobs, Admits(j) PROVE Cardinality(runs'[k]) <= opt'[k].limit
    <2>1. opt' = opt /\ \E stage \in {"admitted", "launched"} : Admit(j, stage)
      BY <1>5 DEF Admits
    <2>2. PICK stage : /\ TakeSlot(j, runs[j], pc, stage)
                       /\ Cardinality(runs[j]) < opt[j].limit
      BY <2>1 DEF Admit
    <2>3. k = j /\ Cardinality(runs'[j]) = Cardinality(runs[j]) + 1
      BY <2>2, TakeSlotCounts
    <2> QED BY <1>4, <2>1, <2>2, <2>3
  <1>6. ASSUME NEW r \in Run, Ends(r) PROVE Cardinality(runs'[k]) <= opt'[k].limit
    <2> DEFINE j == jobOf[r]
    <2>1. /\ j \in Jobs /\ opt' = opt
          /\ StartQueued(j, runs[j] \ {r}, opt[j].limit, [pc EXCEPT ![r] = "done"])
      BY <1>1, <1>6 DEF Ends, Release, TypeOK
    <2>2. Cardinality(runs[j] \ {r}) \in Nat
      BY <1>1, <2>1, RunSetCardinality DEF TypeOK
    <2>3. /\ k = j
          /\ Cardinality(runs[j] \ {r}) < opt[j].limit
          /\ Cardinality(runs'[j]) = Cardinality(runs[j] \ {r}) + 1
      <3> HIDE DEF j
      <3>1. runs[j] \ {r} \in SUBSET runs[j]
        OBVIOUS
      <3>2. /\ \/ /\ Cardinality(runs[j] \ {r}) < opt[j].limit
                  /\ Cardinality(runs'[j]) = Cardinality(runs[j] \ {r}) + 1
               \/ runs'[j] = runs[j] \ {r}
            /\ \A i \in Jobs \ {j} : runs'[i] = runs[i]
        BY <2>1, <3>1, StartQueuedCounts
      <3> QED BY <3>1, <3>2
    <2> QED BY <1>4, <2>1, <2>2, <2>3
  <1>7. ASSUME NEW j \in Jobs, NEW o \in Options, Updates(j, o)
        PROVE Cardinality(runs'[k]) <= opt'[k].limit
    <2>1. opt'[j] = o /\ StartQueued(j, runs[j], o.limit, pc) /\ o.limit \in Nat
      BY <1>1, <1>7, LimitType DEF Updates, TypeOK
    <2>2. /\ k = j
          /\ Cardinality(runs[j]) < o.limit
          /\ Cardinality(runs'[j]) = Cardinality(runs[j]) + 1
      BY <2>1, StartQueuedCounts
    <2> QED BY <1>4, <2>1, <2>2
  <1> QED BY <1>1, <1>2, <1>3, <1>5, <1>6, <1>7 DEF SlotStep

\* The limit holds when a run starts: no timer, trigger, run end or update
\* ever gives a job a run beyond its max_concurrent_runs.
THEOREM LimitHolds == Spec => SlotLimit
  <1>1. SlotInv /\ [Next]_vars
        => [\A j \in Jobs : ~(runs'[j] \subseteq runs[j])
                              => Cardinality(runs'[j]) <= opt'[j].limit]_vars
    BY SlotLimitStep
  <1> QED BY <1>1, SlotInvariance, PTL DEF Spec, SlotLimit

\* Every step is a step of JobSlots, or changes nothing it speaks of.
LEMMA SlotRefinementStep ==
    SlotInv /\ [Next]_vars => [Slots!SlotsNext]_(Slots!slotVars)
  <1> SUFFICES ASSUME SlotInv, [Next]_vars
               PROVE  Slots!SlotsNext \/ UNCHANGED Slots!slotVars
    OBVIOUS
  <1> DEFINE held == [j \in Jobs |-> Cardinality(runs[j])]
             limit == [j \in Jobs |-> opt[j].limit]
  <1>1. TypeOK /\ SlotStep /\ TypeOK'
    BY SlotSteps, NextType DEF SlotInv
  <1>2. \A j \in Jobs : /\ opt[j].limit \in Nat \ {0} /\ opt'[j].limit \in Nat \ {0}
                        /\ Cardinality(runs[j]) \in Nat
    BY <1>1, LimitType, RunSetCardinality DEF TypeOK
  <1>3. CASE Keeps \/ \E r \in Run : Moves(r)
    <2>1. held' = held /\ limit' = limit /\ queued' = queued
      BY <1>3 DEF Keeps, Moves
    <2> QED BY <2>1 DEF Slots!slotVars
  <1>4. ASSUME NEW j \in Jobs, Admits(j) PROVE Slots!SlotsNext \/ UNCHANGED Slots!slotVars
    <2>1. limit' = limit
      BY <1>4 DEF Admits
    <2>2. CASE /\ Cardinality(runs[j]) < opt[j].limit /\ queued' = queued
               /\ \E stage : TakeSlot(j, runs[j], pc, stage)
      <3>1. ~queued[j]
        <4>1. queued[j] => Cardinality(runs[j]) >= opt[j].limit
          BY DEF SlotInv, QueuedOnlyWhenFull
        <4>2. ~(Cardinality(runs[j]) >= opt[j].limit)
          BY <1>2, <2>2
        <4> QED BY <4>1, <4>2
      <3>2. held' = [held EXCEPT ![j] = @ + 1]
        BY <2>2, TakeSlotCounts
      <3>3. Slots!Take(j)
        BY <2>1, <2>2, <3>1, <3>2 DEF Slots!Take
      <3> QED BY <3>3 DEF Slots!SlotsNext
    <2>3. CASE /\ Cardinality(runs[j]) >= opt[j].limit /\ runs' = runs
               /\ queued' = [queued EXCEPT ![j] = TRUE]
      <3>1. Slots!Wait(j)
        BY <2>1, <2>3 DEF Slots!Wait
      <3> QED BY <3>1 DEF Slots!SlotsNext
    <2>4. CASE UNCHANGED <<runs, queued>>
      BY <2>1, <2>4 DEF Slots!slotVars
    <2> QED BY <1>4, <2>2, <2>3, <2>4 DEF Admits, Admit
  <1>5. ASSUME NEW r \in Run, Ends(r) PROVE Slots!SlotsNext
    <2> DEFINE j == jobOf[r]
    <2>1. /\ j \in Jobs /\ limit' = limit
          /\ StartQueued(j, runs[j] \ {r}, opt[j].limit, [pc EXCEPT ![r] = "done"])
      BY <1>1, <1>5 DEF Ends, Release, TypeOK
    <2>2. r \in runs[j]
      BY <1>5, <2>1 DEF Ends, SlotInv, SlotsHeldByLiveRuns
    <2>3. /\ Cardinality(runs[j] \ {r}) = Cardinality(runs[j]) - 1
          /\ Cardinality(runs[j] \ {r}) \in Nat
      <3>1. runs[j] \in SUBSET Run /\ runs[j] \ {r} \in SUBSET Run
        BY <1>1, <2>1 DEF TypeOK
      <3> HIDE DEF j
      <3> QED BY <2>2, <3>1, RunSetCardinality
    <2>4. Slots!Finish(j)
      <3> HIDE DEF j
      <3>1. held[j] > 0 /\ j \in Jobs
        BY <1>2, <2>1, <2>3
      <3>2. CASE /\ queued[j] /\ Cardinality(runs[j] \ {r}) < opt[j].limit
                 /\ queued' = [queued EXCEPT ![j] = FALSE]
                 /\ Cardinality(runs'[j]) = Cardinality(runs[j] \ {r}) + 1
                 /\ \A k \in Jobs \ {j} : runs'[k] = runs[k]
        <4>1. held' = held
          BY <1>2, <2>3, <3>1, <3>2
        <4>2. held[j] <= limit[j]
          BY <1>2, <2>3, <3>1, <3>2
        <4> QED BY <2>1, <3>1, <3>2, <4>1, <4>2 DEF Slots!Finish
      <3>3. CASE /\ ~(queued[j] /\ Cardinality(runs[j] \ {r}) < opt[j].limit)
                 /\ queued' = queued
                 /\ runs'[j] = runs[j] \ {r}
                 /\ \A k \in Jobs \ {j} : runs'[k] = runs[k]
        <4>1. held' = [held EXCEPT ![j] = @ - 1]
          BY <1>2, <2>3, <3>1, <3>3
        <4>2. ~(Cardinality(runs[j] \ {r}) < opt[j].limit) => held[j] > limit[j]
          BY <1>2, <2>3, <3>1
        <4>3. ~queued[j] \/ held[j] > limit[j]
          BY <3>3, <4>2
        <4> QED BY <2>1, <3>1, <3>3, <4>1, <4>3 DEF Slots!Finish
      <3> QED BY <2>1, <3>2, <3>3, StartQueuedCounts
    <2> QED BY <2>1, <2>4 DEF Slots!SlotsNext
  <1>6. ASSUME NEW j \in Jobs, NEW o \in Options, Updates(j, o) PROVE Slots!SlotsNext
    <2>1. /\ StartQueued(j, runs[j], o.limit, pc) /\ o.limit \in Nat \ {0}
          /\ limit' = [limit EXCEPT ![j] = o.limit] /\ limit'[j] = o.limit
      BY <1>1, <1>6, LimitType DEF Updates, TypeOK
    <2>2. /\ limit' = [limit EXCEPT ![j] = limit'[j]] /\ limit'[j] \in Slots!Limits
      BY <2>1 DEF Slots!Limits
    <2>3. CASE /\ queued[j] /\ Cardinality(runs[j]) < o.limit
               /\ queued' = [queued EXCEPT ![j] = FALSE]
               /\ Cardinality(runs'[j]) = Cardinality(runs[j]) + 1
               /\ \A k \in Jobs \ {j} : runs'[k] = runs[k]
      <3>1. held' = [held EXCEPT ![j] = @ + 1] /\ held[j] < limit'[j]
        BY <2>1, <2>3
      <3>2. Slots!SetLimit(j)
        BY <2>2, <2>3, <3>1 DEF Slots!SetLimit
      <3> QED BY <3>2 DEF Slots!SlotsNext
    <2>4. CASE /\ ~(queued[j] /\ Cardinality(runs[j]) < o.limit)
               /\ queued' = queued /\ runs'[j] = runs[j]
               /\ \A k \in Jobs \ {j} : runs'[k] = runs[k]
      <3>1. held' = held /\ held[j] = Cardinality(runs[j])
        BY <2>4
      <3>2. ~(Cardinality(runs[j]) < o.limit) => held[j] >= limit'[j]
        BY <1>2, <2>1, <3>1
      <3>3. ~queued[j] \/ held[j] >= limit'[j]
        BY <2>4, <3>2
      <3>4. Slots!SetLimit(j)
        BY <2>2, <2>4, <3>1, <3>3 DEF Slots!SetLimit
      <3> QED BY <3>4 DEF Slots!SlotsNext
    <2>5. /\ \/ /\ queued[j] /\ Cardinality(runs[j]) < o.limit
                /\ queued' = [queued EXCEPT ![j] = FALSE]
                /\ Cardinality(runs'[j]) = Cardinality(runs[j]) + 1
             \/ /\ ~(queued[j] /\ Cardinality(runs[j]) < o.limit)
                /\ queued' = queued
                /\ runs'[j] = runs[j]
          /\ \A k \in Jobs \ {j} : runs'[k] = runs[k]
      BY <2>1, StartQueuedCounts
    <2> QED BY <2>3, <2>4, <2>5
  <1>7. ASSUME NEW j \in Jobs, Drops(j) PROVE Slots!SlotsNext \/ UNCHANGED Slots!slotVars
    <2>1. /\ held' = held /\ limit' = limit
          /\ queued' = [queued EXCEPT ![j] = FALSE]
      BY <1>7 DEF Drops, CancelRuns
    <2>2. CASE queued[j]
      <3>1. Slots!Drop(j)
        BY <2>1, <2>2 DEF Slots!Drop
      <3> QED BY <3>1 DEF Slots!SlotsNext
    <2>3. CASE ~queued[j]
      <3>1. queued' = queued
        BY <1>1, <2>1, <2>3 DEF TypeOK
      <3> QED BY <2>1, <3>1 DEF Slots!slotVars
    <2> QED BY <2>2, <2>3
  <1>8. CASE Crash
    <2>1. held' = [j \in Jobs |-> 0]
      BY <1>8, FS_EmptySet DEF Crash
    <2>2. limit' \in [Jobs -> Slots!Limits]
      BY <1>2 DEF Slots!Limits
    <2>3. queued' = [j \in Jobs |-> FALSE]
      BY <1>8 DEF Crash
    <2>4. Slots!Reset
      BY <2>1, <2>2, <2>3 DEF Slots!Reset
    <2> QED BY <2>4 DEF Slots!SlotsNext
  <1> QED BY <1>1, <1>3, <1>4, <1>5, <1>6, <1>7, <1>8 DEF SlotStep

LEMMA SlotRefinementInit == Init => Slots!SlotsInit
  <1> SUFFICES ASSUME Init PROVE Slots!SlotsInit
    OBVIOUS
  <1>1. [j \in Jobs |-> Cardinality(runs[j])] = [j \in Jobs |-> 0]
    BY FS_EmptySet DEF Init
  <1>2. [j \in Jobs |-> opt[j].limit] \in [Jobs -> Slots!Limits]
    BY OptionsAssumption, LimitType DEF Init, Slots!Limits
  <1> QED BY <1>1, <1>2 DEF Init, Slots!SlotsInit

\* The scheduler implements JobSlots: counting its runs and reading off its
\* queued flags and limits, it keeps every promise of the concurrency model.
THEOREM ImplementsSlots == Spec => KeepsSlotPromises
  BY SlotRefinementInit, SlotRefinementStep, SlotInvariance, PTL
  DEF Spec, KeepsSlotPromises, Slots!SlotsSpec

-----------------------------------------------------------------------------
(* The history.                                                            *)

\* Execution e is the attempt that its run is in.
Owned(e) == InAttempt(e[1]) /\ attempt[e[1]] = e[2]

\* What the records of run r are: none before it is launched, none beyond its
\* attempt, none yet of an attempt that is being opened; and what a delete
\* request has found finished is not the attempt r is in.
RunRecords(r) ==
    /\ attempt[r] \in Attempts
    /\ pc[r] \in {"idle", "admitted", "launched", "done"} => attempt[r] = 0
    /\ pc[r] \in {"delaying", "retryDue"} => \E o \in Options : attempt[r] < o.retries
    /\ \A a \in Attempts : store[<<r, a>>] # "none" =>
          /\ pc[r] \notin {"idle", "admitted", "launched"}
          /\ pc[r] # "done" => a <= attempt[r]
          /\ pc[r] = "opening" => a # attempt[r]
    /\ pc[r] \in {"executing", "saving"} => store[<<r, attempt[r]>>] # "gone"
    /\ pc[r] = "saving" => outcome[r] \in Outcomes
    /\ \A a \in Attempts : <<r, a>> \in doomed =>
          store[<<r, a>>] # "none" /\ ~Owned(<<r, a>>)
HistoryInv ==
    /\ \A r \in Run : RunRecords(r)
    /\ \A e \in stale : store[e] # "none"

\* Attempts are numbers, the first of them 0, and a retry that some options
\* allow is one.
LEMMA AttemptNumbers ==
    /\ Attempts \subseteq Nat /\ 0 \in Attempts
    /\ \A a \in Nat : (\E o \in Options : a < o.retries) => a + 1 \in Attempts
  <1>1. \A o \in Options : o.retries \in Nat
    BY OptionsAssumption
  <1>2. \E o \in Options : TRUE
    BY OptionsAssumption, JobsAssumption
  <1>3. 0 \in Attempts
    BY <1>1, <1>2 DEF Attempts
  <1> QED BY <1>1, <1>3 DEF Attempts

\* A run of which a step changes nothing.
KeepsRun(r) ==
    /\ pc'[r] = pc[r] /\ attempt'[r] = attempt[r] /\ outcome'[r] = outcome[r]
    /\ \A a \in Attempts : store'[<<r, a>>] = store[<<r, a>>]
    /\ \A a \in Attempts : <<r, a>> \in doomed' => <<r, a>> \in doomed
\* A run that a step gives a slot.
NewRun(r) ==
    /\ pc[r] = "idle" /\ pc'[r] \in {"admitted", "launched"} /\ attempt'[r] = attempt[r]
    /\ \A a \in Attempts : store'[<<r, a>>] = store[<<r, a>>]
    /\ \A a \in Attempts : <<r, a>> \in doomed' => <<r, a>> \in doomed

LEMMA OtherRuns ==
    ASSUME NEW r \in Run, RunRecords(r), KeepsRun(r) \/ NewRun(r)
    PROVE  RunRecords(r)'
  <1>1. CASE KeepsRun(r)
    BY <1>1 DEF KeepsRun, RunRecords, Owned, InAttempt
  <1>2. CASE NewRun(r)
    BY <1>2 DEF NewRun, RunRecords, Owned, InAttempt
  <1> QED BY <1>1, <1>2

\* Who changes its stage or its job when a slot is taken: the next run.
Newcomer(x) == x = started + 1 /\ pc[x] = "idle" /\ pc'[x] \in {"admitted", "launched"}

LEMMA AdmitStages ==
    ASSUME SlotInv, NEW j \in Jobs, NEW stage \in {"admitted", "launched"}, Admit(j, stage)
    PROVE  \A x \in Run : (pc'[x] = pc[x] /\ jobOf'[x] = jobOf[x]) \/ Newcomer(x)
  <1>1. pc \in [Run -> Stages] /\ jobOf \in [Run -> Jobs] /\ started \in Nat
    BY BoundsAssumption DEF SlotInv, TypeOK
  <1>2. CASE TakeSlot(j, runs[j], pc, stage)
    <2>1. started + 1 \in Run /\ pc[started + 1] = "idle"
      BY <1>2, FreshRun DEF TakeSlot
    <2> QED BY <1>1, <1>2, <2>1 DEF TakeSlot, Newcomer
  <1>3. CASE UNCHANGED <<runs, started, jobOf, pc>>
    BY <1>3
  <1> QED BY <1>2, <1>3 DEF Admit

LEMMA StartQueuedStages ==
    ASSUME SlotInv, NEW j \in Jobs, NEW others, NEW limit, NEW stages \in [Run -> Stages],
           \A x \in Run : pc[x] = "idle" => stages[x] = "idle",
           StartQueued(j, others, limit, stages)
    PROVE  \A x \in Run : (pc'[x] = stages[x] /\ jobOf'[x] = jobOf[x]) \/ Newcomer(x)
  <1>1. jobOf \in [Run -> Jobs] /\ started \in Nat
    BY BoundsAssumption DEF SlotInv, TypeOK
  <1>2. CASE TakeSlot(j, others, stages, "launched")
    <2>1. started + 1 \in Run /\ pc[started + 1] = "idle"
      BY <1>2, FreshRun DEF TakeSlot
    <2> QED BY <1>1, <1>2, <2>1 DEF TakeSlot, Newcomer
  <1>3. CASE pc' = stages /\ UNCHANGED <<queued, started, jobOf>>
    BY <1>3
  <1> QED BY <1>2, <1>3 DEF StartQueued

\* A run that is released is done; another keeps its stage or takes the slot.
LEMMA ReleaseStages ==
    ASSUME SlotInv, NEW r \in Run, Live(r), Release(r)
    PROVE  /\ pc'[r] = "done" /\ jobOf'[r] = jobOf[r] /\ attempt'[r] = 0 /\ outcome'[r] = "none"
           /\ \A x \in Run \ {r} : /\ (pc'[x] = pc[x] /\ jobOf'[x] = jobOf[x]) \/ Newcomer(x)
                                   /\ attempt'[x] = attempt[x] /\ outcome'[x] = outcome[x]
  <1> DEFINE stages == [pc EXCEPT ![r] = "done"]
             j == jobOf[r]
  <1>1. /\ pc \in [Run -> Stages] /\ jobOf \in [Run -> Jobs] /\ j \in Jobs
        /\ attempt \in [Run -> Nat] /\ outcome \in [Run -> Outcomes \cup {"none"}]
    BY DEF SlotInv, TypeOK
  <1>2. stages \in [Run -> Stages] /\ \A x \in Run : pc[x] = "idle" => stages[x] = "idle"
    BY <1>1 DEF Stages, Live
  <1>3. StartQueued(j, runs[j] \ {r}, opt[j].limit, stages)
    BY DEF Release
  <1>4. \A x \in Run : (pc'[x] = stages[x] /\ jobOf'[x] = jobOf[x]) \/ Newcomer(x)
    <2> HIDE DEF stages, j
    <2> QED BY <1>1, <1>2, <1>3, StartQueuedStages
  <1>5. ~Newcomer(r)
    BY DEF Newcomer, Live
  <1> QED BY <1>1, <1>4, <1>5 DEF Release

\* The steps that leave every record and every attempt alone: the runs keep
\* their stages or one takes a slot.
LEMMA QuietHistory ==
    ASSUME HistoryInv, UNCHANGED <<store, doomed, attempt, outcome>>,
           \A x \in Run : pc'[x] = pc[x] \/ Newcomer(x),
           \A e \in stale' : e \in stale \/ store[e] # "none"
    PROVE  HistoryInv'
  <1>1. \A x \in Run : KeepsRun(x) \/ NewRun(x)
    BY DEF KeepsRun, NewRun, Newcomer
  <1>2. \A x \in Run : RunRecords(x)'
    BY <1>1, OtherRuns DEF HistoryInv
  <1> QED BY <1>2 DEF HistoryInv

\* A step of run r that leaves the other runs and their records alone, but for
\* a newcomer.
LEMMA OneRunHistory ==
    ASSUME HistoryInv, NEW r \in Run, RunRecords(r)', doomed' = doomed, stale' = stale,
           \A x \in Run \ {r} : /\ pc'[x] = pc[x] \/ Newcomer(x)
                                /\ attempt'[x] = attempt[x] /\ outcome'[x] = outcome[x]
                                /\ \A a \in Attempts : store'[<<x, a>>] = store[<<x, a>>],
           \A e \in stale : store[e] # "none" => store'[e] # "none"
    PROVE  HistoryInv'
  <1>1. \A x \in Run \ {r} : KeepsRun(x) \/ NewRun(x)
    BY DEF KeepsRun, NewRun, Newcomer
  <1>2. \A x \in Run \ {r} : RunRecords(x)'
    BY <1>1, OtherRuns DEF HistoryInv
  <1> QED BY <1>2 DEF HistoryInv

\* The start of an attempt, first or next: nothing is recorded of it yet.
LEMMA BeginAttemptHistory ==
    ASSUME TypeOK, HistoryInv, NEW r \in Run, BeginAttempt(r)
    PROVE  HistoryInv'
  <1> DEFINE n == IF pc[r] = "retryDue" THEN attempt[r] + 1 ELSE attempt[r]
  <1>0. RunRecords(r) /\ attempt[r] \in Nat
    BY DEF HistoryInv, TypeOK
  <1>1. /\ pc[r] \in {"launched", "retryDue"} /\ pc'[r] = "opening" /\ attempt'[r] = n
        /\ UNCHANGED <<store, doomed, outcome, stale>>
        /\ \A x \in Run \ {r} : pc'[x] = pc[x] /\ attempt'[x] = attempt[x]
    BY DEF BeginAttempt, MoveTo, TypeOK, historyVars, lifeVars
  <1>2. n \in Attempts /\ n \in Nat
    BY <1>0, <1>1, AttemptNumbers DEF RunRecords
  <1>3. \A a \in Attempts : store[<<r, a>>] # "none" => a <= n /\ a # n
    BY <1>0, <1>1, AttemptNumbers DEF RunRecords
  <1>4. \A a \in Attempts : <<r, a>> \in doomed => store[<<r, a>>] # "none" /\ a # n
    BY <1>0, <1>3 DEF RunRecords
  <1> HIDE DEF n
  <1>5. RunRecords(r)'
    BY <1>1, <1>2, <1>3, <1>4 DEF RunRecords, Owned, InAttempt
  <1> QED BY <1>1, <1>5, OneRunHistory

\* The first save of an attempt.
LEMMA OpenSavedHistory ==
    ASSUME TypeOK, HistoryInv, NEW r \in Run, OpenSaved(r)
    PROVE  HistoryInv'
  <1>0. RunRecords(r) /\ attempt[r] \in Attempts /\ attempt[r] \in Nat
    BY AttemptNumbers DEF HistoryInv, RunRecords, TypeOK
  <1>1. /\ pc[r] = "opening" /\ pc'[r] = "executing"
        /\ UNCHANGED <<attempt, outcome, doomed, stale>>
        /\ \A x \in Run \ {r} : pc'[x] = pc[x]
        /\ store' = [store EXCEPT ![<<r, attempt[r]>>] = "running"]
    BY DEF OpenSaved, MoveTo, TypeOK, lifeVars, attemptVars, Exec
  <1>2. /\ store'[<<r, attempt[r]>>] = "running"
        /\ \A x \in Run, a \in Attempts : (x # r \/ a # attempt[r]) => store'[<<x, a>>] = store[<<x, a>>]
        /\ \A e \in Execs : store[e] # "none" => store'[e] # "none"
    BY <1>0, <1>1 DEF TypeOK, Execs
  <1>3. RunRecords(r)'
    BY <1>0, <1>1, <1>2 DEF RunRecords, Owned, InAttempt
  <1>4. stale \subseteq Execs
    BY DEF TypeOK
  <1> QED BY <1>1, <1>2, <1>3, <1>4, OneRunHistory

\* The job ends, and its record is finished at once or by the next save.
LEMMA JobEndsHistory ==
    ASSUME TypeOK, HistoryInv, NEW r \in Run, NEW how \in Endings, JobEnds(r, how)
    PROVE  HistoryInv'
  <1>0. RunRecords(r) /\ attempt[r] \in Attempts /\ StatusOf(r, how) \in Outcomes
    BY StatusOfType DEF HistoryInv, RunRecords
  <1>1. /\ pc[r] = "executing" /\ pc'[r] = "saving"
        /\ UNCHANGED <<attempt, doomed, stale>> /\ outcome'[r] = StatusOf(r, how)
        /\ \A x \in Run \ {r} : pc'[x] = pc[x] /\ outcome'[x] = outcome[x]
        /\ store' = [store EXCEPT ![<<r, attempt[r]>>] = StatusOf(r, how)] \/ store' = store
    BY DEF JobEnds, MoveTo, TypeOK, lifeVars, Exec
  <1>2. /\ store[<<r, attempt[r]>>] # "gone" => store'[<<r, attempt[r]>>] # "gone"
        /\ \A x \in Run, a \in Attempts : (x # r \/ a # attempt[r]) => store'[<<x, a>>] = store[<<x, a>>]
        /\ \A e \in Execs : store[e] # "none" => store'[e] # "none"
    BY <1>0, <1>1 DEF TypeOK, Execs, Outcomes
  <1>3. RunRecords(r)'
    <2>1. \A a \in Attempts : <<r, a>> \in doomed => a # attempt[r] /\ store[<<r, a>>] # "none"
      BY <1>0, <1>1 DEF RunRecords, Owned, InAttempt
    <2>2. \A a \in Attempts : store[<<r, a>>] # "none" => a <= attempt[r]
      BY <1>0, <1>1 DEF RunRecords
    <2>3. attempt[r] <= attempt[r]
      BY DEF TypeOK
    <2> QED BY <1>0, <1>1, <1>2, <2>1, <2>2, <2>3 DEF RunRecords, Owned, InAttempt
  <1>4. stale \subseteq Execs
    BY DEF TypeOK
  <1> QED BY <1>1, <1>2, <1>3, <1>4, OneRunHistory

\* The last save of an attempt, or the removal of one that is discarded.
LEMMA FinishSavedHistory ==
    ASSUME TypeOK, HistoryInv, NEW r \in Run, NEW discard \in BOOLEAN, FinishSaved(r, discard)
    PROVE  HistoryInv'
  <1> DEFINE final == IF discard THEN "gone" ELSE outcome[r]
  <1>0. RunRecords(r) /\ attempt[r] \in Attempts
    BY DEF HistoryInv, RunRecords
  <1>1. /\ pc[r] = "saving" /\ pc'[r] = "persisting"
        /\ UNCHANGED <<attempt, outcome, doomed, stale>>
        /\ \A x \in Run \ {r} : pc'[x] = pc[x]
        /\ store' = [store EXCEPT ![<<r, attempt[r]>>] = final]
    BY DEF FinishSaved, MoveTo, TypeOK, lifeVars, attemptVars, Exec
  <1>2. \A x \in Run, a \in Attempts : (x # r \/ a # attempt[r]) => store'[<<x, a>>] = store[<<x, a>>]
    BY <1>0, <1>1 DEF TypeOK, Execs
  <1>3. RunRecords(r)'
    <2>1. \A a \in Attempts : <<r, a>> \in doomed => a # attempt[r] /\ store[<<r, a>>] # "none"
      BY <1>0, <1>1 DEF RunRecords, Owned, InAttempt
    <2>2. \A a \in Attempts : store[<<r, a>>] # "none" => a <= attempt[r]
      BY <1>0, <1>1 DEF RunRecords
    <2>3. attempt[r] <= attempt[r]
      BY DEF TypeOK
    <2> HIDE DEF final
    <2> QED BY <1>0, <1>1, <1>2, <2>1, <2>2, <2>3 DEF RunRecords, Owned, InAttempt
  <1>4. \A e \in stale : store[e] # "none" => store'[e] # "none"
    <2>1. final # "none"
      BY <1>0, <1>1 DEF RunRecords, Outcomes
    <2> HIDE DEF final
    <2> QED BY <1>1, <2>1 DEF TypeOK
  <1> HIDE DEF final
  <1> QED BY <1>1, <1>2, <1>3, <1>4, OneRunHistory

\* The end of a run; what it leaves in the history stays.
LEMMA ReleaseHistory ==
    ASSUME SlotInv, HistoryInv, NEW r \in Run, Live(r), Release(r), UNCHANGED <<store, doomed, stale>>
    PROVE  HistoryInv'
  <1>0. RunRecords(r)
    BY DEF HistoryInv
  <1>1. /\ pc'[r] = "done" /\ attempt'[r] = 0
        /\ \A x \in Run \ {r} : /\ pc'[x] = pc[x] \/ Newcomer(x)
                                /\ attempt'[x] = attempt[x] /\ outcome'[x] = outcome[x]
    BY ReleaseStages
  <1>2. RunRecords(r)'
    BY <1>0, <1>1, AttemptNumbers DEF RunRecords, Owned, InAttempt
  <1> QED BY <1>1, <1>2, OneRunHistory

\* A run that moves on between its attempts.
LEMMA MoveHistory ==
    ASSUME TypeOK, HistoryInv, NEW r \in Run,
           TriggerLaunch(r) \/ RetryLater(r) \/ DelayExpires(r)
    PROVE  HistoryInv'
  <1>0. RunRecords(r) /\ opt[jobOf[r]] \in Options
    BY DEF HistoryInv, TypeOK
  <1>1. /\ UNCHANGED <<attempt, outcome, doomed, stale, store>>
        /\ \A x \in Run \ {r} : pc'[x] = pc[x]
    BY DEF TriggerLaunch, RetryLater, DelayExpires, MoveTo, TypeOK, lifeVars, attemptVars, historyVars
  <1>2. \/ pc[r] = "admitted" /\ pc'[r] = "launched"
        \/ pc[r] = "persisting" /\ pc'[r] = "delaying" /\ attempt[r] < opt[jobOf[r]].retries
        \/ pc[r] = "delaying" /\ pc'[r] = "retryDue"
    BY DEF TriggerLaunch, RetryLater, Retries, DelayExpires, MoveTo, TypeOK
  <1>3. RunRecords(r)'
    BY <1>0, <1>1, <1>2 DEF RunRecords, Owned, InAttempt
  <1> QED BY <1>1, <1>3, OneRunHistory

\* Interrupted executions are finished, checked executions deleted.
LEMMA StoreHistory ==
    ASSUME TypeOK, HistoryInv, NEW e \in Execs,
           SaveStale(e) \/ DeleteChecked(e) \/ DeleteApplied(e), SlotsHeldByLiveRuns
    PROVE  HistoryInv'
  <1>0. UNCHANGED <<pc, attempt, outcome>> /\ \A x \in Run : RunRecords(x)
    BY DEF SaveStale, DeleteChecked, DeleteApplied, slotVars, attemptVars, HistoryInv
  <1>e. PICK r \in Run, b \in Attempts : e = <<r, b>>
    BY DEF Execs
  <1>1. CASE SaveStale(e)
    <2>1. store' = [store EXCEPT ![e] = "cancelled"] /\ doomed' = doomed /\ stale' \subseteq stale
          /\ store[e] # "none"
      BY <1>1 DEF SaveStale, HistoryInv
    <2>2. \A x \in Run, a \in Attempts : store'[<<x, a>>] # store[<<x, a>>] =>
             store[<<x, a>>] # "none" /\ store'[<<x, a>>] = "cancelled"
      BY <2>1 DEF TypeOK, Execs
    <2>3. \A x \in Run : RunRecords(x)'
      BY <1>0, <2>1, <2>2 DEF RunRecords, Owned, InAttempt
    <2>4. \A d \in stale' : store'[d] # "none"
      BY <2>1 DEF TypeOK, HistoryInv
    <2> QED BY <2>3, <2>4 DEF HistoryInv
  <1>2. CASE DeleteChecked(e)
    <2>1. store' = store /\ doomed' = doomed \cup {e} /\ stale' = stale /\ store[e] # "none"
      BY <1>2 DEF DeleteChecked, lifeVars
    <2>2. ~Owned(e)
      <3>1. e \notin RunningExecutions
        BY <1>2 DEF DeleteChecked, IsRunning
      <3>2. InAttempt(r) => r \in runs[jobOf[r]] /\ jobOf[r] \in Jobs
        BY DEF SlotsHeldByLiveRuns, Live, InAttempt, TypeOK
      <3> QED BY <1>e, <3>1, <3>2 DEF Owned, RunningExecutions
    <2>3. \A x \in Run : RunRecords(x)'
      BY <1>0, <1>e, <2>1, <2>2 DEF RunRecords, Owned, InAttempt
    <2> QED BY <2>1, <2>3 DEF HistoryInv
  <1>3. CASE DeleteApplied(e)
    <2>1. store' = [store EXCEPT ![e] = "gone"] /\ doomed' \subseteq doomed /\ stale' = stale /\ e \in doomed
      BY <1>3 DEF DeleteApplied, lifeVars
    <2>2. store[e] # "none" /\ ~Owned(e)
      BY <1>0, <1>e, <2>1 DEF RunRecords
    <2>3. \A x \in Run, a \in Attempts : store'[<<x, a>>] # store[<<x, a>>] =>
             store[<<x, a>>] # "none" /\ store'[<<x, a>>] = "gone" /\ ~Owned(<<x, a>>)
      BY <2>1, <2>2 DEF TypeOK, Execs
    <2>4. \A x \in Run : RunRecords(x)'
      BY <1>0, <2>1, <2>3 DEF RunRecords, Owned, InAttempt
    <2>5. \A d \in stale' : store'[d] # "none"
      BY <2>1 DEF TypeOK, HistoryInv
    <2> QED BY <2>4, <2>5 DEF HistoryInv
  <1> QED BY <1>1, <1>2, <1>3

\* The end of the process ends every run.
LEMMA CrashHistory ==
    ASSUME TypeOK, HistoryInv, Crash
    PROVE  HistoryInv'
  <1>1. /\ stale' = {} /\ doomed' = {}
        /\ \A r \in Run : /\ attempt'[r] = 0
                          /\ pc'[r] = IF Live(r) THEN "done" ELSE pc[r]
    BY DEF Crash
  <1>2. \A r \in Run, a \in Attempts : store'[<<r, a>>] # "none" => store[<<r, a>>] # "none"
    BY DEF Crash, Execs
  <1>3. ASSUME NEW r \in Run PROVE RunRecords(r)'
    <2>1. RunRecords(r) /\ pc'[r] \in {"idle", "done"} /\ (pc[r] = "idle" <=> pc'[r] = "idle")
      BY <1>1 DEF HistoryInv, Live
    <2> QED BY <1>1, <1>2, <2>1, AttemptNumbers DEF RunRecords
  <1> QED BY <1>1, <1>3 DEF HistoryInv

\* The steps of the lifecycle, the API and the timers that leave the history
\* and the attempts alone.
LEMMA QuietSteps ==
    ASSUME SlotInv, HistoryInv,
           \/ StartBegin \/ ListReturned \/ ScanFails \/ ScanEnd \/ StopEnd
           \/ \E j \in Jobs : \/ ListStale(j) \/ LoadJob(j) \/ Stop(j) \/ TimerFire(j)
                              \/ Trigger(j) \/ Pause(j) \/ Resume(j) \/ StopJob(j)
                              \/ CancelCurrent(j)
                              \/ \E o \in Options : UpdateOptions(j, o) \/ UpdateRejected(j, o)
                              \/ \E i \in 1..Len(writes[j]) : StoreApplies(j, i) \/ StoreRaises(j, i)
    PROVE  /\ UNCHANGED <<store, doomed, attempt, outcome>>
           /\ \A x \in Run : (pc'[x] = pc[x] /\ jobOf'[x] = jobOf[x]) \/ Newcomer(x)
           /\ \A e \in stale' : e \in stale \/ store[e] # "none"
  <1> USE DEF lifeVars, jobVars, slotVars, attemptVars, historyVars, stateVars
  <1>1. CASE \/ StartBegin \/ ListReturned \/ ScanFails \/ ScanEnd \/ StopEnd
             \/ \E j \in Jobs : ListStale(j)
    BY <1>1 DEF StartBegin, ListReturned, ScanFails, ScanEnd, StopEnd, ListStale
  <1>2. CASE \E j \in Jobs : Stop(j) \/ Pause(j) \/ Resume(j) \/ StopJob(j) \/ CancelCurrent(j)
    BY <1>2 DEF Stop, Pause, Resume, StopJob, CancelCurrent
  <1>3. CASE \E j \in Jobs : \E i \in 1..Len(writes[j]) : StoreApplies(j, i) \/ StoreRaises(j, i)
    BY <1>3 DEF StoreApplies, StoreRaises
  <1>4. ASSUME NEW j \in Jobs, LoadJob(j) \/ TimerFire(j) \/ Trigger(j)
        PROVE  /\ UNCHANGED <<store, doomed, attempt, outcome, stale>>
               /\ \A x \in Run : (pc'[x] = pc[x] /\ jobOf'[x] = jobOf[x]) \/ Newcomer(x)
    <2>1. UNCHANGED <<store, doomed, attempt, outcome, stale>>
      BY <1>4 DEF LoadJob, TimerFire, Trigger
    <2>2. UNCHANGED slotVars \/ \E stage \in {"admitted", "launched"} : Admit(j, stage)
      BY <1>4 DEF LoadJob, TimerFire, Trigger
    <2> QED BY <2>1, <2>2, AdmitStages
  <1>5. ASSUME NEW j \in Jobs, NEW o \in Options, UpdateOptions(j, o) \/ UpdateRejected(j, o)
        PROVE  /\ UNCHANGED <<store, doomed, attempt, outcome, stale>>
               /\ \A x \in Run : (pc'[x] = pc[x] /\ jobOf'[x] = jobOf[x]) \/ Newcomer(x)
    <2>1. UNCHANGED <<store, doomed, attempt, outcome, stale>>
      BY <1>5 DEF UpdateOptions, UpdateRejected
    <2>2. UNCHANGED <<jobOf, pc>> \/ StartQueued(j, runs[j], o.limit, pc)
      BY <1>5 DEF UpdateOptions, UpdateRejected
    <2>3. pc \in [Run -> Stages]
      BY DEF SlotInv, TypeOK
    <2> QED BY <2>1, <2>2, <2>3, StartQueuedStages
  <1> QED BY <1>1, <1>2, <1>3, <1>4, <1>5

LEMMA NextHistory == SlotInv /\ HistoryInv /\ [Next]_vars => HistoryInv'
  <1> SUFFICES ASSUME SlotInv, HistoryInv, [Next]_vars PROVE HistoryInv'
    OBVIOUS
  <1>0. TypeOK /\ SlotsHeldByLiveRuns
    BY DEF SlotInv
  <1>1. CASE \/ StartBegin \/ ListReturned \/ ScanFails \/ ScanEnd \/ StopEnd
             \/ \E j \in Jobs : \/ ListStale(j) \/ LoadJob(j) \/ Stop(j) \/ TimerFire(j)
                                \/ Trigger(j) \/ Pause(j) \/ Resume(j) \/ StopJob(j)
                                \/ CancelCurrent(j)
                                \/ \E o \in Options : UpdateOptions(j, o) \/ UpdateRejected(j, o)
                                \/ \E i \in 1..Len(writes[j]) : StoreApplies(j, i) \/ StoreRaises(j, i)
    BY <1>1, QuietSteps, QuietHistory
  <1>2. CASE Crash
    BY <1>0, <1>2, CrashHistory
  <1>3. CASE \E e \in Execs : SaveStale(e) \/ DeleteChecked(e) \/ DeleteApplied(e)
    BY <1>0, <1>3, StoreHistory
  <1>4. ASSUME NEW r \in Run, TriggerLaunch(r) \/ RetryLater(r) \/ DelayExpires(r)
        PROVE  HistoryInv'
    BY <1>0, <1>4, MoveHistory
  <1>5. ASSUME NEW r \in Run, BeginAttempt(r) PROVE HistoryInv'
    BY <1>0, <1>5, BeginAttemptHistory
  <1>6. ASSUME NEW r \in Run, OpenSaved(r) PROVE HistoryInv'
    BY <1>0, <1>6, OpenSavedHistory
  <1>7. ASSUME NEW r \in Run, NEW how \in Endings, JobEnds(r, how) PROVE HistoryInv'
    BY <1>0, <1>7, JobEndsHistory
  <1>8. ASSUME NEW r \in Run, NEW discard \in BOOLEAN, FinishSaved(r, discard) PROVE HistoryInv'
    BY <1>0, <1>8, FinishSavedHistory
  <1>9. ASSUME NEW r \in Run, RunEnds(r) \/ DelayCancelled(r) \/ OpenFails(r) \/ FinishFails(r)
        PROVE  HistoryInv'
    <2>1. Live(r) /\ Release(r) /\ UNCHANGED <<store, doomed, stale>>
      BY <1>9 DEF RunEnds, DelayCancelled, OpenFails, FinishFails, Live, historyVars, lifeVars
    <2> QED BY <2>1, ReleaseHistory
  <1>10. CASE UNCHANGED vars
    <2>1. UNCHANGED <<store, doomed, attempt, outcome, pc, stale>>
      BY <1>10 DEF vars, lifeVars, slotVars, attemptVars, historyVars
    <2> QED BY <2>1, QuietHistory
  <1> QED
    BY <1>1, <1>2, <1>3, <1>4, <1>5, <1>6, <1>7, <1>8, <1>9, <1>10
    DEF Next, Lifecycle, Request, RunStep, StoreStep

LEMMA InitHistory == Init => HistoryInv
  BY AttemptNumbers DEF Init, HistoryInv, RunRecords, Execs

LEMMA HistoryInvariance == Spec => []HistoryInv
  BY InitHistory, NextHistory, SlotInvariance, PTL DEF Spec

\* Deleting from the history never takes the record of a running attempt,
\* whatever store is plugged in, whether or not it fails and however requests,
\* retries, crashes and restarts interleave.
THEOREM RunningRecordsKept == Spec => []RunningRunsAreKept
  <1>1. HistoryInv => RunningRunsAreKept
    BY DEF HistoryInv, RunRecords, RunningRunsAreKept, Exec
  <1> QED BY <1>1, HistoryInvariance, PTL

-----------------------------------------------------------------------------
(* Finished records, in a process that starts its scheduler once.          *)

\* Before start() has finished the interrupted runs.
Booting == phase \in {"down", "finishing", "listing"}

\* The record of an attempt is running until it is saved as the outcome.
RunFinal(r) ==
    /\ pc[r] = "executing" => store[<<r, attempt[r]>>] = "running"
    /\ pc[r] = "saving" => store[<<r, attempt[r]>>] \in {"running", outcome[r]}
\* Until the interrupted runs are finished nothing runs, waits for a timer or
\* is deleted, and what start() has listed is still running in the store.
BootInv ==
    /\ \A r \in Run : RunFinal(r)
    /\ Booting => /\ \A r \in Run : ~Live(r)
                  /\ \A j \in Jobs : timers[j] = 0
                  /\ doomed = {} /\ \A e \in stale : store[e] = "running"
    /\ phase = "down" => stale = {}

RecordFinal(e) == store[e] \in Outcomes \cup {"gone"} => store'[e] \in {store[e], "gone"}

LEMMA OtherRunsFinal ==
    ASSUME NEW r \in Run, RunFinal(r), KeepsRun(r) \/ NewRun(r), attempt[r] \in Attempts
    PROVE  RunFinal(r)'
  BY DEF KeepsRun, NewRun, RunFinal

\* A step of a run that is live is not one of a scheduler that boots.
LEMMA LiveFinal ==
    ASSUME BootInv, HistoryInv, NEW r \in Run, Live(r), RunFinal(r)', UNCHANGED <<phase>>,
           \A x \in Run \ {r} : KeepsRun(x) \/ NewRun(x)
    PROVE  BootInv'
  <1>1. ~Booting /\ ~Booting' /\ phase' # "down"
    BY DEF BootInv, Booting
  <1>2. \A x \in Run \ {r} : RunFinal(x)'
    BY OtherRunsFinal DEF BootInv, HistoryInv, RunRecords
  <1> QED BY <1>1, <1>2 DEF BootInv

\* The steps of a run: they finish no record twice.
LEMMA RunStepsFinal ==
    ASSUME SlotInv, HistoryInv, BootInv, NEW r \in Run, RunStep(r) \/ OpenFails(r) \/ FinishFails(r)
    PROVE  BootInv' /\ \A e \in Execs : RecordFinal(e)
  <1> USE DEF lifeVars, jobVars, slotVars, attemptVars, historyVars, stateVars
  <1>0. /\ TypeOK /\ RunFinal(r) /\ RunRecords(r) /\ attempt[r] \in Attempts
        /\ \A x \in Run : attempt[x] \in Attempts
    BY DEF SlotInv, BootInv, HistoryInv, RunRecords
  <1>1. ASSUME Release(r), Live(r), UNCHANGED <<phase, store, doomed>>
        PROVE  BootInv' /\ \A e \in Execs : RecordFinal(e)
    <2>1. \A x \in Run \ {r} : KeepsRun(x) \/ NewRun(x)
      BY <1>1, ReleaseStages DEF KeepsRun, NewRun, Newcomer
    <2>2. RunFinal(r)'
      BY <1>1, ReleaseStages DEF RunFinal
    <2> QED BY <1>1, <2>1, <2>2, LiveFinal DEF RecordFinal
  <1>2. CASE OpenFails(r) \/ FinishFails(r) \/ RunEnds(r) \/ DelayCancelled(r)
    <2>1. Release(r) /\ Live(r) /\ UNCHANGED <<phase, store, doomed>>
      BY <1>2 DEF OpenFails, FinishFails, RunEnds, DelayCancelled, Live
    <2> QED BY <1>1, <2>1
  <1>3. CASE TriggerLaunch(r) \/ BeginAttempt(r) \/ RetryLater(r) \/ DelayExpires(r)
    <2>1. /\ Live(r) /\ UNCHANGED <<phase, store, doomed>> /\ pc'[r] \notin {"executing", "saving"}
          /\ \A x \in Run \ {r} : /\ pc'[x] = pc[x] /\ attempt'[x] = attempt[x]
                                  /\ outcome'[x] = outcome[x]
      BY <1>0, <1>3 DEF TriggerLaunch, BeginAttempt, RetryLater, DelayExpires, Live, MoveTo, TypeOK
    <2>2. RunFinal(r)' /\ \A x \in Run \ {r} : KeepsRun(x)
      BY <2>1 DEF RunFinal, KeepsRun
    <2> QED BY <2>1, <2>2, LiveFinal DEF RecordFinal
  <1>4. ASSUME NEW st, store' = [store EXCEPT ![<<r, attempt[r]>>] = st]
        PROVE  /\ store'[<<r, attempt[r]>>] = st
               /\ \A x \in Run \ {r}, a \in Attempts : store'[<<x, a>>] = store[<<x, a>>]
               /\ \A e \in Execs : e # <<r, attempt[r]>> => store'[e] = store[e]
    BY <1>0, <1>4 DEF TypeOK, Execs
  <1>5. CASE OpenSaved(r)
    <2>1. /\ Live(r) /\ UNCHANGED <<phase, doomed, attempt, outcome>> /\ pc'[r] = "executing"
          /\ pc[r] = "opening" /\ store' = [store EXCEPT ![<<r, attempt[r]>>] = "running"]
          /\ \A x \in Run \ {r} : pc'[x] = pc[x]
      BY <1>0, <1>5 DEF OpenSaved, Live, MoveTo, TypeOK, Exec
    <2>2. store[<<r, attempt[r]>>] = "none"
      BY <1>0, <2>1 DEF RunRecords
    <2>3. RunFinal(r)' /\ \A x \in Run \ {r} : KeepsRun(x)
      BY <1>4, <2>1 DEF RunFinal, KeepsRun
    <2>4. \A e \in Execs : RecordFinal(e)
      BY <1>4, <2>1, <2>2 DEF RecordFinal, Outcomes
    <2> QED BY <2>1, <2>3, <2>4, LiveFinal
  <1>6. ASSUME NEW how \in Endings, JobEnds(r, how)
        PROVE  BootInv' /\ \A e \in Execs : RecordFinal(e)
    <2>1. /\ Live(r) /\ UNCHANGED <<phase, doomed, attempt>> /\ pc'[r] = "saving"
          /\ pc[r] = "executing" /\ outcome'[r] = StatusOf(r, how)
          /\ store' = [store EXCEPT ![<<r, attempt[r]>>] = StatusOf(r, how)] \/ store' = store
          /\ \A x \in Run \ {r} : pc'[x] = pc[x] /\ outcome'[x] = outcome[x]
      BY <1>0, <1>6 DEF JobEnds, Live, MoveTo, TypeOK, Exec
    <2>2. store[<<r, attempt[r]>>] = "running"
      BY <1>0, <2>1 DEF RunFinal
    <2>3. RunFinal(r)' /\ \A x \in Run \ {r} : KeepsRun(x)
      BY <1>4, <2>1, <2>2 DEF RunFinal, KeepsRun
    <2>4. \A e \in Execs : RecordFinal(e)
      BY <1>4, <2>1, <2>2 DEF RecordFinal, Outcomes
    <2> QED BY <2>1, <2>3, <2>4, LiveFinal
  <1>7. ASSUME NEW discard \in BOOLEAN, FinishSaved(r, discard)
        PROVE  BootInv' /\ \A e \in Execs : RecordFinal(e)
    <2> DEFINE final == IF discard THEN "gone" ELSE outcome[r]
    <2>1. /\ Live(r) /\ UNCHANGED <<phase, doomed, attempt, outcome>> /\ pc'[r] = "persisting"
          /\ pc[r] = "saving" /\ store' = [store EXCEPT ![<<r, attempt[r]>>] = final]
          /\ \A x \in Run \ {r} : pc'[x] = pc[x]
      BY <1>0, <1>7 DEF FinishSaved, Live, MoveTo, TypeOK, Exec
    <2>2. store[<<r, attempt[r]>>] \in {"running", outcome[r]} /\ final \in {"gone", outcome[r]}
      BY <1>0, <2>1 DEF RunFinal
    <2> HIDE DEF final
    <2>3. RunFinal(r)' /\ \A x \in Run \ {r} : KeepsRun(x)
      BY <1>4, <2>1 DEF RunFinal, KeepsRun
    <2>4. \A e \in Execs : RecordFinal(e)
      BY <1>4, <2>1, <2>2 DEF RecordFinal, Outcomes
    <2> QED BY <2>1, <2>3, <2>4, LiveFinal
  <1> QED BY <1>2, <1>3, <1>5, <1>6, <1>7 DEF RunStep

\* The other steps.  Those of a scheduler that boots are written out; the API
\* and the timers work only later.
LEMMA NextBoot ==
    ASSUME ~InProcessRestart, SlotInv, HistoryInv, BootInv, [Next]_vars
    PROVE  BootInv' /\ \A e \in Execs : RecordFinal(e)
  <1> USE DEF lifeVars, jobVars, slotVars, attemptVars, historyVars, stateVars
  <1>0. /\ TypeOK /\ \A x \in Run : RunFinal(x) /\ RunRecords(x) /\ attempt[x] \in Attempts
        /\ phase = "down" => stale = {}
        /\ Booting => /\ \A r \in Run : ~Live(r)
                      /\ \A j \in Jobs : timers[j] = 0
                      /\ doomed = {} /\ \A e \in stale : store[e] = "running"
    BY DEF SlotInv, BootInv, HistoryInv, RunRecords
  <1>1. ASSUME UNCHANGED <<store, doomed, attempt, outcome, pc, timers>>,
               Booting' => Booting, phase' = "down" => stale' = {},
               Booting' => \A e \in stale' : store[e] = "running"
        PROVE  BootInv' /\ \A e \in Execs : RecordFinal(e)
    BY <1>0, <1>1 DEF BootInv, RunFinal, Live, RecordFinal
  <1>2. CASE StartBegin
    BY <1>0, <1>1, <1>2 DEF StartBegin, Booting
  <1>3. CASE \E j \in Jobs : ListStale(j)
    BY <1>0, <1>1, <1>3 DEF ListStale, Booting
  <1>4. CASE ListReturned \/ ScanFails \/ ScanEnd
    BY <1>0, <1>1, <1>4 DEF ListReturned, ScanFails, ScanEnd, Booting
  <1>5. CASE StopEnd \/ UNCHANGED vars
    BY <1>0, <1>1, <1>5 DEF StopEnd, vars, Booting
  <1>6. CASE \E j \in Jobs : \E i \in 1..Len(writes[j]) : StoreApplies(j, i) \/ StoreRaises(j, i)
    BY <1>0, <1>1, <1>6 DEF StoreApplies, StoreRaises, Booting
  <1>7. ASSUME NEW e \in Execs, SaveStale(e)
        PROVE  BootInv' /\ \A d \in Execs : RecordFinal(d)
    <2>1. /\ Booting /\ phase' = phase /\ phase # "down" /\ e \in stale /\ stale' = stale \ {e}
          /\ store' = [store EXCEPT ![e] = "cancelled"]
          /\ UNCHANGED <<doomed, attempt, outcome, pc, timers>>
      BY <1>7 DEF SaveStale, Booting
    <2>2. store[e] = "running" /\ \A r \in Run : ~Live(r)
      BY <1>0, <2>1
    <2>3. \A d \in Execs : RecordFinal(d)
      BY <1>0, <2>1, <2>2 DEF RecordFinal, TypeOK, Outcomes
    <2>4. \A d \in stale' : store'[d] = "running"
      BY <1>0, <2>1 DEF TypeOK
    <2> QED BY <1>0, <2>1, <2>2, <2>3, <2>4 DEF BootInv, RunFinal, Live, Booting
  <1>8. ASSUME ~Booting, phase' = phase, UNCHANGED <<store, doomed, attempt, outcome>>,
               \A x \in Run : pc'[x] = pc[x] \/ Newcomer(x)
        PROVE  BootInv' /\ \A e \in Execs : RecordFinal(e)
    <2>1. \A x \in Run : KeepsRun(x) \/ NewRun(x)
      BY <1>8 DEF KeepsRun, NewRun, Newcomer
    <2>2. \A x \in Run : RunFinal(x)'
      BY <1>0, <2>1, OtherRunsFinal
    <2> QED BY <1>8, <2>2 DEF BootInv, Booting, RecordFinal
  <1>9. ASSUME NEW j \in Jobs,
               \/ Trigger(j) \/ Pause(j) \/ Resume(j) \/ StopJob(j) \/ CancelCurrent(j)
               \/ TimerFire(j)
               \/ \E o \in Options : UpdateOptions(j, o) \/ UpdateRejected(j, o)
        PROVE  BootInv' /\ \A e \in Execs : RecordFinal(e)
    <2>1. /\ UNCHANGED <<store, doomed, attempt, outcome>>
          /\ \A x \in Run : pc'[x] = pc[x] \/ Newcomer(x)
      BY <1>9, QuietSteps
    <2>2. phase' = phase /\ (phase = "up" \/ timers[j] > 0)
      BY <1>9 DEF Trigger, Pause, Resume, StopJob, CancelCurrent, UpdateOptions, UpdateRejected,
         TimerFire
    <2>3. ~Booting
      BY <1>0, <2>2 DEF Booting
    <2> QED BY <1>8, <2>1, <2>2, <2>3
  <1>10. ASSUME NEW j \in Jobs, LoadJob(j) \/ Stop(j)
         PROVE  BootInv' /\ \A e \in Execs : RecordFinal(e)
    <2>1. /\ UNCHANGED <<store, doomed, attempt, outcome>>
          /\ \A x \in Run : pc'[x] = pc[x] \/ Newcomer(x)
      BY <1>10, QuietSteps
    <2>2. ~Booting' /\ phase' # "down"
      BY <1>10 DEF LoadJob, Stop, Booting
    <2>3. \A x \in Run : KeepsRun(x) \/ NewRun(x)
      BY <2>1 DEF KeepsRun, NewRun, Newcomer
    <2>4. \A x \in Run : RunFinal(x)'
      BY <1>0, <2>3, OtherRunsFinal
    <2> QED BY <2>1, <2>2, <2>4 DEF BootInv, RecordFinal
  <1>11. ASSUME NEW e \in Execs, DeleteChecked(e)
         PROVE  BootInv' /\ \A d \in Execs : RecordFinal(d)
    <2>1. phase = "up" /\ UNCHANGED <<phase, store, attempt, outcome, pc>>
      BY <1>11 DEF DeleteChecked
    <2> QED BY <1>0, <2>1 DEF BootInv, Booting, RunFinal, RecordFinal
  <1>12. ASSUME NEW e \in Execs, DeleteApplied(e)
         PROVE  BootInv' /\ \A d \in Execs : RecordFinal(d)
    <2>1. e \in doomed /\ store' = [store EXCEPT ![e] = "gone"] /\ UNCHANGED <<phase, attempt, outcome, pc>>
      BY <1>12 DEF DeleteApplied
    <2>2. ~Booting
      BY <1>0, <2>1
    <2>3. ~Owned(e)
      <3>1. PICK x \in Run, b \in Attempts : e = <<x, b>>
        BY DEF Execs
      <3> QED BY <1>0, <2>1, <3>1 DEF RunRecords
    <2>4. \A x \in Run : pc[x] \in {"executing", "saving"} =>
             store'[<<x, attempt[x]>>] = store[<<x, attempt[x]>>]
      BY <1>0, <2>1, <2>3 DEF Owned, InAttempt, TypeOK
    <2>5. \A x \in Run : RunFinal(x)'
      BY <1>0, <2>1, <2>4 DEF RunFinal
    <2>6. \A d \in Execs : RecordFinal(d)
      BY <1>0, <2>1 DEF RecordFinal, TypeOK
    <2> QED BY <2>1, <2>2, <2>5, <2>6 DEF BootInv, Booting
  <1>13. CASE Crash
    <2>1. /\ phase' = "down" /\ stale' = {} /\ doomed' = {} /\ \A j \in Jobs : timers'[j] = 0
          /\ \A r \in Run : pc'[r] = IF Live(r) THEN "done" ELSE pc[r]
      BY <1>13 DEF Crash
    <2>2. \A r \in Run : pc'[r] \in {"idle", "done"}
      BY <2>1 DEF Live
    <2>3. \A e \in Execs : RecordFinal(e)
      BY <1>13 DEF Crash, RecordFinal, Outcomes
    <2> QED BY <2>1, <2>2, <2>3 DEF BootInv, RunFinal, Live
  <1>14. ASSUME NEW r \in Run, RunStep(r) \/ OpenFails(r) \/ FinishFails(r)
         PROVE  BootInv' /\ \A e \in Execs : RecordFinal(e)
    BY <1>14, RunStepsFinal
  <1> QED
    BY <1>2, <1>3, <1>4, <1>5, <1>6, <1>7, <1>9, <1>10, <1>11, <1>12, <1>13, <1>14
    DEF Next, Lifecycle, Request, StoreStep

LEMMA InitBoot == Init => BootInv
  BY DEF Init, BootInv, RunFinal, Live

\* History is final: in a process that starts its scheduler once, a record that
\* is finished never changes and can only be deleted, in every store, with
\* and without failures, through crashes and the recovery of the next process.
THEOREM HistoryStaysFinal ==
    ASSUME ~InProcessRestart
    PROVE  Spec => HistoryIsFinal
  <1>1. SlotInv /\ HistoryInv /\ BootInv /\ [Next]_vars => BootInv'
    BY NextBoot
  <1>2. SlotInv /\ HistoryInv /\ BootInv /\ [Next]_vars
        => [\A e \in Execs : store[e] \in Outcomes \cup {"gone"}
                               => store'[e] \in {store[e], "gone"}]_vars
    BY NextBoot DEF RecordFinal
  <1> QED BY <1>1, <1>2, InitBoot, SlotInvariance, HistoryInvariance, PTL DEF Spec, HistoryIsFinal

-----------------------------------------------------------------------------
(* Executions that run, with a store that does not fail.                   *)

\* What is "running" in the store is an attempt that some run is in, or, while
\* start() looks for interrupted runs, one it will still look at.
OwnedInv ==
    /\ phase \in {"finishing", "listing"} =>
          \A e \in Execs : store[e] = "running" => Owned(e) \/ jobOf[e[1]] \in todo \/ e \in stale
    /\ phase \in {"loading", "up", "stopping", "stopped"} =>
          \A e \in Execs : store[e] = "running" => Owned(e)

\* The executions that the registrations call running are the owned ones.
LEMMA RunningIsOwnedExecs ==
    ASSUME SlotInv, HistoryInv
    PROVE  /\ \A e \in Execs : e \in RunningExecutions <=> Owned(e)
  <1>1. ASSUME NEW e \in Execs, Owned(e) PROVE e \in RunningExecutions
    <2>1. e[1] \in Run /\ e = <<e[1], e[2]>>
      BY DEF Execs
    <2>2. e[1] \in runs[jobOf[e[1]]] /\ jobOf[e[1]] \in Jobs
      <3>1. jobOf[e[1]] \in Jobs /\ Live(e[1])
        BY <1>1, <2>1 DEF SlotInv, TypeOK, Live, Owned, InAttempt
      <3> QED BY <2>1, <3>1 DEF SlotInv, SlotsHeldByLiveRuns
    <2> QED BY <1>1, <2>1, <2>2 DEF RunningExecutions, Owned
  <1>2. ASSUME NEW e \in Execs, e \in RunningExecutions PROVE Owned(e)
    BY <1>2 DEF RunningExecutions, Owned
  <1> QED BY <1>1, <1>2

\* A step that leaves start() where it is keeps the invariant when every record
\* that runs after it is owned, or was without an owner before it.
LEMMA OwnedKeeps ==
    ASSUME OwnedInv, UNCHANGED <<phase, todo, stale>>,
           \A e \in Execs : store'[e] = "running" =>
               Owned(e)' \/ (store[e] = "running" /\ ~Owned(e) /\ jobOf'[e[1]] = jobOf[e[1]])
    PROVE  OwnedInv'
  BY DEF OwnedInv

\* A run that a step leaves alone, or gives a slot, has no part in this.
LEMMA OtherRunsOwned ==
    ASSUME HistoryInv, NEW x \in Run,
           (pc'[x] = pc[x] /\ jobOf'[x] = jobOf[x]) \/ Newcomer(x),
           attempt'[x] = attempt[x],
           \A a \in Attempts : store'[<<x, a>>] = "running" => store[<<x, a>>] = "running"
    PROVE  \A e \in Execs : e[1] = x /\ store'[e] = "running" =>
               Owned(e)' \/ (store[e] = "running" /\ ~Owned(e) /\ jobOf'[e[1]] = jobOf[e[1]])
  <1> SUFFICES ASSUME NEW a \in Attempts, store'[<<x, a>>] = "running"
               PROVE  \/ Owned(<<x, a>>)'
                      \/ /\ store[<<x, a>>] = "running" /\ ~Owned(<<x, a>>)
                         /\ jobOf'[x] = jobOf[x]
    BY DEF Execs
  <1>1. ~Newcomer(x)
    BY DEF HistoryInv, RunRecords, Newcomer
  <1> QED BY <1>1 DEF Owned, InAttempt

\* The steps of a run.
LEMMA RunStepsOwned ==
    ASSUME SlotInv, HistoryInv, OwnedInv, NEW r \in Run, RunStep(r)
    PROVE  OwnedInv'
  <1> USE DEF lifeVars, jobVars, slotVars, attemptVars, historyVars, stateVars
  <1> DEFINE Good(e) == store'[e] = "running" =>
                Owned(e)' \/ (store[e] = "running" /\ ~Owned(e) /\ jobOf'[e[1]] = jobOf[e[1]])
  <1>0. TypeOK /\ RunRecords(r) /\ attempt[r] \in Attempts
    BY DEF SlotInv, HistoryInv, RunRecords
  <1>1. ASSUME UNCHANGED <<phase, todo, stale>>,
               \A x \in Run \ {r} : /\ (pc'[x] = pc[x] /\ jobOf'[x] = jobOf[x]) \/ Newcomer(x)
                                    /\ attempt'[x] = attempt[x],
               \A x \in Run \ {r}, a \in Attempts : store'[<<x, a>>] = store[<<x, a>>],
               \A a \in Attempts : Good(<<r, a>>)
        PROVE  OwnedInv'
    <2>1. ASSUME NEW e \in Execs PROVE Good(e)
      <3>1. PICK x \in Run, a \in Attempts : e = <<x, a>>
        BY DEF Execs
      <3>2. CASE x = r
        BY <1>1, <3>1, <3>2
      <3>3. CASE x # r
        <4>1. e[1] = x
          BY <3>1
        <4> QED BY <1>1, <3>3, <4>1, OtherRunsOwned
      <3> QED BY <3>2, <3>3
    <2> QED BY <1>1, <2>1, OwnedKeeps
  <1>2. CASE RunEnds(r) \/ DelayCancelled(r)
    <2>1. Release(r) /\ Live(r) /\ ~InAttempt(r) /\ UNCHANGED <<phase, todo, stale, store>>
      BY <1>2 DEF RunEnds, DelayCancelled, Live, InAttempt
    <2>2. jobOf'[r] = jobOf[r]
      BY <2>1, ReleaseStages
    <2>3. \A a \in Attempts : Good(<<r, a>>)
      BY <2>1, <2>2 DEF Owned
    <2> QED BY <1>1, <2>1, <2>3, ReleaseStages
  <1>3. CASE TriggerLaunch(r) \/ BeginAttempt(r) \/ RetryLater(r) \/ DelayExpires(r)
    <2>1. /\ ~InAttempt(r) /\ UNCHANGED <<phase, todo, stale, store, jobOf>>
          /\ \A x \in Run \ {r} : pc'[x] = pc[x] /\ attempt'[x] = attempt[x]
      BY <1>0, <1>3 DEF TriggerLaunch, BeginAttempt, RetryLater, DelayExpires, InAttempt, MoveTo,
         TypeOK
    <2>2. \A a \in Attempts : Good(<<r, a>>)
      BY <2>1 DEF Owned
    <2> QED BY <1>1, <2>1, <2>2
  <1>4. ASSUME NEW st, store' = [store EXCEPT ![<<r, attempt[r]>>] = st]
        PROVE  /\ store'[<<r, attempt[r]>>] = st
               /\ \A x \in Run \ {r}, a \in Attempts : store'[<<x, a>>] = store[<<x, a>>]
               /\ \A a \in Attempts : a # attempt[r] => store'[<<r, a>>] = store[<<r, a>>]
    BY <1>0, <1>4 DEF TypeOK, Execs
  <1>5. CASE OpenSaved(r) \/ \E how \in Endings : JobEnds(r, how)
    <2>1. /\ UNCHANGED <<phase, todo, stale, jobOf, attempt>>
          /\ InAttempt(r) /\ InAttempt(r)'
          /\ \A x \in Run \ {r} : pc'[x] = pc[x]
          /\ store' = store \/ \E st : store' = [store EXCEPT ![<<r, attempt[r]>>] = st]
      BY <1>0, <1>5 DEF OpenSaved, JobEnds, InAttempt, MoveTo, TypeOK, Exec
    <2>2. /\ \A x \in Run \ {r}, a \in Attempts : store'[<<x, a>>] = store[<<x, a>>]
          /\ \A a \in Attempts : a # attempt[r] => store'[<<r, a>>] = store[<<r, a>>]
      BY <1>4, <2>1
    <2>3. \A a \in Attempts : Good(<<r, a>>)
      BY <2>1, <2>2 DEF Owned
    <2> QED BY <1>1, <2>1, <2>2, <2>3
  <1>6. ASSUME NEW discard \in BOOLEAN, FinishSaved(r, discard) PROVE OwnedInv'
    <2> DEFINE final == IF discard THEN "gone" ELSE outcome[r]
    <2>1. /\ UNCHANGED <<phase, todo, stale, jobOf, attempt>> /\ pc[r] = "saving"
          /\ \A x \in Run \ {r} : pc'[x] = pc[x]
          /\ store' = [store EXCEPT ![<<r, attempt[r]>>] = final]
      BY <1>0, <1>6 DEF FinishSaved, MoveTo, TypeOK, Exec
    <2>2. final # "running"
      BY <1>0, <2>1 DEF RunRecords, Outcomes
    <2> HIDE DEF final
    <2>3. /\ \A x \in Run \ {r}, a \in Attempts : store'[<<x, a>>] = store[<<x, a>>]
          /\ \A a \in Attempts : a # attempt[r] => store'[<<r, a>>] = store[<<r, a>>]
          /\ store'[<<r, attempt[r]>>] # "running"
      BY <1>4, <2>1, <2>2
    <2>4. \A a \in Attempts : Good(<<r, a>>)
      BY <2>1, <2>3 DEF Owned
    <2> QED BY <1>1, <2>1, <2>3, <2>4
  <1> QED BY <1>2, <1>3, <1>5, <1>6 DEF RunStep

\* Every step.
LEMMA NextOwned ==
    ASSUME ~StoreMayFail, SlotInv, HistoryInv, OwnedInv, [Next]_vars
    PROVE  OwnedInv'
  <1> USE DEF lifeVars, jobVars, slotVars, attemptVars, historyVars, stateVars
  <1>0. TypeOK /\ \A x \in Run : RunRecords(x)
    BY DEF SlotInv, HistoryInv
  <1>1. \* What every quiet step does to the records that run.
        ASSUME store' = store, attempt' = attempt,
               \A x \in Run : (pc'[x] = pc[x] /\ jobOf'[x] = jobOf[x]) \/ Newcomer(x)
        PROVE  \A e \in Execs : store'[e] = "running" =>
                  store[e] = "running" /\ (Owned(e)' <=> Owned(e)) /\ jobOf'[e[1]] = jobOf[e[1]]
    <2> SUFFICES ASSUME NEW x \in Run, NEW a \in Attempts, store[<<x, a>>] = "running"
                 PROVE  (Owned(<<x, a>>)' <=> Owned(<<x, a>>)) /\ jobOf'[x] = jobOf[x]
      BY <1>1 DEF Execs
    <2>1. ~Newcomer(x)
      BY <1>0 DEF RunRecords, Newcomer
    <2> QED BY <1>1, <2>1 DEF Owned, InAttempt
  <1>2. CASE \/ \E j \in Jobs : \/ TimerFire(j) \/ Trigger(j) \/ Pause(j) \/ Resume(j) \/ StopJob(j)
                                \/ CancelCurrent(j)
                                \/ \E o \in Options : UpdateOptions(j, o) \/ UpdateRejected(j, o)
                                \/ \E i \in 1..Len(writes[j]) : StoreApplies(j, i)
    <2>1. UNCHANGED <<phase, todo, stale>>
      BY <1>2 DEF TimerFire, Trigger, Pause, Resume, StopJob, CancelCurrent, UpdateOptions,
         UpdateRejected, StoreApplies
    <2>2. /\ UNCHANGED <<store, attempt>>
          /\ \A x \in Run : (pc'[x] = pc[x] /\ jobOf'[x] = jobOf[x]) \/ Newcomer(x)
      BY <1>2, QuietSteps
    <2> QED BY <1>1, <2>1, <2>2, OwnedKeeps
  <1>3. CASE StopEnd \/ \E j \in Jobs : LoadJob(j) \/ Stop(j)
    <2>1. /\ phase \in {"loading", "up", "stopping", "stopped"}
          /\ phase' \in {"loading", "up", "stopping", "stopped"}
      BY <1>3 DEF StopEnd, LoadJob, Stop
    <2>2. /\ UNCHANGED <<store, attempt>>
          /\ \A x \in Run : (pc'[x] = pc[x] /\ jobOf'[x] = jobOf[x]) \/ Newcomer(x)
      BY <1>3, QuietSteps
    <2> QED BY <1>1, <2>1, <2>2 DEF OwnedInv
  <1>4. CASE StartBegin
    <2>1. phase' = "finishing" /\ todo' = Jobs /\ UNCHANGED <<store, jobOf>>
      BY <1>4 DEF StartBegin
    <2>2. \A e \in Execs : jobOf[e[1]] \in Jobs
      BY <1>0 DEF TypeOK, Execs
    <2> QED BY <2>1, <2>2 DEF OwnedInv
  <1>5. ASSUME NEW j \in Jobs, ListStale(j) PROVE OwnedInv'
    <2>1. /\ phase = "finishing" /\ phase' = "listing" /\ stale = {} /\ todo' = todo \ {j}
          /\ stale' = {e \in Execs : store[e] = "running" /\ jobOf[e[1]] = j}
          /\ UNCHANGED <<store, jobOf, pc, attempt>>
      BY <1>5 DEF ListStale
    <2> QED BY <2>1 DEF OwnedInv, Owned, InAttempt
  <1>6. CASE ListReturned
    <2>1. /\ phase = "listing" /\ phase' = "finishing" /\ stale' = stale \ RunningExecutions
          /\ UNCHANGED <<todo, store, jobOf, pc, attempt>>
      BY <1>6 DEF ListReturned
    <2>2. \A e \in Execs : e \in RunningExecutions => Owned(e)
      BY RunningIsOwnedExecs
    <2>3. \A e \in Execs : Owned(e)' <=> Owned(e)
      BY <2>1 DEF Owned, InAttempt
    <2> QED BY <2>1, <2>2, <2>3 DEF OwnedInv
  <1>7. ASSUME NEW e \in Execs, SaveStale(e) PROVE OwnedInv'
    <2>1. /\ store' = [store EXCEPT ![e] = "cancelled"] /\ stale' = stale \ {e}
          /\ phase = "finishing" /\ UNCHANGED <<phase, todo, jobOf, pc, attempt>>
      BY <1>7 DEF SaveStale
    <2>2. \A d \in Execs : store'[d] = "running" => store[d] = "running" /\ d # e
      BY <1>0, <2>1 DEF TypeOK
    <2>3. \A d \in Execs : Owned(d)' <=> Owned(d)
      BY <2>1 DEF Owned, InAttempt
    <2> QED BY <2>1, <2>2, <2>3 DEF OwnedInv
  <1>8. CASE ScanEnd
    <2>1. /\ phase = "finishing" /\ phase' = "loading" /\ stale = {} /\ todo = {}
          /\ UNCHANGED <<store, jobOf, pc, attempt>>
      BY <1>8 DEF ScanEnd
    <2>2. \A d \in Execs : Owned(d)' <=> Owned(d)
      BY <2>1 DEF Owned, InAttempt
    <2> QED BY <2>1, <2>2 DEF OwnedInv
  <1>9. ASSUME NEW e \in Execs, DeleteChecked(e) \/ DeleteApplied(e) PROVE OwnedInv'
    <2>1. /\ store' = store \/ store' = [store EXCEPT ![e] = "gone"]
          /\ UNCHANGED <<phase, todo, stale, jobOf, pc, attempt>>
      BY <1>9 DEF DeleteChecked, DeleteApplied
    <2>2. \A d \in Execs : store'[d] = "running" => store[d] = "running"
      BY <1>0, <2>1 DEF TypeOK
    <2>3. \A d \in Execs : Owned(d)' <=> Owned(d)
      BY <2>1 DEF Owned, InAttempt
    <2> QED BY <2>1, <2>2, <2>3, OwnedKeeps
  <1>10. CASE Crash
    BY <1>10 DEF Crash, OwnedInv
  <1>11. CASE UNCHANGED vars
    BY <1>11 DEF vars, OwnedInv, Owned, InAttempt
  <1>12. ASSUME NEW r \in Run, RunStep(r) PROVE OwnedInv'
    BY <1>12, RunStepsOwned
  <1>13. /\ ~ScanFails /\ \A r \in Run : ~OpenFails(r) /\ ~FinishFails(r)
         /\ \A j \in Jobs : \A i \in 1..Len(writes[j]) : ~StoreRaises(j, i)
    BY DEF ScanFails, OpenFails, FinishFails, StoreRaises
  <1> QED
    BY <1>2, <1>3, <1>4, <1>5, <1>6, <1>7, <1>8, <1>9, <1>10, <1>11, <1>12, <1>13
    DEF Next, Lifecycle, Request, StoreStep

\* "running" is the truth: with a store that answers every call, the history of
\* a server that is up shows an execution as running only while its run is in
\* that attempt, through crashes at any moment and any number of restarts.
THEOREM RunningIsTrue ==
    ASSUME ~StoreMayFail
    PROVE  Spec => []RunningIsOwned
  <1>1. Init => OwnedInv
    BY DEF Init, OwnedInv
  <1>2. SlotInv /\ HistoryInv /\ OwnedInv /\ [Next]_vars => OwnedInv'
    BY NextOwned
  <1>3. SlotInv /\ HistoryInv /\ OwnedInv => RunningIsOwned
    BY RunningIsOwnedExecs DEF OwnedInv, RunningIsOwned
  <1> QED BY <1>1, <1>2, <1>3, SlotInvariance, HistoryInvariance, PTL DEF Spec

-----------------------------------------------------------------------------
(* The timers.  An update that is rejected half-way changes the schedule   *)
(* but not the timer, and a stop() that is cut short by the store leaves   *)
(* timers for a second start(): only without them is the timer exact.      *)

Due(j) == IF status[j] = "active" /\ opt[j].kind # "none" THEN 1 ELSE 0

\* The timer of a job that start() has loaded.
Tuned(j) ==
    /\ timers[j] = 0 \/ (timers[j] = 1 /\ Due(j) = 1)
    /\ "invalid update" \notin Requests => timers[j] = Due(j)

TimerOf(j) ==
    /\ phase \in {"down", "finishing", "listing"} => timers[j] = 0
    /\ phase = "loading" => IF j \in todo THEN timers[j] = 0 ELSE Tuned(j)
    /\ phase = "up" => Tuned(j)
    /\ phase = "stopping" => IF j \in todo THEN timers[j] \in {0, 1} ELSE timers[j] = 0
    /\ phase = "stopped" => StoreMayFail \/ timers[j] = 0

TimerInv == \A j \in Jobs : TimerOf(j)

\* A job whose timer, status and options a step leaves alone.
LEMMA OtherTimers ==
    ASSUME NEW j \in Jobs, TimerOf(j), UNCHANGED phase, j \in todo' <=> j \in todo,
           timers'[j] = timers[j], status'[j] = status[j], opt'[j] = opt[j]
    PROVE  TimerOf(j)'
  BY DEF TimerOf, Tuned, Due

\* The steps of start() and stop().
LEMMA LifecycleTimers ==
    ASSUME TypeOK, TimerInv, InProcessRestart => ~StoreMayFail, Lifecycle
    PROVE  TimerInv'
  <1> USE DEF lifeVars, jobVars, slotVars, attemptVars, historyVars, stateVars
  <1>1. CASE StartBegin
    BY <1>1 DEF StartBegin, TimerInv, TimerOf
  <1>2. CASE \/ ListReturned \/ ScanFails \/ \E j \in Jobs : ListStale(j)
             \/ \E e \in Execs : SaveStale(e)
    <2>1. /\ phase \in {"finishing", "listing"} /\ phase' \in {"finishing", "listing"}
          /\ timers' = timers
      BY <1>2 DEF ListReturned, ScanFails, ListStale, SaveStale
    <2> QED BY <2>1 DEF TimerInv, TimerOf
  <1>3. CASE ScanEnd
    BY <1>3 DEF ScanEnd, TimerInv, TimerOf
  <1>4. CASE StopEnd
    BY <1>4 DEF StopEnd, TimerInv, TimerOf
  <1>5. CASE Crash
    BY <1>5 DEF Crash, TimerInv, TimerOf
  <1>6. ASSUME NEW j \in Jobs, LoadJob(j) PROVE TimerInv'
    <2>1. /\ phase = "loading" /\ j \in todo /\ todo' = todo \ {j} /\ todo \subseteq Jobs
          /\ phase' = IF todo = {j} THEN "up" ELSE "loading"
          /\ status'[j] = Restored(j) /\ opt' = opt
          /\ timers'[j] = IF Restored(j) = "active" THEN Armed(timers[j], opt[j].kind) ELSE timers[j]
          /\ \A k \in Jobs \ {j} : timers'[k] = timers[k] /\ status'[k] = status[k]
      BY <1>6 DEF LoadJob, TypeOK
    <2>2. timers[j] = 0
      BY <2>1 DEF TimerInv, TimerOf
    <2>3. Tuned(j)'
      <3>1. timers'[j] = IF Restored(j) = "active" /\ opt[j].kind # "none" THEN 1 ELSE 0
        BY <2>1, <2>2 DEF Armed
      <3> QED BY <2>1, <3>1 DEF Tuned, Due
    <2>4. \A k \in Jobs \ {j} : k \notin todo => Tuned(k)'
      BY <2>1 DEF TimerInv, TimerOf, Tuned, Due
    <2>5. \A k \in Jobs \ {j} : k \in todo => timers'[k] = 0 /\ phase' = "loading"
      BY <2>1 DEF TimerInv, TimerOf
    <2> QED BY <2>1, <2>3, <2>4, <2>5 DEF TimerInv, TimerOf
  <1>7. ASSUME NEW j \in Jobs, Stop(j) PROVE TimerInv'
    <2>1. /\ phase' = "stopping" /\ timers'[j] = Disarmed(timers[j])
          /\ \A k \in Jobs \ {j} : timers'[k] = timers[k]
          /\ \/ phase = "up" /\ todo' = Jobs \ {j}
             \/ phase = "stopping" /\ j \in todo /\ todo' = todo \ {j}
      BY <1>7 DEF Stop, TypeOK
    <2>2. timers[j] \in {0, 1}
      BY <2>1 DEF TimerInv, TimerOf, Tuned
    <2>3. timers'[j] = 0
      BY <2>1, <2>2 DEF Disarmed
    <2>4. \A k \in Jobs \ {j} : IF k \in todo' THEN timers'[k] \in {0, 1} ELSE timers'[k] = 0
      BY <2>1 DEF TimerInv, TimerOf, Tuned
    <2> QED BY <2>1, <2>3, <2>4 DEF TimerInv, TimerOf
  <1> QED BY <1>1, <1>2, <1>3, <1>4, <1>5, <1>6, <1>7 DEF Lifecycle

\* The steps of the API and of the timers themselves, which concern one job.
LEMMA RequestTimers ==
    ASSUME TypeOK, TimerInv, NEW j \in Jobs,
           \/ TimerFire(j) \/ Pause(j) \/ Resume(j) \/ StopJob(j)
           \/ \E o \in Options : UpdateOptions(j, o) \/ UpdateRejected(j, o)
    PROVE  TimerInv'
  <1> USE DEF lifeVars, jobVars, slotVars, attemptVars, historyVars, stateVars
  <1>0. TimerOf(j)
    BY DEF TimerInv
  <1>1. UNCHANGED <<phase, todo>>
    BY DEF TimerFire, Pause, Resume, StopJob, UpdateOptions, UpdateRejected
  <1>2. \A k \in Jobs \ {j} : timers'[k] = timers[k] /\ status'[k] = status[k] /\ opt'[k] = opt[k]
    <2>1. /\ timers' = timers \/ \E n : timers' = [timers EXCEPT ![j] = n]
          /\ status' = status \/ \E st : status' = [status EXCEPT ![j] = st]
          /\ opt' = opt \/ \E o : opt' = [opt EXCEPT ![j] = o]
      BY DEF TimerFire, Pause, Resume, StopJob, UpdateOptions, UpdateRejected
    <2> QED BY <2>1 DEF TypeOK
  <1>3. TimerOf(j)'
    <2>1. CASE TimerFire(j)
      <3>1. timers[j] > 0 /\ UNCHANGED <<status, opt>>
        BY <2>1 DEF TimerFire
      <3>2. timers[j] \in Nat
        BY DEF TypeOK
      <3>3. \/ /\ Running /\ status[j] = "active"
               /\ timers'[j] = Armed(timers[j] - 1, opt[j].kind)
            \/ ~(Running /\ status[j] = "active") /\ timers'[j] = timers[j] - 1
        BY <2>1 DEF TimerFire, TypeOK
      <3>4. phase \in Phases
        BY DEF TypeOK
      <3>5. CASE Running /\ status[j] = "active"
        <4>1. /\ phase = "up" \/ (phase = "loading" /\ j \notin todo)
              /\ timers[j] = 1 /\ opt[j].kind # "none"
          <5>1. timers[j] # 0
            BY <3>1
          <5>2. Tuned(j) /\ (phase = "up" \/ (phase = "loading" /\ j \notin todo))
            BY <1>0, <3>5, <5>1 DEF TimerOf, Running
          <5>3. Due(j) = 1 => opt[j].kind # "none"
            BY DEF Due
          <5> QED BY <5>1, <5>2, <5>3 DEF Tuned
        <4>2. timers'[j] = 1
          BY <3>3, <3>5, <4>1 DEF Armed
        <4>3. Tuned(j)'
          BY <3>1, <3>5, <4>1, <4>2 DEF Tuned, Due
        <4> QED BY <1>1, <4>1, <4>3 DEF TimerOf
      <3>6. CASE ~(Running /\ status[j] = "active")
        <4>1. CASE Running
          <5>1. timers[j] = 0
            BY <1>0, <3>4, <3>6, <4>1 DEF TimerOf, Tuned, Due, Running, Phases
          <5> QED BY <3>1, <5>1
        <4>2. CASE ~Running
          BY <1>0, <1>1, <3>1, <3>2, <3>3, <3>6, <4>2 DEF TimerOf, Running
        <4> QED BY <4>1, <4>2
      <3> QED BY <3>5, <3>6
    <2>2. CASE Pause(j) \/ StopJob(j)
      <3>1. phase = "up" /\ timers'[j] = Disarmed(timers[j]) /\ status'[j] # "active"
        BY <2>2 DEF Pause, StopJob, TypeOK
      <3>2. timers[j] \in {0, 1}
        BY <1>0, <3>1 DEF TimerOf, Tuned
      <3>3. timers'[j] = 0
        BY <3>1, <3>2 DEF Disarmed
      <3> QED BY <1>1, <3>1, <3>3 DEF TimerOf, Tuned, Due
    <2>3. CASE Resume(j)
      <3>1. /\ phase = "up" /\ status[j] = "paused" /\ timers'[j] = Armed(timers[j], opt[j].kind)
            /\ status'[j] = "active" /\ opt' = opt
        BY <2>3 DEF Resume, TypeOK
      <3>2. timers[j] = 0
        BY <1>0, <3>1 DEF TimerOf, Tuned, Due
      <3>3. timers'[j] = IF opt[j].kind # "none" THEN 1 ELSE 0
        BY <3>1, <3>2 DEF Armed
      <3> QED BY <1>1, <3>1, <3>3 DEF TimerOf, Tuned, Due
    <2>4. ASSUME NEW o \in Options, UpdateOptions(j, o) PROVE TimerOf(j)'
      <3>1. /\ phase = "up" /\ opt'[j] = o /\ status' = status
            /\ timers'[j] = IF status[j] = "active" THEN Armed(Disarmed(timers[j]), o.kind) ELSE timers[j]
        BY <2>4 DEF UpdateOptions, TypeOK
      <3>2. /\ timers[j] \in {0, 1}
            /\ status[j] # "active" => timers[j] = 0
        BY <1>0, <3>1 DEF TimerOf, Tuned, Due
      <3>3. Disarmed(timers[j]) = 0
        BY <3>2 DEF Disarmed
      <3>4. timers'[j] = IF status[j] = "active" /\ o.kind # "none" THEN 1 ELSE 0
        BY <3>1, <3>2, <3>3 DEF Armed
      <3> QED BY <1>1, <3>1, <3>4 DEF TimerOf, Tuned, Due
    <2>5. ASSUME NEW o \in Options, UpdateRejected(j, o) PROVE TimerOf(j)'
      <3>1. /\ phase = "up" /\ opt'[j] = o /\ UNCHANGED <<status, timers>>
            /\ o.kind # "none" \/ opt[j].kind = "none"
            /\ "invalid update" \in Requests
        BY <2>5 DEF UpdateRejected, TypeOK
      <3> QED BY <1>0, <1>1, <3>1 DEF TimerOf, Tuned, Due
    <2> QED BY <2>1, <2>2, <2>3, <2>4, <2>5
  <1>4. ASSUME NEW k \in Jobs \ {j} PROVE TimerOf(k)'
    BY <1>1, <1>2, OtherTimers DEF TimerInv
  <1> QED BY <1>3, <1>4 DEF TimerInv

\* Every step.
LEMMA NextTimers ==
    ASSUME InProcessRestart => ~StoreMayFail, TypeOK, TimerInv, [Next]_vars
    PROVE  TimerInv'
  <1> USE DEF lifeVars, jobVars, slotVars, attemptVars, historyVars, stateVars
  <1>1. CASE Lifecycle
    BY <1>1, LifecycleTimers
  <1>2. CASE \E j \in Jobs : \/ TimerFire(j) \/ Pause(j) \/ Resume(j) \/ StopJob(j)
                             \/ \E o \in Options : UpdateOptions(j, o) \/ UpdateRejected(j, o)
    BY <1>2, RequestTimers
  <1>3. CASE \/ \E j \in Jobs : \/ Trigger(j) \/ CancelCurrent(j)
                                \/ \E i \in 1..Len(writes[j]) : StoreApplies(j, i)
             \/ \E e \in Execs : DeleteChecked(e) \/ DeleteApplied(e)
             \/ UNCHANGED vars
    <2>1. UNCHANGED <<phase, todo, timers, status, opt>>
      BY <1>3 DEF Trigger, CancelCurrent, StoreApplies, DeleteChecked, DeleteApplied, vars
    <2> QED BY <2>1, OtherTimers DEF TimerInv
  <1>4. ASSUME NEW r \in Run, RunStep(r) \/ OpenFails(r) \/ FinishFails(r) PROVE TimerInv'
    <2>1. UNCHANGED <<phase, todo, timers, status, opt>>
      BY <1>4 DEF RunStep, TriggerLaunch, BeginAttempt, OpenSaved, JobEnds, FinishSaved, RetryLater,
         RunEnds, DelayCancelled, DelayExpires, OpenFails, FinishFails
    <2> QED BY <2>1, OtherTimers DEF TimerInv
  <1>5. ASSUME NEW j \in Jobs, NEW i \in 1..Len(writes[j]), StoreRaises(j, i) PROVE TimerInv'
    <2>1. /\ StoreMayFail /\ phase' \in {phase, "stopped"}
          /\ UNCHANGED <<todo, timers, status, opt>>
      BY <1>5 DEF StoreRaises
    <2> QED BY <2>1 DEF TimerInv, TimerOf, Tuned, Due
  <1> QED BY <1>1, <1>2, <1>3, <1>4, <1>5 DEF Next, Request, StoreStep

LEMMA TimerInvariance ==
    ASSUME InProcessRestart => ~StoreMayFail
    PROVE  Spec => []TimerInv
  <1>1. Init => TimerInv
    BY DEF Init, TimerInv, TimerOf
  <1>2. TypeOK /\ TimerInv /\ [Next]_vars => TimerInv'
    BY NextTimers
  <1> QED BY <1>1, <1>2, TypeCorrect, PTL DEF Spec

\* A schedule has one timer: once the server is up, an active job with a
\* schedule has exactly one live timer and any other job none, whatever the
\* order of pauses, resumes, stops, updates, firings and crashes.  An update
\* that raises half-way is left out, and so is a scheduler started again after
\* a stop() that the store cut short.
THEOREM OneTimer ==
    ASSUME "invalid update" \notin Requests, InProcessRestart => ~StoreMayFail
    PROVE  Spec => []OneTimerPerSchedule
  <1>1. TimerInv => OneTimerPerSchedule
    BY DEF TimerInv, TimerOf, Tuned, Due, OneTimerPerSchedule
  <1> QED BY <1>1, TimerInvariance, PTL

-----------------------------------------------------------------------------
(* stop(), with a store that does not fail.                                *)

\* Nothing of job j goes on by itself, its timer aside.
Quiet(j) == ~queued[j] /\ \A r \in runs[j] : cancelled[r]

\* stop() has visited job j.
Visited(j) == (phase = "stopping" /\ j \notin todo) \/ phase = "stopped"

StopInv == \A j \in Jobs : Visited(j) => Quiet(j)

\* Runs that are cancelled stay so, and a job without a waiting run gets none
\* when one of its runs ends.
LEMMA ReleaseQuiet ==
    ASSUME SlotInv, NEW r \in Run, Live(r), Release(r), NEW k \in Jobs, Quiet(k)
    PROVE  Quiet(k)'
  <1> DEFINE j == jobOf[r]
  <1>1. /\ j \in Jobs /\ queued \in [Jobs -> BOOLEAN] /\ runs \in [Jobs -> SUBSET Run]
        /\ cancelled \in [Run -> BOOLEAN]
    BY DEF SlotInv, TypeOK
  <1>2. cancelled' = [cancelled EXCEPT ![r] = FALSE]
    BY DEF Release
  <1>3. CASE k = j
    <2>1. runs' = [runs EXCEPT ![j] = runs[j] \ {r}] /\ queued' = queued
      BY <1>3 DEF Release, StartQueued, Quiet
    <2> QED BY <1>1, <1>2, <1>3, <2>1 DEF Quiet
  <1>4. CASE k # j
    <2>1. r \notin runs[k]
      BY <1>4 DEF SlotInv, SlotsHeldByLiveRuns
    <2>2. queued'[k] = queued[k] /\ runs'[k] = runs[k]
      BY <1>1, <1>4 DEF Release, StartQueued, TakeSlot
    <2> QED BY <1>1, <1>2, <2>1, <2>2 DEF Quiet
  <1> QED BY <1>3, <1>4

\* Every step.
LEMMA NextStop ==
    ASSUME ~StoreMayFail, SlotInv, StopInv, [Next]_vars
    PROVE  StopInv'
  <1> USE DEF lifeVars, jobVars, slotVars, attemptVars, historyVars, stateVars
  <1>0. TypeOK
    BY DEF SlotInv
  <1>1. \* A step that changes no queue and no slot, and takes no cancellation back.
        ASSUME UNCHANGED <<runs, queued>>, \A r \in Run : cancelled[r] => cancelled'[r]
        PROVE  \A j \in Jobs : Quiet(j) => Quiet(j)'
    BY <1>0, <1>1 DEF Quiet, TypeOK
  <1>2. CASE \/ StartBegin \/ ListReturned \/ ScanEnd \/ Crash
             \/ \E j \in Jobs : \/ ListStale(j) \/ LoadJob(j)
                                \/ Trigger(j) \/ Pause(j) \/ Resume(j) \/ StopJob(j)
                                \/ CancelCurrent(j)
                                \/ \E o \in Options : UpdateOptions(j, o) \/ UpdateRejected(j, o)
             \/ \E e \in Execs : SaveStale(e) \/ DeleteChecked(e)
    <2>1. phase' \notin {"stopping", "stopped"}
      BY <1>2 DEF StartBegin, ListReturned, ScanEnd, Crash, ListStale, LoadJob, Trigger, Pause,
         Resume, StopJob, CancelCurrent, UpdateOptions, UpdateRejected, SaveStale, DeleteChecked
    <2> QED BY <2>1 DEF StopInv, Visited
  <1>3. CASE StopEnd
    BY <1>0, <1>1, <1>3 DEF StopEnd, StopInv, Visited
  <1>4. ASSUME NEW j \in Jobs, Stop(j) PROVE StopInv'
    <2>1. /\ phase' = "stopping"
          /\ todo' = (IF phase = "up" THEN Jobs ELSE todo) \ {j}
          /\ queued' = [queued EXCEPT ![j] = FALSE] /\ runs' = runs
          /\ cancelled' = [r \in Run |-> cancelled[r] \/ r \in runs[j]]
          /\ phase \in {"up", "stopping"}
      BY <1>4 DEF Stop, CancelRuns
    <2>2. Quiet(j)'
      BY <1>0, <2>1 DEF Quiet, TypeOK
    <2>3. \A k \in Jobs \ {j} : Quiet(k) => Quiet(k)'
      BY <1>0, <2>1 DEF Quiet, TypeOK
    <2>4. \A k \in Jobs \ {j} : Visited(k)' => Visited(k)
      BY <2>1 DEF Visited
    <2> QED BY <2>2, <2>3, <2>4 DEF StopInv
  <1>5. ASSUME NEW j \in Jobs, TimerFire(j) PROVE StopInv'
    <2>1. CASE ~Running
      <3>1. UNCHANGED <<phase, todo, runs, queued, cancelled>>
        BY <1>5, <2>1 DEF TimerFire
      <3> QED BY <1>1, <3>1 DEF StopInv, Visited
    <2>2. CASE Running
      <3>1. phase' \notin {"stopping", "stopped"}
        BY <1>5, <2>2 DEF TimerFire, Running
      <3> QED BY <3>1 DEF StopInv, Visited
    <2> QED BY <2>1, <2>2
  <1>6. CASE \/ \E j \in Jobs : \E i \in 1..Len(writes[j]) : StoreApplies(j, i)
             \/ \E e \in Execs : DeleteApplied(e)
             \/ UNCHANGED vars
    <2>1. UNCHANGED <<phase, todo, runs, queued, cancelled>>
      BY <1>6 DEF StoreApplies, DeleteApplied, vars
    <2> QED BY <1>1, <2>1 DEF StopInv, Visited
  <1>7. ASSUME NEW r \in Run, RunEnds(r) \/ DelayCancelled(r) PROVE StopInv'
    <2>1. Live(r) /\ Release(r) /\ UNCHANGED <<phase, todo>>
      BY <1>7 DEF RunEnds, DelayCancelled, Live
    <2> QED BY <2>1, ReleaseQuiet DEF StopInv, Visited
  <1>8. ASSUME NEW r \in Run,
               \/ TriggerLaunch(r) \/ BeginAttempt(r) \/ OpenSaved(r)
               \/ \E how \in Endings : JobEnds(r, how)
               \/ \E discard \in BOOLEAN : FinishSaved(r, discard)
               \/ RetryLater(r) \/ DelayExpires(r)
        PROVE  StopInv'
    <2>1. UNCHANGED <<phase, todo, runs, queued>>
      BY <1>8 DEF TriggerLaunch, BeginAttempt, OpenSaved, JobEnds, FinishSaved, RetryLater,
         DelayExpires
    <2>2. \A x \in Run : cancelled[x] => cancelled'[x]
      BY <1>0, <1>8 DEF TriggerLaunch, BeginAttempt, OpenSaved, JobEnds, FinishSaved, RetryLater,
         DelayExpires, TypeOK
    <2> QED BY <1>1, <2>1, <2>2 DEF StopInv, Visited
  <1>9. /\ ~ScanFails /\ \A r \in Run : ~OpenFails(r) /\ ~FinishFails(r)
        /\ \A j \in Jobs : \A i \in 1..Len(writes[j]) : ~StoreRaises(j, i)
    BY DEF ScanFails, OpenFails, FinishFails, StoreRaises
  <1> QED
    BY <1>2, <1>3, <1>4, <1>5, <1>6, <1>7, <1>8, <1>9
    DEF Next, Lifecycle, Request, StoreStep, RunStep

\* stop() leaves nothing that could start or go on by itself: with a store that
\* answers every call, a stopped scheduler has no timer, no waiting run, and no
\* run that is not cancelled, whatever went on while stop() waited for the
\* store, and whatever the runs do afterwards.
THEOREM StopIsComplete ==
    ASSUME ~StoreMayFail
    PROVE  Spec => []StopReachesEveryJob
  <1>1. Init => StopInv
    BY DEF Init, StopInv, Visited
  <1>2. SlotInv /\ StopInv /\ [Next]_vars => StopInv'
    BY NextStop
  <1>3. TimerInv /\ StopInv => StopReachesEveryJob
    BY DEF TimerInv, TimerOf, StopInv, Visited, Quiet, StopReachesEveryJob
  <1>4. Spec => []TimerInv
    BY TimerInvariance
  <1> QED BY <1>1, <1>2, <1>3, <1>4, SlotInvariance, PTL DEF Spec

-----------------------------------------------------------------------------
(* The saved states, with a store that applies the writes in order and     *)
(* does not fail.                                                          *)

\* The store will hold the status once the writes in flight are applied.
Agrees(j) ==
    IF writes[j] # <<>> THEN writes[j][Len(writes[j])].status = status[j]
    ELSE saved[j] \in {status[j], "none"}

\* The store holds the status already, and no write in flight changes that.
Settled(j) ==
    /\ saved[j] \in {status[j], "none"}
    /\ \A i \in 1..Len(writes[j]) : writes[j][i].status = status[j]

\* It will hold it for good once the write of stop() is applied.
Marked(j) ==
    \E i \in 1..Len(writes[j]) :
        /\ writes[j][i].by = Stopper
        /\ \A k \in i..Len(writes[j]) : writes[j][k].status = status[j]

\* A new process has not touched job j yet.
Untouched(j) == writes[j] = <<>> /\ runs[j] = {}

Unloaded(j) == phase \in {"down", "finishing", "listing"} \/ (phase = "loading" /\ j \in todo)
Loaded(j) == \/ phase = "loading" /\ j \notin todo
             \/ phase = "up"
             \/ phase = "stopping" /\ j \in todo

StateOf(j) ==
    /\ Unloaded(j) => Untouched(j) \/ Settled(j)
    /\ Loaded(j) => Agrees(j)
    /\ phase = "stopping" /\ j \notin todo => Marked(j) \/ Settled(j)
    /\ phase = "stopped" => Settled(j)

StateInv == \A j \in Jobs \ Disabled : StateOf(j)

\* A write of the job's status goes to the end of the queue.
LEMMA AppendedState ==
    ASSUME TypeOK, NEW j \in Jobs, NEW by \in 0..(MaxRuns + 1), NEW st \in Statuses,
           PersistState(j, by, st), saved' = saved, status'[j] = st
    PROVE  /\ Agrees(j)'
           /\ status[j] = st => /\ Settled(j) => Settled(j)'
                                /\ Marked(j) => Marked(j)'
           /\ by = Stopper => Marked(j)'
           /\ \A k \in Jobs \ {j} : writes'[k] = writes[k]
  <1> DEFINE w == [by |-> by, status |-> st]
             s == writes[j]
             n == Len(s)
  <1>1. w \in Writes /\ s \in Seq(Writes) /\ n \in Nat
    <2>1. w \in Writes
      BY DEF Writes
    <2>2. s \in Seq(Writes)
      BY DEF TypeOK
    <2> QED BY <2>1, <2>2
  <1>2. writes'[j] = Append(s, w) /\ \A k \in Jobs \ {j} : writes'[k] = writes[k]
    BY DEF PersistState, TypeOK
  <1>3. /\ Len(writes'[j]) = n + 1 /\ writes'[j][n + 1] = w /\ writes'[j] # <<>>
        /\ \A i \in 1..n : writes'[j][i] = s[i]
    BY <1>1, <1>2
  <1>4. w.by = by /\ w.status = st
    OBVIOUS
  <1> HIDE DEF w
  <1>5. Agrees(j)'
    BY <1>1, <1>3, <1>4 DEF Agrees
  <1>6. ASSUME status[j] = st, Settled(j) PROVE Settled(j)'
    BY <1>1, <1>3, <1>4, <1>6 DEF Settled
  <1>7. ASSUME status[j] = st, Marked(j) PROVE Marked(j)'
    <2>1. PICK i \in 1..n : s[i].by = Stopper /\ \A k \in i..n : s[k].status = st
      BY <1>7 DEF Marked
    <2>2. ASSUME NEW k \in i..(n + 1) PROVE writes'[j][k].status = st
      <3> HIDE DEF n, s
      <3>1. CASE k = n + 1
        BY <1>3, <1>4, <3>1
      <3>2. CASE k # n + 1
        <4>1. k \in i..n /\ k \in 1..n
          BY <1>1, <2>1, <3>2
        <4> QED BY <1>3, <2>1, <4>1
      <3> QED BY <3>1, <3>2
    <2>3. i \in 1..(n + 1) /\ writes'[j][i].by = Stopper
      BY <1>1, <1>3, <2>1
    <2> QED BY <1>3, <2>2, <2>3 DEF Marked
  <1>8. ASSUME by = Stopper PROVE Marked(j)'
    <2>1. n + 1 \in 1..(n + 1) /\ \A k \in (n + 1)..(n + 1) : writes'[j][k].status = st
      BY <1>1, <1>3, <1>4
    <2> QED BY <1>3, <1>4, <1>8, <2>1 DEF Marked
  <1> QED BY <1>2, <1>5, <1>6, <1>7, <1>8

\* The oldest write reaches the store.
LEMMA AppliedState ==
    ASSUME TypeOK, NEW j \in Jobs, StoreApplies(j, 1), status' = status
    PROVE  /\ Agrees(j) => Agrees(j)'
           /\ Settled(j) => Settled(j)'
           /\ Marked(j) => Marked(j)' \/ Settled(j)'
           /\ \A k \in Jobs \ {j} : writes'[k] = writes[k] /\ saved'[k] = saved[k]
  <1> DEFINE s == writes[j]
             n == Len(s)
  <1>1. s \in Seq(Writes) /\ n \in Nat /\ 1 \in 1..n
    BY DEF TypeOK, StoreApplies
  <1>2. /\ writes'[j] = Without(s, 1) /\ saved'[j] = s[1].status
        /\ \A k \in Jobs \ {j} : writes'[k] = writes[k] /\ saved'[k] = saved[k]
    BY DEF StoreApplies, TypeOK
  <1>3. Len(writes'[j]) = n - 1 /\ \A i \in 1..(n - 1) : writes'[j][i] = s[i + 1]
    BY <1>1, <1>2 DEF Without
  <1>4. writes'[j] = <<>> <=> n = 1
    <2>1. writes'[j] \in Seq(Writes)
      BY <1>1, <1>2, WithoutType
    <2>2. writes'[j] = <<>> <=> Len(writes'[j]) = 0
      BY <2>1
    <2> HIDE DEF n
    <2> QED BY <1>1, <1>3, <2>2
  <1>5. ASSUME Agrees(j) PROVE Agrees(j)'
    <2>1. s[n].status = status[j]
      BY <1>1, <1>5 DEF Agrees
    <2>2. CASE n = 1
      BY <1>2, <1>4, <2>1, <2>2 DEF Agrees
    <2>3. CASE n # 1
      <3>1. n - 1 \in 1..(n - 1) /\ writes'[j][n - 1] = s[n]
        <4> HIDE DEF n, s
        <4>1. n - 1 \in 1..(n - 1) /\ (n - 1) + 1 = n
          BY <1>1, <2>3
        <4> QED BY <1>3, <4>1
      <3> QED BY <1>3, <1>4, <2>1, <2>3, <3>1 DEF Agrees
    <2> QED BY <2>2, <2>3
  <1>6. ASSUME NEW i \in 1..n, \A k \in i..n : s[k].status = status[j]
        PROVE  \A k \in 1..(n - 1) : k >= i - 1 => writes'[j][k].status = status[j]
    BY <1>1, <1>3, <1>6
  <1>7. ASSUME \A k \in 1..n : s[k].status = status[j] PROVE Settled(j)'
    <2>1. \A k \in 1..(n - 1) : writes'[j][k].status = status[j]
      BY <1>1, <1>3, <1>7
    <2> QED BY <1>1, <1>2, <1>3, <1>7, <2>1 DEF Settled
  <1>8. ASSUME Settled(j) PROVE Settled(j)'
    BY <1>7, <1>8 DEF Settled
  <1>9. ASSUME Marked(j) PROVE Marked(j)' \/ Settled(j)'
    <2>1. PICK i \in 1..n : s[i].by = Stopper /\ \A k \in i..n : s[k].status = status[j]
      BY <1>9 DEF Marked
    <2>2. CASE i = 1
      BY <1>7, <2>1, <2>2
    <2>3. CASE i # 1
      <3>1. i - 1 \in 1..(n - 1) /\ writes'[j][i - 1].by = Stopper
        BY <1>1, <1>3, <2>1, <2>3
      <3>2. \A k \in 1..(n - 1) : k >= i - 1 => writes'[j][k].status = status[j]
        BY <1>6, <2>1
      <3>3. ASSUME NEW k \in (i - 1)..(n - 1) PROVE writes'[j][k].status = status[j]
        <4> HIDE DEF n, s
        <4>1. k \in 1..(n - 1) /\ k >= i - 1
          BY <1>1, <2>1, <3>1
        <4> QED BY <3>2, <4>1
      <3> QED BY <1>3, <3>1, <3>3 DEF Marked
    <2> QED BY <2>2, <2>3
  <1> QED BY <1>2, <1>5, <1>8, <1>9

\* A job whose status, saved state and writes a step leaves alone.
LEMMA OtherStates ==
    ASSUME NEW j \in Jobs, StateOf(j), UNCHANGED phase, j \in todo' <=> j \in todo,
           status'[j] = status[j], saved'[j] = saved[j], writes'[j] = writes[j],
           Unloaded(j) /\ runs[j] = {} => runs'[j] = {}
    PROVE  StateOf(j)'
  BY DEF StateOf, Unloaded, Loaded, Untouched, Settled, Agrees, Marked

\* A run that ends frees a slot of its own job and concerns no other.
LEMMA ReleaseElsewhere ==
    ASSUME SlotInv, NEW r \in Run, Live(r), Release(r), NEW k \in Jobs, runs[k] = {}
    PROVE  runs'[k] = {}
  <1>1. jobOf[r] \in Jobs /\ runs \in [Jobs -> SUBSET Run]
    BY DEF SlotInv, TypeOK
  <1>2. k # jobOf[r]
    BY DEF SlotInv, SlotsHeldByLiveRuns
  <1> QED BY <1>1, <1>2 DEF Release, StartQueued, TakeSlot

\* The steps of start() and stop().
LEMMA LifecycleStates ==
    ASSUME TypeOK, ~StoreMayFail, StateInv, Lifecycle
    PROVE  StateInv'
  <1> USE DEF lifeVars, jobVars, slotVars, attemptVars, historyVars, stateVars
  <1>1. CASE StartBegin
    <2>1. /\ phase \in {"down", "stopped"} /\ phase' = "finishing"
          /\ UNCHANGED <<status, runs, saved, writes>>
      BY <1>1 DEF StartBegin
    <2> QED BY <2>1 DEF StateInv, StateOf, Unloaded, Loaded, Untouched, Settled
  <1>2. CASE \/ ListReturned
             \/ \E j \in Jobs : ListStale(j)
             \/ \E e \in Execs : SaveStale(e)
    <2>1. /\ phase \in {"finishing", "listing"} /\ phase' \in {"finishing", "listing"}
          /\ UNCHANGED <<status, runs, saved, writes>>
      BY <1>2 DEF ListReturned, ListStale, SaveStale
    <2> QED BY <2>1 DEF StateInv, StateOf, Unloaded, Loaded, Untouched, Settled
  <1>3. CASE ScanEnd
    <2>1. /\ phase = "finishing" /\ phase' = "loading" /\ todo' = Jobs
          /\ UNCHANGED <<status, runs, saved, writes>>
      BY <1>3 DEF ScanEnd
    <2> QED BY <2>1 DEF StateInv, StateOf, Unloaded, Loaded, Untouched, Settled
  <1>4. CASE StopEnd
    <2>1. /\ phase = "stopping" /\ todo = {} /\ phase' = "stopped" /\ NoWriteBy(Stopper)
          /\ UNCHANGED <<todo, status, saved, writes>>
      BY <1>4 DEF StopEnd
    <2>2. \A j \in Jobs : ~Marked(j)
      BY <2>1 DEF NoWriteBy, Marked
    <2> QED BY <2>1, <2>2 DEF StateInv, StateOf, Unloaded, Loaded, Settled
  <1>5. CASE Crash
    BY <1>5 DEF Crash, StateInv, StateOf, Unloaded, Loaded, Untouched
  <1>6. ASSUME NEW j \in Jobs, LoadJob(j) PROVE StateInv'
    <2>1. /\ phase = "loading" /\ j \in todo /\ todo' = todo \ {j} /\ todo \subseteq Jobs
          /\ phase' = IF todo = {j} THEN "up" ELSE "loading"
          /\ status'[j] = Restored(j) /\ UNCHANGED <<saved, writes>>
          /\ \A k \in Jobs \ {j} : status'[k] = status[k]
      BY <1>6 DEF LoadJob, TypeOK
    <2>2. \A k \in Jobs \ {j} : runs'[k] = runs[k]
      <3>1. UNCHANGED slotVars \/ Admit(j, "launched")
        BY <1>6 DEF LoadJob
      <3> QED BY <3>1 DEF Admit, TakeSlot, TypeOK
    <2>3. j \notin Disabled => Agrees(j)'
      <3> SUFFICES ASSUME j \notin Disabled PROVE Agrees(j)'
        OBVIOUS
      <3>1. Untouched(j) \/ Settled(j)
        BY <2>1 DEF StateInv, StateOf, Unloaded
      <3>2. status'[j] = IF saved[j] # "none" THEN saved[j] ELSE status[j]
        BY <2>1 DEF Restored
      <3>3. CASE Untouched(j)
        BY <2>1, <3>2, <3>3 DEF Untouched, Agrees
      <3>4. CASE Settled(j)
        <4>1. status'[j] = status[j]
          BY <3>2, <3>4 DEF Settled
        <4>2. writes[j] \in Seq(Writes)
          BY DEF TypeOK
        <4>3. writes[j] # <<>> => Len(writes[j]) \in 1..Len(writes[j])
          BY <4>2
        <4> QED BY <2>1, <3>4, <4>1, <4>3 DEF Settled, Agrees
      <3> QED BY <3>1, <3>3, <3>4
    <2>4. ASSUME NEW k \in Jobs \ Disabled, k # j PROVE StateOf(k)'
      <3>1. CASE k \in todo
        <4>1. phase' = "loading" /\ k \in todo'
          BY <2>1, <2>4, <3>1
        <4>2. Untouched(k) \/ Settled(k)
          BY <2>1, <3>1 DEF StateInv, StateOf, Unloaded
        <4>3. Untouched(k)' \/ Settled(k)'
          BY <2>1, <2>2, <2>4, <4>2 DEF Untouched, Settled
        <4> QED BY <4>1, <4>3 DEF StateOf, Unloaded, Loaded
      <3>2. CASE k \notin todo
        <4>1. Agrees(k)
          BY <2>1, <3>2 DEF StateInv, StateOf, Loaded
        <4>2. Agrees(k)'
          BY <2>1, <2>4, <4>1 DEF Agrees
        <4> QED BY <2>1, <3>2, <4>2 DEF StateOf, Unloaded, Loaded
      <3> QED BY <3>1, <3>2
    <2>5. j \notin Disabled => StateOf(j)'
      BY <2>1, <2>3 DEF StateOf, Unloaded, Loaded
    <2> QED BY <2>4, <2>5 DEF StateInv
  <1>7. ASSUME NEW j \in Jobs, Stop(j) PROVE StateInv'
    <2>1. /\ phase' = "stopping" /\ UNCHANGED <<status, saved>>
          /\ PersistState(j, Stopper, status[j])
          /\ \/ phase = "up" /\ todo' = Jobs \ {j}
             \/ phase = "stopping" /\ j \in todo /\ todo' = todo \ {j}
      BY <1>7 DEF Stop
    <2>2. Stopper \in 0..(MaxRuns + 1) /\ status[j] \in Statuses
      BY BoundsAssumption DEF Stopper, TypeOK
    <2>3. Marked(j)' /\ \A k \in Jobs \ {j} : writes'[k] = writes[k]
      BY <2>1, <2>2, AppendedState
    <2>4. ASSUME NEW k \in Jobs \ Disabled, k # j PROVE StateOf(k)'
      <3>1. /\ Agrees(k) => Agrees(k)'
            /\ Settled(k) => Settled(k)'
            /\ Marked(k) => Marked(k)'
        BY <2>1, <2>3, <2>4 DEF Agrees, Settled, Marked
      <3>2. CASE phase = "up"
        BY <2>1, <2>4, <3>1, <3>2 DEF StateInv, StateOf, Unloaded, Loaded
      <3>3. CASE phase = "stopping"
        BY <2>1, <2>4, <3>1, <3>3 DEF StateInv, StateOf, Unloaded, Loaded
      <3> QED BY <2>1, <3>2, <3>3
    <2>5. StateOf(j)'
      BY <2>1, <2>3 DEF StateOf, Unloaded, Loaded
    <2> QED BY <2>4, <2>5 DEF StateInv
  <1>8. ~ScanFails
    BY DEF ScanFails
  <1> QED BY <1>1, <1>2, <1>3, <1>4, <1>5, <1>6, <1>7, <1>8 DEF Lifecycle

\* A write of the status a job has, by one of its runs or by the API.
LEMMA WrittenState ==
    ASSUME TypeOK, NEW j \in Jobs, NEW by \in 0..(MaxRuns + 1), NEW st \in Statuses,
           PersistState(j, by, st), saved' = saved, status'[j] = st, UNCHANGED <<phase, todo>>,
           phase = "up" \/ (status[j] = st /\ runs[j] # {}), StateOf(j)
    PROVE  StateOf(j)'
  <1>1. /\ Agrees(j)'
        /\ status[j] = st => /\ Settled(j) => Settled(j)'
                             /\ Marked(j) => Marked(j)'
    BY AppendedState
  <1>2. CASE phase = "up"
    BY <1>1, <1>2 DEF StateOf, Unloaded, Loaded
  <1>3. CASE status[j] = st /\ runs[j] # {}
    BY <1>1, <1>3 DEF StateOf, Unloaded, Loaded, Untouched
  <1> QED BY <1>2, <1>3

\* Every step.
LEMMA NextStates ==
    ASSUME StoreInOrder, ~StoreMayFail, SlotInv, TimerInv, StateInv, [Next]_vars
    PROVE  StateInv'
  <1> USE DEF lifeVars, jobVars, slotVars, attemptVars, historyVars, stateVars
  <1>0. TypeOK
    BY DEF SlotInv
  <1>1. CASE Lifecycle
    BY <1>0, <1>1, LifecycleStates
  <1>2. ASSUME NEW j \in Jobs, Pause(j) \/ Resume(j) \/ StopJob(j) PROVE StateInv'
    <2>1. PICK st \in Statuses : PersistState(j, Api, st) /\ status' = [status EXCEPT ![j] = st]
      BY <1>2 DEF Pause, Resume, StopJob, Statuses
    <2>2. phase = "up" /\ UNCHANGED <<phase, todo, saved, runs>>
      BY <1>2 DEF Pause, Resume, StopJob
    <2>3. Api \in 0..(MaxRuns + 1)
      BY BoundsAssumption DEF Api
    <2>4. /\ status'[j] = st
          /\ \A k \in Jobs \ {j} : status'[k] = status[k] /\ writes'[k] = writes[k]
      BY <1>0, <2>1 DEF TypeOK, PersistState
    <2>5. j \notin Disabled => StateOf(j)'
      BY <1>0, <2>1, <2>2, <2>3, <2>4, WrittenState DEF StateInv
    <2>6. ASSUME NEW k \in Jobs \ Disabled, k # j PROVE StateOf(k)'
      BY <2>2, <2>4, <2>6, OtherStates DEF StateInv
    <2> QED BY <2>5, <2>6 DEF StateInv
  <1>3. ASSUME UNCHANGED <<phase, todo, status, saved, writes>>,
               \A j \in Jobs : Unloaded(j) /\ runs[j] = {} => runs'[j] = {}
        PROVE  StateInv'
    BY <1>3, OtherStates DEF StateInv
  <1>4. CASE \/ \E j \in Jobs : \/ Trigger(j) \/ CancelCurrent(j)
                                \/ \E o \in Options : UpdateOptions(j, o) \/ UpdateRejected(j, o)
             \/ \E e \in Execs : DeleteChecked(e)
    <2>1. phase = "up" /\ UNCHANGED <<phase, todo, status, saved, writes>>
      BY <1>4 DEF Trigger, CancelCurrent, UpdateOptions, UpdateRejected, DeleteChecked
    <2> QED BY <1>3, <2>1 DEF Unloaded
  <1>5. CASE UNCHANGED vars \/ \E e \in Execs : DeleteApplied(e)
    BY <1>3, <1>5 DEF vars, DeleteApplied
  <1>6. ASSUME NEW j \in Jobs, TimerFire(j) PROVE StateInv'
    <2>1. timers[j] > 0 /\ UNCHANGED <<phase, todo, status, saved, writes>>
      BY <1>6 DEF TimerFire
    <2>2. ~Unloaded(j)
      BY <2>1 DEF TimerInv, TimerOf, Unloaded
    <2>3. \A k \in Jobs \ {j} : runs'[k] = runs[k]
      <3>1. UNCHANGED slotVars \/ Admit(j, "launched")
        BY <1>6 DEF TimerFire
      <3> QED BY <1>0, <3>1 DEF Admit, TakeSlot, TypeOK
    <2> QED BY <1>3, <2>1, <2>2, <2>3
  <1>7. ASSUME NEW j \in Jobs, NEW i \in 1..Len(writes[j]), StoreApplies(j, i) PROVE StateInv'
    <2>1. StoreApplies(j, 1) /\ UNCHANGED <<phase, todo, status, runs>>
      BY <1>7 DEF StoreApplies
    <2>2. /\ Agrees(j) => Agrees(j)'
          /\ Settled(j) => Settled(j)'
          /\ Marked(j) => Marked(j)' \/ Settled(j)'
          /\ \A k \in Jobs \ {j} : writes'[k] = writes[k] /\ saved'[k] = saved[k]
      BY <1>0, <2>1, AppliedState
    <2>3. ~Untouched(j)
      BY <1>7 DEF Untouched
    <2>4. j \notin Disabled => StateOf(j)'
      BY <2>1, <2>2, <2>3 DEF StateInv, StateOf, Unloaded, Loaded
    <2>5. ASSUME NEW k \in Jobs \ Disabled, k # j PROVE StateOf(k)'
      BY <2>1, <2>2, <2>5, OtherStates DEF StateInv
    <2> QED BY <2>4, <2>5 DEF StateInv
  <1>8. ASSUME NEW r \in Run, NEW discard \in BOOLEAN, FinishSaved(r, discard) PROVE StateInv'
    <2>0. PICK j \in Jobs : j = jobOf[r]
      BY <1>0 DEF TypeOK
    <2>1. /\ PersistState(j, r, status[j]) /\ UNCHANGED <<phase, todo, status, saved, runs>>
          /\ Live(r)
      BY <1>8, <2>0 DEF FinishSaved, Live
    <2>2. /\ r \in 0..(MaxRuns + 1) /\ status[j] \in Statuses /\ r \in runs[j]
          /\ \A k \in Jobs \ {j} : writes'[k] = writes[k]
      <3>1. status[j] \in Statuses
        BY <1>0 DEF TypeOK
      <3>2. r \in runs[j] /\ r \in 0..(MaxRuns + 1)
        BY <2>0, <2>1, BoundsAssumption DEF SlotInv, SlotsHeldByLiveRuns, Run
      <3>3. \A k \in Jobs \ {j} : writes'[k] = writes[k]
        BY <1>0, <2>1 DEF PersistState, TypeOK
      <3> QED BY <3>1, <3>2, <3>3
    <2>3. j \notin Disabled => StateOf(j)'
      <3>1. status'[j] = status[j] /\ runs[j] # {}
        BY <2>1, <2>2
      <3> QED BY <1>0, <2>1, <2>2, <3>1, WrittenState DEF StateInv
    <2>4. ASSUME NEW k \in Jobs \ Disabled, k # j PROVE StateOf(k)'
      BY <2>1, <2>2, <2>4, OtherStates DEF StateInv
    <2> QED BY <2>3, <2>4 DEF StateInv
  <1>9. ASSUME NEW r \in Run, RunEnds(r) \/ DelayCancelled(r) PROVE StateInv'
    <2>1. Live(r) /\ Release(r) /\ UNCHANGED <<phase, todo, status, saved, writes>>
      BY <1>9 DEF RunEnds, DelayCancelled, Live
    <2>2. \A k \in Jobs : runs[k] = {} => runs'[k] = {}
      BY <2>1, ReleaseElsewhere
    <2> QED BY <1>3, <2>1, <2>2
  <1>10. ASSUME NEW r \in Run,
                \/ TriggerLaunch(r) \/ BeginAttempt(r) \/ OpenSaved(r)
                \/ \E how \in Endings : JobEnds(r, how)
                \/ RetryLater(r) \/ DelayExpires(r)
         PROVE  StateInv'
    <2>1. UNCHANGED <<phase, todo, status, saved, writes, runs>>
      BY <1>10 DEF TriggerLaunch, BeginAttempt, OpenSaved, JobEnds, RetryLater, DelayExpires
    <2> QED BY <1>3, <2>1
  <1>11. /\ \A r \in Run : ~OpenFails(r) /\ ~FinishFails(r)
         /\ \A j \in Jobs : \A i \in 1..Len(writes[j]) : ~StoreRaises(j, i)
    BY DEF OpenFails, FinishFails, StoreRaises
  <1> QED
    BY <1>1, <1>2, <1>4, <1>5, <1>6, <1>7, <1>8, <1>9, <1>10, <1>11
    DEF Next, Request, StoreStep, RunStep

\* A pause or a stop survives a restart: with a store that applies the writes in
\* order and answers every call, the status of each enabled job is what the
\* store holds once the writes in flight are applied, through pauses, resumes,
\* runs that finish in between, crashes, and restarts of the scheduler in the
\* same process, whose earlier runs may still be saving.
THEOREM StatusIsSaved ==
    ASSUME StoreInOrder, ~StoreMayFail
    PROVE  Spec => []StatusReachesStore
  <1>1. Init => StateInv
    BY DEF Init, StateInv, StateOf, Unloaded, Loaded, Untouched
  <1>2. SlotInv /\ TimerInv /\ StateInv /\ [Next]_vars => StateInv'
    BY NextStates
  <1>3. StateInv => StatusReachesStore
    BY DEF StateInv, StateOf, Loaded, Agrees, StatusReachesStore
  <1>4. Spec => []TimerInv
    BY TimerInvariance
  <1> QED BY <1>1, <1>2, <1>3, <1>4, SlotInvariance, PTL DEF Spec
=============================================================================
