------------------------------ MODULE JobSlots ------------------------------
(***************************************************************************)
(* What the jobs plugin promises about concurrency (plugins/jobs/README.md,*)
(* "Concurrency"), as an abstract specification: each job has a number of  *)
(* slots, a run holds one from its start to its end, and at most one due   *)
(* run waits while every slot is taken.                                    *)
(*                                                                         *)
(*   held[j]     how many slots of job j are held by runs                  *)
(*   waiting[j]  whether a due run of job j waits for a slot               *)
(*   limit[j]    the job's max_concurrent_runs                             *)
(*                                                                         *)
(* The promises are the guards: a run takes a slot only below the limit    *)
(* and never past a waiting run; a run waits only while the job is full;   *)
(* the step that frees a slot (a run's end, a higher limit) hands it to    *)
(* the waiting run in the same step.  Lowering the limit ends nothing.     *)
(***************************************************************************)
EXTENDS Naturals

CONSTANT Jobs

VARIABLES held, waiting, limit

slotVars == <<held, waiting, limit>>

Limits == Nat \ {0}

SlotsInit ==
    /\ held = [j \in Jobs |-> 0]
    /\ waiting = [j \in Jobs |-> FALSE]
    /\ limit \in [Jobs -> Limits]

\* A due run takes a free slot.
Take(j) ==
    /\ held[j] < limit[j]
    /\ ~waiting[j]
    /\ held' = [held EXCEPT ![j] = @ + 1]
    /\ UNCHANGED <<waiting, limit>>

\* A due run waits; further due runs merge into it.
Wait(j) ==
    /\ held[j] >= limit[j]
    /\ waiting' = [waiting EXCEPT ![j] = TRUE]
    /\ UNCHANGED <<held, limit>>

\* A run ends.  Its slot goes to the waiting run unless the limit was lowered.
Finish(j) ==
    /\ held[j] > 0
    /\ \/ /\ waiting[j]
          /\ held[j] <= limit[j]
          /\ waiting' = [waiting EXCEPT ![j] = FALSE]
          /\ held' = held
       \/ /\ ~waiting[j] \/ held[j] > limit[j]
          /\ held' = [held EXCEPT ![j] = @ - 1]
          /\ UNCHANGED waiting
    /\ UNCHANGED limit

\* A waiting run is dropped (cancel, stop).
Drop(j) ==
    /\ waiting[j]
    /\ waiting' = [waiting EXCEPT ![j] = FALSE]
    /\ UNCHANGED <<held, limit>>

\* max_concurrent_runs changes; a higher limit starts the waiting run at once.
SetLimit(j) ==
    /\ limit'[j] \in Limits
    /\ limit' = [limit EXCEPT ![j] = limit'[j]]
    /\ \/ /\ waiting[j] /\ held[j] < limit'[j]
          /\ held' = [held EXCEPT ![j] = @ + 1]
          /\ waiting' = [waiting EXCEPT ![j] = FALSE]
       \/ /\ ~waiting[j] \/ held[j] >= limit'[j]
          /\ UNCHANGED <<held, waiting>>

\* The process ends: nothing is held or waits, options are the registered ones.
Reset ==
    /\ held' = [j \in Jobs |-> 0]
    /\ waiting' = [j \in Jobs |-> FALSE]
    /\ limit' \in [Jobs -> Limits]

SlotsNext ==
    \/ \E j \in Jobs : Take(j) \/ Wait(j) \/ Finish(j) \/ Drop(j) \/ SetLimit(j)
    \/ Reset

SlotsSpec == SlotsInit /\ [][SlotsNext]_slotVars
=============================================================================
