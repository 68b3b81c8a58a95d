---------------------------- MODULE MCOrchestrator -----------------------------
(* The scheduler and the queue of orchestrations, in one run: `which` says whose   *)
(* behaviours a behaviour is of.  The queue has two instances: one of two steps,   *)
(* whose processes crash, stop, freeze and start again, and one of three, for      *)
(* which the database and the engine fail to answer.                               *)
EXTENDS ScheduleSlots, TLC

CONSTANTS often, once,                                                  \* ScheduleSlots
          Flows, NoFlow,                                                \* OrchestrationQueue
          Restarts, Restarting, MaxRestarting, Failing, MaxFailing

VARIABLES which, runs, steps, told, proc, work, loop, late, setbacks

(* A schedule that goes on, and one that fires once more, at one of the other's slots. *)
OftenAndOnce == [s \in {often, once} |-> IF s = often THEN 1..7 ELSE {3}]

R == INSTANCE OrchestrationQueue
       WITH MaxRuns <- 1, Concurrency <- 1, Triggers <- {"manual"}, upsets <- setbacks,
            NSteps <- 2, Plan <- <<"output", "email">>,
            MaxStarts <- Restarts, Upsets <- Restarting, MaxUpsets <- MaxRestarting

A == INSTANCE OrchestrationQueue
       WITH MaxRuns <- 1, Concurrency <- 1, Triggers <- {"manual"}, upsets <- setbacks,
            NSteps <- 3, Plan <- <<"output", "refresh", "email">>,
            MaxStarts <- 1, Upsets <- Failing, MaxUpsets <- MaxFailing

ASSUME QueueAssumption == R!ConstantsAssumption /\ A!ConstantsAssumption

queue == <<runs, steps, told, proc, work, loop, late, setbacks>>
allVars == <<which, vars, queue>>

MCInit == \/ which = "slots" /\ Init /\ R!Init
          \/ which = "restarts" /\ Init /\ row = Off /\ R!Init
          \/ which = "answers" /\ Init /\ row = Off /\ A!Init

MCNext == \/ which = "slots" /\ Next /\ UNCHANGED <<which, queue>>
          \/ which = "restarts" /\ R!Next /\ UNCHANGED <<which, vars>>
          \/ which = "answers" /\ A!Next /\ UNCHANGED <<which, vars>>

MCSpec == MCInit /\ [][MCNext]_allVars

(* The processes are interchangeable, and so are the users.                       *)
Symmetry == Permutations(Procs) \union Permutations(Users)

(* OrchestrationQueue: at most one step is launched for a run closed already.     *)
AtMostOneLateStep == which = "restarts" => R!AtMostOneLateStep
(* No two tasks of a run are on the engine at once.                               *)
OneStepAtATime == which = "restarts" => R!OneStepAtATime
(* What a refresh or an email that failed stops.                                  *)
StopsTheSequence == which = "answers" => A!StopsTheSequence
(* A run recorded as succeeded has every step recorded as succeeded.              *)
SuccessIsWhole == which = "answers" => A!SuccessIsWhole
================================================================================
