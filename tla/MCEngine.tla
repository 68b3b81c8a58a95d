------------------------------- MODULE MCEngine --------------------------------
(* Four components of the engine that share nothing with each other, checked in   *)
(* one run: `which` says whose behaviours a behaviour is of.                      *)
EXTENDS TileCache, TLC

CONSTANTS Asks, Faults,                          \* PreviewSlots
          Tasks, Cap, TaskLimit, QueueWait, ExportsHorizon,        \* ExportSlots
          TTL, TICK, CONFIRM, Blips, Cut, WorkersHorizon               \* LostTasks

VARIABLES which,
          slot, at, previous, pTask, revoked, later, stray, faults,
          clock, place, owner, task, asked, began,
          lClock, worker, started, wrote, key, lTask, lSince, suspect, told, cut, blips

P == INSTANCE PreviewSlots WITH task <- pTask
X == INSTANCE ExportSlots WITH Horizon <- ExportsHorizon
L == INSTANCE LostTasks
       WITH Horizon <- WorkersHorizon, clock <- lClock, task <- lTask, since <- lSince

ASSUME ConstantsAssumption == ConstantsOK /\ X!ConstantsOK /\ L!TimesAssumption /\ P!ConstantsOK

pv == <<slot, at, previous, pTask, revoked, later, stray, faults>>
xv == <<clock, place, owner, task, asked, began>>
lv == <<lClock, worker, started, wrote, key, lTask, lSince, suspect, told, cut, blips>>
allVars == <<which, vars, pv, xv, lv>>

MCInit == /\ which \in {"tiles", "previews", "exports", "workers"}
          /\ Init /\ P!Init /\ X!Init /\ L!Init

MCNext == \/ which = "tiles" /\ Next /\ UNCHANGED <<which, pv, xv, lv>>
          \/ which = "previews" /\ P!Next /\ UNCHANGED <<which, vars, xv, lv>>
          \/ which = "exports" /\ X!Next /\ UNCHANGED <<which, vars, pv, lv>>
          \/ which = "workers" /\ L!Next /\ UNCHANGED <<which, vars, pv, xv>>

MCSpec == MCInit /\ [][MCNext]_allVars

(* The requests are interchangeable, and so are the tasks.                        *)
Symmetry == Permutations(Requests)

(* The variables of every component have their types.                             *)
TypesOK == TypeOK /\ P!TypeOK /\ X!TypeOK /\ L!TypeOK
(* PreviewSlots: who is superseded or stopped has another after it, and who waits *)
(* has had those before it stopped, but for what faults leave.                    *)
OnlyTheNewest == P!OnlyTheNewest
(* ExportSlots: no more exports than the cap, of those that did not wait too long. *)
CapHolds == X!CapHolds
(* LostTasks: a task said to be lost has no worker any more (at most one blip).   *)
LostIsGone == L!LostIsGone
================================================================================
