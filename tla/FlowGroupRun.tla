----------------------------- MODULE FlowGroupRun -----------------------------
(* The run of a flow group (gateway: services/flow_group_runner.py): its steps   *)
(* in order, the cells of a step at the same time, within the budget of the       *)
(* process.  A flow's or a script's cell takes the live slot of what it runs (a   *)
(* unique index of the table), a SQL script's cell looks for a write in progress, *)
(* a refresh's for an import, the others run something of their own.  A run that   *)
(* somebody else started stands for a flow, a script or a SQL script only if it    *)
(* started after the previous step ended; for a refresh the import already going  *)
(* does, whenever it began.  The group's row is closed by its process or, when its *)
(* heartbeat is no longer seen, by another.                                       *)
EXTENDS Naturals, FiniteSets
CONSTANTS Cells,          \* the cells of the grid
          StepOf,         \* the step of each cell, from 1
          KindOf,         \* "flow", "script", "refresh", "sql", or "task" (container, pushmail)
          TargetOf,       \* what each cell runs
          Others,         \* runs of the same things that others may start, once each
          Budget,         \* ORCHESTRATOR__MAX_CONCURRENT
          SlotAttempts,   \* SLOT_ATTEMPTS, and the looks of a refresh
          MaxMishaps      \* bound: crashes, stops, freezes, failures of the database

VARIABLES group,          \* the group's row, and where its process is
          cell,           \* each cell: where its task is, its state in the grid
          row,            \* the run each cell made, and the others'
          mishaps

vars == <<group, cell, row, mishaps>>

Steps == {StepOf[c] : c \in Cells}
HasSlot(c) == KindOf[c] \in {"flow", "script"}
(* What starts only where nothing of it is live, and at once: the index's word, or *)
(* the datasource's lock held from the look to the commit.                        *)
StartsIfFree(c) == HasSlot(c) \/ KindOf[c] = "refresh"
NoRow == [status |-> "none", of |-> "none", mode |-> "production", born |-> 0]

Init == /\ group = [status |-> "STARTED", by |-> "none", at |-> "between", step |-> 0,
                    notOurs |-> FALSE, toStop |-> FALSE]
        /\ cell = [c \in Cells |-> [pc |-> "none", state |-> "waiting", tries |-> 0, run |-> "none", ok |-> FALSE]]
        /\ row = [r \in Cells \union Others |-> NoRow]
        /\ mishaps = 0

Mishap == mishaps < MaxMishaps /\ mishaps' = mishaps + 1

InStep == {c \in Cells : StepOf[c] = group.step}
Goto(c, label) == cell' = [cell EXCEPT ![c].pc = label]
Runs(c) == group.at = "step" /\ c \in InStep
(* What holds a place of the budget.                                              *)
RunningCells == {c \in Cells : cell[c].pc \notin {"none", "waits", "done"}}

Closed(status, by) == IF group.status = "STARTED" THEN [group EXCEPT !.status = status, !.by = by, !.at = "left"]
                      ELSE [group EXCEPT !.at = "left"]

(* _run_steps: a step begins only while the group is still this process's; its    *)
(* number stands for `since`.                                                     *)
BeginStep ==
    /\ group.at = "between"
    /\ IF group.status = "STARTED"
       THEN /\ group' = [group EXCEPT !.at = "step", !.step = @ + 1]
            /\ cell' = [c \in Cells |-> IF StepOf[c] = group.step + 1 THEN [cell[c] EXCEPT !.pc = "waits"] ELSE cell[c]]
       ELSE group' = [group EXCEPT !.at = "left"] /\ UNCHANGED cell
    /\ UNCHANGED <<row, mishaps>>

(* skip_after.                                                                    *)
Skip(c) == IF StepOf[c] > group.step THEN "skipped" ELSE cell[c].state

(* Every cell of the step is over: a failure among them stops the group.          *)
EndStep ==
    /\ group.at = "step"
    /\ \A c \in InStep : cell[c].pc = "done"
    /\ IF \E c \in InStep : cell[c].state = "failed"
       THEN /\ cell' = [c \in Cells |-> [cell[c] EXCEPT !.state = Skip(c)]]
            /\ group' = Closed("FAILURE", "own")
       ELSE /\ UNCHANGED cell
            /\ group' = IF group.step + 1 \in Steps THEN [group EXCEPT !.at = "between"] ELSE Closed("SUCCESS", "own")
    /\ UNCHANGED <<row, mishaps>>

(* _run_cell: past the budget it waits.                                           *)
StartCell(c) ==
    /\ Runs(c)
    /\ cell[c].pc = "waits"
    /\ Cardinality(RunningCells) < Budget
    /\ cell' = [cell EXCEPT ![c].state = "running",
                            ![c].pc = IF StartsIfFree(c) THEN "insert" ELSE IF KindOf[c] = "sql" THEN "look" ELSE "launch"]
    /\ UNCHANGED <<group, row, mishaps>>

Live(t) == {r \in DOMAIN row : row[r].of = t /\ row[r].status = "STARTED"}
Born(c) == [row EXCEPT ![c] = [status |-> "STARTED", of |-> TargetOf[c], mode |-> "production", born |-> group.step]]

(* What is over for a cell leaves it its answer.                                  *)
Answered(c, ok) == [cell EXCEPT ![c].pc = "answer", ![c].ok = ok]
Again(c, n) == IF n < SlotAttempts
               THEN [cell EXCEPT ![c].pc = IF StartsIfFree(c) THEN "insert" ELSE "look", ![c].tries = n]
               ELSE Answered(c, FALSE)

(* _flow_cell, _script_cell: the child's row, unless the index refuses it;        *)
(* start_refresh_if_free: the import, unless one of the datasource is live.       *)
InsertChild(c) ==
    /\ Runs(c)
    /\ cell[c].pc = "insert"
    /\ IF Live(TargetOf[c]) = {}
       THEN row' = Born(c) /\ cell' = [cell EXCEPT ![c].pc = "carry", ![c].run = c]
       ELSE UNCHANGED row /\ cell' = [cell EXCEPT ![c].pc = "look", ![c].tries = @ + 1]
    /\ UNCHANGED <<group, mishaps>>

CountsAnyTime(c, r) == KindOf[c] = "flow" => row[r].mode = "production"
(* What must have begun after the steps before it ended.                          *)
MustBeNew(c) == StepOf[c] > 1 /\ KindOf[c] # "refresh"
(* _counts, and the same test of a script's and a SQL script's cell; a refresh    *)
(* makes none.                                                                    *)
Counts(c, r) == /\ KindOf[c] = "flow" => row[r].mode = "production"
                /\ MustBeNew(c) => row[r].born >= StepOf[c]

(* The live run is looked for: its outcome will be the cell's, or it is let end;  *)
(* none any more, and the slot is tried again (a SQL script's write launched).    *)
LookForLive(c) ==
    /\ Runs(c)
    /\ cell[c].pc = "look"
    /\ \/ /\ Live(TargetOf[c]) = {}
          /\ cell' = IF StartsIfFree(c) THEN Again(c, cell[c].tries) ELSE [cell EXCEPT ![c].pc = "launch"]
       \/ \E r \in Live(TargetOf[c]) :
            cell' = [cell EXCEPT ![c].pc = IF Counts(c, r) THEN "take" ELSE "let", ![c].run = r]
    /\ UNCHANGED <<group, row, mishaps>>

(* _wait_for, the run over (_refresh_and_wait for a refresh).                     *)
WaitOver(c) ==
    /\ Runs(c)
    /\ cell[c].pc \in {"take", "let"}
    /\ row[cell[c].run].status # "STARTED"
    /\ cell' = IF cell[c].pc = "take" THEN Answered(c, row[cell[c].run].status = "SUCCESS")
               ELSE Again(c, IF HasSlot(c) THEN cell[c].tries ELSE cell[c].tries + 1)
    /\ UNCHANGED <<group, row, mishaps>>

(* A cell raises: its siblings are cancelled.                                     *)
Raise(c, notOurs) == /\ Goto(c, "done")
                     /\ group' = [group EXCEPT !.at = "raising", !.notOurs = notOurs]

(* _wait_for, the group no longer of this process; a refresh does not look.       *)
WaitStops(c) == /\ Runs(c)
                /\ KindOf[c] # "refresh"
                /\ cell[c].pc \in {"take", "let"}
                /\ group.status # "STARTED"
                /\ Raise(c, TRUE)
                /\ UNCHANGED <<row, mishaps>>

(* _sql_cell launches a write, under the script's lock; the others start theirs.  *)
Launch(c) ==
    /\ Runs(c)
    /\ cell[c].pc = "launch"
    /\ IF KindOf[c] = "sql" /\ Live(TargetOf[c]) # {}
       THEN UNCHANGED row /\ cell' = Again(c, cell[c].tries + 1)
       ELSE row' = Born(c) /\ cell' = [cell EXCEPT ![c].pc = "carry", ![c].run = c]
    /\ UNCHANGED <<group, mishaps>>

End(r, status) == [row EXCEPT ![r].status = IF @ = "STARTED" THEN status ELSE @]
Outcome(ok) == IF ok THEN "SUCCESS" ELSE "FAILURE"

(* The flow or the script ends in this process, and its row is closed.            *)
ChildEnds(c, ok) == /\ Runs(c)
                    /\ cell[c].pc = "carry"
                    /\ HasSlot(c)
                    /\ row' = End(c, Outcome(ok))
                    /\ cell' = Answered(c, ok)
                    /\ UNCHANGED <<group, mishaps>>

(* A task of the engine or of the cluster ends, and any run of the others.        *)
TaskEnds(r, ok) == /\ row[r].status = "STARTED"
                   /\ r \in Cells => ~HasSlot(r)
                   /\ row' = End(r, Outcome(ok))
                   /\ UNCHANGED <<group, cell, mishaps>>

(* _wait_run.                                                                     *)
Collect(c) == /\ Runs(c)
              /\ cell[c].pc = "carry"
              /\ ~HasSlot(c)
              /\ row[c].status # "STARTED"
              /\ cell' = Answered(c, row[c].status = "SUCCESS")
              /\ UNCHANGED <<group, row, mishaps>>

(* _refresh_and_wait, past refresh_wait_seconds: the cell fails, the import goes   *)
(* on.                                                                            *)
WaitTooLong(c) == /\ Runs(c)
                  /\ KindOf[c] = "refresh"
                  /\ cell[c].pc \in {"take", "carry"}
                  /\ row[cell[c].run].status = "STARTED"
                  /\ cell' = Answered(c, FALSE)
                  /\ UNCHANGED <<group, row, mishaps>>

SetState(c) == /\ Runs(c)
               /\ cell[c].pc = "answer"
               /\ cell' = [cell EXCEPT ![c].pc = "done", ![c].state = IF cell[c].ok THEN "succeeded" ELSE "failed"]
               /\ UNCHANGED <<group, row, mishaps>>

(* The grid cannot be written: the cell raises.                                   *)
GridFails(c) == /\ Runs(c)
                /\ cell[c].pc \in {"waits", "answer"}
                /\ Mishap
                /\ Raise(c, FALSE)
                /\ UNCHANGED row

(* The child's row is there and its number could not be written in the grid: the  *)
(* cell fails, the child is carried by nobody.                                    *)
ChildForgotten(c) == /\ Runs(c)
                     /\ HasSlot(c)
                     /\ cell[c].pc = "insert"
                     /\ Live(TargetOf[c]) = {}
                     /\ Mishap
                     /\ row' = Born(c)
                     /\ cell' = Answered(c, FALSE)
                     /\ UNCHANGED group

LeftOpen(c) == row
(* CancelledError in _flow_cell and _script_cell: the child is interrupted.       *)
Interrupted(c) == IF cell[c].pc = "carry" /\ HasSlot(c) THEN End(c, "FAILURE") ELSE row

Cancel(c) == /\ group.at \in {"raising", "stopping"}
             /\ c \in InStep
             /\ cell[c].pc # "done"
             /\ row' = Interrupted(c)
             /\ Goto(c, "done")
             /\ UNCHANGED <<group, mishaps>>

AllAnswered == \A c \in InStep : cell[c].state \in {"succeeded", "failed"}
AllCancelled == \A c \in InStep : cell[c].pc = "done"

(* run_group leaves a group that is no longer its own; run_it closes any other.   *)
EndRaise == /\ group.at = "raising"
            /\ AllCancelled
            /\ group' = IF group.notOurs THEN [group EXCEPT !.at = "left"] ELSE Closed("FAILURE", "own")
            /\ UNCHANGED <<cell, row, mishaps>>

(* The process is stopping: the group is interrupted, its open steps stopped.     *)
StopProcess == /\ group.at \in {"between", "step"}
               /\ Mishap
               /\ group' = [group EXCEPT !.at = "stopping"]
               /\ UNCHANGED <<cell, row>>
EndStop == /\ group.at = "stopping"
           /\ AllCancelled
           /\ group' = [Closed("FAILURE", "own") EXCEPT !.toStop = TRUE]
           /\ UNCHANGED <<cell, row, mishaps>>

(* The process dies, or does not beat for too long: another closes the group ...  *)
Crash == /\ group.at # "left"
         /\ Mishap
         /\ group' = [group EXCEPT !.at = "left"]
         /\ UNCHANGED <<cell, row>>
CloseOrphan == /\ group.status = "STARTED"
               /\ IF group.at = "left" THEN UNCHANGED mishaps ELSE Mishap
               /\ group' = [group EXCEPT !.status = "FAILURE", !.by = "another", !.toStop = TRUE]
               /\ UNCHANGED <<cell, row>>

(* ... and whoever closed it as interrupted stops its steps.                      *)
StopSteps == /\ group.toStop
             /\ group' = [group EXCEPT !.toStop = FALSE]
             /\ row' = [r \in DOMAIN row |-> IF r \in Cells /\ row[r].status = "STARTED"
                                             THEN [row[r] EXCEPT !.status = "FAILURE"] ELSE row[r]]
             /\ UNCHANGED <<cell, mishaps>>

(* A child nobody beats for is closed by any orchestrator.                        *)
Carried(c) == group.at # "left" /\ cell[c].pc = "carry"
CloseChild(c) == /\ HasSlot(c)
                 /\ row[c].status = "STARTED"
                 /\ ~Carried(c)
                 /\ row' = End(c, "FAILURE")
                 /\ UNCHANGED <<group, cell, mishaps>>

(* Somebody else runs what a cell runs: a flow's own schedule, a person, ...      *)
OtherStarts(o, c, mode) ==
    /\ row[o].status = "none"
    /\ KindOf[c] # "task"
    /\ mode = "development" => KindOf[c] = "flow"
    /\ Live(TargetOf[c]) = {}
    /\ row' = [row EXCEPT ![o] = [status |-> "STARTED", of |-> TargetOf[c], mode |-> mode, born |-> group.step]]
    /\ UNCHANGED <<group, cell, mishaps>>

CellStep(c) == \/ StartCell(c) \/ InsertChild(c) \/ LookForLive(c) \/ WaitOver(c) \/ WaitStops(c) \/ Launch(c)
               \/ (\E ok \in BOOLEAN : ChildEnds(c, ok)) \/ Collect(c) \/ WaitTooLong(c) \/ SetState(c)
               \/ Cancel(c)
GroupStep == BeginStep \/ EndStep \/ EndRaise \/ EndStop \/ StopSteps
Next == \/ GroupStep \/ StopProcess \/ Crash \/ CloseOrphan
        \/ \E c \in Cells : CellStep(c) \/ GridFails(c) \/ ChildForgotten(c) \/ CloseChild(c)
        \/ \E r \in DOMAIN row, ok \in BOOLEAN : TaskEnds(r, ok)
        \/ \E o \in Others, c \in Cells, mode \in {"production", "development"} : OtherStarts(o, c, mode)
Spec == Init /\ [][Next]_vars

(* The process's tasks go on while it lives, what they wait for ends, and the     *)
(* orchestrators look for orphans.                                                *)
Fairness == /\ WF_vars(GroupStep)
            /\ WF_vars(\E c \in Cells : CellStep(c)) /\ WF_vars(\E c \in Cells : CloseChild(c))
            /\ WF_vars(\E r \in Cells \union Others, ok \in BOOLEAN : TaskEnds(r, ok))
            /\ WF_vars(group.at = "left" /\ CloseOrphan)

------------------------------------------------------------------------------
GroupRow == [status : {"STARTED", "SUCCESS", "FAILURE"}, by : {"none", "own", "another"},
             at : {"between", "step", "raising", "stopping", "left"}, step : {0} \union Steps,
             notOurs : BOOLEAN, toStop : BOOLEAN]
Early == {"none", "waits", "insert", "look", "take", "let", "launch"}
GridCell == [pc : Early \union {"carry", "answer", "done"},
             state : {"waiting", "running", "succeeded", "failed", "skipped"},
             tries : 0..SlotAttempts, run : Cells \union Others \union {"none"}, ok : BOOLEAN]
Run == [status : {"none", "STARTED", "SUCCESS", "FAILURE"}, of : {TargetOf[c] : c \in Cells} \union {"none"},
        mode : {"production", "development"}, born : Nat]
TypeOK == /\ group \in GroupRow
          /\ cell \in [Cells -> GridCell]
          /\ row \in [Cells \union Others -> Run]
          /\ mishaps \in 0..MaxMishaps
          /\ Cardinality(RunningCells) <= Budget

(* A group has steps 1, 2, ... of at least one cell, and a slot is tried at least *)
(* once.                                                                          *)
ConstantsOK == /\ IsFiniteSet(Cells) /\ Cells \intersect Others = {} /\ "none" \notin Cells \union Others
               /\ StepOf \in [Cells -> Nat \ {0}] /\ 1 \in Steps
               /\ KindOf \in [Cells -> {"flow", "script", "refresh", "sql", "task"}]
               /\ TargetOf \in [Cells -> {TargetOf[c] : c \in Cells}]
               /\ Budget \in Nat /\ SlotAttempts \in Nat \ {0} /\ MaxMishaps \in Nat

(* While the group is its process's, a cell starts only when every cell of the    *)
(* steps before succeeded, and a cell that succeeded did so with a run that       *)
(* succeeded.  A flow, a script or a SQL script after the first step stands on a  *)
(* run that started when the previous step was over: it cannot have read data      *)
(* older than it.  (A refresh stands on any import, as docs/capabilities/          *)
(* flow-groups.md says.)                                                          *)
StepsInOrder ==
    group.by # "another" =>
        \A c \in Cells :
            /\ cell[c].state \notin {"waiting", "skipped"} =>
                   \A d \in Cells : StepOf[d] < StepOf[c] => cell[d].state = "succeeded"
            /\ cell[c].state = "succeeded" =>
                   /\ row[cell[c].run].status = "SUCCESS"
                   /\ MustBeNew(c) => row[cell[c].run].born >= StepOf[c]
                   /\ KindOf[c] = "flow" => row[cell[c].run].mode = "production"

(* Once a group is closed by its own process none of the flows and scripts it     *)
(* carried still runs, whatever failed: a cell that raised took its siblings with  *)
(* it.  (One whose number could not be written in the grid is carried by nobody.)  *)
FlowsEndWithTheGroup ==
    group.by = "own" => \A c \in Cells : HasSlot(c) /\ row[c].status = "STARTED" => cell[c].run # c

(* What makes the two inductive.  Who closed the group, and what it leaves.        *)
ClosedOnce == /\ group.by = "none" <=> group.status = "STARTED"
              /\ group.by = "own" => group.at = "left" /\ \A c \in Cells : cell[c].pc \in {"none", "done"}
              /\ group.toStop => group.by = "another" \/ group.at = "left"
              /\ group.at = "between" => group.step + 1 \in Steps
(* The steps behind have succeeded, the steps ahead have not begun.               *)
StepsBehind == \A c \in Cells :
    /\ StepOf[c] > group.step => cell[c].pc = "none" /\ cell[c].state \in {"waiting", "skipped"}
    /\ StepOf[c] < group.step \/ (group.at = "between" /\ StepOf[c] = group.step) => cell[c].state = "succeeded"
(* A cell with an answer is done, and while the step goes on the converse holds.  *)
DoneIsAnswered == \A c \in Cells :
    /\ cell[c].state \in {"succeeded", "failed"} => cell[c].pc = "done"
    /\ group.at = "step" /\ cell[c].pc = "done" => cell[c].state \in {"succeeded", "failed"}
    /\ cell[c].pc = "insert" => cell[c].tries < SlotAttempts
(* A cell makes one run, and a flow's or a script's it carries to its end.        *)
BornOnce == \A c \in Cells :
    /\ cell[c].pc \in Early => row[c].status = "none" /\ cell[c].run # c
    /\ HasSlot(c) /\ row[c].status = "STARTED" /\ cell[c].run = c => cell[c].pc = "carry"
(* What the cell looks at is recent enough to answer for it.                      *)
Fits(c) == /\ cell[c].run \in DOMAIN row
           /\ row[cell[c].run].status # "none"
           /\ MustBeNew(c) => row[cell[c].run].born >= StepOf[c]
           /\ KindOf[c] = "flow" => row[cell[c].run].mode = "production"
LooksRight(c) ==
    /\ cell[c].pc \in {"take", "let"} => cell[c].run \in DOMAIN row /\ row[cell[c].run].status # "none"
    /\ cell[c].pc \in {"take", "carry"} => Fits(c)
    /\ cell[c].pc = "carry" => cell[c].run = c
Looked == \A c \in Cells : LooksRight(c)
(* A good answer is that of a run that succeeded, unless somebody else has closed *)
(* the group and its steps.                                                       *)
AnswerHolds(c) ==
    /\ cell[c].pc = "carry" /\ HasSlot(c) /\ group.at # "left" => row[c].status = "STARTED"
    /\ cell[c].state = "succeeded" \/ (cell[c].pc = "answer" /\ cell[c].ok) =>
           Fits(c) /\ row[cell[c].run].status = "SUCCESS"
AnswersHold == group.by # "another" => \A c \in Cells : AnswerHolds(c)
IInv == TypeOK /\ ClosedOnce /\ StepsBehind /\ DoneIsAnswered /\ BornOnce /\ Looked /\ AnswersHold

(* flow_group_runner.py, _run_steps: "A cell that raises cancels its siblings (a  *)
(* task group), so nothing of a closed group keeps running unseen."               *)
NothingRunsUnseen ==
    group.by = "own" /\ ~group.toStop => \A c \in Cells : row[c].status = "STARTED" => HasSlot(c)

(* Every group run is closed: again and again it is no longer open.               *)
GroupCloses == []<>(group.status # "STARTED")
==============================================================================
