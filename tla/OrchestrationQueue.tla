------------------------- MODULE OrchestrationQueue -------------------------
(***************************************************************************)
(* The queue of flow orchestrations and the processes that carry them      *)
(* (gateway/app/services/orchestrator.py, and routes/runs.py for the rows  *)
(* of the steps).                                                          *)
(*                                                                         *)
(* A run is a row of the table `runs`.  The API and the scheduler insert   *)
(* it PENDING; an orchestrator process claims it with a conditional        *)
(* UPDATE, which signs it (STARTED), and a coroutine of that process then  *)
(* launches the flow's steps on the engine one after the other.  Nothing   *)
(* but the rows is shared by the processes: a process that dies, stalls or *)
(* stops leaves rows behind, which the others recognise by their old       *)
(* heartbeat, close, and whose steps they stop.                            *)
(*                                                                         *)
(* One action is one statement or transaction on the database, or one call *)
(* to the engine, so what two processes do interleaves as it does in       *)
(* PostgreSQL (READ COMMITTED: a conditional UPDATE sees the row as it is  *)
(* when it runs).                                                          *)
(***************************************************************************)
EXTENDS Integers, FiniteSets

CONSTANTS
    Flows,        \* the flows
    Procs,        \* the orchestrator processes, each a host and a pid
    MaxRuns,      \* how many rows are ever inserted (bound)
    NSteps,       \* how many action nodes a flow's sequence has
    Plan,         \* the kind of each of them
    Concurrency,  \* ORCHESTRATOR__MAX_CONCURRENT
    MaxStarts,    \* how many times a process starts (bound)
    Triggers,     \* what launches runs: a user, a schedule, a group's cell
    Upsets,       \* the kinds of upset that may happen: upsets, stops
    MaxUpsets,    \* how many of them (bound)
    Nobody, NoFlow

Kinds == {"output", "refresh", "email"}
UpsetKinds == {"stop", "crash", "outage", "freeze", "db", "engine"}

ASSUME ConstantsAssumption ==
    /\ MaxRuns \in Nat /\ NSteps \in Nat \ {0} /\ Concurrency \in Nat \ {0}
    /\ MaxStarts \in Nat /\ MaxUpsets \in Nat
    /\ Plan \in [1..NSteps -> Kinds]
    /\ Triggers \subseteq {"manual", "schedule", "cell"}
    /\ Upsets \subseteq UpsetKinds
    /\ NoFlow \notin Flows
    /\ Nobody \notin Procs \X Nat

RunIds == 1..MaxRuns
Steps  == 1..NSteps

VARIABLES
    runs,    \* the orchestration rows of `runs`
    steps,   \* the rows of their steps and the engine's tasks
    told,    \* how many times a run's closing was announced (webhook_deliveries)
    proc,    \* the processes
    work,    \* the coroutine carrying a run (run_it), in the process's memory
    loop,    \* the queue's loop of a process, in its memory
    late,    \* history: tasks queued for a run closed already
    upsets   \* history: the upsets so far

vars == <<runs, steps, told, proc, work, loop, late, upsets>>

(***************************************************************************)
(* The rows.                                                               *)
(***************************************************************************)
Final == {"SUCCESS", "FAILURE"}
NoRun == [status |-> "none", flow |-> NoFlow, trigger |-> "none",
          by |-> Nobody, beat |-> "none"]
NoStep == [row |-> "none", task |-> "none"]

Open(r)   == runs[r].status \in {"PENDING", "STARTED"}
Closed(r) == runs[r].status \in Final

\* A step's row not finished: "placed" waits for its task's id (its task_id is
\* a placeholder), "open" has it.
OpenRow(x) == x \in {"placed", "open"}

\* Slip: no unique index.
NoIndex(r, f) == TRUE

\* No other run of the flow is STARTED: the unique index of the live runs.
IndexFree(r, f) == \A q \in RunIds \ {r} : ~(runs[q].flow = f /\ runs[q].status = "STARTED")

\* The serial id the next INSERT gets.
NextId(r) == /\ runs[r].status = "none"
             /\ \A q \in RunIds : q < r => runs[q].status # "none"

(***************************************************************************)
(* The processes.  A signature, host:pid:hex, is a process and the number  *)
(* of its start.                                                           *)
(***************************************************************************)
Sig(p) == <<p, proc[p].start>>

Idle == [pc |-> "idle", n |-> 1, errs |-> FALSE]
NoLoop == [at |-> "idle", cands |-> {}, free |-> 0, refused |-> {}, skip |-> {},
           stop |-> {}, todo |-> {}]

\* The ids whose coroutine lives in p (_alive): what the heartbeat beats for.
Alive(p) == {r \in RunIds : work[p][r].pc \notin {"idle", "taken"}}
Taken(p) == {r \in RunIds : work[p][r].pc = "taken"}

\* running_cells, and _running.
Cells(p)   == {r \in Alive(p) : runs[r].trigger = "cell"}
Running(p) == Alive(p) \ Cells(p)

\* The loop is between two things to do.
LoopIdle(p) == /\ proc[p].phase = "run"
               /\ loop[p].at = "idle" /\ loop[p].stop = {} /\ loop[p].todo = {}

Earliest(S) == {r \in S : \A q \in S : r <= q}

\* An upset of the kind happens, within the bound.
Upset(kind) == /\ kind \in Upsets /\ upsets < MaxUpsets
               /\ upsets' = upsets + 1

(***************************************************************************)
(* What several actions do to a row.                                       *)
(***************************************************************************)
\* The rows of S closed with the outcome, each closing announced in the same
\* transaction.
Close(S, outcome) ==
    /\ runs' = [r \in RunIds |->
                    IF r \in S THEN [runs[r] EXCEPT !.status = outcome] ELSE runs[r]]
    /\ told' = [r \in RunIds |-> IF r \in S THEN told[r] + 1 ELSE told[r]]

\* Slip: an UPDATE without the condition on the status.
FinalizeAnyway(r, outcome) == Close({r}, outcome)

\* finalize: closed by whoever finds it still open.
Finalize(r, outcome) == Close({q \in {r} : Open(q)}, outcome)

Sign(r, p, f, t) ==
    runs' = [runs EXCEPT ![r] = [status |-> "STARTED", flow |-> f, trigger |-> t,
                                 by |-> Sig(p), beat |-> "fresh"]]

Goto(p, r, label) == work' = [work EXCEPT ![p][r].pc = label]
\* What the claim had taken has nobody to carry it.
LetGo(p) == work' = [work EXCEPT ![p] = [r \in RunIds |->
                                            IF r \in Taken(p) THEN Idle ELSE work[p][r]]]
SetRow(r, n, x)   == steps' = [steps EXCEPT ![r][n].row = x]

Init ==
    /\ runs  = [r \in RunIds |-> NoRun]
    /\ steps = [r \in RunIds |-> [n \in Steps |-> NoStep]]
    /\ told  = [r \in RunIds |-> 0]
    /\ proc  = [p \in Procs |-> [phase |-> "down", start |-> 0, beats |-> FALSE,
                                 healthy |-> FALSE, drains |-> FALSE]]
    /\ work  = [p \in Procs |-> [r \in RunIds |-> Idle]]
    /\ loop  = [p \in Procs |-> NoLoop]
    /\ late  = [r \in RunIds |-> 0]
    /\ upsets = 0

(***************************************************************************)
(* Queueing: "Run now" and the scheduler.  Both hold the flow's advisory   *)
(* lock while they look for a live run and insert, so looking and          *)
(* inserting are one step.                                                 *)
(***************************************************************************)
Enqueue(f, t) ==
    \E r \in RunIds :
        /\ t \in Triggers
        /\ NextId(r)
        /\ \A q \in RunIds : ~(runs[q].flow = f /\ Open(q))
        /\ runs' = [runs EXCEPT ![r] = [NoRun EXCEPT !.status = "PENDING",
                                                     !.flow = f, !.trigger = t]]
        /\ UNCHANGED <<steps, told, proc, work, loop, late, upsets>>

RunNow(f)       == Enqueue(f, "manual")
FireSchedule(f) == Enqueue(f, "schedule")

(***************************************************************************)
(* Claiming, by the loop of a process.                                     *)
(***************************************************************************)
\* The waiting rows are read; from here on they may be stale.
ReadQueue(p) ==
    LET waiting == {r \in RunIds : runs[r].status = "PENDING"}
        free    == Concurrency - Cardinality(Running(p)) - Cardinality(Cells(p))
    IN /\ LoopIdle(p)
       /\ ~proc[p].drains
       /\ free > 0
       /\ waiting # {}
       /\ loop' = [loop EXCEPT ![p] = [NoLoop EXCEPT !.at = "claim",
                                        !.cands = waiting, !.free = free]]
       /\ UNCHANGED <<runs, steps, told, proc, work, late, upsets>>

ClaimGoesOn(p) == /\ proc[p].phase = "run"
                  /\ loop[p].at = "claim" /\ loop[p].skip = {}

\* Slip: the claim trusts the SELECT.
ClaimableAsRead(r) == TRUE

\* The condition of the claim's UPDATE.
Claimable(r) == runs[r].status = "PENDING"

\* The earliest candidate's conditional UPDATE.  Refused by the index, a
\* scheduled row is to be removed and a manual one to be closed as failed.
ClaimNext(p) ==
    /\ ClaimGoesOn(p)
    /\ Cardinality(Taken(p)) < loop[p].free
    /\ \E r \in Earliest(loop[p].cands) :
          LET clash == Claimable(r) /\ ~IndexFree(r, runs[r].flow)
              slot  == runs[r].trigger = "schedule"
          IN /\ loop' = [loop EXCEPT
                    ![p].cands   = @ \ {r},
                    ![p].skip    = IF clash /\ slot THEN {r} ELSE @,
                    ![p].refused = IF clash /\ ~slot THEN @ \union {r} ELSE @]
             /\ IF Claimable(r) /\ ~clash
                THEN Sign(r, p, runs[r].flow, runs[r].trigger) /\ Goto(p, r, "taken")
                ELSE UNCHANGED <<runs, work>>
    /\ UNCHANGED <<steps, told, proc, late, upsets>>

\* The UPDATE commits but its answer is lost: the row is signed, nobody carries
\* it, and the round ends with what it took before.
ClaimAnswerLost(p) ==
    /\ ClaimGoesOn(p)
    /\ Cardinality(Taken(p)) < loop[p].free
    /\ \E r \in Earliest(loop[p].cands) :
          /\ Claimable(r) /\ IndexFree(r, runs[r].flow)
          /\ Sign(r, p, runs[r].flow, runs[r].trigger)
    /\ loop' = [loop EXCEPT ![p].cands = {}]
    /\ Upset("db")
    /\ UNCHANGED <<steps, told, proc, work, late>>

\* The slot that fired while the flow was running is removed without a trace.
SkipSlot(p) ==
    /\ proc[p].phase = "run"
    /\ \E r \in loop[p].skip :
          runs' = [runs EXCEPT ![r].status = IF @ = "PENDING" THEN "DELETED" ELSE @]
    /\ loop' = [loop EXCEPT ![p].skip = {}]
    /\ UNCHANGED <<steps, told, proc, work, late, upsets>>

\* The database fails that removal: claim raises, and what the round had taken is
\* signed with nobody carrying it.
SkipFails(p) ==
    /\ proc[p].phase = "run" /\ loop[p].skip # {}
    /\ LetGo(p)
    /\ loop' = [loop EXCEPT ![p] = NoLoop]
    /\ Upset("db")
    /\ UNCHANGED <<runs, steps, told, proc, late>>

\* claim runs in a thread, which goes on when the loop has been stopped, and even
\* after the last closing; the process exits when it ends.
ClaimUnattended(p) ==
    /\ proc[p].phase \in {"stop", "down"}
    /\ \E r \in Earliest(loop[p].cands) :
          LET wanted == Claimable(r) /\ loop[p].free > 0
              taken  == wanted /\ IndexFree(r, runs[r].flow)
              slot   == wanted /\ ~taken /\ runs[r].trigger = "schedule"
          IN /\ loop' = [loop EXCEPT ![p].cands = @ \ {r},
                                    ![p].free = IF taken THEN @ - 1 ELSE @]
             /\ IF taken THEN Sign(r, p, runs[r].flow, runs[r].trigger)
                ELSE runs' = [runs EXCEPT ![r].status = IF slot THEN "DELETED" ELSE @]
    /\ UNCHANGED <<steps, told, proc, work, late, upsets>>

\* claim returns: a coroutine starts for every run taken.
StartTaken(p) ==
    /\ ClaimGoesOn(p)
    /\ loop[p].cands = {} \/ Cardinality(Taken(p)) >= loop[p].free
    /\ work' = [work EXCEPT ![p] = [r \in RunIds |->
                    IF r \in Taken(p) THEN [Idle EXCEPT !.pc = "load"] ELSE work[p][r]]]
    /\ loop' = [loop EXCEPT ![p] =
                    [NoLoop EXCEPT !.at = IF loop[p].refused = {} THEN "idle" ELSE "refuse",
                                   !.refused = loop[p].refused]]
    /\ UNCHANGED <<runs, steps, told, proc, late, upsets>>

\* A manual launch of a flow that was running: closed, only if still queued.
Refuse(p) ==
    /\ proc[p].phase = "run" /\ loop[p].at = "refuse"
    /\ \E r \in Earliest(loop[p].refused) :
          /\ Close({q \in {r} : runs[q].status = "PENDING"}, "FAILURE")
          /\ loop' = [loop EXCEPT
                ![p].refused = @ \ {r},
                ![p].at = IF loop[p].refused = {r} THEN "idle" ELSE @]
    /\ UNCHANGED <<steps, proc, work, late, upsets>>

\* A cell of a flow group, running in p, takes its flow's slot: a row born STARTED.
TakeChildSlot(p, f) ==
    /\ "cell" \in Triggers
    /\ proc[p].phase = "run"
    /\ Cardinality(Cells(p)) < Concurrency
    /\ \E r \in RunIds : /\ NextId(r) /\ IndexFree(r, f)
                         /\ Sign(r, p, f, "cell")
                         /\ Goto(p, r, "load")
    /\ UNCHANGED <<steps, told, proc, loop, late, upsets>>

(***************************************************************************)
(* Carrying a run: the coroutine of run r in process p.                    *)
(*   load -> check -> [place ->] submit -> record -> wait -> check ... end *)
(***************************************************************************)
At(p, r, label) == proc[p].phase = "run" /\ work[p][r].pc = label

Step(p, r) == work[p][r].n

\* A failure of these stops the sequence; an output's is collected.
Stops(n)    == Plan[n] \in {"refresh", "email"}
\* The task's payload names the run, so its row is written before the task.
Numbered(n) == Plan[n] = "email"

\* Slip: the errors of the earlier nodes forgotten.
AdvanceForgetting(p, r, errs) ==
    work' = [work EXCEPT ![p][r] =
                IF @.n = NSteps THEN [@ EXCEPT !.pc = "end", !.errs = errs]
                ELSE [pc |-> "check", n |-> @.n + 1, errs |-> FALSE]]

\* On to the next node with the errors so far, or to the end.
Advance(p, r, errs) ==
    work' = [work EXCEPT ![p][r] =
                IF @.n = NSteps THEN [@ EXCEPT !.pc = "end", !.errs = errs]
                ELSE [pc |-> "check", n |-> @.n + 1, errs |-> errs]]

\* Slip: a step that stops the sequence taken for an output.
StepFailedGoesOn(p, r) == Advance(p, r, TRUE)

\* What a step that failed does to its sequence.
StepFailed(p, r) == IF Stops(Step(p, r)) THEN Goto(p, r, "fail")
                    ELSE Advance(p, r, TRUE)

\* run_it reads the flow and the user; a flow or a user no longer valid, or a
\* scheduled run whose author lost a right, ends the run at once.
Load(p, r) ==
    /\ At(p, r, "load")
    /\ \E next \in {"check", "fail"} : Goto(p, r, next)
    /\ UNCHANGED <<runs, steps, told, proc, loop, late, upsets>>

\* Slip: the look at the row left out.
NoLook(p, r) == TRUE

\* _still_mine, before every step: when another closed the run there is nothing
\* left to do and nothing to record.
StillMine(p, r) == runs[r].status = "STARTED" /\ runs[r].by = Sig(p)

Check(p, r) ==
    /\ At(p, r, "check")
    /\ IF StillMine(p, r)
       THEN Goto(p, r, IF Numbered(Step(p, r)) THEN "place" ELSE "submit")
       ELSE Goto(p, r, "idle")
    /\ UNCHANGED <<runs, steps, told, proc, loop, late, upsets>>

\* The row of a numbered target, with a placeholder for its task.
Place(p, r) ==
    /\ At(p, r, "place")
    /\ SetRow(r, Step(p, r), "placed")
    /\ Goto(p, r, "submit")
    /\ UNCHANGED <<runs, told, proc, loop, late, upsets>>

QueueTask(r, n) ==
    /\ steps' = [steps EXCEPT ![r][n].task = "running"]
    /\ late'  = [late EXCEPT ![r] = IF Closed(r) THEN @ + 1 ELSE @]

\* The task is queued, and no row names it: whoever launches was stopped, or told
\* that the launch failed, and deletes the row it had placed.
LoseTask(r, n) ==
    /\ steps' = [steps EXCEPT ![r][n] = [row |-> "none", task |-> "running"]]
    /\ late'  = [late EXCEPT ![r] = IF Closed(r) THEN @ + 1 ELSE @]

\* The engine takes the task.
Submit(p, r) ==
    /\ At(p, r, "submit")
    /\ QueueTask(r, Step(p, r))
    /\ Goto(p, r, "record")
    /\ UNCHANGED <<runs, told, proc, loop, upsets>>

\* The engine refuses it, or the caller may not write there any more: the
\* placeholder's row is deleted.
SubmitRefused(p, r) ==
    /\ At(p, r, "submit")
    /\ SetRow(r, Step(p, r), "none")
    /\ StepFailed(p, r)
    /\ UNCHANGED <<runs, told, proc, loop, late, upsets>>

\* The engine takes the task but its answer is lost: for the gateway the launch
\* failed, and no row says the task is there.
SubmitAnswerLost(p, r) ==
    /\ At(p, r, "submit")
    /\ LoseTask(r, Step(p, r))
    /\ StepFailed(p, r)
    /\ Upset("engine")
    /\ UNCHANGED <<runs, told, proc, loop>>

\* The step's row is inserted, or the placeholder gets its task's id (whatever
\* became of the row meanwhile).
Record(p, r) ==
    /\ At(p, r, "record")
    /\ steps' = [steps EXCEPT ![r][Step(p, r)].row = IF @ \in Final THEN @ ELSE "open"]
    /\ Goto(p, r, "wait")
    /\ UNCHANGED <<runs, told, proc, loop, late, upsets>>

\* Slip: a row not final taken for a success.
AwaitNothing(p, r) ==
    /\ At(p, r, "wait")
    /\ IF steps[r][Step(p, r)].row = "FAILURE" THEN StepFailed(p, r)
       ELSE Advance(p, r, work[p][r].errs)
    /\ UNCHANGED <<runs, steps, told, proc, loop, late, upsets>>

\* _wait_run, _refresh_and_wait: the step's row is final.
Await(p, r) ==
    /\ At(p, r, "wait")
    /\ LET outcome == steps[r][Step(p, r)].row
       IN \/ outcome = "SUCCESS" /\ Advance(p, r, work[p][r].errs)
          \/ outcome = "FAILURE" /\ StepFailed(p, r)
    /\ UNCHANGED <<runs, steps, told, proc, loop, late, upsets>>

\* A refresh is awaited ORCHESTRATOR__REFRESH_WAIT_SECONDS at most.
GiveUpWaiting(p, r) ==
    /\ At(p, r, "wait")
    /\ Plan[Step(p, r)] = "refresh"
    /\ steps[r][Step(p, r)].row \notin Final
    /\ Goto(p, r, "fail")
    /\ UNCHANGED <<runs, steps, told, proc, loop, late, upsets>>

\* The database fails the coroutine: before a step the run ends; in a step the
\* step fails, an output's error being collected, and what was written stays.
DatabaseFails(p, r) ==
    /\ \/ /\ \E label \in {"load", "check"} : At(p, r, label)
          /\ Goto(p, r, "fail")
       \/ /\ \E label \in {"place", "record", "wait"} : At(p, r, label)
          /\ StepFailed(p, r)
    /\ Upset("db")
    /\ UNCHANGED <<runs, steps, told, proc, loop, late>>

\* The outcome is written, unless another closed the run.
Finish(p, r) ==
    /\ proc[p].phase \in {"run", "stop"}
    /\ \/ work[p][r].pc = "fail" /\ Finalize(r, "FAILURE")
       \/ work[p][r].pc = "end"
          /\ Finalize(r, IF work[p][r].errs THEN "FAILURE" ELSE "SUCCESS")
    /\ Goto(p, r, "idle")
    /\ UNCHANGED <<steps, proc, loop, late, upsets>>

\* The database fails the writing of the outcome: the coroutine ends and its row
\* stays STARTED.
LoseOutcome(p, r) ==
    /\ work[p][r].pc \in {"end", "fail"}
    /\ proc[p].phase \in {"run", "stop"}
    /\ Upset("db")
    /\ Goto(p, r, "idle")
    /\ UNCHANGED <<runs, steps, told, proc, loop, late>>

(***************************************************************************)
(* stop_steps: the rows still open are read, then one at a time the engine  *)
(* is asked how the task went, the task is revoked and the row closed.     *)
(***************************************************************************)
\* What a revoked task may become: stopped (REVOKED, a failure), or ended just
\* before the revoke; the call may also be lost (best effort: a warning).
RevokedTo(t, lost) == IF t # "running" THEN {t}
                      ELSE IF lost THEN {"running"} ELSE Final

ReadSteps(p) ==
    /\ \E r \in loop[p].stop :
          loop' = [loop EXCEPT
                     ![p].stop = @ \ {r},
                     ![p].todo = @ \union {<<r, n>> : n \in {m \in Steps : OpenRow(steps[r][m].row)}}]
    /\ UNCHANGED <<runs, steps, told, proc, work, late, upsets>>

\* A task that ended keeps its outcome; one that did not is revoked, its row
\* closed as failed.  A placeholder names no task to revoke.
StopStep(p) ==
    /\ \E x \in loop[p].todo :
          LET r == x[1]
              n == x[2]
              s == steps[r][n]
          IN /\ loop' = [loop EXCEPT ![p].todo = @ \ {x}]
             /\ \/ /\ s.row \in Final \union {"none"}
                   /\ UNCHANGED <<steps, upsets>>
                \/ /\ s.row = "open" /\ s.task # "running"
                   /\ SetRow(r, n, IF s.task = "SUCCESS" THEN "SUCCESS" ELSE "FAILURE")
                   /\ UNCHANGED upsets
                \/ /\ s.row = "placed"
                   /\ SetRow(r, n, "FAILURE")
                   /\ UNCHANGED upsets
                \/ /\ s.row = "open" /\ s.task = "running"
                   /\ \E lost \in BOOLEAN : \E t \in RevokedTo(s.task, lost) :
                        /\ steps' = [steps EXCEPT ![r][n] = [row |-> "FAILURE", task |-> t]]
                        /\ IF lost THEN Upset("engine") ELSE UNCHANGED upsets
    /\ UNCHANGED <<runs, told, proc, work, late>>

(***************************************************************************)
(* Heartbeats, and the runs of processes that are gone.                    *)
(***************************************************************************)
Beat(p) ==
    LET silent == {r \in Alive(p) : /\ runs[r].status = "STARTED" /\ runs[r].by = Sig(p)
                                    /\ runs[r].beat = "old"}
    IN /\ proc[p].phase = "run" /\ proc[p].beats
       /\ silent # {}
       /\ runs' = [r \in RunIds |->
                      IF r \in silent THEN [runs[r] EXCEPT !.beat = "fresh"] ELSE runs[r]]
       /\ UNCHANGED <<steps, told, proc, work, loop, late, upsets>>

\* Slip: a process beats for whatever it signed.
BeatenBySigner(r) == \E p \in Procs : /\ runs[r].by = Sig(p)
                                      /\ proc[p].phase = "run" /\ proc[p].beats

\* A process that beats carries r, or has just claimed it.
Beaten(r) == \E p \in Procs : /\ runs[r].by = Sig(p)
                              /\ proc[p].phase = "run" /\ proc[p].beats
                              /\ work[p][r].pc # "idle"

\* dead_after_seconds without a beat.
Silent(r) ==
    /\ runs[r].status = "STARTED" /\ runs[r].beat = "fresh"
    /\ ~Beaten(r)
    /\ runs' = [runs EXCEPT ![r].beat = "old"]
    /\ UNCHANGED <<steps, told, proc, work, loop, late, upsets>>

\* heartbeat_healthy: beats have gone through for a whole dead_after_seconds.  In
\* that time every process that beats has beaten for all its runs.
TurnHealthy(p) ==
    /\ proc[p].phase = "run" /\ proc[p].beats /\ ~proc[p].healthy
    /\ \A r \in RunIds : runs[r].status = "STARTED" /\ Beaten(r) => runs[r].beat = "fresh"
    /\ proc' = [proc EXCEPT ![p].healthy = TRUE]
    /\ UNCHANGED <<runs, steps, told, work, loop, late, upsets>>

\* What the sweep takes for a dead process's run.
Orphan(p, r) == /\ runs[r].status = "STARTED" /\ runs[r].beat = "old"
                /\ ~(runs[r].by = Sig(p) /\ r \in Alive(p))

\* Slip: a sweep that does not ask whether its own beats went through.
SweepsAtOnce(p) == LoopIdle(p)

Sweeps(p) == LoopIdle(p) /\ proc[p].healthy

\* close_orphans, one row: the UPDATE repeats the whole condition; its steps are
\* stopped after the commit.
CloseOrphan(p, r) ==
    /\ Sweeps(p)
    /\ Orphan(p, r)
    /\ Close({r}, "FAILURE")
    /\ loop' = [loop EXCEPT ![p].stop = {r}]
    /\ UNCHANGED <<steps, proc, work, late, upsets>>

\* close_if_queued_too_long: by the sweep, and by whoever reads the run.
CloseQueued(r) ==
    /\ runs[r].status = "PENDING"
    /\ Close({r}, "FAILURE")
    /\ UNCHANGED <<steps, proc, work, loop, late, upsets>>

SweepQueued(p, r) == Sweeps(p) /\ CloseQueued(r)

(***************************************************************************)
(* The life of a process.                                                  *)
(***************************************************************************)
Start(p) ==
    /\ proc[p].phase = "down" /\ proc[p].start < MaxStarts
    /\ loop[p].cands = {}
    /\ proc' = [proc EXCEPT ![p] = [phase |-> "boot", start |-> @.start + 1, beats |-> TRUE,
                                    healthy |-> FALSE, drains |-> FALSE]]
    /\ UNCHANGED <<runs, steps, told, work, loop, late, upsets>>

\* close_mine at start: the runs of an earlier start of this process, closed in
\* one transaction; their steps are stopped before the loop goes on.
CloseEarlier(p) ==
    LET earlier == {r \in RunIds : /\ runs[r].status = "STARTED" /\ runs[r].by # Nobody
                                   /\ runs[r].by[1] = p /\ runs[r].by # Sig(p)}
    IN /\ proc[p].phase = "boot"
       /\ Close(earlier, "FAILURE")
       /\ loop' = [loop EXCEPT ![p].stop = earlier]
       /\ proc' = [proc EXCEPT ![p].phase = "run"]
       /\ UNCHANGED <<steps, work, late, upsets>>

\* The stop signal: no more runs are taken; the ones going carry on.
Drain(p) ==
    /\ proc[p].phase = "run" /\ ~proc[p].drains
    /\ Upset("stop")
    /\ proc' = [proc EXCEPT ![p].drains = TRUE]
    /\ UNCHANGED <<runs, steps, told, work, loop, late>>

\* The loop ends: no more beats, the coroutines cancelled, what the loop was doing
\* dropped, but the thread it claims in.
Stop(p) ==
    /\ proc[p].phase = "run" /\ proc[p].drains
    /\ proc' = [proc EXCEPT ![p].phase = "stop", ![p].beats = FALSE]
    /\ LetGo(p)
    /\ loop' = [loop EXCEPT ![p] = IF @.at # "claim" THEN NoLoop
                   ELSE [NoLoop EXCEPT !.cands = loop[p].cands,
                                       !.free = loop[p].free - Cardinality(Taken(p))]]
    /\ UNCHANGED <<runs, steps, told, late, upsets>>

\* A coroutine cancelled at an await closes its run and stops its steps.  Cut short
\* while it asks the engine for a task, it deletes the row it had placed, and the
\* call may have gone through.
Interrupt(p, r) ==
    /\ proc[p].phase = "stop"
    /\ work[p][r].pc \notin {"idle", "end", "fail", "stop"}
    /\ \/ work[p][r].pc # "submit" /\ UNCHANGED <<steps, late>>
       \/ work[p][r].pc = "submit" /\ SetRow(r, Step(p, r), "none") /\ UNCHANGED late
       \/ work[p][r].pc = "submit" /\ LoseTask(r, Step(p, r))
    /\ Finalize(r, "FAILURE")
    /\ loop' = [loop EXCEPT ![p].stop = @ \union {r}]
    /\ Goto(p, r, "stop")
    /\ UNCHANGED <<proc, upsets>>

StepsStopped(p, r) ==
    /\ work[p][r].pc = "stop"
    /\ r \notin loop[p].stop
    /\ \A n \in Steps : <<r, n>> \notin loop[p].todo
    /\ Goto(p, r, "idle")
    /\ UNCHANGED <<runs, steps, told, proc, loop, late, upsets>>

\* close_mine at stop, once every coroutine has ended: what the process signed
\* and nobody carries.
Leave(p) ==
    /\ proc[p].phase = "stop"
    /\ \A r \in RunIds : work[p][r].pc = "idle"
    /\ Close({r \in RunIds : runs[r].status = "STARTED" /\ runs[r].by = Sig(p)}, "FAILURE")
    /\ proc' = [proc EXCEPT ![p].phase = "down"]
    /\ UNCHANGED <<steps, work, loop, late, upsets>>

\* Killed: its memory is gone, its rows stay.
Crash(p) ==
    /\ proc[p].phase # "down"
    /\ Upset("crash")
    /\ proc' = [proc EXCEPT ![p].phase = "down", ![p].beats = FALSE]
    /\ work' = [work EXCEPT ![p] = [r \in RunIds |-> Idle]]
    /\ loop' = [loop EXCEPT ![p] = NoLoop]
    /\ UNCHANGED <<runs, steps, told, late>>

\* The database out of reach for longer than dead_after_seconds: nobody could beat,
\* and everybody knows it.
Outage ==
    /\ Upset("outage")
    /\ runs' = [r \in RunIds |-> IF runs[r].status = "STARTED"
                                 THEN [runs[r] EXCEPT !.beat = "old"] ELSE runs[r]]
    /\ proc' = [p \in Procs |-> [proc[p] EXCEPT !.healthy = FALSE]]
    /\ UNCHANGED <<steps, told, work, loop, late>>

\* A process frozen (its host suspended, starved): it does not beat, and does not
\* know it.
Freeze(p) ==
    /\ proc[p].phase = "run" /\ proc[p].beats
    /\ Upset("freeze")
    /\ proc' = [proc EXCEPT ![p].beats = FALSE]
    /\ UNCHANGED <<runs, steps, told, work, loop, late>>

\* It beats again.
Thaw(p) ==
    /\ proc[p].phase \in {"boot", "run"} /\ ~proc[p].beats
    /\ proc' = [proc EXCEPT ![p].beats = TRUE]
    /\ UNCHANGED <<runs, steps, told, work, loop, late, upsets>>

(***************************************************************************)
(* The engine, and the reconciling of a step's row with its task (by the   *)
(* coroutine that waits, the scheduler's tick, whoever reads the run).     *)
(***************************************************************************)
TaskEnds(r, n) ==
    /\ steps[r][n].task = "running"
    /\ \E t \in Final : steps' = [steps EXCEPT ![r][n].task = t]
    /\ UNCHANGED <<runs, told, proc, work, loop, late, upsets>>

\* Slip: the task's state copied before it is final.
ReconcileEarly(r, n) ==
    /\ steps[r][n].row = "open"
    /\ SetRow(r, n, steps[r][n].task)
    /\ UNCHANGED <<runs, told, proc, work, loop, late, upsets>>

Reconcile(r, n) ==
    /\ steps[r][n].row = "open" /\ steps[r][n].task # "running"
    /\ SetRow(r, n, IF steps[r][n].task = "SUCCESS" THEN "SUCCESS" ELSE "FAILURE")
    /\ UNCHANGED <<runs, told, proc, work, loop, late, upsets>>

\* Past the maximum time the task is revoked and the row closed.
StaleRun(r, n) ==
    /\ steps[r][n] = [row |-> "open", task |-> "running"]
    /\ \E lost \in BOOLEAN : \E t \in RevokedTo("running", lost) :
          /\ steps' = [steps EXCEPT ![r][n] = [row |-> "FAILURE", task |-> t]]
          /\ IF lost THEN Upset("engine") ELSE UNCHANGED upsets
    /\ UNCHANGED <<runs, told, proc, work, loop, late>>

\* Slip: only the steps of runs still going are looked at.
NeverQueuedWhileOpen(r, n) ==
    /\ steps[r][n].row = "placed"
    /\ Open(r) /\ ~Beaten(r)
    /\ SetRow(r, n, "FAILURE")
    /\ UNCHANGED <<runs, told, proc, work, loop, late, upsets>>

\* A row left with its placeholder for five minutes: whoever launched it is gone,
\* or slower than any call.
NeverQueued(r, n) ==
    /\ steps[r][n].row = "placed"
    /\ ~Beaten(r)
    /\ SetRow(r, n, "FAILURE")
    /\ UNCHANGED <<runs, told, proc, work, loop, late, upsets>>

(***************************************************************************)
(* The specification.                                                      *)
(***************************************************************************)
Loop(p) == \/ ReadQueue(p) \/ ClaimNext(p) \/ SkipSlot(p) \/ StartTaken(p) \/ Refuse(p)
           \/ ReadSteps(p) \/ StopStep(p) \/ ClaimUnattended(p)

Carry(p, r) == \/ Load(p, r) \/ Check(p, r) \/ Place(p, r) \/ Submit(p, r) \/ Record(p, r)
               \/ Await(p, r) \/ Finish(p, r) \/ Interrupt(p, r) \/ StepsStopped(p, r)

\* What may go wrong, or in another way, for the coroutine.
Stray(p, r) == \/ SubmitRefused(p, r) \/ SubmitAnswerLost(p, r) \/ GiveUpWaiting(p, r)
               \/ DatabaseFails(p, r) \/ LoseOutcome(p, r)

Life(p) == \/ Start(p) \/ CloseEarlier(p) \/ Drain(p) \/ Stop(p) \/ Leave(p)
           \/ Crash(p) \/ Freeze(p) \/ Thaw(p) \/ Beat(p) \/ TurnHealthy(p)

Engine(r, n) == TaskEnds(r, n) \/ Reconcile(r, n) \/ StaleRun(r, n) \/ NeverQueued(r, n)

Next == \/ \E f \in Flows : RunNow(f) \/ FireSchedule(f)
        \/ \E p \in Procs : \/ Loop(p) \/ ClaimAnswerLost(p) \/ SkipFails(p) \/ Life(p)
                            \/ \E f \in Flows : TakeChildSlot(p, f)
                            \/ \E r \in RunIds : \/ Carry(p, r) \/ Stray(p, r)
                                                 \/ CloseOrphan(p, r) \/ SweepQueued(p, r)
        \/ \E r \in RunIds : \/ Silent(r) \/ CloseQueued(r)
                             \/ \E n \in Steps : Engine(r, n)
        \/ Outage

\* A process that died is started again, one that runs goes on with its loop, its
\* heartbeat and its coroutines, a run's row that nobody beats for grows old, and
\* some gateway reconciles.  Nothing says that a task ends.
Fairness ==
    /\ \A p \in Procs :
          /\ WF_vars(Start(p)) /\ WF_vars(CloseEarlier(p)) /\ WF_vars(Leave(p))
          /\ WF_vars(Thaw(p)) /\ WF_vars(Beat(p)) /\ WF_vars(TurnHealthy(p))
          /\ WF_vars(Loop(p))
          /\ \A r \in RunIds : /\ WF_vars(Carry(p, r))
                               /\ WF_vars(CloseOrphan(p, r)) /\ WF_vars(SweepQueued(p, r))
    /\ \A r \in RunIds :
          /\ WF_vars(Silent(r))
          /\ \A n \in Steps : WF_vars(Reconcile(r, n)) /\ WF_vars(StaleRun(r, n))
                              /\ WF_vars(NeverQueued(r, n))

Spec     == Init /\ [][Next]_vars
FairSpec == Spec /\ Fairness

-----------------------------------------------------------------------------
Labels == {"idle", "taken", "load", "check", "place", "submit", "record", "wait",
           "end", "fail", "stop"}

Statuses == {"none", "PENDING", "STARTED", "DELETED"} \union Final
Run == [status : Statuses, flow : Flows \union {NoFlow},
        trigger : {"none", "manual", "schedule", "cell"},
        by : (Procs \X Nat) \union {Nobody}, beat : {"none", "fresh", "old"}]
RowStates  == {"none", "placed", "open"} \union Final
TaskStates == {"none", "running"} \union Final
StepRow    == [row : RowStates, task : TaskStates]
Process    == [phase : {"down", "boot", "run", "stop"}, start : Nat,
               beats : BOOLEAN, healthy : BOOLEAN, drains : BOOLEAN]
Coroutine  == [pc : Labels, n : Steps, errs : BOOLEAN]
LoopState  == [at : {"idle", "claim", "refuse"}, cands : SUBSET RunIds, free : Int,
               refused : SUBSET RunIds, skip : SUBSET RunIds, stop : SUBSET RunIds,
               todo : SUBSET (RunIds \X Steps)]

\* The type invariant.
TypeOK == /\ runs  \in [RunIds -> Run]
          /\ steps \in [RunIds -> [Steps -> StepRow]]
          /\ told  \in [RunIds -> Nat]
          /\ proc  \in [Procs -> Process]
          /\ work  \in [Procs -> [RunIds -> Coroutine]]
          /\ loop  \in [Procs -> LoopState]
          /\ late  \in [RunIds -> Nat]
          /\ upsets \in Nat

(***************************************************************************)
(* A run is carried only by the process that signed it, in the incarnation *)
(* that signed it: two processes that read the same queue, or a process    *)
(* started again, never carry the same run (claim, close_mine).            *)
(***************************************************************************)
CarriedByItsSigner ==
    \A p \in Procs, r \in RunIds : work[p][r].pc # "idle" => runs[r].by = Sig(p)

(***************************************************************************)
(* A process whose run was closed by another (it could not beat) launches  *)
(* at most one more step: the one it was launching between looking at the  *)
(* row and calling the engine (_still_mine, then _launch_flow_run).        *)
(***************************************************************************)
AtMostOneLateStep == \A r \in RunIds : late[r] <= 1

(***************************************************************************)
(* Every closing of a run is announced exactly once, and nothing that is   *)
(* not closed is announced, whoever closes it and whatever dies meanwhile  *)
(* (the deliveries are born in the transaction that closes the run).       *)
(***************************************************************************)
AnnouncedOnce == \A r \in RunIds : told[r] = IF Closed(r) THEN 1 ELSE 0

(***************************************************************************)
(* An outcome once written is never written over: not by the process that  *)
(* was taken for dead and comes back with its own, not by two sweeps.      *)
(***************************************************************************)
ClosingIsFinal ==
    [][\A r \in RunIds : Closed(r) => runs'[r].status = runs[r].status]_vars

(***************************************************************************)
(* The steps after a refresh or an email run only if it succeeded, however *)
(* its row came to be closed (orchestrate: StopSequence, the refresh's     *)
(* error).                                                                 *)
(***************************************************************************)
StopsTheSequence ==
    \A r \in RunIds : \A n, m \in Steps :
        n < m /\ Stops(n) /\ steps[r][m].task # "none" => steps[r][n].row = "SUCCESS"

(***************************************************************************)
(* A run recorded as succeeded has every step recorded as succeeded.       *)
(***************************************************************************)
SuccessIsWhole ==
    \A r \in RunIds : runs[r].status = "SUCCESS" =>
        \A n \in Steps : steps[r][n].row = "SUCCESS"

(***************************************************************************)
(* The order of a sequence is real: no two tasks of one run are on the     *)
(* engine at once (_wait_run).  With the database and the calls to the       *)
(* engine answering.                                                       *)
(***************************************************************************)
OneStepAtATime ==
    \A r \in RunIds : \A n, m \in Steps :
        steps[r][n].task = "running" /\ steps[r][m].task = "running" => n = m

(***************************************************************************)
(* After an outage of the database every heartbeat is old, those of living *)
(* processes too: still, a run whose process beats is closed by its own    *)
(* coroutine only (heartbeat_healthy).                                     *)
(***************************************************************************)
OutageSparesTheLiving ==
    [][\A r \in RunIds : Beaten(r) /\ Open(r) /\ Closed(r)' =>
          \E p \in Procs : runs[r].by = Sig(p) /\ work[p][r].pc \in {"end", "fail"}]_vars

(***************************************************************************)
(* Only one run of a flow at a time: no two runs of it have a task on the  *)
(* engine at once.                                                         *)
(***************************************************************************)
FlowsTasksApart ==
    \A r, q \in RunIds : \A n, m \in Steps :
        /\ r # q /\ runs[r].flow = runs[q].flow
        /\ steps[r][n].task = "running"
        => steps[q][m].task # "running"

(***************************************************************************)
(* As long as some orchestrator goes on, every run queued leaves the queue *)
(* and every run started is closed, whoever died carrying it.              *)
(***************************************************************************)
SomeoneStays == <>[](\E p \in Procs : proc[p].phase = "run")

EveryRunCloses ==
    SomeoneStays => \A r \in RunIds : Open(r) ~> ~Open(r)

(***************************************************************************)
(* No step stays open for ever, even when nobody follows it any more.      *)
(***************************************************************************)
EveryStepCloses ==
    \A r \in RunIds : \A n \in Steps : OpenRow(steps[r][n].row) ~> ~OpenRow(steps[r][n].row)

-----------------------------------------------------------------------------
(***************************************************************************)
(* The invariant the theorems of OrchestrationQueueProofs rest on.  Whoever *)
(* carries a run runs itself, and the run it signed is started or closed;   *)
(* a run that had its late step is closed, and nobody is on the way from    *)
(* looking at its row to the engine.                                        *)
(***************************************************************************)
CarriesItsOwn ==
    \A p \in Procs, r \in RunIds : work[p][r].pc # "idle" =>
        /\ proc[p].phase \in {"run", "stop"}
        /\ runs[r].by = Sig(p)
        /\ runs[r].status \in {"STARTED"} \union Final

LateOnceThenNever ==
    \A r \in RunIds :
        /\ late[r] <= 1
        /\ late[r] = 1 => /\ Closed(r)
                          /\ \A p \in Procs : work[p][r].pc \notin {"place", "submit"}

IInv == TypeOK /\ CarriesItsOwn /\ LateOnceThenNever /\ AnnouncedOnce

-----------------------------------------------------------------------------
(***************************************************************************)
(* The invariant the theorems of OrchestrationStepsProofs rest on.  A run  *)
(* not begun has no step; whoever carries a run has passed the nodes it    *)
(* had to succeed in, is at one that has not gone through the engine yet   *)
(* but to be waited for, and nothing is there of the nodes after it.       *)
(***************************************************************************)
NotBegun == \A r \in RunIds : runs[r].status \in {"none", "PENDING"} =>
                /\ \A p \in Procs : work[p][r] = Idle
                /\ \A n \in Steps : steps[r][n] = NoStep

Going == {"check", "place", "submit", "record", "wait", "end"}

Passed(p, r) == {n \in Steps : work[p][r].pc = "end" \/ n < work[p][r].n}

AtItsNode(p, r) ==
    LET g == work[p][r]
        s == steps[r][g.n]
    IN /\ g.pc \in {"taken", "load"} =>
             g.n = 1 /\ ~g.errs /\ \A n \in Steps : steps[r][n] = NoStep
       /\ g.pc \in Going =>
             \A n \in Passed(p, r) : Stops(n) \/ ~g.errs => steps[r][n].row = "SUCCESS"
       /\ g.pc \in Going \ {"end"} => \A n \in Steps : n > g.n => steps[r][n] = NoStep
       /\ g.pc \in {"check", "place"} => s = NoStep
       /\ g.pc = "place" => Numbered(g.n)
       /\ g.pc \in {"submit", "record"} =>
             s.row = "none" \/ (s.row \in {"placed", "FAILURE"} /\ Numbered(g.n))
       /\ g.pc = "submit" => s.task = "none"

InTurn == \A p \in Procs, r \in RunIds : AtItsNode(p, r)

SeqInv == IInv /\ NotBegun /\ InTurn /\ StopsTheSequence /\ SuccessIsWhole

(***************************************************************************)
(* As long as the database and the engine answer: the tasks of the nodes   *)
(* passed are over, and a row that is closed has a task that is, but for a *)
(* placeholder's.                                                          *)
(***************************************************************************)
LeavesNone(p, r) ==
    work[p][r].pc \in Going => \A n \in Passed(p, r) : steps[r][n].task # "running"

Matches(n, s) == /\ s.row = "placed" => Numbered(n)
                 /\ s.row = "SUCCESS" => s.task = "SUCCESS"
                 /\ s.row = "FAILURE" => s.task # "running" \/ Numbered(n)

PassedAreOver == \A p \in Procs, r \in RunIds : LeavesNone(p, r)
RowsMatch     == \A r \in RunIds : \A n \in Steps : Matches(n, steps[r][n])

OneInv == SeqInv /\ PassedAreOver /\ RowsMatch /\ OneStepAtATime

-----------------------------------------------------------------------------
(***************************************************************************)
(* What OutageSparesTheLiving rests on, where no process freezes: a process *)
(* that runs beats, and while any process takes the beats for sound, no    *)
(* run of a process that beats looks abandoned.                            *)
(***************************************************************************)
BeatsAsItRuns == \A p \in Procs : proc[p].phase \in {"boot", "run"} => proc[p].beats

SoundIsFresh ==
    (\E p \in Procs : proc[p].healthy) =>
        \A r \in RunIds : runs[r].status = "STARTED" /\ Beaten(r) => runs[r].beat = "fresh"

SpareInv == IInv /\ BeatsAsItRuns /\ SoundIsFresh

-----------------------------------------------------------------------------
(***************************************************************************)
(* What the queue promises to those who only look at the runs (FlowRuns).  *)
(***************************************************************************)
LifeOf(r) == CASE runs[r].status = "PENDING" -> "queued"
               [] runs[r].status = "STARTED" -> "running"
               [] runs[r].status = "SUCCESS" -> "succeeded"
               [] runs[r].status = "FAILURE" -> "failed"
               [] runs[r].status = "DELETED" -> "skipped"
               [] OTHER -> "none"

Promise == INSTANCE FlowRuns WITH
               life <- [r \in RunIds |-> LifeOf(r)],
               flowOf <- [r \in RunIds |-> runs[r].flow],
               announced <- told

ImplementsFlowRuns == Promise!Spec
=============================================================================
