---------------------- MODULE OrchestrationStepsProofs ----------------------
(***************************************************************************)
(* The order of a sequence: what the steps of a run have done when the     *)
(* next one starts and when the run is recorded as succeeded, for any      *)
(* flows, processes, number of runs, sequence and upsets.                  *)
(*                                                                         *)
(* Whoever does not carry a run only lets its tasks end and closes its     *)
(* rows; whoever carries it touches the row of one node, the one its       *)
(* coroutine is at.                                                        *)
(***************************************************************************)
EXTENDS OrchestrationQueueProofs

-----------------------------------------------------------------------------
(***************************************************************************)
(* What the shared operators do to the steps and the coroutines.           *)
(***************************************************************************)
OtherSteps(r, n) == \A s \in RunIds, m \in Steps :
                        s # r \/ m # n => steps'[s][m] = steps[s][m]

OtherWork(p, r) == \A q \in Procs, s \in RunIds :
                        q # p \/ s # r => work'[q][s] = work[q][s]

LEMMA StepSet ==
  ASSUME TypeOK, NEW r \in RunIds, NEW n \in Steps, NEW y,
         steps' = [steps EXCEPT ![r][n] = y]
  PROVE  steps'[r][n] = y /\ OtherSteps(r, n)
BY DEF TypeOK, OtherSteps

LEMMA RowSet ==
  ASSUME TypeOK, NEW r \in RunIds, NEW n \in Steps, NEW x, SetRow(r, n, x)
  PROVE  /\ steps'[r][n].row = x
         /\ steps'[r][n].task = steps[r][n].task
         /\ OtherSteps(r, n)
<1>1. /\ [steps[r][n] EXCEPT !.row = x].row = x
      /\ [steps[r][n] EXCEPT !.row = x].task = steps[r][n].task
  BY DEF TypeOK, StepRow
<1>2. steps' = [steps EXCEPT ![r][n] = [steps[r][n] EXCEPT !.row = x]]
  BY DEF SetRow, TypeOK
<1> QED BY ZenonT(60), <1>1, <1>2, StepSet

SetTask(r, n, t) == steps' = [steps EXCEPT ![r][n].task = t]

LEMMA TaskSet ==
  ASSUME TypeOK, NEW r \in RunIds, NEW n \in Steps, NEW t, SetTask(r, n, t)
  PROVE  /\ steps'[r][n].task = t
         /\ steps'[r][n].row = steps[r][n].row
         /\ OtherSteps(r, n)
<1>1. /\ [steps[r][n] EXCEPT !.task = t].task = t
      /\ [steps[r][n] EXCEPT !.task = t].row = steps[r][n].row
  BY DEF TypeOK, StepRow
<1> DEFINE y == [steps[r][n] EXCEPT !.task = t]
<1>2. steps' = [steps EXCEPT ![r][n] = y]
  BY DEF TypeOK, SetTask
<1> HIDE DEF y
<1>3. steps'[r][n] = y /\ OtherSteps(r, n)
  BY <1>2, StepSet
<1> QED BY <1>1, <1>3 DEF y

LEMMA GotoGoes ==
  ASSUME TypeOK, NEW p \in Procs, NEW r \in RunIds, NEW label, Goto(p, r, label)
  PROVE  /\ work'[p][r].pc = label
         /\ work'[p][r].n = work[p][r].n /\ work'[p][r].errs = work[p][r].errs
         /\ OtherWork(p, r)
<1>1. work' = [work EXCEPT ![p] = [work[p] EXCEPT ![r] = [work[p][r] EXCEPT !.pc = label]]]
  BY DEF Goto, TypeOK
<1>2. /\ [work[p][r] EXCEPT !.pc = label].pc = label
      /\ [work[p][r] EXCEPT !.pc = label].n = work[p][r].n
      /\ [work[p][r] EXCEPT !.pc = label].errs = work[p][r].errs
  BY DEF TypeOK, Coroutine
<1> QED BY <1>1, <1>2 DEF TypeOK, OtherWork

LEMMA AdvanceGoes ==
  ASSUME TypeOK, NEW p \in Procs, NEW r \in RunIds, NEW errs, Advance(p, r, errs)
  PROVE  /\ work'[p][r].errs = errs
         /\ work[p][r].n = NSteps => work'[p][r].pc = "end"
         /\ work[p][r].n # NSteps => work'[p][r].pc = "check" /\ work'[p][r].n = work[p][r].n + 1
         /\ OtherWork(p, r)
<1> DEFINE g  == work[p][r]
           g2 == IF g.n = NSteps THEN [g EXCEPT !.pc = "end", !.errs = errs]
                 ELSE [pc |-> "check", n |-> g.n + 1, errs |-> errs]
<1>1. g \in Coroutine
  BY DEF TypeOK
<1>2. /\ [g EXCEPT !.pc = "end", !.errs = errs].pc = "end"
      /\ [g EXCEPT !.pc = "end", !.errs = errs].errs = errs
  BY <1>1 DEF Coroutine
<1>3. work' = [work EXCEPT ![p] = [work[p] EXCEPT ![r] = g2]]
  BY DEF Advance, TypeOK
<1>4. work'[p][r] = g2 /\ OtherWork(p, r)
  <2> HIDE DEF g2
  <2> QED BY <1>3 DEF TypeOK, OtherWork
<1> QED BY <1>2, <1>4

LEMMA LetGoKeeps ==
  ASSUME TypeOK, NEW p \in Procs, LetGo(p)
  PROVE  \A q \in Procs, r \in RunIds : work'[q][r] \in {work[q][r], Idle}
BY DEF LetGo, TypeOK

-----------------------------------------------------------------------------
(***************************************************************************)
(* Steps of those who carry nothing further.                               *)
(***************************************************************************)
\* The step is left alone, its task ends, or its row is closed.
StepKept(r, n) ==
    LET s == steps[r][n]
        t == steps'[r][n]
    IN \/ t = s
       \/ s.task = "running" /\ t.task \in Final /\ t.row = s.row
       \/ s.row = "open" /\ s.task = "SUCCESS" /\ t = [row |-> "SUCCESS", task |-> s.task]
       \/ s.row = "open" /\ s.task # "running" /\ t = [row |-> "FAILURE", task |-> s.task]
       \/ s.row = "placed" /\ t = [row |-> "FAILURE", task |-> s.task]
       \/ /\ s.row = "open" /\ s.task = "running" /\ t.row = "FAILURE"
          /\ t.task \in Final \/ (t.task = "running" /\ "engine" \in Upsets)

\* The coroutine is left alone, is over or ends early, or is about to begin.
WorkKept(p, r) ==
    LET g == work[p][r]
        h == work'[p][r]
    IN \/ h = g \/ h = Idle
       \/ g.pc # "idle" /\ h.pc \in {"idle", "stop", "fail"}
       \/ g.pc = "taken" /\ h = [Idle EXCEPT !.pc = "load"]

StepsKept == \A r \in RunIds : \A n \in Steps : StepKept(r, n)
WorksKept == \A p \in Procs, r \in RunIds : WorkKept(p, r)
Aside     == StepsKept /\ WorksKept

\* A coroutine is born.
Begins(p, r) ==
    /\ UNCHANGED steps
    /\ OtherWork(p, r)
    /\ work'[p][r] \in {[Idle EXCEPT !.pc = "taken"], [Idle EXCEPT !.pc = "load"]}
    /\ runs[r].status \in {"none", "PENDING"} /\ runs'[r].status = "STARTED"
    /\ \A s \in RunIds : s # r => runs'[s] = runs[s]

LEMMA SameStepsKept ==
  ASSUME UNCHANGED steps
  PROVE  StepsKept
BY DEF StepsKept, StepKept

LEMMA SameWorksKept ==
  ASSUME UNCHANGED work
  PROVE  WorksKept
BY DEF WorksKept, WorkKept

LEMMA OneStepKept ==
  ASSUME NEW r \in RunIds, NEW n \in Steps, StepKept(r, n), OtherSteps(r, n)
  PROVE  StepsKept
BY DEF StepsKept, StepKept, OtherSteps

LEMMA StepIs ==
  ASSUME TypeOK', NEW r \in RunIds, NEW n \in Steps, NEW x, NEW t,
         steps'[r][n].row = x, steps'[r][n].task = t
  PROVE  steps'[r][n] = [row |-> x, task |-> t]
BY DEF TypeOK, StepRow

\* The tasks that end, the rows closed.
LEMMA ClosingSteps ==
  ASSUME TypeOK, TypeOK',
         \/ \E p \in Procs : StopStep(p)
         \/ \E r \in RunIds, n \in Steps : Engine(r, n)
  PROVE  StepsKept
<1>1. ASSUME NEW p \in Procs, StopStep(p)
      PROVE  StepsKept
  <2>1. PICK x \in loop[p].todo : StopStep(p)!1!(x)
    BY <1>1 DEF StopStep
  <2> DEFINE r == x[1]
             n == x[2]
             s == steps[r][n]
  <2>2. r \in RunIds /\ n \in Steps /\ s \in StepRow
    BY SMTT(30) DEF TypeOK, LoopState
  <2>3. \/ UNCHANGED steps
        \/ /\ s.row = "open" /\ s.task # "running"
           /\ SetRow(r, n, IF s.task = "SUCCESS" THEN "SUCCESS" ELSE "FAILURE")
        \/ s.row = "placed" /\ SetRow(r, n, "FAILURE")
        \/ /\ s.row = "open" /\ s.task = "running"
           /\ \E lost \in BOOLEAN : \E t \in RevokedTo(s.task, lost) :
                 /\ steps' = [steps EXCEPT ![r][n] = [row |-> "FAILURE", task |-> t]]
                 /\ lost => Upset("engine")
    BY <2>1
  <2> HIDE DEF r, n
  <2>4. CASE UNCHANGED steps
    BY <2>4, SameStepsKept
  <2>5. CASE /\ s.row = "open" /\ s.task # "running"
             /\ SetRow(r, n, IF s.task = "SUCCESS" THEN "SUCCESS" ELSE "FAILURE")
    <3>1. /\ steps'[r][n] = [row |-> IF s.task = "SUCCESS" THEN "SUCCESS" ELSE "FAILURE",
                             task |-> s.task]
          /\ OtherSteps(r, n)
      BY <2>2, <2>5, RowSet, StepIs
    <3>2. StepKept(r, n)
      BY <2>5, <3>1 DEF StepKept
    <3> QED BY <2>2, <3>1, <3>2, OneStepKept
  <2>6. CASE s.row = "placed" /\ SetRow(r, n, "FAILURE")
    <3>1. steps'[r][n] = [row |-> "FAILURE", task |-> s.task] /\ OtherSteps(r, n)
      BY <2>2, <2>6, RowSet, StepIs
    <3>2. StepKept(r, n)
      BY <2>6, <3>1 DEF StepKept
    <3> QED BY <2>2, <3>1, <3>2, OneStepKept
  <2>7. ASSUME s.row = "open", s.task = "running", NEW lost \in BOOLEAN,
               NEW t \in RevokedTo(s.task, lost), lost => Upset("engine"),
               steps' = [steps EXCEPT ![r][n] = [row |-> "FAILURE", task |-> t]]
        PROVE  StepsKept
    <3>1. steps'[r][n] = [row |-> "FAILURE", task |-> t] /\ OtherSteps(r, n)
      BY <2>2, <2>7, StepSet
    <3>2. t \in Final \/ (t = "running" /\ "engine" \in Upsets)
      BY <2>7 DEF RevokedTo, Upset
    <3>3. StepKept(r, n)
      BY <2>7, <3>1, <3>2 DEF StepKept
    <3> QED BY <2>2, <3>1, <3>3, OneStepKept
  <2> QED BY <2>3, <2>4, <2>5, <2>6, <2>7
<1>2. ASSUME NEW r \in RunIds, NEW n \in Steps, Engine(r, n)
      PROVE  StepsKept
  <2> DEFINE s == steps[r][n]
  <2>1. CASE TaskEnds(r, n)
    <3>1. PICK t \in Final : SetTask(r, n, t)
      BY <2>1 DEF TaskEnds, SetTask
    <3>2. steps'[r][n].task = t /\ steps'[r][n].row = s.row /\ OtherSteps(r, n)
      BY <3>1, TaskSet
    <3>3. StepKept(r, n)
      BY <2>1, <3>2 DEF TaskEnds, StepKept
    <3> QED BY <3>2, <3>3, OneStepKept
  <2>2. CASE Reconcile(r, n)
    <3>1. /\ steps'[r][n] = [row |-> IF s.task = "SUCCESS" THEN "SUCCESS" ELSE "FAILURE",
                             task |-> s.task]
          /\ OtherSteps(r, n)
      BY <2>2, RowSet, StepIs DEF Reconcile
    <3>2. StepKept(r, n)
      BY <2>2, <3>1 DEF Reconcile, StepKept
    <3> QED BY <3>1, <3>2, OneStepKept
  <2>3. CASE StaleRun(r, n)
    <3>0. PICK lost \in BOOLEAN : \E t \in RevokedTo("running", lost) :
              /\ steps' = [steps EXCEPT ![r][n] = [row |-> "FAILURE", task |-> t]]
              /\ lost => Upset("engine")
      BY <2>3 DEF StaleRun
    <3>1. PICK t \in RevokedTo("running", lost) :
              /\ steps' = [steps EXCEPT ![r][n] = [row |-> "FAILURE", task |-> t]]
              /\ lost => Upset("engine")
      BY <3>0
    <3>2. steps'[r][n] = [row |-> "FAILURE", task |-> t] /\ OtherSteps(r, n)
      BY <3>1, StepSet
    <3>3. t \in Final \/ (t = "running" /\ "engine" \in Upsets)
      BY <3>1 DEF RevokedTo, Upset
    <3>4. StepKept(r, n)
      BY <2>3, <3>2, <3>3 DEF StaleRun, StepKept
    <3> QED BY <3>2, <3>4, OneStepKept
  <2>4. CASE NeverQueued(r, n)
    <3>1. steps'[r][n] = [row |-> "FAILURE", task |-> s.task] /\ OtherSteps(r, n)
      BY <2>4, RowSet, StepIs DEF NeverQueued
    <3>2. StepKept(r, n)
      BY <2>4, <3>1 DEF NeverQueued, StepKept
    <3> QED BY <3>1, <3>2, OneStepKept
  <2> QED BY <1>2, <2>1, <2>2, <2>3, <2>4 DEF Engine
<1> QED BY <1>1, <1>2

\* Everything but the coroutines that go on and those that are born.
LEMMA AsideSteps ==
  ASSUME TypeOK, TypeOK',
         \/ UNCHANGED vars
         \/ \E f \in Flows : RunNow(f) \/ FireSchedule(f)
         \/ \E p \in Procs : \/ Loop(p) /\ ~ClaimNext(p)
                             \/ ClaimAnswerLost(p) \/ SkipFails(p) \/ Life(p)
                             \/ \E r \in RunIds : CloseOrphan(p, r) \/ SweepQueued(p, r)
         \/ \E r \in RunIds : Silent(r) \/ CloseQueued(r) \/ \E n \in Steps : Engine(r, n)
         \/ Outage
  PROVE  Aside
<1>1. ASSUME UNCHANGED <<steps, work>>
      PROVE  Aside
  BY <1>1, SameStepsKept, SameWorksKept, SMTT(30) DEF Aside
<1>2. CASE UNCHANGED vars \/ Outage \/ \E f \in Flows : RunNow(f) \/ FireSchedule(f)
  BY <1>1, <1>2 DEF vars, Outage, RunNow, FireSchedule, Enqueue
<1>3. ASSUME NEW r \in RunIds, Silent(r) \/ CloseQueued(r) \/ \E n \in Steps : Engine(r, n)
      PROVE  Aside
  <2>1. CASE Silent(r) \/ CloseQueued(r)
    BY <1>1, <2>1 DEF Silent, CloseQueued
  <2>2. ASSUME NEW n \in Steps, Engine(r, n)
        PROVE  Aside
    <3>1. UNCHANGED work
      BY <2>2 DEF Engine, TaskEnds, Reconcile, StaleRun, NeverQueued
    <3> QED BY <2>2, <3>1, ClosingSteps, SameWorksKept DEF Aside
  <2> QED BY <1>3, <2>1, <2>2
<1>4. ASSUME NEW p \in Procs, Loop(p), ~ClaimNext(p)
      PROVE  Aside
  <2>1. CASE ReadQueue(p) \/ SkipSlot(p) \/ Refuse(p) \/ ReadSteps(p) \/ ClaimUnattended(p)
    BY <1>1, <2>1 DEF ReadQueue, SkipSlot, Refuse, ReadSteps, ClaimUnattended
  <2>2. CASE StopStep(p)
    <3>1. UNCHANGED work
      BY <2>2 DEF StopStep
    <3> QED BY <2>2, <3>1, ClosingSteps, SameWorksKept DEF Aside
  <2>3. CASE StartTaken(p)
    <3>1. \A r \in RunIds : work'[p][r] = IF work[p][r].pc = "taken" THEN [Idle EXCEPT !.pc = "load"]
                                          ELSE work[p][r]
      BY <2>3 DEF StartTaken, Taken, TypeOK
    <3>2. \A q \in Procs, r \in RunIds : q # p => work'[q][r] = work[q][r]
      BY <2>3 DEF StartTaken, TypeOK
    <3>3. UNCHANGED steps
      BY <2>3 DEF StartTaken
    <3> QED BY <3>1, <3>2, <3>3, SameStepsKept DEF Aside, WorksKept, WorkKept
  <2> QED BY <1>4, <2>1, <2>2, <2>3 DEF Loop
<1>5. ASSUME NEW p \in Procs, ClaimAnswerLost(p) \/ \E r \in RunIds : CloseOrphan(p, r) \/ SweepQueued(p, r)
      PROVE  Aside
  BY <1>1, <1>5 DEF ClaimAnswerLost, CloseOrphan, SweepQueued, CloseQueued
<1>6. ASSUME NEW p \in Procs, SkipFails(p) \/ Life(p)
      PROVE  Aside
  <2>1. CASE SkipFails(p) \/ Stop(p)
    <3>1. UNCHANGED steps /\ LetGo(p)
      BY <2>1 DEF SkipFails, Stop
    <3> QED BY <3>1, LetGoKeeps, SameStepsKept DEF Aside, WorksKept, WorkKept
  <2>2. CASE Crash(p)
    <3>1. \A q \in Procs, r \in RunIds : work'[q][r] = IF q = p THEN Idle ELSE work[q][r]
      BY <2>2 DEF Crash, TypeOK
    <3>2. UNCHANGED steps
      BY <2>2 DEF Crash
    <3> QED BY <3>1, <3>2, SameStepsKept DEF Aside, WorksKept, WorkKept
  <2>3. CASE \/ Start(p) \/ CloseEarlier(p) \/ Drain(p) \/ Leave(p) \/ Freeze(p) \/ Thaw(p)
             \/ Beat(p) \/ TurnHealthy(p)
    BY <1>1, <2>3 DEF Start, CloseEarlier, Drain, Leave, Freeze, Thaw, Beat, TurnHealthy
  <2> QED BY <1>6, <2>1, <2>2, <2>3 DEF Life
<1> QED BY <1>2, <1>3, <1>4, <1>5, <1>6

LEMMA BeginSteps ==
  ASSUME SeqInv, NEW p \in Procs, ClaimNext(p) \/ \E f \in Flows : TakeChildSlot(p, f)
  PROVE  Aside \/ \E r \in RunIds : Begins(p, r)
<1>0. TypeOK /\ loop[p] \in LoopState /\ UNCHANGED steps
  BY DEF SeqInv, IInv, TypeOK, ClaimNext, TakeChildSlot
<1>1. CASE UNCHANGED work
  BY <1>0, <1>1, SameStepsKept, SameWorksKept DEF Aside
<1>2. ASSUME NEW r \in RunIds, NEW f, NEW t, NEW label \in {"taken", "load"},
             runs[r].status \in {"none", "PENDING"}, Sign(r, p, f, t), Goto(p, r, label)
      PROVE  Begins(p, r)
  <2>1. /\ runs'[r].status = "STARTED"
        /\ \A s \in RunIds : s # r => runs'[s] = runs[s]
    BY <1>0, <1>2 DEF Sign, TypeOK
  <2>2. work[p][r] = Idle
    BY <1>2 DEF SeqInv, NotBegun
  <2>3. work'[p][r] = [Idle EXCEPT !.pc = label] /\ OtherWork(p, r)
    <3>1. work' = [work EXCEPT ![p] = [work[p] EXCEPT ![r] = [work[p][r] EXCEPT !.pc = label]]]
      BY <1>0, <1>2 DEF Goto, TypeOK
    <3> DEFINE h == [Idle EXCEPT !.pc = label]
    <3>2. work' = [work EXCEPT ![p] = [work[p] EXCEPT ![r] = h]]
      BY <2>2, <3>1
    <3> HIDE DEF h
    <3>3. work'[p][r] = h /\ OtherWork(p, r)
      BY <1>0, <3>2 DEF TypeOK, OtherWork
    <3> QED BY <3>3 DEF h
  <2> QED BY <1>0, <1>2, <2>1, <2>3 DEF Begins
<1>3. CASE ClaimNext(p)
  <2>1. PICK r \in Earliest(loop[p].cands) :
            \/ /\ Claimable(r) /\ Sign(r, p, runs[r].flow, runs[r].trigger)
               /\ Goto(p, r, "taken")
            \/ UNCHANGED work
    BY <1>3 DEF ClaimNext
  <2>2. r \in RunIds
    BY <1>0 DEF Earliest, LoopState
  <2> QED BY <1>1, <1>2, <2>1, <2>2 DEF Claimable
<1>4. CASE \E f \in Flows : TakeChildSlot(p, f)
  BY <1>2, <1>4 DEF TakeChildSlot, NextId
<1> QED BY SMTT(30), <1>3, <1>4

-----------------------------------------------------------------------------
(***************************************************************************)
(* The order of a sequence, kept by those who stand aside and by whoever   *)
(* begins.                                                                 *)
(***************************************************************************)
SeqKept == NotBegun' /\ InTurn' /\ StopsTheSequence' /\ SuccessIsWhole'

LEMMA KeptStep ==
  ASSUME NEW r \in RunIds, NEW n \in Steps, StepKept(r, n)
  PROVE  /\ steps[r][n].row = "SUCCESS" => steps'[r][n].row = "SUCCESS"
         /\ steps[r][n].row = "none" => steps'[r][n].row = "none"
         /\ steps[r][n].row \in {"placed", "FAILURE"} => steps'[r][n].row \in {"placed", "FAILURE"}
         /\ steps[r][n] = NoStep => steps'[r][n] = NoStep
         /\ steps'[r][n].task = "none" <=> steps[r][n].task = "none"
         /\ steps'[r][n].task = "running" => steps[r][n].task = "running"
BY DEF StepKept, NoStep, Final

LEMMA KeptWork ==
  ASSUME SeqInv, NEW p \in Procs, NEW r \in RunIds, Aside
  PROVE  AtItsNode(p, r)'
<1> DEFINE g == work[p][r]
           h == work'[p][r]
<1>0. \A n \in Steps : StepKept(r, n)
  BY DEF Aside, StepsKept
<1>1. AtItsNode(p, r) /\ g \in Coroutine
  BY DEF SeqInv, InTurn, IInv, TypeOK
<1>2. CASE h = g
  <2>1. g.n \in Steps
    BY <1>1 DEF Coroutine
  <2>2. Passed(p, r)' = Passed(p, r) /\ Passed(p, r) \subseteq Steps
    BY <1>2 DEF Passed
  <2> QED BY <1>0, <1>1, <1>2, <2>1, <2>2, KeptStep DEF AtItsNode, Going
<1>3. CASE h = Idle \/ h.pc \in {"idle", "stop", "fail"}
  BY <1>3 DEF AtItsNode, Going, Idle
<1>4. CASE g.pc = "taken" /\ h = [Idle EXCEPT !.pc = "load"]
  <2>1. h.pc = "load" /\ h.n = 1 /\ ~h.errs
    BY <1>4 DEF Idle
  <2>2. \A n \in Steps : steps'[r][n] = NoStep
    BY <1>0, <1>1, <1>4, KeptStep DEF AtItsNode
  <2> QED BY <2>1, <2>2 DEF AtItsNode, Going
<1> QED BY <1>2, <1>3, <1>4 DEF Aside, WorksKept, WorkKept

LEMMA AsideKeeps ==
  ASSUME SeqInv, Aside, RowsAge
  PROVE  SeqKept
<1>0. \A r \in RunIds, n \in Steps : StepKept(r, n)
  BY DEF Aside, StepsKept
<1>1. NotBegun'
  <2> SUFFICES ASSUME NEW r \in RunIds, runs'[r].status \in {"none", "PENDING"}
               PROVE  /\ \A p \in Procs : work'[p][r] = Idle
                      /\ \A n \in Steps : steps'[r][n] = NoStep
    BY DEF NotBegun
  <2>1. /\ \A p \in Procs : work[p][r] = Idle
        /\ \A n \in Steps : steps[r][n] = NoStep
    BY DEF SeqInv, NotBegun, RowsAge, RowAges
  <2>2. \A p \in Procs : WorkKept(p, r)
    BY DEF Aside, WorksKept
  <2> QED BY <1>0, <2>1, <2>2, KeptStep DEF WorkKept, Idle
<1>2. InTurn'
  BY KeptWork DEF InTurn
<1>3. StopsTheSequence'
  BY <1>0, KeptStep DEF SeqInv, StopsTheSequence
<1>4. SuccessIsWhole'
  BY <1>0, KeptStep DEF SeqInv, SuccessIsWhole, RowsAge, RowAges
<1> QED BY <1>1, <1>2, <1>3, <1>4 DEF SeqKept

LEMMA BeginKeeps ==
  ASSUME SeqInv, NEW p \in Procs, NEW r \in RunIds, Begins(p, r)
  PROVE  SeqKept
<1>0. /\ UNCHANGED steps
      /\ OtherWork(p, r)
      /\ \A s \in RunIds : s # r => runs'[s] = runs[s]
      /\ runs'[r].status = "STARTED" /\ runs[r].status \in {"none", "PENDING"}
  BY DEF Begins
<1>1. /\ work'[p][r].pc \in {"taken", "load"} /\ work'[p][r].n = 1 /\ ~work'[p][r].errs
      /\ \A n \in Steps : steps[r][n] = NoStep
  BY <1>0 DEF Begins, Idle, SeqInv, NotBegun
<1>2. NotBegun'
  BY <1>0 DEF SeqInv, NotBegun, OtherWork
<1>3. InTurn'
  <2> SUFFICES ASSUME NEW q \in Procs, NEW s \in RunIds
               PROVE  AtItsNode(q, s)'
    BY DEF InTurn
  <2>1. CASE q = p /\ s = r
    BY <1>0, <1>1, <2>1 DEF AtItsNode, Going
  <2>2. CASE q # p \/ s # r
    BY <1>0, <2>2 DEF OtherWork, SeqInv, InTurn, AtItsNode, Passed
  <2> QED BY <2>1, <2>2
<1>4. StopsTheSequence' /\ SuccessIsWhole'
  BY <1>0 DEF SeqInv, StopsTheSequence, SuccessIsWhole
<1> QED BY <1>2, <1>3, <1>4 DEF SeqKept

-----------------------------------------------------------------------------
(***************************************************************************)
(* The order of a sequence, kept by whoever carries it.                    *)
(***************************************************************************)
\* The coroutine of r in p touches the step it is at; a task is new there only
\* when the nodes before let it.
AtOneNode(p, r) ==
    /\ work[p][r].pc # "idle"
    /\ OtherWork(p, r)
    /\ OtherSteps(r, Step(p, r))
    /\ steps[r][Step(p, r)].row = "SUCCESS" => steps'[r][Step(p, r)].row = "SUCCESS"
    /\ steps'[r][Step(p, r)].task # "none" =>
          steps[r][Step(p, r)].task # "none" \/ work[p][r].pc \in Going \ {"end"}

Turns(p, r) == AtOneNode(p, r) /\ AtItsNode(p, r)'

LEMMA TurnKeeps ==
  ASSUME SeqInv, NEW p \in Procs, NEW r \in RunIds, Turns(p, r),
         \A s \in RunIds : runs'[s].status \in {"none", "PENDING"} =>
                              runs[s].status \in {"none", "PENDING"}
  PROVE  NotBegun' /\ InTurn' /\ StopsTheSequence'
<1> DEFINE k == Step(p, r)
<1>0. /\ TypeOK /\ CarriesItsOwn /\ k \in Steps
      /\ AtOneNode(p, r) /\ AtItsNode(p, r) /\ AtItsNode(p, r)'
  BY StepTyped DEF SeqInv, IInv, InTurn, Turns
<1>1. runs[r].by = Sig(p) /\ runs[r].status \in {"STARTED"} \union Final
  BY <1>0 DEF AtOneNode, CarriesItsOwn
<1> HIDE DEF k
<1>2. NotBegun'
  <2> SUFFICES ASSUME NEW s \in RunIds, runs'[s].status \in {"none", "PENDING"}
               PROVE  /\ \A q \in Procs : work'[q][s] = Idle
                      /\ \A n \in Steps : steps'[s][n] = NoStep
    BY DEF NotBegun
  <2>1. s # r
    BY <1>1 DEF Final
  <2> QED BY <1>0, <2>1 DEF SeqInv, NotBegun, AtOneNode, OtherWork, OtherSteps
<1>3. InTurn'
  <2> SUFFICES ASSUME NEW q \in Procs, NEW s \in RunIds
               PROVE  AtItsNode(q, s)'
    BY DEF InTurn
  <2>1. CASE q = p /\ s = r
    BY <1>0, <2>1
  <2>2. CASE q # p /\ s = r
    <3>1. work[q][r].pc = "idle"
      BY <1>0, <1>1, <2>2 DEF CarriesItsOwn, Sig
    <3>2. work'[q][r].pc = "idle"
      BY <1>0, <2>2, <3>1 DEF AtOneNode, OtherWork
    <3> QED BY <2>2, <3>2 DEF AtItsNode, Going
  <2>3. CASE s # r
    <3>1. work'[q][s] = work[q][s] /\ \A n \in Steps : steps'[s][n] = steps[s][n]
      BY <1>0, <2>3 DEF AtOneNode, OtherWork, OtherSteps
    <3>2. AtItsNode(q, s) /\ work[q][s].n \in Steps
      BY <1>0 DEF SeqInv, InTurn, TypeOK, Coroutine
    <3> QED BY <3>1, <3>2 DEF AtItsNode, Passed
  <2> QED BY <2>1, <2>2, <2>3
<1>4. StopsTheSequence'
  <2> SUFFICES ASSUME NEW s \in RunIds, NEW n \in Steps, NEW m \in Steps,
                      n < m, Stops(n), steps'[s][m].task # "none"
               PROVE  steps'[s][n].row = "SUCCESS"
    BY DEF StopsTheSequence
  <2>1. \A i \in Steps : steps[s][i].row = "SUCCESS" => steps'[s][i].row = "SUCCESS"
    BY <1>0 DEF AtOneNode, OtherSteps, k
  <2>2. CASE steps[s][m].task # "none"
    BY <2>1, <2>2 DEF SeqInv, StopsTheSequence
  <2>3. CASE steps[s][m].task = "none"
    <3>1. s = r /\ m = k
      BY <1>0, <2>3 DEF AtOneNode, OtherSteps, k
    <3>2. work[p][r].pc \in Going
      BY <1>0, <2>3, <3>1 DEF AtOneNode, k
    <3>3. n \in Passed(p, r)
      BY <3>1 DEF Passed, k, Step
    <3>4. steps[r][n].row = "SUCCESS"
      BY <1>0, <3>2, <3>3 DEF AtItsNode
    <3> QED BY <2>1, <3>1, <3>4
  <2> QED BY <2>2, <2>3
<1> QED BY <1>2, <1>3, <1>4

\* On to the next node, from one that succeeded or whose failure is collected.
LEMMA AdvanceTurns ==
  ASSUME SeqInv, NEW p \in Procs, NEW r \in RunIds, NEW errs \in BOOLEAN, Advance(p, r, errs),
         work[p][r].pc \in Going \ {"end"},
         \/ steps'[r][Step(p, r)].row = "SUCCESS" /\ errs = work[p][r].errs
         \/ errs = TRUE /\ ~Stops(Step(p, r)),
         OtherSteps(r, Step(p, r))
  PROVE  AtItsNode(p, r)' /\ OtherWork(p, r)
<1> SUFFICES AtItsNode(p, r)'
  BY AdvanceGoes DEF SeqInv, IInv
<1> DEFINE g == work[p][r]
           h == work'[p][r]
<1>0. TypeOK /\ AtItsNode(p, r) /\ g.n \in Steps /\ g.errs \in BOOLEAN
  BY DEF SeqInv, IInv, InTurn, TypeOK, Coroutine
<1>1. /\ h.errs = errs
      /\ g.n = NSteps => h.pc = "end"
      /\ g.n # NSteps => h.pc = "check" /\ h.n = g.n + 1
  BY <1>0, AdvanceGoes
<1>2. g.n \in 1..NSteps /\ NSteps \in Nat /\ Steps = 1..NSteps
  BY <1>0, ConstantsAssumption DEF Steps
<1>3. h.pc \in {"end", "check"}
  BY <1>1
<1>4. \A n \in Passed(p, r)' : n \in Steps /\ (n < g.n \/ n = g.n)
  BY <1>1, <1>2 DEF Passed
<1>5. \A n \in Passed(p, r)' : Stops(n) \/ ~h.errs => steps'[r][n].row = "SUCCESS"
  <2> SUFFICES ASSUME NEW n \in Passed(p, r)', Stops(n) \/ ~h.errs
               PROVE  steps'[r][n].row = "SUCCESS"
    OBVIOUS
  <2>1. CASE n = g.n
    BY <1>1, <2>1 DEF Step
  <2>2. CASE n # g.n
    <3>1. n \in Passed(p, r) /\ n < g.n
      BY <1>4, <2>2 DEF Passed
    <3>2. Stops(n) \/ ~g.errs
      BY <1>1, <1>0
    <3>3. steps[r][n].row = "SUCCESS"
      BY <1>0, <3>1, <3>2 DEF AtItsNode
    <3> QED BY <1>4, <2>2, <3>3 DEF OtherSteps, Step
  <2> QED BY <2>1, <2>2
<1>6. CASE g.n = NSteps
  BY <1>1, <1>5, <1>6 DEF AtItsNode, Going
<1>7. CASE g.n # NSteps
  <2>1. h.n \in Steps /\ h.n > g.n
    BY <1>1, <1>2, <1>7
  <2>2. \A n \in Steps : n > g.n => steps'[r][n] = NoStep
    BY <1>0, <1>2 DEF AtItsNode, OtherSteps, Step
  <2>3. \A n \in Steps : n > h.n => steps'[r][n] = NoStep
    BY <1>1, <1>2, <1>7, <2>2
  <2>4. steps'[r][h.n] = NoStep
    BY <2>1, <2>2
  <2>5. h.pc = "check"
    BY <1>1, <1>7
  <2> QED BY <1>5, <2>3, <2>4, <2>5 DEF AtItsNode, Going
<1> QED BY <1>6, <1>7

LEMMA FailTurns ==
  ASSUME SeqInv, NEW p \in Procs, NEW r \in RunIds, StepFailed(p, r),
         work[p][r].pc \in Going \ {"end"}, OtherSteps(r, Step(p, r))
  PROVE  AtItsNode(p, r)' /\ OtherWork(p, r)
<1>1. CASE Stops(Step(p, r))
  <2>1. Goto(p, r, "fail")
    BY <1>1 DEF StepFailed
  <2>2. work'[p][r].pc = "fail" /\ OtherWork(p, r)
    BY <2>1, GotoGoes DEF SeqInv, IInv
  <2> QED BY <2>2 DEF AtItsNode, Going
<1>2. CASE ~Stops(Step(p, r))
  BY <1>2, AdvanceTurns DEF StepFailed
<1> QED BY <1>1, <1>2

\* A coroutine that gives up, by whatever way.
LEMMA GivesUp ==
  ASSUME SeqInv, NEW p \in Procs, NEW r \in RunIds, NEW label \in {"idle", "fail", "stop"},
         Goto(p, r, label)
  PROVE  AtItsNode(p, r)' /\ OtherWork(p, r)
<1>1. work'[p][r].pc = label /\ OtherWork(p, r)
  BY GotoGoes DEF SeqInv, IInv
<1> QED BY <1>1 DEF AtItsNode, Going

LEMMA SameAtOneNode ==
  ASSUME TypeOK, NEW p \in Procs, NEW r \in RunIds, UNCHANGED steps,
         work[p][r].pc # "idle", OtherWork(p, r)
  PROVE  AtOneNode(p, r)
BY DEF AtOneNode, OtherSteps

LEMMA CarryTurns ==
  ASSUME SeqInv, NEW p \in Procs, NEW r \in RunIds, Carry(p, r) \/ Stray(p, r)
  PROVE  Turns(p, r)
<1> DEFINE k == Step(p, r)
           g == work[p][r]
           s == steps[r][k]
<1>0. /\ TypeOK /\ k \in Steps /\ g \in Coroutine /\ s \in StepRow /\ g.errs \in BOOLEAN
      /\ AtItsNode(p, r) /\ k = g.n
  BY StepTyped DEF SeqInv, IInv, InTurn, TypeOK, Step, Coroutine
<1>1. CASE Load(p, r)
  <2>1. PICK label \in {"check", "fail"} : Goto(p, r, label)
    BY <1>1 DEF Load
  <2>2. /\ work'[p][r].pc = label /\ work'[p][r].n = g.n /\ work'[p][r].errs = g.errs
        /\ OtherWork(p, r)
    BY <1>0, <2>1, GotoGoes
  <2>3. g.pc = "load" /\ UNCHANGED steps
    BY <1>1 DEF Load, At
  <2>4. g.n = 1 /\ \A n \in Steps : steps[r][n] = NoStep
    BY <1>0, <2>3 DEF AtItsNode
  <2>5. work'[p][r].pc = "check" => Passed(p, r)' = {}
    BY <2>2, <2>4 DEF Passed, Steps
  <2>6. AtItsNode(p, r)'
    BY <1>0, <2>1, <2>2, <2>3, <2>4, <2>5 DEF AtItsNode, Going
  <2> QED BY <1>0, <2>2, <2>3, <2>6, SameAtOneNode DEF Turns
<1>2. CASE Check(p, r)
  <2>1. g.pc = "check" /\ UNCHANGED steps
    BY <1>2 DEF Check, At
  <2>2. CASE Goto(p, r, "idle")
    BY <1>0, <2>1, <2>2, GivesUp, SameAtOneNode DEF Turns
  <2>3. CASE Goto(p, r, IF Numbered(k) THEN "place" ELSE "submit")
    <3>1. /\ work'[p][r].pc = IF Numbered(k) THEN "place" ELSE "submit"
          /\ work'[p][r].n = g.n /\ work'[p][r].errs = g.errs /\ OtherWork(p, r)
      BY <1>0, <2>3, GotoGoes
    <3>2. Passed(p, r)' = Passed(p, r)
      BY <2>1, <3>1 DEF Passed
    <3>3. s = NoStep
      BY <1>0, <2>1 DEF AtItsNode
    <3>4. AtItsNode(p, r)'
      BY <1>0, <2>1, <3>1, <3>2, <3>3 DEF AtItsNode, Going, NoStep
    <3> QED BY <1>0, <2>1, <3>1, <3>4, SameAtOneNode DEF Turns
  <2> QED BY <1>2, <2>2, <2>3 DEF Check
<1>3. CASE Place(p, r) \/ Submit(p, r)
  <2>1. PICK label \in {"submit", "record"} :
            /\ Goto(p, r, label)
            /\ g.pc = IF label = "submit" THEN "place" ELSE "submit"
            /\ IF label = "submit" THEN SetRow(r, k, "placed") ELSE SetTask(r, k, "running")
    BY <1>3 DEF Place, Submit, QueueTask, At, SetTask
  <2>2. /\ work'[p][r].pc = label /\ work'[p][r].n = g.n /\ work'[p][r].errs = g.errs
        /\ OtherWork(p, r)
    BY <1>0, <2>1, GotoGoes
  <2>3. /\ OtherSteps(r, k)
        /\ label = "submit" => steps'[r][k].row = "placed" /\ steps'[r][k].task = s.task
        /\ label = "record" => steps'[r][k].row = s.row
    BY <1>0, <2>1, RowSet, TaskSet
  <2>4. /\ label = "submit" => s = NoStep /\ Numbered(k)
        /\ label = "record" => s.row = "none" \/ (s.row \in {"placed", "FAILURE"} /\ Numbered(k))
    BY <1>0, <2>1 DEF AtItsNode
  <2>5. Passed(p, r)' = Passed(p, r) /\ \A n \in Passed(p, r) : n \in Steps /\ n # k
    BY <1>0, <2>1, <2>2, SMTT(30) DEF Passed, Step, Steps
  <2>6. AtItsNode(p, r)'
    <3>1. \A n \in Passed(p, r)' : Stops(n) \/ ~g.errs => steps'[r][n].row = "SUCCESS"
      BY <1>0, <2>1, <2>3, <2>5 DEF AtItsNode, Going, OtherSteps
    <3>2. \A n \in Steps : n > g.n => steps'[r][n] = NoStep
      BY <1>0, <2>1, <2>3 DEF AtItsNode, Going, OtherSteps, Steps
    <3> QED BY <1>0, <2>2, <2>3, <2>4, <3>1, <3>2 DEF AtItsNode, Going, NoStep
  <2>7. AtOneNode(p, r)
    BY <2>1, <2>2, <2>3, <2>4 DEF AtOneNode, Going, NoStep
  <2> QED BY <2>6, <2>7 DEF Turns
<1>4. CASE SubmitRefused(p, r) \/ SubmitAnswerLost(p, r)
  <2>1. g.pc = "submit" /\ StepFailed(p, r)
    BY <1>4 DEF SubmitRefused, SubmitAnswerLost, At
  <2>2. OtherSteps(r, k)
    BY <1>0, <1>4, RowSet, StepSet DEF SubmitRefused, SubmitAnswerLost, LoseTask
  <2>3. s.row # "SUCCESS"
    BY <1>0, <2>1 DEF AtItsNode
  <2>4. AtItsNode(p, r)' /\ OtherWork(p, r)
    BY <2>1, <2>2, FailTurns DEF Going
  <2> QED BY <2>1, <2>2, <2>3, <2>4 DEF Turns, AtOneNode, Going
<1>5. CASE Record(p, r)
  <2>1. /\ g.pc = "record" /\ Goto(p, r, "wait")
        /\ steps' = [steps EXCEPT ![r][k].row = IF @ \in Final THEN @ ELSE "open"]
    BY <1>5 DEF Record, At
  <2>2. /\ work'[p][r].pc = "wait" /\ work'[p][r].n = g.n /\ work'[p][r].errs = g.errs
        /\ OtherWork(p, r)
    BY <1>0, <2>1, GotoGoes
  <2>3. SetRow(r, k, IF s.row \in Final THEN s.row ELSE "open")
    BY <1>0, <2>1, SMTT(30) DEF SetRow, TypeOK
  <2>4. OtherSteps(r, k) /\ steps'[r][k].task = s.task
    BY <1>0, <2>3, RowSet, SMTT(30)
  <2>5. s.row # "SUCCESS"
    BY <1>0, <2>1 DEF AtItsNode
  <2>6. Passed(p, r)' = Passed(p, r) /\ \A n \in Passed(p, r) : n \in Steps /\ n # k
    BY <1>0, <2>1, <2>2 DEF Passed, Step, Steps
  <2>7. AtItsNode(p, r)'
    <3>1. \A n \in Passed(p, r)' : Stops(n) \/ ~g.errs => steps'[r][n].row = "SUCCESS"
      BY <1>0, <2>1, <2>4, <2>6 DEF AtItsNode, Going, OtherSteps
    <3>2. \A n \in Steps : n > g.n => steps'[r][n] = NoStep
      <4>1. \A n \in Steps : n > g.n => steps[r][n] = NoStep /\ n # k
        BY <1>0, <2>1 DEF AtItsNode, Going, Steps
      <4> QED BY <2>4, <4>1 DEF OtherSteps
    <3> QED BY <2>2, <3>1, <3>2, SMTT(30) DEF AtItsNode, Going
  <2> QED BY <2>1, <2>2, <2>4, <2>5, <2>7 DEF Turns, AtOneNode
<1>6. CASE Await(p, r) \/ (DatabaseFails(p, r) /\ StepFailed(p, r))
  <2>1. UNCHANGED steps
    BY <1>6 DEF Await, DatabaseFails
  <2>2. OtherSteps(r, k)
    BY <2>1 DEF OtherSteps
  <2>3. g.pc \in Going \ {"end"} \/ Goto(p, r, "fail")
    BY <1>6 DEF Await, DatabaseFails, At, Going
  <2>4. \/ s.row = "SUCCESS" /\ Advance(p, r, g.errs)
        \/ StepFailed(p, r)
    BY <1>6 DEF Await
  <2>5. g.pc # "idle"
    BY <1>6 DEF Await, DatabaseFails, At
  <2>6. AtItsNode(p, r)' /\ OtherWork(p, r)
    BY <1>0, <2>1, <2>2, <2>3, <2>4, AdvanceTurns, FailTurns, GivesUp
  <2> QED BY <1>0, <2>1, <2>5, <2>6, SameAtOneNode DEF Turns
<1>7. CASE \/ Finish(p, r) \/ StepsStopped(p, r) \/ GiveUpWaiting(p, r) \/ LoseOutcome(p, r)
           \/ (DatabaseFails(p, r) /\ ~StepFailed(p, r))
  <2>1. UNCHANGED steps /\ g.pc # "idle" /\ \E label \in {"idle", "fail"} : Goto(p, r, label)
    BY <1>7 DEF Finish, StepsStopped, GiveUpWaiting, LoseOutcome, DatabaseFails, At
  <2> QED BY <1>0, <2>1, GivesUp, SameAtOneNode DEF Turns
<1>8. CASE Interrupt(p, r)
  <2>1. g.pc # "idle" /\ Goto(p, r, "stop")
    BY <1>8 DEF Interrupt
  <2>2. AtItsNode(p, r)' /\ OtherWork(p, r)
    BY <2>1, GivesUp
  <2>3. CASE UNCHANGED steps
    BY <1>0, <2>1, <2>2, <2>3, SameAtOneNode DEF Turns
  <2>4. CASE g.pc = "submit" /\ (SetRow(r, k, "none") \/ LoseTask(r, k))
    <3>1. OtherSteps(r, k)
      BY <1>0, <2>4, RowSet, StepSet DEF LoseTask
    <3>2. s.row # "SUCCESS"
      BY <1>0, <2>4 DEF AtItsNode
    <3> QED BY <2>1, <2>2, <2>4, <3>1, <3>2 DEF Turns, AtOneNode, Going
  <2> QED BY <1>8, <2>3, <2>4 DEF Interrupt
<1> QED BY <1>1, <1>2, <1>3, <1>4, <1>5, <1>6, <1>7, <1>8 DEF Carry, Stray

-----------------------------------------------------------------------------
(***************************************************************************)
(* The theorems that hold whatever fails.                                  *)
(***************************************************************************)
LEMMA SeqInit == Init => SeqInv
<1> SUFFICES ASSUME Init PROVE SeqInv
  OBVIOUS
<1>1. NotBegun /\ InTurn
  BY DEF Init, NotBegun, InTurn, AtItsNode, Going, Idle
<1>2. StopsTheSequence /\ SuccessIsWhole
  BY DEF Init, StopsTheSequence, SuccessIsWhole, NoStep, NoRun
<1> QED BY <1>1, <1>2, InvInit DEF SeqInv

\* Whoever carries a run to a good end has succeeded in every step.
LEMMA EndIsWhole ==
  ASSUME SeqInv, NEW p \in Procs, NEW r \in RunIds, EndsWell(p, r)
  PROVE  SeqKept
<1>0. /\ TypeOK /\ AtItsNode(p, r)
      /\ work[p][r].pc = "end" /\ ~work[p][r].errs
      /\ UNCHANGED steps /\ Finalize(r, "SUCCESS")
  BY DEF SeqInv, IInv, InTurn, EndsWell, Finish
<1>1. \A n \in Steps : steps[r][n].row = "SUCCESS"
  BY <1>0 DEF AtItsNode, Going, Passed
<1>2. \A s \in RunIds : s # r => runs'[s] = runs[s]
  BY <1>0 DEF Finalize, Close
<1>3. /\ runs'[r].status \in {"none", "PENDING"} => runs[r].status \in {"none", "PENDING"}
      /\ Turns(p, r)
  <2>1. RowsKept
    BY <1>0, FinalizeKeeps DEF Final
  <2>2. Turns(p, r)
    BY CarryTurns DEF EndsWell, Carry
  <2> QED BY <2>1, <2>2 DEF RowsKept, RowKept, Final
<1>4. NotBegun' /\ InTurn' /\ StopsTheSequence'
  BY <1>2, <1>3, TurnKeeps
<1>5. SuccessIsWhole'
  BY <1>0, <1>1, <1>2 DEF SeqInv, SuccessIsWhole
<1> QED BY <1>4, <1>5 DEF SeqKept

\* Which kind each step is.
LEMMA TurnsOfSteps ==
  ASSUME SeqInv, [Next]_vars
  PROVE  \/ Aside /\ RowsAge
         \/ \E p \in Procs, r \in RunIds : Begins(p, r)
         \/ \E p \in Procs, r \in RunIds : /\ Carry(p, r) \/ Stray(p, r)
                                           /\ RowsAge \/ EndsWell(p, r)
<1>0. TypeOK /\ TypeOK'
  BY TypeStep DEF SeqInv, IInv
<1>1. CASE UNCHANGED vars
  BY <1>0, <1>1, AsideSteps, SameRowsAge DEF vars
<1>2. ASSUME Next, NEW p \in Procs, NEW r \in RunIds, EndsWell(p, r)
      PROVE  Carry(p, r)
  BY <1>2 DEF EndsWell, Carry
<1>3. CASE Next /\ RowsAge
  BY <1>0, <1>3, AsideSteps, BeginSteps DEF Next
<1> QED BY <1>0, <1>1, <1>2, <1>3, SuccessByItsOwn

LEMMA SeqStep ==
  ASSUME SeqInv, [Next]_vars
  PROVE  SeqInv'
<1>1. IInv'
  BY StepKeeps, TypeStep DEF SeqInv, IInv, Kept
<1>2. SeqKept
  <2>1. ASSUME NEW p \in Procs, NEW r \in RunIds, Carry(p, r) \/ Stray(p, r), RowsAge
        PROVE  SeqKept
    <3>1. Turns(p, r)
      BY <2>1, CarryTurns
    <3>2. NotBegun' /\ InTurn' /\ StopsTheSequence'
      BY <2>1, <3>1, TurnKeeps DEF RowsAge, RowAges
    <3>3. \A s \in RunIds, n \in Steps : steps[s][n].row = "SUCCESS" => steps'[s][n].row = "SUCCESS"
      BY <3>1 DEF Turns, AtOneNode, OtherSteps
    <3>4. SuccessIsWhole'
      BY <2>1, <3>3 DEF SeqInv, SuccessIsWhole, RowsAge, RowAges
    <3> QED BY <3>2, <3>4 DEF SeqKept
  <2> QED BY <2>1, TurnsOfSteps, AsideKeeps, BeginKeeps, EndIsWhole
<1> QED BY <1>1, <1>2 DEF SeqInv, SeqKept

(***************************************************************************)
(* The order of a sequence is invariant.                                   *)
(***************************************************************************)
THEOREM InOrder == Spec => []SeqInv
<1>1. SeqInv /\ [Next]_vars => SeqInv'
  BY SeqStep
<1> QED BY <1>1, SeqInit, PTL DEF Spec

(***************************************************************************)
(* The steps after a refresh or an email run only if it succeeded, however *)
(* its row came to be closed (orchestrate: StopSequence, the refresh's     *)
(* error).                                                                 *)
(***************************************************************************)
THEOREM NothingAfterAFailure == Spec => []StopsTheSequence
<1>1. SeqInv => StopsTheSequence
  BY DEF SeqInv
<1> QED BY <1>1, InOrder, PTL

(***************************************************************************)
(* A run recorded as succeeded has every step recorded as succeeded.       *)
(***************************************************************************)
THEOREM SucceededWhole == Spec => []SuccessIsWhole
<1>1. SeqInv => SuccessIsWhole
  BY DEF SeqInv
<1> QED BY <1>1, InOrder, PTL

-----------------------------------------------------------------------------
(***************************************************************************)
(* One task at a time, as long as the database and the engine answer.      *)
(***************************************************************************)
Answering == "db" \notin Upsets /\ "engine" \notin Upsets

OneKept == PassedAreOver' /\ RowsMatch' /\ OneStepAtATime'

LEMMA OneInit == Init => OneInv
<1> SUFFICES ASSUME Init PROVE OneInv
  OBVIOUS
<1>1. PassedAreOver /\ RowsMatch /\ OneStepAtATime
  BY DEF Init, PassedAreOver, LeavesNone, RowsMatch, Matches, OneStepAtATime, NoStep, Idle, Going
<1> QED BY <1>1, SeqInit DEF OneInv

LEMMA AsideOne ==
  ASSUME OneInv, Answering, Aside
  PROVE  OneKept
<1>0. \A r \in RunIds, n \in Steps : StepKept(r, n)
  BY DEF Aside, StepsKept
<1>1. PassedAreOver'
  <2> SUFFICES ASSUME NEW p \in Procs, NEW r \in RunIds, work'[p][r].pc \in Going
               PROVE  LeavesNone(p, r)'
    BY DEF PassedAreOver, LeavesNone
  <2>1. work'[p][r] = work[p][r]
    BY DEF Aside, WorksKept, WorkKept, Idle, Going
  <2>2. Passed(p, r)' = Passed(p, r) /\ Passed(p, r) \subseteq Steps
    BY <2>1 DEF Passed
  <2> QED BY <1>0, <2>1, <2>2, KeptStep DEF OneInv, PassedAreOver, LeavesNone
<1>2. RowsMatch'
  <2> SUFFICES ASSUME NEW r \in RunIds, NEW n \in Steps
               PROVE  Matches(n, steps'[r][n])
    BY DEF RowsMatch
  <2> DEFINE s == steps[r][n]
             t == steps'[r][n]
  <2>0. StepKept(r, n)
    BY <1>0
  <2>1. Matches(n, s)
    BY DEF OneInv, RowsMatch
  <2>2. CASE t.row = s.row
    <3>1. s.task = "SUCCESS" => t.task = "SUCCESS"
      BY <2>0 DEF StepKept, Final, Answering
    <3>2. s.task # "running" => t.task # "running"
      BY <2>0 DEF StepKept, Final, Answering
    <3> QED BY <2>1, <2>2, <3>1, <3>2 DEF Matches
  <2>3. CASE t.row # s.row
    <3>1. \/ t.row = "SUCCESS" /\ t.task = "SUCCESS"
          \/ t.row = "FAILURE" /\ (t.task # "running" \/ s.row = "placed")
      BY <2>0, <2>3 DEF StepKept, Final, Answering
    <3> QED BY <2>1, <3>1 DEF Matches
  <2> QED BY <2>2, <2>3
<1>3. OneStepAtATime'
  BY <1>0, KeptStep DEF OneInv, OneStepAtATime
<1> QED BY <1>1, <1>2, <1>3 DEF OneKept

LEMMA BeginOne ==
  ASSUME OneInv, NEW p \in Procs, NEW r \in RunIds, Begins(p, r)
  PROVE  OneKept
<1>1. UNCHANGED steps /\ OtherWork(p, r) /\ work'[p][r].pc \in {"taken", "load"}
  BY DEF Begins, Idle
<1>2. PassedAreOver'
  <2> SUFFICES ASSUME NEW q \in Procs, NEW s \in RunIds, work'[q][s].pc \in Going
               PROVE  LeavesNone(q, s)'
    BY DEF PassedAreOver, LeavesNone
  <2>1. q # p \/ s # r
    BY <1>1 DEF Going
  <2> QED BY <1>1, <2>1 DEF OtherWork, OneInv, PassedAreOver, LeavesNone, Passed
<1>3. RowsMatch' /\ OneStepAtATime'
  BY <1>1 DEF OneInv, RowsMatch, Matches, OneStepAtATime
<1> QED BY <1>2, <1>3 DEF OneKept

\* What a coroutine must do at its node for the others to stay in order.
LEMMA TurnOne ==
  ASSUME OneInv, NEW p \in Procs, NEW r \in RunIds, Turns(p, r),
         LeavesNone(p, r)', Matches(Step(p, r), steps'[r][Step(p, r)]),
         steps'[r][Step(p, r)].task = "running" =>
            steps[r][Step(p, r)].task = "running" \/ work[p][r].pc = "submit"
  PROVE  OneKept
<1> DEFINE k == Step(p, r)
<1>0. /\ TypeOK /\ CarriesItsOwn /\ AtOneNode(p, r) /\ AtItsNode(p, r) /\ LeavesNone(p, r)
      /\ k \in Steps
  BY StepTyped DEF OneInv, SeqInv, IInv, InTurn, PassedAreOver, Turns
<1>1. runs[r].by = Sig(p)
  BY <1>0 DEF AtOneNode, CarriesItsOwn
<1> HIDE DEF k
<1>2. PassedAreOver'
  <2> SUFFICES ASSUME NEW q \in Procs, NEW s \in RunIds, q # p \/ s # r, work'[q][s].pc \in Going
               PROVE  LeavesNone(q, s)'
    BY DEF PassedAreOver, LeavesNone
  <2>1. work'[q][s] = work[q][s]
    BY <1>0 DEF AtOneNode, OtherWork
  <2>2. s # r
    <3>1. q # p => Sig(q) # Sig(p)
      BY DEF Sig
    <3> QED BY <1>0, <1>1, <2>1, <3>1 DEF CarriesItsOwn, Going
  <2>3. \A n \in Steps : steps'[s][n] = steps[s][n]
    BY <1>0, <2>2 DEF AtOneNode, OtherSteps
  <2> QED BY <2>1, <2>3 DEF OneInv, PassedAreOver, LeavesNone, Passed
<1>3. RowsMatch'
  <2> SUFFICES ASSUME NEW s \in RunIds, NEW n \in Steps, s # r \/ n # k
               PROVE  Matches(n, steps'[s][n])
    BY DEF RowsMatch, k
  <2>1. steps'[s][n] = steps[s][n]
    BY <1>0 DEF AtOneNode, OtherSteps, k
  <2> QED BY <2>1 DEF OneInv, RowsMatch, Matches
<1>4. OneStepAtATime'
  <2> SUFFICES ASSUME NEW s \in RunIds, NEW n \in Steps, NEW m \in Steps,
                      steps'[s][n].task = "running", steps'[s][m].task = "running"
               PROVE  n = m
    BY DEF OneStepAtATime
  <2>1. CASE steps[s][n].task = "running" /\ steps[s][m].task = "running"
    BY <2>1 DEF OneInv, OneStepAtATime
  <2>2. ASSUME work[p][r].pc = "submit", NEW i \in Steps, i # k
        PROVE  steps[r][i].task # "running"
    <3>1. CASE i \in Passed(p, r)
      BY <1>0, <2>2, <3>1 DEF LeavesNone, Going
    <3>2. CASE i \notin Passed(p, r)
      <4>1. i > work[p][r].n
        BY <1>0, <2>2, <3>2 DEF Passed, k, Step, Steps
      <4>2. steps[r][i] = NoStep
        BY <1>0, <2>2, <4>1 DEF AtItsNode, Going
      <4> QED BY <4>2 DEF NoStep
    <3> QED BY <3>1, <3>2
  <2>3. \A i \in Steps : s # r \/ i # k => steps'[s][i] = steps[s][i]
    BY <1>0 DEF AtOneNode, OtherSteps, k
  <2> QED BY <2>1, <2>2, <2>3 DEF k
<1> QED BY <1>2, <1>3, <1>4 DEF OneKept

LEMMA CarryOne ==
  ASSUME OneInv, Answering, NEW p \in Procs, NEW r \in RunIds, Carry(p, r) \/ Stray(p, r)
  PROVE  OneKept
<1> DEFINE k == Step(p, r)
           g == work[p][r]
           s == steps[r][k]
<1>0. /\ TypeOK /\ TypeOK' /\ SeqInv /\ k \in Steps /\ g \in Coroutine /\ s \in StepRow
      /\ AtItsNode(p, r) /\ LeavesNone(p, r) /\ Matches(k, s) /\ k = g.n
      /\ Turns(p, r)
  <2>1. TypeOK'
    <3>1. TypeOK /\ Next
      BY SMTT(30) DEF OneInv, SeqInv, IInv, Next
    <3> QED BY <3>1, TypeStep
  <2> QED BY <2>1, StepTyped, CarryTurns
          DEF OneInv, SeqInv, IInv, InTurn, PassedAreOver, RowsMatch, TypeOK, Step, Coroutine
<1>1. AtOneNode(p, r) /\ OtherSteps(r, k)
  BY <1>0 DEF Turns, AtOneNode
<1>2. \A n \in Passed(p, r) : n \in Steps /\ (g.pc # "end" => n # k)
  BY <1>0 DEF Passed, Steps
\* Every action gives up, stays at its node, or goes on from a task that is over.
<1>3. ASSUME work'[p][r].pc \notin Going
      PROVE  LeavesNone(p, r)'
  BY <1>3 DEF LeavesNone
<1>4. ASSUME work'[p][r].pc \in Going \ {"end"}, work'[p][r].n = g.n, g.pc \in Going \ {"end"}
      PROVE  LeavesNone(p, r)'
  <2>1. Passed(p, r)' = Passed(p, r)
    BY <1>4 DEF Passed
  <2>2. \A n \in Passed(p, r) : steps'[r][n] = steps[r][n]
    BY <1>1, <1>2, <1>4 DEF OtherSteps
  <2> QED BY <1>0, <1>4, <2>1, <2>2 DEF LeavesNone
<1>5. ASSUME NEW errs, Advance(p, r, errs), g.pc \in Going \ {"end"},
             steps'[r][k].task # "running"
      PROVE  LeavesNone(p, r)'
  <2>1. /\ g.n = NSteps => work'[p][r].pc = "end"
        /\ g.n # NSteps => work'[p][r].pc = "check" /\ work'[p][r].n = g.n + 1
    BY <1>0, <1>5, AdvanceGoes
  <2>2. \A n \in Passed(p, r)' : n = k \/ (n # k /\ n \in Passed(p, r))
    BY <1>0, <2>1, ConstantsAssumption DEF Passed, Steps
  <2>3. \A n \in Passed(p, r) : n # k => steps'[r][n] = steps[r][n]
    BY <1>1, <1>2 DEF OtherSteps
  <2> QED BY <1>0, <1>5, <2>2, <2>3 DEF LeavesNone
<1>6. ASSUME StepFailed(p, r), g.pc \in Going \ {"end"},
             steps'[r][k].task # "running" \/ Stops(k)
      PROVE  LeavesNone(p, r)'
  <2>1. CASE Stops(k)
    <3>1. Goto(p, r, "fail")
      BY <1>6, <2>1 DEF StepFailed
    <3>2. work'[p][r].pc = "fail"
      BY <1>0, <3>1, GotoGoes
    <3> QED BY <1>3, <3>2 DEF Going
  <2>2. CASE ~Stops(k)
    <3>1. Advance(p, r, TRUE)
      BY <1>6, <2>2 DEF StepFailed
    <3> QED BY <1>5, <1>6, <2>2, <3>1
  <2> QED BY <2>1, <2>2
<1>7. ASSUME UNCHANGED steps, LeavesNone(p, r)'
      PROVE  OneKept
  <2>1. Matches(k, steps'[r][k]) /\ steps'[r][k] = s
    BY <1>0, <1>7 DEF Matches
  <2> QED BY <1>0, <1>7, <2>1, TurnOne
<1>8. CASE Load(p, r)
  <2>1. PICK label \in {"check", "fail"} : Goto(p, r, label)
    BY <1>8 DEF Load
  <2>2. work'[p][r].pc = label /\ work'[p][r].n = g.n
    BY <1>0, <2>1, GotoGoes
  <2>3. g.n = 1 /\ UNCHANGED steps
    BY <1>0, <1>8 DEF Load, At, AtItsNode
  <2>4. LeavesNone(p, r)'
    BY <2>2, <2>3 DEF LeavesNone, Passed, Steps
  <2> QED BY <1>7, <2>3, <2>4
<1>9. CASE Check(p, r)
  <2>1. PICK label \in {"place", "submit", "idle"} : Goto(p, r, label)
    BY <1>9 DEF Check
  <2>2. work'[p][r].pc = label /\ work'[p][r].n = g.n
    BY <1>0, <2>1, GotoGoes
  <2>3. g.pc = "check" /\ UNCHANGED steps
    BY <1>9, SMTT(30) DEF Check, At
  <2> QED BY <1>3, <1>4, <1>7, <2>2, <2>3 DEF Going
<1>10. CASE Place(p, r)
  <2>1. g.pc = "place" /\ SetRow(r, k, "placed") /\ Goto(p, r, "submit")
    BY <1>10 DEF Place, At
  <2>2. /\ work'[p][r].pc = "submit" /\ work'[p][r].n = g.n
        /\ steps'[r][k].row = "placed" /\ steps'[r][k].task = s.task
    BY <1>0, <2>1, GotoGoes, RowSet
  <2>3. Matches(k, steps'[r][k])
    BY <1>0, <2>1, <2>2 DEF Matches, AtItsNode
  <2> QED BY <1>0, <1>4, <2>1, <2>2, <2>3, TurnOne DEF Going
<1>11. CASE Submit(p, r)
  <2>1. g.pc = "submit" /\ SetTask(r, k, "running") /\ Goto(p, r, "record")
    BY <1>11 DEF Submit, At, QueueTask, SetTask
  <2>2. /\ work'[p][r].pc = "record" /\ work'[p][r].n = g.n
        /\ steps'[r][k].row = s.row
    BY <1>0, <2>1, GotoGoes, TaskSet, SMTT(30)
  <2>3. Matches(k, steps'[r][k])
    BY <1>0, <2>1, <2>2 DEF Matches, AtItsNode
  <2> QED BY <1>0, <1>4, <2>1, <2>2, <2>3, TurnOne DEF Going
<1>12. CASE SubmitRefused(p, r)
  <2>1. g.pc = "submit" /\ SetRow(r, k, "none") /\ StepFailed(p, r)
    BY <1>12, SMTT(30) DEF SubmitRefused, At
  <2>2. steps'[r][k].row = "none" /\ steps'[r][k].task = "none"
    BY <1>0, <2>1, RowSet, SMTT(30) DEF AtItsNode
  <2>3. Matches(k, steps'[r][k])
    BY <2>2 DEF Matches
  <2> QED BY <1>0, <1>6, <2>1, <2>2, <2>3, TurnOne DEF Going
<1>13. CASE Record(p, r)
  <2>1. g.pc = "record" /\ Goto(p, r, "wait")
    BY <1>13 DEF Record, At
  <2>2. SetRow(r, k, IF s.row \in Final THEN s.row ELSE "open")
    BY <1>0, <1>13 DEF Record, SetRow, TypeOK
  <2>3. PICK x \in {s.row, "open"} : SetRow(r, k, x)
    BY <2>2
  <2>4. /\ work'[p][r].pc = "wait" /\ work'[p][r].n = g.n
        /\ steps'[r][k].row = x /\ steps'[r][k].task = s.task
    BY SMTT(30), <1>0, <2>1, <2>3, GotoGoes, RowSet
  <2>5. Matches(k, steps'[r][k])
    BY <1>0, <2>4 DEF Matches
  <2> QED BY <1>0, <1>4, <2>1, <2>4, <2>5, TurnOne DEF Going
<1>14. CASE Await(p, r)
  <2>1. g.pc = "wait" /\ UNCHANGED steps
    BY <1>14 DEF Await, At
  <2>2. CASE s.row = "SUCCESS" /\ Advance(p, r, g.errs)
    BY <1>0, <1>5, <1>7, <2>1, <2>2 DEF Matches, Going
  <2>3. CASE s.row = "FAILURE" /\ StepFailed(p, r)
    <3>1. s.task # "running" \/ Stops(k)
      BY <1>0, <2>3 DEF Matches, Numbered, Stops
    <3> QED BY <1>6, <1>7, <2>1, <2>3, <3>1 DEF Going
  <2> QED BY <1>14, <2>2, <2>3 DEF Await
<1>15. CASE Finish(p, r) \/ StepsStopped(p, r) \/ GiveUpWaiting(p, r)
  <2>1. UNCHANGED steps /\ \E label \in {"idle", "fail"} : Goto(p, r, label)
    BY <1>15 DEF Finish, StepsStopped, GiveUpWaiting
  <2>2. work'[p][r].pc \in {"idle", "fail"}
    BY <1>0, <2>1, GotoGoes
  <2> QED BY <1>3, <1>7, <2>1, <2>2 DEF Going
<1>16. CASE Interrupt(p, r)
  <2>1. work'[p][r].pc = "stop"
    BY <1>0, <1>16, GotoGoes DEF Interrupt
  <2>2. LeavesNone(p, r)'
    BY <1>3, <2>1 DEF Going
  <2>3. CASE UNCHANGED steps
    BY <1>7, <2>2, <2>3
  <2>4. CASE g.pc = "submit" /\ (SetRow(r, k, "none") \/ LoseTask(r, k))
    <3>1. steps'[r][k].row = "none"
      BY <1>0, <2>4, RowSet, StepSet DEF LoseTask
    <3>2. Matches(k, steps'[r][k])
      BY <3>1 DEF Matches
    <3> QED BY <1>0, <2>2, <2>4, <3>2, TurnOne
  <2> QED BY <1>16, <2>3, <2>4 DEF Interrupt
<1>17. ~SubmitAnswerLost(p, r) /\ ~DatabaseFails(p, r) /\ ~LoseOutcome(p, r)
  BY DEF SubmitAnswerLost, DatabaseFails, LoseOutcome, Upset, Answering
<1> QED BY <1>8, <1>9, <1>10, <1>11, <1>12, <1>13, <1>14, <1>15, <1>16, <1>17 DEF Carry, Stray

(***************************************************************************)
(* With the database and the calls to the engine answering, no two tasks   *)
(* of one run are on the engine at once (_wait_run).                       *)
(***************************************************************************)
THEOREM OneTaskAtATime ==
  ASSUME "db" \notin Upsets, "engine" \notin Upsets
  PROVE  Spec => []OneStepAtATime
<1>0. Answering
  BY DEF Answering
<1>1. OneInv /\ [Next]_vars => OneInv'
  <2> SUFFICES ASSUME OneInv, [Next]_vars PROVE OneInv'
    OBVIOUS
  <2>1. SeqInv /\ SeqInv'
    BY SeqStep DEF OneInv
  <2>2. OneKept
    BY <1>0, <2>1, TurnsOfSteps, AsideOne, BeginOne, CarryOne
  <2> QED BY <2>1, <2>2 DEF OneInv, OneKept
<1>2. OneInv => OneStepAtATime
  BY DEF OneInv
<1> QED BY <1>1, <1>2, OneInit, PTL DEF Spec

=============================================================================
