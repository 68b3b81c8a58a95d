---------------------- MODULE OrchestrationQueueTypes -----------------------
(***************************************************************************)
(* The state of OrchestrationQueue stays well formed, for any flows,       *)
(* processes, number of runs, sequence and upsets.                         *)
(***************************************************************************)
EXTENDS OrchestrationQueue, TLAPS, FiniteSetTheorems

-----------------------------------------------------------------------------
(***************************************************************************)
(* Types: what the operators shared by the actions give.                   *)
(***************************************************************************)
\* A run with another status, or another beat, is a run.
LEMMA StatusTyped ==
  ASSUME NEW x \in Run, NEW s \in Statuses
  PROVE  [x EXCEPT !.status = s] \in Run
BY DEF Run

LEMMA BeatTyped ==
  ASSUME NEW x \in Run, NEW b \in {"none", "fresh", "old"}
  PROVE  [x EXCEPT !.beat = b] \in Run
BY DEF Run

\* Closing rows keeps the rows and the announcements typed.
LEMMA CloseTyped ==
  ASSUME TypeOK, NEW S, NEW outcome \in Final, Close(S, outcome)
  PROVE  runs' \in [RunIds -> Run] /\ told' \in [RunIds -> Nat]
<1>1. ASSUME NEW r \in RunIds
      PROVE  (IF r \in S THEN [runs[r] EXCEPT !.status = outcome] ELSE runs[r]) \in Run
  BY StatusTyped DEF Statuses, TypeOK
<1>2. runs' \in [RunIds -> Run]
  BY <1>1 DEF Close
<1>3. told' \in [RunIds -> Nat]
  BY DEF Close, TypeOK
<1> QED BY <1>2, <1>3

LEMMA FinalizeTyped ==
  ASSUME TypeOK, NEW r, NEW outcome \in Final, Finalize(r, outcome)
  PROVE  runs' \in [RunIds -> Run] /\ told' \in [RunIds -> Nat]
BY CloseTyped DEF Finalize

\* A signature is a process and a number.
LEMMA SigTyped ==
  ASSUME TypeOK, NEW p \in Procs
  PROVE  Sig(p) \in Procs \X Nat
BY DEF TypeOK, Process, Sig

LEMMA SignTyped ==
  ASSUME TypeOK, NEW r \in RunIds, NEW p \in Procs, NEW f \in Flows \union {NoFlow},
         NEW t \in {"none", "manual", "schedule", "cell"}, Sign(r, p, f, t)
  PROVE  runs' \in [RunIds -> Run]
<1>1. [status |-> "STARTED", flow |-> f, trigger |-> t, by |-> Sig(p), beat |-> "fresh"] \in Run
  BY SigTyped DEF Run, Statuses
<1> QED BY <1>1 DEF Sign, TypeOK

LEMMA PcTyped ==
  ASSUME NEW g \in Coroutine, NEW label \in Labels
  PROVE  [g EXCEPT !.pc = label] \in Coroutine
BY DEF Coroutine

LEMMA GotoTyped ==
  ASSUME TypeOK, NEW p \in Procs, NEW r \in RunIds, NEW label \in Labels, Goto(p, r, label)
  PROVE  work' \in [Procs -> [RunIds -> Coroutine]]
<1>1. [work[p][r] EXCEPT !.pc = label] \in Coroutine
  BY PcTyped DEF TypeOK
<1>2. work' = [work EXCEPT ![p] = [work[p] EXCEPT ![r] = [work[p][r] EXCEPT !.pc = label]]]
  BY DEF Goto, TypeOK
<1> QED BY <1>1, <1>2 DEF TypeOK

LEMMA AdvanceTyped ==
  ASSUME TypeOK, NEW p \in Procs, NEW r \in RunIds, NEW errs \in BOOLEAN, Advance(p, r, errs)
  PROVE  work' \in [Procs -> [RunIds -> Coroutine]]
<1> DEFINE g  == work[p][r]
           g2 == IF g.n = NSteps THEN [g EXCEPT !.pc = "end", !.errs = errs]
                 ELSE [pc |-> "check", n |-> g.n + 1, errs |-> errs]
<1>1. g \in Coroutine
  BY DEF TypeOK
<1>2. [g EXCEPT !.pc = "end", !.errs = errs] \in Coroutine
  BY <1>1 DEF Coroutine, Labels
<1>3. g.n # NSteps => g.n + 1 \in Steps
  BY <1>1, ConstantsAssumption DEF Coroutine, Steps
<1>4. g2 \in Coroutine
  BY <1>2, <1>3 DEF Coroutine, Labels
<1>5. work' = [work EXCEPT ![p] = [work[p] EXCEPT ![r] = g2]]
  BY DEF Advance, TypeOK
<1> HIDE DEF g2
<1> QED BY <1>4, <1>5 DEF TypeOK

LEMMA StepFailedTyped ==
  ASSUME TypeOK, NEW p \in Procs, NEW r \in RunIds, StepFailed(p, r)
  PROVE  work' \in [Procs -> [RunIds -> Coroutine]]
BY AdvanceTyped, GotoTyped DEF StepFailed, Labels

LEMMA StepTyped ==
  ASSUME TypeOK, NEW p \in Procs, NEW r \in RunIds
  PROVE  Step(p, r) \in Steps
BY DEF TypeOK, Coroutine, Step

LEMMA StepRowTyped ==
  ASSUME TypeOK, NEW r \in RunIds, NEW n \in Steps, NEW s \in StepRow,
         steps' = [steps EXCEPT ![r][n] = s]
  PROVE  steps' \in [RunIds -> [Steps -> StepRow]]
BY DEF TypeOK

LEMMA RowTyped ==
  ASSUME NEW s \in StepRow, NEW x \in RowStates
  PROVE  [s EXCEPT !.row = x] \in StepRow
BY DEF StepRow

LEMMA TaskTyped ==
  ASSUME NEW s \in StepRow, NEW t \in TaskStates
  PROVE  [s EXCEPT !.task = t] \in StepRow
BY DEF StepRow

LEMMA SetRowTyped ==
  ASSUME TypeOK, NEW r \in RunIds, NEW n \in Steps, NEW x \in RowStates, SetRow(r, n, x)
  PROVE  steps' \in [RunIds -> [Steps -> StepRow]]
<1>1. [steps[r][n] EXCEPT !.row = x] \in StepRow
  BY RowTyped DEF TypeOK
<1>2. steps' = [steps EXCEPT ![r] = [steps[r] EXCEPT ![n] = [steps[r][n] EXCEPT !.row = x]]]
  BY DEF SetRow, TypeOK
<1> QED BY <1>1, <1>2 DEF TypeOK

LEMMA SetTaskTyped ==
  ASSUME TypeOK, NEW r \in RunIds, NEW n \in Steps, NEW t \in TaskStates,
         steps' = [steps EXCEPT ![r][n].task = t]
  PROVE  steps' \in [RunIds -> [Steps -> StepRow]]
<1>1. [steps[r][n] EXCEPT !.task = t] \in StepRow
  BY TaskTyped DEF TypeOK
<1>2. steps' = [steps EXCEPT ![r] = [steps[r] EXCEPT ![n] = [steps[r][n] EXCEPT !.task = t]]]
  BY DEF TypeOK
<1> QED BY <1>1, <1>2 DEF TypeOK

LEMMA QueueTaskTyped ==
  ASSUME TypeOK, NEW r \in RunIds, NEW n \in Steps, QueueTask(r, n)
  PROVE  steps' \in [RunIds -> [Steps -> StepRow]] /\ late' \in [RunIds -> Nat]
<1>1. steps' \in [RunIds -> [Steps -> StepRow]]
  BY SetTaskTyped DEF QueueTask, TaskStates
<1>2. late' \in [RunIds -> Nat]
  BY DEF QueueTask, TypeOK
<1> QED BY <1>1, <1>2

LEMMA LoseTaskTyped ==
  ASSUME TypeOK, NEW r \in RunIds, NEW n \in Steps, LoseTask(r, n)
  PROVE  steps' \in [RunIds -> [Steps -> StepRow]] /\ late' \in [RunIds -> Nat]
<1>1. [row |-> "none", task |-> "running"] \in StepRow
  BY DEF StepRow, RowStates, TaskStates
<1>2. steps' \in [RunIds -> [Steps -> StepRow]]
  BY <1>1, StepRowTyped DEF LoseTask
<1>3. late' \in [RunIds -> Nat]
  BY DEF LoseTask, TypeOK
<1> QED BY <1>2, <1>3

LEMMA UpsetTyped ==
  ASSUME TypeOK, NEW kind, Upset(kind)
  PROVE  upsets' \in Nat
BY DEF TypeOK, Upset

LEMMA CardOfRuns ==
  ASSUME NEW S \in SUBSET RunIds
  PROVE  Cardinality(S) \in Nat
<1>1. IsFiniteSet(RunIds)
  BY ConstantsAssumption, FS_Interval DEF RunIds
<1> QED BY <1>1, FS_Subset, FS_CardinalityType

LEMMA NoLoopTyped == NoLoop \in LoopState
BY DEF NoLoop, LoopState

LEMMA LoopTyped ==
  ASSUME NEW l \in LoopState, NEW S \in SUBSET RunIds, NEW T \in SUBSET (RunIds \X Steps)
  PROVE  /\ [l EXCEPT !.stop = S] \in LoopState
         /\ [l EXCEPT !.skip = S] \in LoopState
         /\ [l EXCEPT !.cands = S] \in LoopState
         /\ [l EXCEPT !.todo = T] \in LoopState
BY DEF LoopState

LEMMA RefusedTyped ==
  ASSUME NEW l \in LoopState, NEW S \in SUBSET RunIds, NEW at \in {"idle", "claim", "refuse"}
  PROVE  [l EXCEPT !.at = at, !.refused = S] \in LoopState
BY DEF LoopState

LEMMA IdleTyped == Idle \in Coroutine
BY ConstantsAssumption DEF Idle, Coroutine, Labels, Steps

LEMMA ProcessTyped ==
  ASSUME NEW x \in Process, NEW b \in BOOLEAN, NEW ph \in {"down", "boot", "run", "stop"}
  PROVE  /\ [x EXCEPT !.phase = ph] \in Process
         /\ [x EXCEPT !.beats = b] \in Process
         /\ [x EXCEPT !.healthy = b] \in Process
         /\ [x EXCEPT !.drains = b] \in Process
BY DEF Process

-----------------------------------------------------------------------------
(***************************************************************************)
(* Every step keeps the types.                                             *)
(***************************************************************************)
LEMMA LetGoTyped ==
  ASSUME TypeOK, NEW p \in Procs, LetGo(p)
  PROVE  work' \in [Procs -> [RunIds -> Coroutine]]
BY IdleTyped DEF TypeOK, LetGo

LEMMA TypeInit == Init => TypeOK
<1> SUFFICES ASSUME Init PROVE TypeOK
  OBVIOUS
<1>1. NoRun \in Run /\ NoStep \in StepRow
  BY DEF NoRun, Run, Statuses, NoStep, StepRow, RowStates, TaskStates
<1>2. [phase |-> "down", start |-> 0, beats |-> FALSE, healthy |-> FALSE, drains |-> FALSE] \in Process
  BY DEF Process
<1> QED BY <1>1, <1>2, IdleTyped, NoLoopTyped DEF Init, TypeOK

\* Queueing and claiming.
LEMMA TypeEnqueue ==
  ASSUME TypeOK, NEW f \in Flows, RunNow(f) \/ FireSchedule(f)
  PROVE  TypeOK'
<1>1. PICK t \in {"manual", "schedule"} : Enqueue(f, t)
  BY DEF RunNow, FireSchedule
<1>2. [NoRun EXCEPT !.status = "PENDING", !.flow = f, !.trigger = t] \in Run
  BY DEF NoRun, Run, Statuses
<1> QED BY <1>1, <1>2 DEF Enqueue, TypeOK

LEMMA TypeQueue ==
  ASSUME TypeOK, NEW p \in Procs,
         \/ ReadQueue(p) \/ ClaimNext(p) \/ ClaimAnswerLost(p)
         \/ SkipSlot(p) \/ SkipFails(p) \/ ClaimUnattended(p) \/ StartTaken(p) \/ Refuse(p)
         \/ \E f \in Flows : TakeChildSlot(p, f)
  PROVE  TypeOK'
<1>0. loop[p] \in LoopState /\ \A r \in RunIds : runs[r] \in Run
  BY DEF TypeOK
<1>2. CASE ReadQueue(p)
  <2> DEFINE waiting == {r \in RunIds : runs[r].status = "PENDING"}
             free    == Concurrency - Cardinality(Running(p)) - Cardinality(Cells(p))
  <2>1. free \in Int
    BY CardOfRuns, ConstantsAssumption DEF Running, Cells, Alive
  <2>2. [NoLoop EXCEPT !.at = "claim", !.cands = waiting, !.free = free] \in LoopState
    BY <2>1 DEF NoLoop, LoopState
  <2> QED BY <1>2, <2>2 DEF ReadQueue, TypeOK
<1>3. CASE ClaimNext(p)
  <2>0. UNCHANGED <<steps, told, proc, late, upsets>>
    BY <1>3 DEF ClaimNext
  <2>1. PICK r \in Earliest(loop[p].cands) : ClaimNext(p)!3!(r)
    BY <1>3 DEF ClaimNext
  <2>2. r \in RunIds
    BY <1>0 DEF Earliest, LoopState
  <2> DEFINE clash == Claimable(r) /\ ~IndexFree(r, runs[r].flow)
             slot  == runs[r].trigger = "schedule"
             l     == [loop[p] EXCEPT !.cands   = @ \ {r},
                                      !.skip    = IF clash /\ slot THEN {r} ELSE @,
                                      !.refused = IF clash /\ ~slot THEN @ \union {r} ELSE @]
  <2>3. l \in LoopState
    <3> HIDE DEF clash, slot
    <3> QED BY <1>0, <2>2 DEF LoopState
  <2>4. loop' = [loop EXCEPT ![p] = l]
    BY <2>1 DEF TypeOK
  <2>5. loop' \in [Procs -> LoopState]
    <3> HIDE DEF l
    <3> QED BY <2>3, <2>4 DEF TypeOK
  <2>6. CASE Sign(r, p, runs[r].flow, runs[r].trigger) /\ Goto(p, r, "taken")
    <3>1. /\ runs[r].flow \in Flows \union {NoFlow}
          /\ runs[r].trigger \in {"none", "manual", "schedule", "cell"}
      BY <1>0, <2>2 DEF Run
    <3>2. runs' \in [RunIds -> Run] /\ work' \in [Procs -> [RunIds -> Coroutine]]
      BY <2>2, <2>6, <3>1, SignTyped, GotoTyped DEF Labels
    <3> QED BY <2>0, <2>5, <3>2 DEF TypeOK
  <2>7. CASE UNCHANGED <<runs, work>>
    BY <2>0, <2>5, <2>7 DEF TypeOK
  <2> QED BY <2>1, <2>6, <2>7
<1>4. CASE ClaimAnswerLost(p)
  <2>1. PICK r \in Earliest(loop[p].cands) : Sign(r, p, runs[r].flow, runs[r].trigger)
    BY <1>4 DEF ClaimAnswerLost
  <2>2. r \in RunIds
    BY <1>0 DEF Earliest, LoopState
  <2>3. runs[r].flow \in Flows \union {NoFlow} /\ runs[r].trigger \in {"none", "manual", "schedule", "cell"}
    BY <1>0, <2>2 DEF Run
  <2>4. runs' \in [RunIds -> Run]
    BY <2>1, <2>2, <2>3, SignTyped
  <2>5. loop' \in [Procs -> LoopState]
    BY <1>0, <1>4, LoopTyped DEF ClaimAnswerLost, TypeOK
  <2> QED BY <1>4, <2>4, <2>5, UpsetTyped DEF ClaimAnswerLost, TypeOK
<1>5. CASE SkipSlot(p)
  <2>1. loop' \in [Procs -> LoopState]
    BY <1>0, <1>5, LoopTyped DEF SkipSlot, TypeOK
  <2>2. PICK r \in loop[p].skip :
           runs' = [runs EXCEPT ![r].status = IF @ = "PENDING" THEN "DELETED" ELSE @]
    BY <1>5 DEF SkipSlot
  <2>3. r \in RunIds
    BY <1>0 DEF LoopState
  <2>4. (IF runs[r].status = "PENDING" THEN "DELETED" ELSE runs[r].status) \in Statuses
    BY <1>0, <2>3 DEF Run, Statuses
  <2>5. runs' \in [RunIds -> Run]
    BY <1>0, <2>2, <2>3, <2>4, StatusTyped DEF TypeOK
  <2> QED BY <1>5, <2>1, <2>5 DEF SkipSlot, TypeOK
<1>6. CASE StartTaken(p)
  <2>1. [Idle EXCEPT !.pc = "load"] \in Coroutine
    BY IdleTyped, PcTyped DEF Labels
  <2>2. work' \in [Procs -> [RunIds -> Coroutine]]
    BY <1>6, <2>1 DEF StartTaken, TypeOK
  <2>3. [NoLoop EXCEPT !.at = IF loop[p].refused = {} THEN "idle" ELSE "refuse",
                       !.refused = loop[p].refused] \in LoopState
    <3>1. loop[p].refused \in SUBSET RunIds
      BY <1>0, SMTT(30) DEF LoopState
    <3> QED BY <3>1, NoLoopTyped, RefusedTyped
  <2> QED BY <1>6, <2>2, <2>3 DEF StartTaken, TypeOK
<1>7. CASE Refuse(p)
  <2>1. PICK r \in Earliest(loop[p].refused) : Refuse(p)!2!(r)
    BY <1>7 DEF Refuse
  <2>2. runs' \in [RunIds -> Run] /\ told' \in [RunIds -> Nat]
    BY <2>1, CloseTyped DEF Final
  <2> DEFINE l == [loop[p] EXCEPT !.refused = @ \ {r},
                                  !.at = IF loop[p].refused = {r} THEN "idle" ELSE @]
  <2>3. l \in LoopState
    BY <1>0 DEF LoopState
  <2>4. loop' = [loop EXCEPT ![p] = l]
    BY <2>1 DEF TypeOK
  <2> HIDE DEF l
  <2> QED BY <1>7, <2>2, <2>3, <2>4 DEF Refuse, TypeOK
<1>8. ASSUME NEW f \in Flows, TakeChildSlot(p, f)
      PROVE  TypeOK'
  <2>1. PICK r \in RunIds : Sign(r, p, f, "cell") /\ Goto(p, r, "load")
    BY <1>8 DEF TakeChildSlot
  <2> QED BY <1>8, <2>1, SignTyped, GotoTyped DEF TakeChildSlot, Labels, TypeOK
<1>9. CASE SkipFails(p)
  BY <1>9, LetGoTyped, NoLoopTyped, UpsetTyped DEF SkipFails, TypeOK
<1>10. CASE ClaimUnattended(p)
  <2>0. UNCHANGED <<steps, told, proc, work, late, upsets>>
    BY <1>10 DEF ClaimUnattended
  <2>1. PICK r \in Earliest(loop[p].cands) :
        \E free \in {loop[p].free, loop[p].free - 1}, status \in {runs[r].status, "DELETED"} :
          /\ loop' = [loop EXCEPT ![p] = [loop[p] EXCEPT !.cands = @ \ {r}, !.free = free]]
          /\ \/ Sign(r, p, runs[r].flow, runs[r].trigger)
             \/ runs' = [runs EXCEPT ![r].status = status]
    BY <1>10 DEF ClaimUnattended, TypeOK
  <2>9. PICK free \in {loop[p].free, loop[p].free - 1}, status \in {runs[r].status, "DELETED"} :
          /\ loop' = [loop EXCEPT ![p] = [loop[p] EXCEPT !.cands = @ \ {r}, !.free = free]]
          /\ \/ Sign(r, p, runs[r].flow, runs[r].trigger)
             \/ runs' = [runs EXCEPT ![r].status = status]
    BY <2>1
  <2>2. r \in RunIds /\ free \in Int
    BY <1>0 DEF Earliest, LoopState
  <2>3. loop' \in [Procs -> LoopState]
    <3>1. [loop[p] EXCEPT !.cands = @ \ {r}, !.free = free] \in LoopState
      BY <1>0, <2>2 DEF LoopState
    <3> QED BY <2>9, <3>1 DEF TypeOK
  <2>4. runs' \in [RunIds -> Run]
    <3>1. CASE Sign(r, p, runs[r].flow, runs[r].trigger)
      <4>1. runs[r].flow \in Flows \union {NoFlow} /\ runs[r].trigger \in {"none", "manual", "schedule", "cell"}
        BY <1>0, <2>2 DEF Run
      <4> QED BY <2>2, <3>1, <4>1, SignTyped
    <3>2. CASE runs' = [runs EXCEPT ![r].status = status]
      <4>1. status \in Statuses
        BY <1>0, <2>2 DEF Run, Statuses
      <4> QED BY <1>0, <2>2, <3>2, <4>1, StatusTyped DEF TypeOK
    <3> QED BY <2>9, <3>1, <3>2
  <2> QED BY <2>0, <2>3, <2>4 DEF TypeOK
<1> QED BY <1>2, <1>3, <1>4, <1>5, <1>6, <1>7, <1>8, <1>9, <1>10

\* Carrying a run.
LEMMA TypeCarry ==
  ASSUME TypeOK, NEW p \in Procs, NEW r \in RunIds, Carry(p, r) \/ Stray(p, r)
  PROVE  TypeOK'
<1>0. /\ loop[p] \in LoopState
      /\ work[p][r].errs \in BOOLEAN
      /\ \A n \in Steps : steps[r][n] \in StepRow
  BY DEF TypeOK, Coroutine
<1>1. CASE Load(p, r) \/ Check(p, r) \/ GiveUpWaiting(p, r) \/ StepsStopped(p, r)
  <2>1. PICK label \in Labels : Goto(p, r, label)
    BY <1>1 DEF Load, Check, GiveUpWaiting, StepsStopped, Labels
  <2>2. UNCHANGED <<runs, steps, told, proc, loop, late, upsets>>
    BY <1>1 DEF Load, Check, GiveUpWaiting, StepsStopped
  <2> QED BY <2>1, <2>2, GotoTyped DEF TypeOK
<1>2. CASE Place(p, r)
  <2>1. SetRow(r, Step(p, r), "placed") /\ Goto(p, r, "submit")
    BY <1>2 DEF Place
  <2>2. /\ steps' \in [RunIds -> [Steps -> StepRow]]
        /\ work' \in [Procs -> [RunIds -> Coroutine]]
    BY <2>1, StepTyped, SetRowTyped, GotoTyped DEF RowStates, Labels
  <2> QED BY <1>2, <2>2 DEF Place, TypeOK
<1>3. CASE Submit(p, r)
  <2>1. /\ steps' \in [RunIds -> [Steps -> StepRow]] /\ late' \in [RunIds -> Nat]
        /\ work' \in [Procs -> [RunIds -> Coroutine]]
    BY <1>3, StepTyped, QueueTaskTyped, GotoTyped DEF Submit, Labels
  <2> QED BY <1>3, <2>1 DEF Submit, TypeOK
<1>4. CASE Record(p, r)
  <2> DEFINE n == Step(p, r)
  <2>1. n \in Steps
    BY StepTyped
  <2>2. (IF steps[r][n].row \in Final THEN steps[r][n].row ELSE "open") \in RowStates
    BY DEF RowStates
  <2>3. SetRow(r, n, IF steps[r][n].row \in Final THEN steps[r][n].row ELSE "open")
    BY <1>4, <2>1 DEF Record, SetRow, TypeOK
  <2>4. steps' \in [RunIds -> [Steps -> StepRow]]
    <3> HIDE DEF n
    <3> QED BY <2>1, <2>2, <2>3, SetRowTyped
  <2>5. work' \in [Procs -> [RunIds -> Coroutine]]
    BY <1>4, GotoTyped DEF Record, Labels
  <2> QED BY <1>4, <2>4, <2>5 DEF Record, TypeOK
<1>5. CASE Await(p, r)
  <2>1. work' \in [Procs -> [RunIds -> Coroutine]]
    BY <1>0, <1>5, AdvanceTyped, StepFailedTyped DEF Await
  <2> QED BY <1>5, <2>1 DEF Await, TypeOK
<1>6. CASE Finish(p, r)
  <2>1. PICK outcome \in Final : Finalize(r, outcome)
    BY <1>6 DEF Finish, Final
  <2>2. runs' \in [RunIds -> Run] /\ told' \in [RunIds -> Nat]
    BY <2>1, FinalizeTyped
  <2>3. work' \in [Procs -> [RunIds -> Coroutine]]
    BY <1>6, GotoTyped DEF Finish, Labels
  <2> QED BY <1>6, <2>2, <2>3 DEF Finish, TypeOK
<1>7. CASE Interrupt(p, r)
  <2>1. runs' \in [RunIds -> Run] /\ told' \in [RunIds -> Nat]
    BY <1>7, FinalizeTyped DEF Interrupt, Final
  <2>2. work' \in [Procs -> [RunIds -> Coroutine]]
    BY <1>7, GotoTyped DEF Interrupt, Labels
  <2>3. loop' \in [Procs -> LoopState]
    <3>1. loop[p].stop \union {r} \in SUBSET RunIds
      BY <1>0 DEF LoopState
    <3> QED BY <1>0, <1>7, <3>1, LoopTyped DEF Interrupt, TypeOK
  <2>4. steps' \in [RunIds -> [Steps -> StepRow]] /\ late' \in [RunIds -> Nat]
    <3>1. CASE UNCHANGED <<steps, late>>
      BY <3>1 DEF TypeOK
    <3>2. CASE SetRow(r, Step(p, r), "none") /\ UNCHANGED late
      BY <3>2, StepTyped, SetRowTyped DEF RowStates, TypeOK
    <3>3. CASE LoseTask(r, Step(p, r))
      BY <3>3, StepTyped, LoseTaskTyped
    <3> QED BY <1>7, <3>1, <3>2, <3>3 DEF Interrupt
  <2> QED BY <1>7, <2>1, <2>2, <2>3, <2>4 DEF Interrupt, TypeOK
<1>8. CASE SubmitRefused(p, r)
  <2>1. steps' \in [RunIds -> [Steps -> StepRow]]
    BY <1>8, StepTyped, SetRowTyped DEF SubmitRefused, RowStates
  <2>2. work' \in [Procs -> [RunIds -> Coroutine]]
    BY <1>8, StepFailedTyped DEF SubmitRefused
  <2> QED BY <1>8, <2>1, <2>2 DEF SubmitRefused, TypeOK
<1>9. CASE SubmitAnswerLost(p, r)
  <2>1. steps' \in [RunIds -> [Steps -> StepRow]] /\ late' \in [RunIds -> Nat]
    BY <1>9, StepTyped, LoseTaskTyped DEF SubmitAnswerLost
  <2>2. work' \in [Procs -> [RunIds -> Coroutine]]
    BY <1>9, StepFailedTyped DEF SubmitAnswerLost
  <2> QED BY <1>9, <2>1, <2>2, UpsetTyped DEF SubmitAnswerLost, TypeOK
<1>10. CASE DatabaseFails(p, r)
  <2>1. work' \in [Procs -> [RunIds -> Coroutine]]
    BY <1>10, StepFailedTyped, GotoTyped DEF DatabaseFails, Labels
  <2> QED BY <1>10, <2>1, UpsetTyped DEF DatabaseFails, TypeOK
<1>11. CASE LoseOutcome(p, r)
  <2>1. work' \in [Procs -> [RunIds -> Coroutine]]
    BY <1>11, GotoTyped DEF LoseOutcome, Labels
  <2>2. upsets' \in Nat
    BY <1>11, UpsetTyped DEF LoseOutcome, TypeOK
  <2> QED BY <1>11, <2>1, <2>2 DEF LoseOutcome, TypeOK
<1> QED BY <1>1, <1>2, <1>3, <1>4, <1>5, <1>6, <1>7, <1>8, <1>9, <1>10, <1>11 DEF Carry, Stray

\* The loop's other work, the life of a process, the engine.
LEMMA TypeLoop ==
  ASSUME TypeOK, NEW p \in Procs, ReadSteps(p) \/ StopStep(p)
  PROVE  TypeOK'
<1>0. loop[p] \in LoopState
  BY SMTT(30) DEF TypeOK
<1>1. CASE ReadSteps(p)
  <2>1. PICK r \in loop[p].stop : ReadSteps(p)!1!(r)
    BY <1>1 DEF ReadSteps
  <2> DEFINE l == [loop[p] EXCEPT
                     !.stop = @ \ {r},
                     !.todo = @ \union {<<r, n>> : n \in {m \in Steps : OpenRow(steps[r][m].row)}}]
  <2>2. r \in RunIds
    BY <1>0, <2>1 DEF LoopState
  <2>3. /\ loop[p].todo \union {<<r, n>> : n \in {m \in Steps : OpenRow(steps[r][m].row)}}
              \in SUBSET (RunIds \X Steps)
        /\ loop[p].stop \ {r} \in SUBSET RunIds
    BY <1>0, <2>2 DEF LoopState
  <2>4. \A S \in SUBSET RunIds, T \in SUBSET (RunIds \X Steps) :
            [loop[p] EXCEPT !.stop = S, !.todo = T] \in LoopState
    BY <1>0 DEF LoopState
  <2>5. l \in LoopState
    BY <2>3, <2>4
  <2>6. loop' = [loop EXCEPT ![p] = l]
    BY <2>1, ZenonT(60) DEF TypeOK
  <2> HIDE DEF l
  <2> QED BY <1>1, <2>5, <2>6 DEF ReadSteps, TypeOK
<1>2. CASE StopStep(p)
  <2>1. PICK x \in loop[p].todo : StopStep(p)!1!(x)
    BY <1>2 DEF StopStep
  <2> DEFINE r == x[1]
             n == x[2]
  <2>2. r \in RunIds /\ n \in Steps
    BY <1>0, <2>1 DEF LoopState
  <2>3. loop' \in [Procs -> LoopState]
    <3>1. loop[p].todo \ {x} \in SUBSET (RunIds \X Steps)
      BY <1>0 DEF LoopState
    <3> QED BY <1>0, <2>1, <3>1, LoopTyped DEF TypeOK
  <2>4. steps' \in [RunIds -> [Steps -> StepRow]] /\ upsets' \in Nat
    <3>1. CASE UNCHANGED <<steps, upsets>>
      BY <3>1 DEF TypeOK
    <3>2. CASE (\E o \in Final : SetRow(r, n, o)) /\ UNCHANGED upsets
      BY <2>2, <3>2, SetRowTyped DEF RowStates, TypeOK
    <3>3. CASE \E lost \in BOOLEAN : \E t \in RevokedTo("running", lost) :
                  /\ steps' = [steps EXCEPT ![r][n] = [row |-> "FAILURE", task |-> t]]
                  /\ IF lost THEN Upset("engine") ELSE UNCHANGED upsets
      <4>1. PICK lost \in BOOLEAN, t \in Final \union {"running"} :
                  /\ steps' = [steps EXCEPT ![r][n] = [row |-> "FAILURE", task |-> t]]
                  /\ IF lost THEN Upset("engine") ELSE UNCHANGED upsets
        BY <3>3 DEF RevokedTo
      <4>2. [row |-> "FAILURE", task |-> t] \in StepRow
        BY DEF StepRow, RowStates, TaskStates, Final
      <4> QED BY <2>2, <4>1, <4>2, StepRowTyped, UpsetTyped DEF TypeOK
    <3> QED BY <2>1, <3>1, <3>2, <3>3 DEF Final
  <2> QED BY <1>2, <2>3, <2>4 DEF StopStep, TypeOK
<1> QED BY <1>1, <1>2

LEMMA TypeLife ==
  ASSUME TypeOK, NEW p \in Procs, Life(p)
  PROVE  TypeOK'
<1>0. proc[p] \in Process /\ loop[p] \in LoopState /\ \A r \in RunIds : runs[r] \in Run
  BY DEF TypeOK
<1>1. CASE Start(p)
  <2>1. [phase |-> "boot", start |-> proc[p].start + 1, beats |-> TRUE,
         healthy |-> FALSE, drains |-> FALSE] \in Process
    BY <1>0 DEF Process
  <2> QED BY <1>1, <2>1 DEF Start, TypeOK
<1>2. CASE CloseEarlier(p)
  <2> DEFINE earlier == {r \in RunIds : /\ runs[r].status = "STARTED" /\ runs[r].by # Nobody
                                       /\ runs[r].by[1] = p /\ runs[r].by # Sig(p)}
  <2>1. /\ Close(earlier, "FAILURE")
        /\ loop' = [loop EXCEPT ![p].stop = earlier]
        /\ proc' = [proc EXCEPT ![p].phase = "run"]
        /\ UNCHANGED <<steps, work, late, upsets>>
    BY <1>2 DEF CloseEarlier
  <2>2. earlier \in SUBSET RunIds
    OBVIOUS
  <2> HIDE DEF earlier
  <2>3. runs' \in [RunIds -> Run] /\ told' \in [RunIds -> Nat]
    BY <2>1, CloseTyped DEF Final
  <2>4. loop' \in [Procs -> LoopState] /\ proc' \in [Procs -> Process]
    BY <1>0, <2>1, <2>2, LoopTyped, ProcessTyped DEF TypeOK
  <2> QED BY <2>1, <2>3, <2>4 DEF TypeOK
<1>3. CASE Drain(p) \/ Freeze(p)
  <2>1. proc' \in [Procs -> Process]
    BY <1>0, <1>3, ProcessTyped DEF Drain, Freeze, TypeOK
  <2> QED BY <1>3, <2>1, UpsetTyped DEF Drain, Freeze, TypeOK
<1>4. CASE Stop(p)
  <2>1. \A x \in Process : [x EXCEPT !.phase = "stop", !.beats = FALSE] \in Process
    BY DEF Process
  <2>2. proc' = [proc EXCEPT ![p] = [proc[p] EXCEPT !.phase = "stop", !.beats = FALSE]]
    BY <1>4 DEF Stop, TypeOK
  <2>3. proc' \in [Procs -> Process]
    BY <1>0, <2>1, <2>2 DEF TypeOK
  <2> DEFINE free == loop[p].free - Cardinality(Taken(p))
             kept == [NoLoop EXCEPT !.cands = loop[p].cands, !.free = free]
  <2>4. free \in Int
    <3>1. loop[p].free \in Int
      BY <1>0 DEF LoopState
    <3> QED BY <3>1, CardOfRuns DEF Taken
  <2>5. kept \in LoopState
    <3> HIDE DEF free
    <3> QED BY <1>0, <2>4 DEF NoLoop, LoopState
  <2>6. loop' = [loop EXCEPT ![p] = IF loop[p].at # "claim" THEN NoLoop ELSE kept]
    BY <1>4 DEF Stop, TypeOK
  <2> HIDE DEF kept
  <2>7. loop' \in [Procs -> LoopState]
    BY <2>5, <2>6, NoLoopTyped DEF TypeOK
  <2> QED BY <1>4, <2>3, <2>7, LetGoTyped DEF Stop, TypeOK
<1>5. CASE Leave(p)
  <2>1. runs' \in [RunIds -> Run] /\ told' \in [RunIds -> Nat]
    BY <1>5, CloseTyped DEF Leave, Final
  <2>2. proc' \in [Procs -> Process]
    BY <1>0, <1>5, ProcessTyped DEF Leave, TypeOK
  <2> QED BY <1>5, <2>1, <2>2 DEF Leave, TypeOK
<1>6. CASE Crash(p)
  <2>1. \A x \in Process : [x EXCEPT !.phase = "down", !.beats = FALSE] \in Process
    BY DEF Process
  <2>2. proc' = [proc EXCEPT ![p] = [proc[p] EXCEPT !.phase = "down", !.beats = FALSE]]
    BY <1>6 DEF Crash, TypeOK
  <2>3. proc' \in [Procs -> Process]
    BY <1>0, <2>1, <2>2 DEF TypeOK
  <2>4. work' \in [Procs -> [RunIds -> Coroutine]] /\ loop' \in [Procs -> LoopState]
    BY <1>6, IdleTyped, NoLoopTyped DEF Crash, TypeOK
  <2> QED BY <1>6, <2>3, <2>4, UpsetTyped DEF Crash, TypeOK
<1>7. CASE Thaw(p) \/ TurnHealthy(p)
  <2>1. proc' \in [Procs -> Process]
    BY <1>0, <1>7, ProcessTyped DEF Thaw, TurnHealthy, TypeOK
  <2> QED BY <1>7, <2>1 DEF Thaw, TurnHealthy, TypeOK
<1>8. CASE Beat(p)
  <2>1. \A r \in RunIds : [runs[r] EXCEPT !.beat = "fresh"] \in Run
    BY <1>0, BeatTyped
  <2>2. runs' \in [RunIds -> Run]
    BY <1>0, <1>8, <2>1 DEF Beat
  <2> QED BY <1>8, <2>2 DEF Beat, TypeOK
<1> QED BY <1>1, <1>2, <1>3, <1>4, <1>5, <1>6, <1>7, <1>8 DEF Life

LEMMA TypeRest ==
  ASSUME TypeOK,
         \/ \E p \in Procs, r \in RunIds : CloseOrphan(p, r) \/ SweepQueued(p, r)
         \/ \E r \in RunIds : Silent(r) \/ CloseQueued(r) \/ \E n \in Steps : Engine(r, n)
         \/ Outage
  PROVE  TypeOK'
<1>0. \A r \in RunIds : runs[r] \in Run
  BY DEF TypeOK
<1>1. ASSUME NEW p \in Procs, NEW r \in RunIds, CloseOrphan(p, r)
      PROVE  TypeOK'
  <2>1. runs' \in [RunIds -> Run] /\ told' \in [RunIds -> Nat]
    BY <1>1, CloseTyped DEF CloseOrphan, Final
  <2>2. loop' \in [Procs -> LoopState]
    BY <1>1, LoopTyped DEF CloseOrphan, TypeOK
  <2> QED BY <1>1, <2>1, <2>2 DEF CloseOrphan, TypeOK
<1>2. ASSUME NEW r \in RunIds, CloseQueued(r)
      PROVE  TypeOK'
  <2>1. runs' \in [RunIds -> Run] /\ told' \in [RunIds -> Nat]
    BY <1>2, CloseTyped DEF CloseQueued, Final
  <2> QED BY <1>2, <2>1 DEF CloseQueued, TypeOK
<1>3. ASSUME NEW r \in RunIds, Silent(r)
      PROVE  TypeOK'
  <2>1. runs' \in [RunIds -> Run]
    BY <1>0, <1>3, BeatTyped DEF Silent, TypeOK
  <2> QED BY <1>3, <2>1 DEF Silent, TypeOK
<1>4. ASSUME NEW r \in RunIds, NEW n \in Steps, TaskEnds(r, n)
      PROVE  TypeOK'
  <2>1. steps' \in [RunIds -> [Steps -> StepRow]]
    BY <1>4, SetTaskTyped DEF TaskEnds, TaskStates
  <2> QED BY <1>4, <2>1 DEF TaskEnds, TypeOK
<1>5. ASSUME NEW r \in RunIds, NEW n \in Steps, Reconcile(r, n) \/ NeverQueued(r, n)
      PROVE  TypeOK'
  <2>1. steps' \in [RunIds -> [Steps -> StepRow]]
    BY <1>5, SetRowTyped DEF Reconcile, NeverQueued, RowStates, Final
  <2> QED BY <1>5, <2>1 DEF Reconcile, NeverQueued, TypeOK
<1>6. ASSUME NEW r \in RunIds, NEW n \in Steps, StaleRun(r, n)
      PROVE  TypeOK'
  <2>1. PICK lost \in BOOLEAN, t \in Final \union {"running"} :
            /\ steps' = [steps EXCEPT ![r][n] = [row |-> "FAILURE", task |-> t]]
            /\ IF lost THEN Upset("engine") ELSE UNCHANGED upsets
    BY <1>6 DEF StaleRun, RevokedTo
  <2>2. [row |-> "FAILURE", task |-> t] \in StepRow
    BY DEF StepRow, RowStates, TaskStates, Final
  <2>3. steps' \in [RunIds -> [Steps -> StepRow]] /\ upsets' \in Nat
    BY <2>1, <2>2, StepRowTyped, UpsetTyped DEF TypeOK
  <2> QED BY <1>6, <2>3 DEF StaleRun, TypeOK
<1>7. ASSUME Outage
      PROVE  TypeOK'
  <2>1. runs' \in [RunIds -> Run]
    BY <1>0, <1>7, BeatTyped DEF Outage
  <2>2. proc' \in [Procs -> Process]
    BY <1>7, ProcessTyped DEF Outage, TypeOK
  <2> QED BY <1>7, <2>1, <2>2, UpsetTyped DEF Outage, TypeOK
<1> QED BY <1>1, <1>2, <1>3, <1>4, <1>5, <1>6, <1>7 DEF SweepQueued, Engine

LEMMA TypeStep == TypeOK /\ [Next]_vars => TypeOK'
<1> SUFFICES ASSUME TypeOK, [Next]_vars
             PROVE  TypeOK'
  OBVIOUS
<1>1. CASE UNCHANGED vars
  BY <1>1 DEF vars, TypeOK
<1> QED BY <1>1, TypeEnqueue, TypeQueue, TypeCarry, TypeLoop, TypeLife, TypeRest DEF Next, Loop

(***************************************************************************)
(* The state stays well formed.                                            *)
(***************************************************************************)
THEOREM TypeCorrect == Spec => []TypeOK
BY TypeInit, TypeStep, PTL DEF Spec
=============================================================================
