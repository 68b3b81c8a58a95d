---------------------- MODULE OrchestrationQueueProofs ----------------------
(***************************************************************************)
(* The safety of OrchestrationQueue, for any flows, processes, number of   *)
(* runs, sequence and upsets.                                              *)
(*                                                                         *)
(* The forty actions do few kinds of thing to the rows, the processes and  *)
(* the coroutines.  A first group of lemmas says which; the invariant is   *)
(* then preserved kind by kind.                                            *)
(***************************************************************************)
EXTENDS OrchestrationQueueTypes

-----------------------------------------------------------------------------
(***************************************************************************)
(* The kinds of step.                                                      *)
(***************************************************************************)
\* The row keeps its signature, and is left as it is or closed and announced.
RowKept(r) ==
    /\ runs'[r].by = runs[r].by
    /\ runs'[r].flow = runs[r].flow
    /\ \/ runs'[r].status = runs[r].status /\ told'[r] = told[r]
       \/ Open(r) /\ runs'[r].status \in Final /\ told'[r] = told[r] + 1

RowsKept == \A r \in RunIds : RowKept(r)

ProcessKept(p) == proc'[p].phase = proc[p].phase /\ proc'[p].start = proc[p].start

\* Nothing but closings and announcements.
Quiet == /\ RowsKept
         /\ \A p \in Procs : ProcessKept(p)
         /\ UNCHANGED <<work, late>>

\* The coroutine of r in p goes on.
OthersStay(p, r) == \A q \in Procs, s \in RunIds :
                        q # p \/ s # r => work'[q][s].pc = work[q][s].pc

OnTheWay(p, r) == work[p][r].pc \in {"place", "submit"}

Moves(p, r) ==
    /\ RowsKept
    /\ UNCHANGED proc
    /\ work[p][r].pc # "idle"
    /\ OthersStay(p, r)
    /\ \/ /\ UNCHANGED late
          /\ OnTheWay(p, r)' => OnTheWay(p, r) \/ runs[r].status = "STARTED"
       \/ /\ work[p][r].pc = "submit" /\ ~OnTheWay(p, r)'
          /\ late' = [late EXCEPT ![r] = IF Closed(r) THEN @ + 1 ELSE @]

-----------------------------------------------------------------------------
(***************************************************************************)
(* What the shared operators do, row by row and coroutine by coroutine.    *)
(***************************************************************************)
LEMMA CloseKeeps ==
  ASSUME TypeOK, NEW S, NEW outcome \in Final, Close(S, outcome),
         \A r \in RunIds \cap S : Open(r)
  PROVE  RowsKept
<1> SUFFICES ASSUME NEW r \in RunIds
             PROVE  RowKept(r)
  BY DEF RowsKept
<1>1. runs[r] \in Run
  BY DEF TypeOK
<1>2. CASE r \in S
  <2>1. runs'[r] = [runs[r] EXCEPT !.status = outcome] /\ told'[r] = told[r] + 1
    BY <1>2 DEF Close
  <2>2. /\ runs'[r].status = outcome
        /\ runs'[r].by = runs[r].by
        /\ runs'[r].flow = runs[r].flow
    BY <1>1, <2>1 DEF Run
  <2> QED BY <1>2, <2>1, <2>2 DEF RowKept
<1>3. CASE r \notin S
  BY <1>3 DEF Close, RowKept
<1> QED BY <1>2, <1>3

LEMMA FinalizeKeeps ==
  ASSUME TypeOK, NEW r, NEW outcome \in Final, Finalize(r, outcome)
  PROVE  RowsKept
BY CloseKeeps DEF Finalize

LEMMA SameRowsKeep ==
  ASSUME UNCHANGED <<runs, told>>
  PROVE  RowsKept
BY DEF RowsKept, RowKept

\* A beat leaves the rest of the row.
LEMMA BeatKeeps ==
  ASSUME TypeOK, NEW S, NEW b, UNCHANGED told,
         runs' = [r \in RunIds |-> IF r \in S THEN [runs[r] EXCEPT !.beat = b] ELSE runs[r]]
  PROVE  RowsKept
<1> SUFFICES ASSUME NEW r \in RunIds
             PROVE  RowKept(r)
  BY DEF RowsKept
<1>1. runs[r] \in Run
  BY DEF TypeOK
<1>2. /\ [runs[r] EXCEPT !.beat = b].status = runs[r].status
      /\ [runs[r] EXCEPT !.beat = b].by = runs[r].by
      /\ [runs[r] EXCEPT !.beat = b].flow = runs[r].flow
  BY <1>1 DEF Run
<1> QED BY <1>2 DEF RowKept

LEMMA GotoMoves ==
  ASSUME TypeOK, NEW p \in Procs, NEW r \in RunIds, NEW label, Goto(p, r, label)
  PROVE  OthersStay(p, r) /\ work'[p][r].pc = label
<1>1. work[p][r] \in Coroutine
  BY DEF TypeOK
<1>2. work' = [work EXCEPT ![p] = [work[p] EXCEPT ![r] = [work[p][r] EXCEPT !.pc = label]]]
  BY DEF Goto, TypeOK
<1>3. [work[p][r] EXCEPT !.pc = label].pc = label
  BY <1>1 DEF Coroutine
<1>4. work'[p][r].pc = label
  BY <1>2, <1>3 DEF TypeOK
<1>5. OthersStay(p, r)
  BY <1>2 DEF TypeOK, OthersStay
<1> QED BY <1>4, <1>5

LEMMA LetGoLeaves ==
  ASSUME TypeOK, NEW p \in Procs, LetGo(p)
  PROVE  \A q \in Procs, r \in RunIds : /\ work'[q][r].pc \in {work[q][r].pc, "idle"}
                                        /\ q # p => work'[q][r].pc = work[q][r].pc
<1>1. \A r \in RunIds : work'[p][r] \in {work[p][r], Idle}
  BY DEF LetGo, TypeOK
<1>2. \A q \in Procs, r \in RunIds : q # p => work'[q][r] = work[q][r]
  BY DEF LetGo, TypeOK
<1> QED BY <1>1, <1>2 DEF Idle

LEMMA AdvanceMoves ==
  ASSUME TypeOK, NEW p \in Procs, NEW r \in RunIds, NEW errs, Advance(p, r, errs)
  PROVE  OthersStay(p, r) /\ work'[p][r].pc \in {"end", "check"}
<1> DEFINE g  == work[p][r]
           g2 == IF g.n = NSteps THEN [g EXCEPT !.pc = "end", !.errs = errs]
                 ELSE [pc |-> "check", n |-> g.n + 1, errs |-> errs]
<1>1. g \in Coroutine
  BY DEF TypeOK
<1>2. g2.pc \in {"end", "check"}
  BY <1>1 DEF Coroutine
<1>3. work' = [work EXCEPT ![p] = [work[p] EXCEPT ![r] = g2]]
  BY DEF Advance, TypeOK
<1> HIDE DEF g2
<1>4. work'[p][r].pc \in {"end", "check"}
  BY <1>2, <1>3 DEF TypeOK
<1>5. OthersStay(p, r)
  BY <1>3 DEF TypeOK, OthersStay
<1> QED BY <1>4, <1>5

LEMMA StepFailedMoves ==
  ASSUME TypeOK, NEW p \in Procs, NEW r \in RunIds, StepFailed(p, r)
  PROVE  OthersStay(p, r) /\ work'[p][r].pc \in {"end", "check", "fail"}
<1>1. Advance(p, r, TRUE) \/ Goto(p, r, "fail")
  BY DEF StepFailed
<1>2. CASE Advance(p, r, TRUE)
  BY <1>2, AdvanceMoves
<1>3. CASE Goto(p, r, "fail")
  BY <1>3, GotoMoves
<1> QED BY <1>1, <1>2, <1>3

-----------------------------------------------------------------------------
(***************************************************************************)
(* Which kind each action is.                                              *)
(***************************************************************************)
LEMMA QuietSteps ==
  ASSUME TypeOK,
         \/ \E p \in Procs : \/ ReadQueue(p) \/ Refuse(p) \/ ReadSteps(p) \/ StopStep(p)
                             \/ Drain(p) \/ Freeze(p) \/ Thaw(p) \/ Beat(p) \/ TurnHealthy(p)
                             \/ \E r \in RunIds : CloseOrphan(p, r) \/ SweepQueued(p, r)
         \/ \E r \in RunIds : \/ Silent(r) \/ CloseQueued(r)
                              \/ \E n \in Steps : Engine(r, n)
         \/ Outage
  PROVE  Quiet
<1>0. \A p \in Procs : proc[p] \in Process
  BY SMTT(30) DEF TypeOK
<1>1. ASSUME NEW p \in Procs, ReadQueue(p) \/ ReadSteps(p) \/ StopStep(p)
      PROVE  Quiet
  BY <1>1, SameRowsKeep DEF ReadQueue, ReadSteps, StopStep, Quiet, ProcessKept
<1>2. ASSUME NEW p \in Procs, Refuse(p)
      PROVE  Quiet
  <2>1. PICK r \in Earliest(loop[p].refused) :
            Close({q \in {r} : runs[q].status = "PENDING"}, "FAILURE")
    BY <1>2 DEF Refuse
  <2>2. RowsKept
    BY <2>1, CloseKeeps DEF Final, Open
  <2> QED BY <1>2, <2>2 DEF Refuse, Quiet, ProcessKept
<1>3. ASSUME NEW p \in Procs, Drain(p) \/ Freeze(p) \/ Thaw(p) \/ TurnHealthy(p)
      PROVE  Quiet
  <2>1. \A q \in Procs : ProcessKept(q)
    <3>1. \A x \in Process, b \in BOOLEAN :
              /\ [x EXCEPT !.drains = b].phase = x.phase /\ [x EXCEPT !.drains = b].start = x.start
              /\ [x EXCEPT !.beats = b].phase = x.phase /\ [x EXCEPT !.beats = b].start = x.start
              /\ [x EXCEPT !.healthy = b].phase = x.phase /\ [x EXCEPT !.healthy = b].start = x.start
      BY DEF Process
    <3>2. PICK y \in {[proc[p] EXCEPT !.drains = TRUE], [proc[p] EXCEPT !.beats = FALSE],
                      [proc[p] EXCEPT !.beats = TRUE], [proc[p] EXCEPT !.healthy = TRUE]} :
              proc' = [proc EXCEPT ![p] = y]
      BY <1>3 DEF Drain, Freeze, Thaw, TurnHealthy, TypeOK
    <3>3. y.phase = proc[p].phase /\ y.start = proc[p].start
      BY ZenonT(60), <1>0, <3>1, <3>2
    <3> QED BY <3>2, <3>3 DEF ProcessKept, TypeOK
  <2> QED BY <1>3, <2>1, SameRowsKeep DEF Drain, Freeze, Thaw, TurnHealthy, Quiet
<1>4. ASSUME NEW p \in Procs, Beat(p)
      PROVE  Quiet
  <2> DEFINE silent == {r \in Alive(p) : /\ runs[r].status = "STARTED" /\ runs[r].by = Sig(p)
                                         /\ runs[r].beat = "old"}
  <2>1. /\ runs' = [r \in RunIds |->
                      IF r \in silent THEN [runs[r] EXCEPT !.beat = "fresh"] ELSE runs[r]]
        /\ UNCHANGED <<told, proc, work, late>>
    BY <1>4 DEF Beat
  <2> HIDE DEF silent
  <2>2. RowsKept
    BY <2>1, BeatKeeps
  <2> QED BY <2>1, <2>2 DEF Quiet, ProcessKept
<1>5. ASSUME NEW p \in Procs, NEW r \in RunIds, CloseOrphan(p, r)
      PROVE  Quiet
  <2>1. RowsKept
    BY <1>5, CloseKeeps DEF CloseOrphan, Orphan, Open, Final
  <2> QED BY <1>5, <2>1 DEF CloseOrphan, Quiet, ProcessKept
<1>6. ASSUME NEW r \in RunIds, CloseQueued(r)
      PROVE  Quiet
  <2>1. RowsKept
    BY <1>6, CloseKeeps DEF CloseQueued, Open, Final
  <2> QED BY <1>6, <2>1 DEF CloseQueued, Quiet, ProcessKept
<1>7. ASSUME NEW r \in RunIds, Silent(r)
      PROVE  Quiet
  <2>1. runs' = [q \in RunIds |->
                   IF q \in {r} THEN [runs[q] EXCEPT !.beat = "old"] ELSE runs[q]]
    BY <1>7 DEF Silent, TypeOK
  <2>2. RowsKept
    <3>1. UNCHANGED told
      BY <1>7 DEF Silent
    <3> QED BY <2>1, <3>1, BeatKeeps
  <2> QED BY <1>7, <2>2 DEF Silent, Quiet, ProcessKept
<1>8. ASSUME NEW r \in RunIds, NEW n \in Steps, Engine(r, n)
      PROVE  Quiet
  BY <1>8, SameRowsKeep DEF Engine, TaskEnds, Reconcile, StaleRun, NeverQueued, Quiet, ProcessKept
<1>9. ASSUME Outage
      PROVE  Quiet
  <2> DEFINE S == {r \in RunIds : runs[r].status = "STARTED"}
  <2>1. runs' = [r \in RunIds |-> IF r \in S THEN [runs[r] EXCEPT !.beat = "old"] ELSE runs[r]]
    BY <1>9 DEF Outage
  <2> HIDE DEF S
  <2>2. RowsKept
    <3>1. UNCHANGED told
      BY <1>9 DEF Outage
    <3> QED BY <2>1, <3>1, BeatKeeps
  <2>3. \A x \in Process : /\ [x EXCEPT !.healthy = FALSE].phase = x.phase
                           /\ [x EXCEPT !.healthy = FALSE].start = x.start
    BY DEF Process
  <2>4. \A p \in Procs : ProcessKept(p)
    BY <1>0, <1>9, <2>3 DEF Outage, ProcessKept
  <2> QED BY <1>9, <2>2, <2>4 DEF Outage, Quiet
<1> QED BY <1>1, <1>2, <1>3, <1>4, <1>5, <1>6, <1>7, <1>8, <1>9 DEF SweepQueued

LEMMA MovingSteps ==
  ASSUME TypeOK, NEW p \in Procs, NEW r \in RunIds, Carry(p, r) \/ Stray(p, r)
  PROVE  Moves(p, r)
<1>1. CASE Load(p, r) \/ GiveUpWaiting(p, r) \/ StepsStopped(p, r)
  <2>1. PICK label \in {"check", "fail", "idle"} : Goto(p, r, label)
    BY <1>1 DEF Load, GiveUpWaiting, StepsStopped
  <2>2. OthersStay(p, r) /\ ~OnTheWay(p, r)'
    BY <2>1, GotoMoves DEF OnTheWay
  <2>3. work[p][r].pc # "idle" /\ UNCHANGED <<runs, told, proc, late>>
    BY <1>1 DEF Load, GiveUpWaiting, StepsStopped, At
  <2> QED BY <2>2, <2>3, SameRowsKeep DEF Moves
<1>2. CASE Check(p, r)
  <2>1. PICK label \in {"place", "submit", "idle"} :
            Goto(p, r, label) /\ (label # "idle" => StillMine(p, r))
    BY <1>2 DEF Check
  <2>2. OthersStay(p, r) /\ (OnTheWay(p, r)' => runs[r].status = "STARTED")
    BY <2>1, GotoMoves DEF OnTheWay, StillMine
  <2>3. work[p][r].pc # "idle" /\ UNCHANGED <<runs, told, proc, late>>
    BY <1>2 DEF Check, At
  <2> QED BY <2>2, <2>3, SameRowsKeep DEF Moves
<1>3. CASE Place(p, r)
  <2>1. OthersStay(p, r)
    BY <1>3, GotoMoves DEF Place
  <2>2. work[p][r].pc = "place" /\ UNCHANGED <<runs, told, proc, late>>
    BY <1>3 DEF Place, At
  <2> QED BY <2>1, <2>2, SameRowsKeep DEF Moves, OnTheWay
<1>4. CASE Submit(p, r)
  <2>1. OthersStay(p, r) /\ ~OnTheWay(p, r)'
    BY <1>4, GotoMoves DEF Submit, OnTheWay
  <2>2. /\ work[p][r].pc = "submit" /\ UNCHANGED <<runs, told, proc>>
        /\ late' = [late EXCEPT ![r] = IF Closed(r) THEN @ + 1 ELSE @]
    BY <1>4 DEF Submit, At, QueueTask
  <2> QED BY <2>1, <2>2, SameRowsKeep DEF Moves
<1>5. CASE Record(p, r)
  <2>1. OthersStay(p, r) /\ ~OnTheWay(p, r)'
    BY <1>5, GotoMoves DEF Record, OnTheWay
  <2>2. work[p][r].pc # "idle" /\ UNCHANGED <<runs, told, proc, late>>
    BY <1>5 DEF Record, At
  <2> QED BY <2>1, <2>2, SameRowsKeep DEF Moves
<1>6. CASE Await(p, r) \/ SubmitRefused(p, r) \/ DatabaseFails(p, r)
  <2>1. Advance(p, r, work[p][r].errs) \/ StepFailed(p, r) \/ Goto(p, r, "fail")
    BY <1>6 DEF Await, SubmitRefused, DatabaseFails
  <2>2. OthersStay(p, r) /\ ~OnTheWay(p, r)'
    <3>1. OthersStay(p, r) /\ work'[p][r].pc \in {"end", "check", "fail"}
      <4>1. CASE Advance(p, r, work[p][r].errs)
        BY <4>1, AdvanceMoves
      <4>2. CASE StepFailed(p, r)
        BY <4>2, StepFailedMoves
      <4>3. CASE Goto(p, r, "fail")
        BY <4>3, GotoMoves
      <4> QED BY <2>1, <4>1, <4>2, <4>3
    <3> QED BY <3>1 DEF OnTheWay
  <2>3. work[p][r].pc # "idle" /\ UNCHANGED <<runs, told, proc, late>>
    BY <1>6 DEF Await, SubmitRefused, DatabaseFails, At
  <2> QED BY <2>2, <2>3, SameRowsKeep DEF Moves
<1>7. CASE SubmitAnswerLost(p, r)
  <2>1. OthersStay(p, r) /\ ~OnTheWay(p, r)'
    BY <1>7, StepFailedMoves DEF SubmitAnswerLost, OnTheWay
  <2>2. /\ work[p][r].pc = "submit" /\ UNCHANGED <<runs, told, proc>>
        /\ late' = [late EXCEPT ![r] = IF Closed(r) THEN @ + 1 ELSE @]
    BY <1>7 DEF SubmitAnswerLost, LoseTask, At
  <2> QED BY <2>1, <2>2, SameRowsKeep DEF Moves
<1>8. CASE Finish(p, r)
  <2>1. PICK outcome \in Final : Finalize(r, outcome)
    BY <1>8 DEF Finish, Final
  <2>2. OthersStay(p, r) /\ ~OnTheWay(p, r)'
    BY <1>8, GotoMoves DEF Finish, OnTheWay
  <2>3. work[p][r].pc # "idle" /\ UNCHANGED <<proc, late>>
    BY <1>8 DEF Finish
  <2> QED BY <2>1, <2>2, <2>3, FinalizeKeeps DEF Moves
<1>9. CASE LoseOutcome(p, r)
  <2>1. OthersStay(p, r) /\ ~OnTheWay(p, r)'
    BY <1>9, GotoMoves DEF LoseOutcome, OnTheWay
  <2>2. work[p][r].pc # "idle" /\ UNCHANGED <<runs, told, proc, late>>
    BY <1>9 DEF LoseOutcome
  <2> QED BY <2>1, <2>2, SameRowsKeep DEF Moves
<1>10. CASE Interrupt(p, r)
  <2>1. RowsKept
    BY <1>10, FinalizeKeeps DEF Interrupt, Final
  <2>2. OthersStay(p, r) /\ ~OnTheWay(p, r)'
    BY <1>10, GotoMoves DEF Interrupt, OnTheWay
  <2>3. work[p][r].pc # "idle" /\ UNCHANGED proc
    BY <1>10 DEF Interrupt
  <2>4. \/ UNCHANGED late
        \/ /\ work[p][r].pc = "submit"
           /\ late' = [late EXCEPT ![r] = IF Closed(r) THEN @ + 1 ELSE @]
    BY <1>10 DEF Interrupt, LoseTask
  <2> QED BY <2>1, <2>2, <2>3, <2>4 DEF Moves
<1> QED BY <1>1, <1>2, <1>3, <1>4, <1>5, <1>6, <1>7, <1>8, <1>9, <1>10 DEF Carry, Stray

-----------------------------------------------------------------------------
(***************************************************************************)
(* The invariant.                                                          *)
(***************************************************************************)
LEMMA InvInit == Init => IInv
<1> SUFFICES ASSUME Init PROVE IInv
  OBVIOUS
<1>1. CarriesItsOwn /\ LateOnceThenNever /\ AnnouncedOnce
  BY DEF Init, CarriesItsOwn, LateOnceThenNever, AnnouncedOnce, Idle, NoRun, Closed, Final
<1> QED BY <1>1, TypeInit DEF IInv

\* What RowsKept does to a row's closing.
\* No outcome is written over.
ClosedStay == \A r \in RunIds : Closed(r) => runs'[r].status = runs[r].status

\* What every step keeps.
Kept == CarriesItsOwn' /\ LateOnceThenNever' /\ AnnouncedOnce' /\ ClosedStay

LEMMA KeptClosed ==
  ASSUME RowsKept, NEW r \in RunIds
  PROVE  /\ Closed(r) => Closed(r)'
         /\ runs[r].status \in {"STARTED"} \union Final => runs'[r].status \in {"STARTED"} \union Final
         /\ AnnouncedOnce => told'[r] = IF Closed(r)' THEN 1 ELSE 0
BY DEF RowsKept, RowKept, Closed, Open, Final, AnnouncedOnce

LEMMA QuietKeeps ==
  ASSUME IInv, Quiet
  PROVE  Kept
<1>1. AnnouncedOnce'
  BY KeptClosed DEF Quiet, IInv, AnnouncedOnce
<1>2. CarriesItsOwn'
  <2> SUFFICES ASSUME NEW p \in Procs, NEW r \in RunIds, work'[p][r].pc # "idle"
               PROVE  /\ proc'[p].phase \in {"run", "stop"}
                      /\ runs'[r].by = Sig(p)'
                      /\ runs'[r].status \in {"STARTED"} \union Final
    BY DEF CarriesItsOwn
  <2>1. /\ proc[p].phase \in {"run", "stop"}
        /\ runs[r].by = Sig(p)
        /\ runs[r].status \in {"STARTED"} \union Final
    BY DEF IInv, CarriesItsOwn, Quiet
  <2>2. proc'[p].phase = proc[p].phase /\ Sig(p)' = Sig(p)
    BY DEF Quiet, ProcessKept, Sig
  <2>3. runs'[r].by = runs[r].by
    BY DEF Quiet, RowsKept, RowKept
  <2> QED BY <2>1, <2>2, <2>3, KeptClosed DEF Quiet
<1>3. LateOnceThenNever'
  BY KeptClosed DEF Quiet, IInv, LateOnceThenNever
<1>4. ClosedStay
  BY DEF Quiet, RowsKept, RowKept, ClosedStay, Closed, Open, Final
<1> QED BY <1>1, <1>2, <1>3, <1>4 DEF Kept

LEMMA MovesKeep ==
  ASSUME IInv, NEW p \in Procs, NEW r \in RunIds, Moves(p, r)
  PROVE  Kept
<1>0. RowsKept /\ UNCHANGED proc /\ work[p][r].pc # "idle" /\ OthersStay(p, r)
  BY DEF Moves
<1>1. AnnouncedOnce'
  BY <1>0, KeptClosed DEF IInv, AnnouncedOnce
<1>2. CarriesItsOwn'
  <2> SUFFICES ASSUME NEW q \in Procs, NEW s \in RunIds, work'[q][s].pc # "idle"
               PROVE  /\ proc'[q].phase \in {"run", "stop"}
                      /\ runs'[s].by = Sig(q)'
                      /\ runs'[s].status \in {"STARTED"} \union Final
    BY DEF CarriesItsOwn
  <2>1. work[q][s].pc # "idle"
    BY <1>0 DEF OthersStay
  <2>2. /\ proc[q].phase \in {"run", "stop"}
        /\ runs[s].by = Sig(q)
        /\ runs[s].status \in {"STARTED"} \union Final
    BY <2>1 DEF IInv, CarriesItsOwn
  <2>3. runs'[s].by = runs[s].by
    BY <1>0 DEF RowsKept, RowKept
  <2> QED BY <1>0, <2>2, <2>3, KeptClosed DEF Sig
<1>3. LateOnceThenNever'
  <2> SUFFICES ASSUME NEW s \in RunIds
               PROVE  /\ late'[s] <= 1
                      /\ late'[s] = 1 => /\ Closed(s)'
                                         /\ \A q \in Procs : ~OnTheWay(q, s)'
    BY DEF LateOnceThenNever, OnTheWay
  <2>0. /\ late[s] \in Nat /\ late[s] <= 1
        /\ late[s] = 1 => Closed(s) /\ \A q \in Procs : ~OnTheWay(q, s)
    BY DEF IInv, TypeOK, LateOnceThenNever, OnTheWay
  <2>1. CASE s # r
    <3>1. late'[s] = late[s]
      BY <2>1 DEF Moves, IInv, TypeOK
    <3>2. \A q \in Procs : work'[q][s].pc = work[q][s].pc
      BY <1>0, <2>1 DEF OthersStay
    <3> QED BY <1>0, <2>0, <3>1, <3>2, KeptClosed DEF OnTheWay
  <2>2. CASE s = r /\ UNCHANGED late
    <3>1. ASSUME late[r] = 1, NEW q \in Procs
          PROVE  ~OnTheWay(q, r)'
      <4>1. CASE q = p
        <5>1. ~OnTheWay(p, r) /\ runs[r].status # "STARTED"
          BY <2>0, <2>2, <3>1 DEF Closed, Final
        <5>2. work[p][r].pc # "submit"
          BY <5>1 DEF OnTheWay
        <5> QED BY <4>1, <5>1, <5>2 DEF Moves
      <4>2. CASE q # p
        BY <1>0, <2>0, <2>2, <3>1, <4>2 DEF OthersStay, OnTheWay
      <4> QED BY <4>1, <4>2
    <3> QED BY <1>0, <2>0, <2>2, <3>1, KeptClosed
  <2>3. CASE /\ s = r
             /\ work[p][r].pc = "submit" /\ ~OnTheWay(p, r)'
             /\ late' = [late EXCEPT ![r] = IF Closed(r) THEN @ + 1 ELSE @]
    <3>1. late[r] = 0
      BY <2>0, <2>3 DEF OnTheWay
    <3>2. late'[r] = IF Closed(r) THEN 1 ELSE 0
      BY <2>3, <3>1 DEF IInv, TypeOK
    <3>3. ASSUME NEW q \in Procs
          PROVE  ~OnTheWay(q, r)'
      <4>1. CASE q = p
        BY <2>3, <4>1
      <4>2. CASE q # p
        <5>1. work'[q][r].pc = work[q][r].pc
          BY <1>0, <4>2 DEF OthersStay
        <5>2. work[q][r].pc = "idle"
          BY <1>0, <4>2 DEF IInv, CarriesItsOwn, Sig
        <5> QED BY <5>1, <5>2 DEF OnTheWay
      <4> QED BY <4>1, <4>2
    <3> QED BY <1>0, <2>3, <3>2, <3>3, KeptClosed
  <2> QED BY <2>1, <2>2, <2>3 DEF Moves
<1>4. ClosedStay
  BY <1>0 DEF RowsKept, RowKept, ClosedStay, Closed, Open, Final
<1> QED BY <1>1, <1>2, <1>3, <1>4 DEF Kept

\* A row nobody carries yet changes: it appears, or leaves the queue.
LEMMA UnsignedKeeps ==
  ASSUME IInv, NEW r \in RunIds, runs[r].status \in {"none", "PENDING"},
         runs'[r].status \in {"PENDING", "DELETED"},
         \A q \in RunIds : q # r => runs'[q] = runs[q],
         UNCHANGED <<told, proc, work, late>>
  PROVE  Kept
<1>1. AnnouncedOnce'
  BY DEF IInv, AnnouncedOnce, Closed, Final
<1>2. CarriesItsOwn'
  BY DEF IInv, CarriesItsOwn, Sig, Final
<1>3. LateOnceThenNever'
  BY DEF IInv, LateOnceThenNever, Closed, Final
<1>4. ClosedStay
  BY DEF ClosedStay, Closed, Final
<1> QED BY <1>1, <1>2, <1>3, <1>4 DEF Kept

\* A process signs a row nobody carries, and perhaps begins to carry it.
LEMMA SignKeeps ==
  ASSUME IInv, NEW r \in RunIds, runs[r].status \in {"none", "PENDING"},
         NEW p \in Procs, NEW f, NEW t, Sign(r, p, f, t),
         \/ UNCHANGED work
         \/ proc[p].phase = "run" /\ \E label \in {"taken", "load"} : Goto(p, r, label),
         UNCHANGED <<told, proc, late>>
  PROVE  Kept
<1>0. \A q \in RunIds : /\ q # r => runs'[q] = runs[q]
                        /\ runs'[r].status = "STARTED" /\ runs'[r].by = Sig(p)
  BY DEF IInv, TypeOK, Sign
<1>1. \A q \in Procs : work[q][r].pc = "idle"
  BY DEF IInv, CarriesItsOwn, Final
<1>2. late[r] # 1
  BY DEF IInv, LateOnceThenNever, Closed, Final
<1>3. /\ OthersStay(p, r)
      /\ work'[p][r].pc \in {work[p][r].pc, "taken", "load"}
  <2>1. CASE UNCHANGED work
    BY <2>1 DEF OthersStay
  <2>2. ASSUME NEW label \in {"taken", "load"}, Goto(p, r, label)
        PROVE  OthersStay(p, r) /\ work'[p][r].pc = label
    BY <2>2, GotoMoves DEF IInv
  <2> QED BY <2>1, <2>2
<1>4. AnnouncedOnce'
  BY <1>0 DEF IInv, AnnouncedOnce, Closed, Final
<1>5. CarriesItsOwn'
  <2> SUFFICES ASSUME NEW q \in Procs, NEW s \in RunIds, work'[q][s].pc # "idle"
               PROVE  /\ proc'[q].phase \in {"run", "stop"}
                      /\ runs'[s].by = Sig(q)'
                      /\ runs'[s].status \in {"STARTED"} \union Final
    BY DEF CarriesItsOwn
  <2>1. CASE s = r
    <3>1. q = p
      BY <1>1, <1>3, <2>1 DEF OthersStay
    <3>2. proc[p].phase = "run"
      BY <1>1, <2>1
    <3> QED BY <1>0, <2>1, <3>1, <3>2 DEF Sig
  <2>2. CASE s # r
    BY <1>0, <1>3, <2>2 DEF OthersStay, Sig, IInv, CarriesItsOwn
  <2> QED BY <2>1, <2>2
<1>6. LateOnceThenNever'
  BY <1>0, <1>1, <1>2, <1>3 DEF OthersStay, IInv, LateOnceThenNever, Closed, Final
<1>7. ClosedStay
  BY <1>0 DEF ClosedStay, Closed, Final
<1> QED BY <1>4, <1>5, <1>6, <1>7 DEF Kept

\* The rows are kept, a process begins, stops or ends: it carries nothing before
\* it begins and once it has ended.
LEMMA LifeKeeps ==
  ASSUME IInv, RowsKept, NEW p \in Procs, UNCHANGED late,
         \A q \in Procs : q # p => ProcessKept(q),
         \A q \in Procs, s \in RunIds : q # p => work'[q][s].pc = work[q][s].pc,
         \/ ProcessKept(p)
         \/ proc[p].phase = "run" /\ proc'[p].phase = "stop" /\ proc'[p].start = proc[p].start
         \/ \A s \in RunIds : work'[p][s].pc = "idle",
         \A s \in RunIds : \/ work'[p][s].pc \in {work[p][s].pc, "idle"}
                           \/ work[p][s].pc = "taken" /\ work'[p][s].pc = "load"
  PROVE  Kept
<1>1. AnnouncedOnce'
  BY KeptClosed DEF IInv, AnnouncedOnce
<1>2. CarriesItsOwn'
  <2> SUFFICES ASSUME NEW q \in Procs, NEW s \in RunIds, work'[q][s].pc # "idle"
               PROVE  /\ proc'[q].phase \in {"run", "stop"}
                      /\ runs'[s].by = Sig(q)'
                      /\ runs'[s].status \in {"STARTED"} \union Final
    BY DEF CarriesItsOwn
  <2>1. work[q][s].pc # "idle"
    OBVIOUS
  <2>2. /\ proc[q].phase \in {"run", "stop"}
        /\ runs[s].by = Sig(q)
        /\ runs[s].status \in {"STARTED"} \union Final
    BY <2>1 DEF IInv, CarriesItsOwn
  <2>3. proc'[q].start = proc[q].start /\ proc'[q].phase \in {"run", "stop"}
    BY <2>2 DEF ProcessKept
  <2>4. runs'[s].by = runs[s].by
    BY DEF RowsKept, RowKept
  <2> QED BY <2>2, <2>3, <2>4, KeptClosed DEF Sig
<1>3. LateOnceThenNever'
  <2>1. \A q \in Procs, s \in RunIds : OnTheWay(q, s)' => OnTheWay(q, s)
    BY DEF OnTheWay
  <2> QED BY <2>1, KeptClosed DEF IInv, LateOnceThenNever, OnTheWay
<1>4. ClosedStay
  BY DEF RowsKept, RowKept, ClosedStay, Closed, Open, Final
<1> QED BY <1>1, <1>2, <1>3, <1>4 DEF Kept

\* The steps of the queue and of the life of a process, one by one.
LEMMA OtherStepsKeep ==
  ASSUME IInv,
         \/ \E f \in Flows : RunNow(f) \/ FireSchedule(f)
         \/ \E p \in Procs : \/ ClaimNext(p) \/ ClaimAnswerLost(p) \/ SkipSlot(p) \/ StartTaken(p)
                             \/ SkipFails(p) \/ ClaimUnattended(p)
                             \/ Start(p) \/ CloseEarlier(p) \/ Stop(p) \/ Leave(p) \/ Crash(p)
                             \/ \E f \in Flows : TakeChildSlot(p, f)
  PROVE  Kept
<1>0. /\ TypeOK
      /\ \A p \in Procs : proc[p] \in Process /\ loop[p] \in LoopState
      /\ \A p \in Procs : proc[p].phase \in {"down", "boot"} => \A r \in RunIds : work[p][r].pc = "idle"
  BY DEF IInv, TypeOK, CarriesItsOwn
<1>1. ASSUME NEW f \in Flows, RunNow(f) \/ FireSchedule(f)
      PROVE  Kept
  <2>1. PICK t : Enqueue(f, t)
    BY <1>1 DEF RunNow, FireSchedule
  <2> DEFINE queued == [NoRun EXCEPT !.status = "PENDING", !.flow = f, !.trigger = t]
  <2>2. PICK r \in RunIds : NextId(r) /\ runs' = [runs EXCEPT ![r] = queued]
    BY <2>1 DEF Enqueue
  <2>3. queued.status \in {"PENDING", "DELETED"}
    BY DEF NoRun
  <2>4. runs[r].status \in {"none", "PENDING"}
    BY <2>2 DEF NextId
  <2>5. UNCHANGED <<told, proc, work, late>>
    BY <2>1 DEF Enqueue
  <2> HIDE DEF queued
  <2>6. runs'[r] = queued /\ \A q \in RunIds : q # r => runs'[q] = runs[q]
    BY <1>0, <2>2 DEF TypeOK
  <2> QED BY <2>3, <2>4, <2>5, <2>6, UnsignedKeeps
<1>2. ASSUME NEW p \in Procs, ClaimNext(p)
      PROVE  Kept
  <2>0. UNCHANGED <<told, proc, late>> /\ proc[p].phase = "run"
    BY <1>2 DEF ClaimNext, ClaimGoesOn
  <2>1. PICK r \in Earliest(loop[p].cands) :
            \/ /\ Claimable(r) /\ Sign(r, p, runs[r].flow, runs[r].trigger) /\ Goto(p, r, "taken")
            \/ UNCHANGED <<runs, work>>
    BY <1>2 DEF ClaimNext
  <2>2. r \in RunIds
    BY <1>0 DEF Earliest, LoopState
  <2>3. CASE UNCHANGED <<runs, work>>
    <3>1. Quiet
      BY <2>0, <2>3, SameRowsKeep DEF Quiet, ProcessKept
    <3> QED BY <3>1, QuietKeeps
  <2>4. CASE Claimable(r) /\ Sign(r, p, runs[r].flow, runs[r].trigger) /\ Goto(p, r, "taken")
    <3>1. runs[r].status \in {"none", "PENDING"}
      BY <2>4 DEF Claimable
    <3> QED BY <2>0, <2>2, <2>4, <3>1, SignKeeps
  <2> QED BY <2>1, <2>3, <2>4
<1>3. ASSUME NEW p \in Procs, ClaimAnswerLost(p)
      PROVE  Kept
  <2>0. UNCHANGED <<told, proc, work, late>> /\ proc[p].phase = "run"
    BY <1>3 DEF ClaimAnswerLost, ClaimGoesOn
  <2>1. PICK r \in Earliest(loop[p].cands) :
            Claimable(r) /\ Sign(r, p, runs[r].flow, runs[r].trigger)
    BY <1>3 DEF ClaimAnswerLost
  <2>2. r \in RunIds /\ runs[r].status \in {"none", "PENDING"}
    BY <1>0, <2>1 DEF Earliest, LoopState, Claimable
  <2> QED BY <2>0, <2>1, <2>2, SignKeeps
<1>4. ASSUME NEW p \in Procs, SkipSlot(p)
      PROVE  Kept
  <2>0. UNCHANGED <<told, proc, work, late>>
    BY <1>4 DEF SkipSlot
  <2>1. PICK r \in loop[p].skip :
           runs' = [runs EXCEPT ![r].status = IF @ = "PENDING" THEN "DELETED" ELSE @]
    BY <1>4 DEF SkipSlot
  <2>2. r \in RunIds
    BY <1>0 DEF LoopState
  <2>3. runs[r] \in Run
    BY <1>0, <2>2 DEF TypeOK
  <2>4. CASE runs[r].status = "PENDING"
    <3> DEFINE skipped == [runs[r] EXCEPT !.status = "DELETED"]
    <3>1. runs' = [runs EXCEPT ![r] = skipped]
      BY <2>1, <2>4
    <3>2. skipped.status \in {"PENDING", "DELETED"}
      BY <2>3 DEF Run
    <3>3. runs[r].status \in {"none", "PENDING"}
      BY <2>4
    <3> HIDE DEF skipped
    <3>4. runs'[r] = skipped /\ \A q \in RunIds : q # r => runs'[q] = runs[q]
      BY <1>0, <2>2, <3>1 DEF TypeOK
    <3> QED BY <2>0, <2>2, <3>2, <3>3, <3>4, UnsignedKeeps
  <2>5. CASE runs[r].status # "PENDING"
    <3>1. [runs[r] EXCEPT !.status = runs[r].status] = runs[r]
      BY <2>3 DEF Run
    <3>2. runs' = [runs EXCEPT ![r] = [runs[r] EXCEPT !.status = runs[r].status]]
      BY <2>1, <2>5
    <3>3. UNCHANGED runs
      BY <1>0, <3>1, <3>2 DEF TypeOK
    <3>4. Quiet
      BY <2>0, <3>3, SameRowsKeep DEF Quiet, ProcessKept
    <3> QED BY <3>4, QuietKeeps
  <2> QED BY <2>4, <2>5
<1>5. ASSUME NEW p \in Procs, StartTaken(p)
      PROVE  Kept
  <2>1. [Idle EXCEPT !.pc = "load"].pc = "load"
    BY DEF Idle
  <2>2. \A r \in RunIds : work'[p][r] = IF work[p][r].pc = "taken" THEN [Idle EXCEPT !.pc = "load"]
                                        ELSE work[p][r]
    BY <1>0, <1>5 DEF StartTaken, Taken, TypeOK
  <2>3. \A q \in Procs, s \in RunIds : q # p => work'[q][s].pc = work[q][s].pc
    BY <1>0, <1>5, ZenonT(60) DEF StartTaken, TypeOK
  <2>4. UNCHANGED <<runs, told, proc, late>>
    BY <1>5 DEF StartTaken
  <2> QED BY <2>1, <2>2, <2>3, <2>4, SameRowsKeep, LifeKeeps, ZenonT(60) DEF ProcessKept
<1>6. ASSUME NEW p \in Procs, NEW f \in Flows, TakeChildSlot(p, f)
      PROVE  Kept
  <2>1. PICK r \in RunIds : NextId(r) /\ Sign(r, p, f, "cell") /\ Goto(p, r, "load")
    BY <1>6 DEF TakeChildSlot
  <2>2. runs[r].status \in {"none", "PENDING"}
    BY <2>1 DEF NextId
  <2>3. UNCHANGED <<told, proc, late>> /\ proc[p].phase = "run"
    BY <1>6 DEF TakeChildSlot
  <2> QED BY <2>1, <2>2, <2>3, SignKeeps
<1>7. ASSUME NEW p \in Procs, Start(p) \/ CloseEarlier(p)
      PROVE  Kept
  <2>1. UNCHANGED <<work, late>> /\ \A r \in RunIds : work[p][r].pc = "idle"
    BY <1>0, <1>7 DEF Start, CloseEarlier
  <2>2. \A q \in Procs : q # p => ProcessKept(q)
    BY <1>0, <1>7 DEF Start, CloseEarlier, ProcessKept, TypeOK
  <2>3. RowsKept
    <3>1. CASE Start(p)
      BY <3>1, SameRowsKeep DEF Start
    <3>2. CASE CloseEarlier(p)
      BY <1>0, <3>2, CloseKeeps DEF CloseEarlier, Open, Final
    <3> QED BY <1>7, <3>1, <3>2
  <2> QED BY <2>1, <2>2, <2>3, LifeKeeps
<1>8. ASSUME NEW p \in Procs, Stop(p)
      PROVE  Kept
  <2>1. proc' = [proc EXCEPT ![p] = [proc[p] EXCEPT !.phase = "stop", !.beats = FALSE]]
    BY <1>0, <1>8 DEF Stop, TypeOK
  <2>2. \A x \in Process : /\ [x EXCEPT !.phase = "stop", !.beats = FALSE].phase = "stop"
                           /\ [x EXCEPT !.phase = "stop", !.beats = FALSE].start = x.start
    BY DEF Process
  <2>3. proc'[p].phase = "stop" /\ proc'[p].start = proc[p].start
    BY <1>0, <2>1, <2>2 DEF TypeOK
  <2>4. \A q \in Procs : q # p => ProcessKept(q)
    BY <1>0, <2>1 DEF ProcessKept, TypeOK
  <2>5. proc[p].phase = "run" /\ UNCHANGED <<runs, told, late>>
    BY <1>8 DEF Stop
  <2>6. \A q \in Procs, r \in RunIds : work'[q][r].pc \in {work[q][r].pc, "idle"}
                                      /\ (q # p => work'[q][r].pc = work[q][r].pc)
    BY <1>0, <1>8, LetGoLeaves DEF Stop
  <2> QED BY <2>3, <2>4, <2>5, <2>6, SameRowsKeep, LifeKeeps
<1>9. ASSUME NEW p \in Procs, Leave(p)
      PROVE  Kept
  <2>1. UNCHANGED <<work, late>> /\ \A r \in RunIds : work[p][r].pc = "idle"
    BY <1>9 DEF Leave
  <2>2. \A q \in Procs : q # p => ProcessKept(q)
    BY <1>0, <1>9 DEF Leave, ProcessKept, TypeOK
  <2>3. RowsKept
    BY <1>0, <1>9, CloseKeeps DEF Leave, Open, Final
  <2> QED BY <2>1, <2>2, <2>3, LifeKeeps
<1>10. ASSUME NEW p \in Procs, Crash(p)
       PROVE  Kept
  <2>1. \A q \in Procs, s \in RunIds : work'[q][s] = IF q = p THEN Idle ELSE work[q][s]
    BY <1>0, <1>10 DEF Crash, TypeOK
  <2>2. \A q \in Procs : q # p => ProcessKept(q)
    BY <1>0, <1>10 DEF Crash, ProcessKept, TypeOK
  <2>3. UNCHANGED <<runs, told, late>>
    BY <1>10 DEF Crash
  <2>4. Idle.pc = "idle"
    BY DEF Idle
  <2> QED BY <2>1, <2>2, <2>3, <2>4, SameRowsKeep, LifeKeeps
<1>11. ASSUME NEW p \in Procs, SkipFails(p)
       PROVE  Kept
  <2>1. UNCHANGED <<runs, told, proc, late>>
    BY <1>11 DEF SkipFails
  <2>2. \A q \in Procs, r \in RunIds : work'[q][r].pc \in {work[q][r].pc, "idle"}
                                      /\ (q # p => work'[q][r].pc = work[q][r].pc)
    BY <1>0, <1>11, LetGoLeaves DEF SkipFails
  <2> QED BY <2>1, <2>2, SameRowsKeep, LifeKeeps DEF ProcessKept
<1>12. ASSUME NEW p \in Procs, ClaimUnattended(p)
       PROVE  Kept
  <2>0. UNCHANGED <<told, proc, work, late>>
    BY <1>12 DEF ClaimUnattended
  <2>1. PICK r \in Earliest(loop[p].cands) :
          \/ Claimable(r) /\ Sign(r, p, runs[r].flow, runs[r].trigger)
          \/ Claimable(r) /\ runs' = [runs EXCEPT ![r].status = "DELETED"]
          \/ runs' = [runs EXCEPT ![r].status = @]
    BY <1>12 DEF ClaimUnattended
  <2>2. r \in RunIds
    BY <1>0 DEF Earliest, LoopState
  <2>3. runs[r] \in Run
    BY <1>0, <2>2 DEF TypeOK
  <2>4. CASE Claimable(r) /\ Sign(r, p, runs[r].flow, runs[r].trigger)
    <3>1. runs[r].status \in {"none", "PENDING"}
      BY <2>4 DEF Claimable
    <3> QED BY <2>0, <2>2, <2>4, <3>1, SignKeeps
  <2>5. CASE Claimable(r) /\ runs' = [runs EXCEPT ![r].status = "DELETED"]
    <3> DEFINE skipped == [runs[r] EXCEPT !.status = "DELETED"]
    <3>1. runs' = [runs EXCEPT ![r] = skipped]
      BY <1>0, <2>2, <2>5 DEF TypeOK
    <3>2. skipped.status \in {"PENDING", "DELETED"}
      BY <2>3 DEF Run
    <3>3. runs[r].status \in {"none", "PENDING"}
      BY <2>5 DEF Claimable
    <3> HIDE DEF skipped
    <3>4. runs'[r] = skipped /\ \A q \in RunIds : q # r => runs'[q] = runs[q]
      BY <1>0, <2>2, <3>1 DEF TypeOK
    <3> QED BY <2>0, <2>2, <3>2, <3>3, <3>4, UnsignedKeeps
  <2>6. CASE runs' = [runs EXCEPT ![r].status = @]
    <3>1. [runs[r] EXCEPT !.status = runs[r].status] = runs[r]
      BY <2>3 DEF Run
    <3>2. runs' = [runs EXCEPT ![r] = [runs[r] EXCEPT !.status = runs[r].status]]
      BY <1>0, <2>2, <2>6 DEF TypeOK
    <3>3. UNCHANGED runs
      BY <1>0, <3>1, <3>2 DEF TypeOK
    <3>4. Quiet
      BY <2>0, <3>3, SameRowsKeep DEF Quiet, ProcessKept
    <3> QED BY <3>4, QuietKeeps
  <2> QED BY <2>1, <2>4, <2>5, <2>6
<1> QED BY <1>1, <1>2, <1>3, <1>4, <1>5, <1>6, <1>7, <1>8, <1>9, <1>10, <1>11, <1>12

-----------------------------------------------------------------------------
(***************************************************************************)
(* The theorems.                                                           *)
(***************************************************************************)
\* Every step is of one of the kinds.
LEMMA StepKinds ==
  ASSUME TypeOK, Next
  PROVE  \/ Quiet
         \/ \E p \in Procs, r \in RunIds : Moves(p, r)
         \/ \E f \in Flows : RunNow(f) \/ FireSchedule(f)
         \/ \E p \in Procs : \/ ClaimNext(p) \/ ClaimAnswerLost(p) \/ SkipSlot(p) \/ StartTaken(p)
                             \/ SkipFails(p) \/ ClaimUnattended(p)
                             \/ Start(p) \/ CloseEarlier(p) \/ Stop(p) \/ Leave(p) \/ Crash(p)
                             \/ \E f \in Flows : TakeChildSlot(p, f)
<1>1. CASE \E p \in Procs, r \in RunIds : Carry(p, r) \/ Stray(p, r)
  BY <1>1, MovingSteps
<1>2. CASE \/ \E p \in Procs : \/ ReadQueue(p) \/ Refuse(p) \/ ReadSteps(p) \/ StopStep(p)
                              \/ Drain(p) \/ Freeze(p) \/ Thaw(p) \/ Beat(p) \/ TurnHealthy(p)
                              \/ \E r \in RunIds : CloseOrphan(p, r) \/ SweepQueued(p, r)
           \/ \E r \in RunIds : \/ Silent(r) \/ CloseQueued(r)
                               \/ \E n \in Steps : Engine(r, n)
           \/ Outage
  BY <1>2, QuietSteps
<1> QED BY <1>1, <1>2 DEF Next, Loop, Life

LEMMA StepKeeps ==
  ASSUME IInv, [Next]_vars
  PROVE  Kept
<1>1. CASE UNCHANGED vars
  <2>1. Quiet
    BY <1>1, SameRowsKeep DEF vars, Quiet, ProcessKept
  <2> QED BY <2>1, QuietKeeps
<1>2. CASE Next
  BY <1>2, StepKinds, QuietKeeps, MovesKeep, OtherStepsKeep DEF IInv
<1> QED BY <1>1, <1>2

(***************************************************************************)
(* The invariant is inductive.                                             *)
(***************************************************************************)
THEOREM Invariance == Spec => []IInv
<1>1. IInv /\ [Next]_vars => IInv'
  BY StepKeeps, TypeStep DEF IInv, Kept
<1> QED BY <1>1, InvInit, PTL DEF Spec

(***************************************************************************)
(* A run is carried only by the process, and the incarnation of it, that   *)
(* signed it.                                                              *)
(***************************************************************************)
THEOREM OneCarrier == Spec => []CarriedByItsSigner
<1>1. IInv => CarriedByItsSigner
  BY DEF IInv, CarriesItsOwn, CarriedByItsSigner
<1> QED BY <1>1, Invariance, PTL

(***************************************************************************)
(* A process whose run another closed launches one step at most.           *)
(***************************************************************************)
THEOREM LateOnce == Spec => []AtMostOneLateStep
<1>1. IInv => AtMostOneLateStep
  BY DEF IInv, LateOnceThenNever, AtMostOneLateStep
<1> QED BY <1>1, Invariance, PTL

(***************************************************************************)
(* Every closing is announced exactly once.                                *)
(***************************************************************************)
THEOREM Announced == Spec => []AnnouncedOnce
<1>1. IInv => AnnouncedOnce
  BY DEF IInv
<1> QED BY <1>1, Invariance, PTL

(***************************************************************************)
(* An outcome once written is never written over.                          *)
(***************************************************************************)
THEOREM FinalOnce == Spec => ClosingIsFinal
<1>1. IInv /\ [Next]_vars => [ClosedStay]_vars
  BY StepKeeps DEF Kept
<1>2. IInv /\ [Next]_vars =>
          [\A r \in RunIds : Closed(r) => runs'[r].status = runs[r].status]_vars
  BY <1>1 DEF ClosedStay
<1> QED BY <1>2, Invariance, PTL DEF Spec, ClosingIsFinal

-----------------------------------------------------------------------------
(***************************************************************************)
(* The queue implements FlowRuns.  Rows that are kept stutter or fail      *)
(* together, but for the one whose coroutine ends well; the other steps    *)
(* change one row that has not begun.                                      *)
(***************************************************************************)
\* No row succeeds, and none that has begun goes back to the queue.
RowAges(r) ==
    /\ runs'[r].status = "SUCCESS" => runs[r].status = "SUCCESS"
    /\ runs'[r].status \in {"none", "PENDING"} => runs[r].status \in {"none", "PENDING"}

RowsAge == \A r \in RunIds : RowAges(r)

EndsWell(p, r) == Finish(p, r) /\ work[p][r].pc = "end" /\ ~work[p][r].errs

LEMMA CloseAges ==
  ASSUME TypeOK, NEW S, Close(S, "FAILURE")
  PROVE  RowsAge
<1> SUFFICES ASSUME NEW r \in RunIds
             PROVE  RowAges(r)
  BY DEF RowsAge
<1>1. runs[r] \in Run /\ runs'[r] = IF r \in S THEN [runs[r] EXCEPT !.status = "FAILURE"] ELSE runs[r]
  BY DEF TypeOK, Close
<1>2. [runs[r] EXCEPT !.status = "FAILURE"].status = "FAILURE"
  BY <1>1 DEF Run
<1> QED BY <1>1, <1>2 DEF RowAges

LEMMA BeatAges ==
  ASSUME TypeOK, NEW S, NEW b,
         runs' = [r \in RunIds |-> IF r \in S THEN [runs[r] EXCEPT !.beat = b] ELSE runs[r]]
  PROVE  RowsAge
<1> SUFFICES ASSUME NEW r \in RunIds
             PROVE  runs'[r].status = runs[r].status
  BY DEF RowsAge, RowAges
<1>1. runs[r] \in Run
  BY DEF TypeOK
<1>2. [runs[r] EXCEPT !.beat = b].status = runs[r].status
  BY <1>1 DEF Run
<1> QED BY <1>2

LEMMA SameRowsAge ==
  ASSUME UNCHANGED runs
  PROVE  RowsAge
BY DEF RowsAge, RowAges

\* A row appears, is signed, or is skipped.
LEMMA AskAges ==
  ASSUME TypeOK, NEW r \in RunIds, NextId(r), NEW row, row.status = "PENDING",
         runs' = [runs EXCEPT ![r] = row]
  PROVE  RowsAge
BY DEF RowsAge, RowAges, TypeOK, NextId

LEMMA SignAges ==
  ASSUME TypeOK, NEW r \in RunIds, NEW p, NEW f, NEW t, Sign(r, p, f, t)
  PROVE  RowsAge
BY DEF RowsAge, RowAges, Sign, TypeOK

LEMMA SkipAges ==
  ASSUME TypeOK, NEW r \in RunIds, NEW s \in {"DELETED", runs[r].status},
         runs' = [runs EXCEPT ![r].status = s]
  PROVE  RowsAge
<1>1. [runs[r] EXCEPT !.status = s].status = s
  BY DEF TypeOK, Run
<1>2. \A q \in RunIds : runs'[q] = IF q = r THEN [runs[r] EXCEPT !.status = s] ELSE runs[q]
  BY DEF TypeOK
<1> QED BY <1>1, <1>2 DEF RowsAge, RowAges

\* A run succeeds only when its own coroutine ends without an error.
LEMMA SuccessByItsOwn ==
  ASSUME TypeOK, Next
  PROVE  RowsAge \/ \E p \in Procs, r \in RunIds : EndsWell(p, r)
<1>0. \A p \in Procs : loop[p] \in LoopState
  BY DEF TypeOK
<1>1. CASE \E f \in Flows : RunNow(f) \/ FireSchedule(f)
  <2>0. PICK f \in Flows, t \in {"manual", "schedule"} : Enqueue(f, t)
    BY <1>1 DEF RunNow, FireSchedule
  <2>1. PICK r \in RunIds : /\ NextId(r)
                            /\ runs' = [runs EXCEPT ![r] = [NoRun EXCEPT !.status = "PENDING",
                                                                     !.flow = f, !.trigger = t]]
    BY <2>0 DEF Enqueue
  <2>2. [NoRun EXCEPT !.status = "PENDING", !.flow = f, !.trigger = t].status = "PENDING"
    BY DEF NoRun
  <2> QED BY <2>1, <2>2, AskAges
<1>2. ASSUME NEW p \in Procs, Loop(p)
      PROVE  RowsAge
  <2>1. CASE ReadQueue(p) \/ StartTaken(p) \/ ReadSteps(p) \/ StopStep(p)
    BY <2>1, SameRowsAge DEF ReadQueue, StartTaken, ReadSteps, StopStep
  <2>2. CASE ClaimNext(p)
    <3>1. PICK r \in Earliest(loop[p].cands) :
              Sign(r, p, runs[r].flow, runs[r].trigger) \/ UNCHANGED runs
      BY <2>2 DEF ClaimNext
    <3>2. r \in RunIds
      BY <1>0 DEF Earliest, LoopState
    <3> QED BY <3>1, <3>2, SignAges, SameRowsAge
  <2>3. CASE SkipSlot(p)
    <3>1. PICK r \in loop[p].skip :
              runs' = [runs EXCEPT ![r].status = IF @ = "PENDING" THEN "DELETED" ELSE @]
      BY <2>3 DEF SkipSlot
    <3>2. r \in RunIds
      BY <1>0 DEF LoopState
    <3>3. PICK s \in {"DELETED", runs[r].status} : runs' = [runs EXCEPT ![r].status = s]
      <4>1. runs' = [runs EXCEPT ![r].status = IF runs[r].status = "PENDING" THEN "DELETED" ELSE runs[r].status]
        BY <3>1, <3>2 DEF TypeOK
      <4> QED BY <4>1
    <3> QED BY <3>2, <3>3, SkipAges
  <2>4. CASE Refuse(p)
    BY <2>4, CloseAges DEF Refuse
  <2>5. CASE ClaimUnattended(p)
    <3>1. PICK r \in Earliest(loop[p].cands) :
            \/ Sign(r, p, runs[r].flow, runs[r].trigger)
            \/ runs' = [runs EXCEPT ![r].status = "DELETED"]
            \/ runs' = [runs EXCEPT ![r].status = @]
      BY <2>5 DEF ClaimUnattended
    <3>2. r \in RunIds
      BY <1>0 DEF Earliest, LoopState
    <3>3. CASE Sign(r, p, runs[r].flow, runs[r].trigger)
      BY <3>2, <3>3, SignAges
    <3>4. CASE \/ runs' = [runs EXCEPT ![r].status = "DELETED"]
               \/ runs' = [runs EXCEPT ![r].status = @]
      <4>1. PICK s \in {"DELETED", runs[r].status} : runs' = [runs EXCEPT ![r].status = s]
        BY <3>2, <3>4 DEF TypeOK
      <4> QED BY <3>2, <4>1, SkipAges
    <3> QED BY <3>1, <3>3, <3>4
  <2> QED BY <1>2, <2>1, <2>2, <2>3, <2>4, <2>5 DEF Loop
<1>3. ASSUME NEW p \in Procs, ClaimAnswerLost(p)
      PROVE  RowsAge
  <2>1. PICK r \in Earliest(loop[p].cands) : Sign(r, p, runs[r].flow, runs[r].trigger)
    BY <1>3 DEF ClaimAnswerLost
  <2>2. r \in RunIds
    BY <1>0 DEF Earliest, LoopState
  <2> QED BY <2>1, <2>2, SignAges
<1>4. ASSUME NEW p \in Procs, NEW f \in Flows, TakeChildSlot(p, f)
      PROVE  RowsAge
  BY <1>4, SignAges DEF TakeChildSlot
<1>5. ASSUME NEW p \in Procs, Life(p)
      PROVE  RowsAge
  <2>1. CASE CloseEarlier(p) \/ Leave(p)
    BY <2>1, CloseAges DEF CloseEarlier, Leave
  <2>2. CASE Beat(p)
    <3> DEFINE silent == {r \in Alive(p) : /\ runs[r].status = "STARTED" /\ runs[r].by = Sig(p)
                                           /\ runs[r].beat = "old"}
    <3>1. runs' = [r \in RunIds |->
                     IF r \in silent THEN [runs[r] EXCEPT !.beat = "fresh"] ELSE runs[r]]
      BY <2>2 DEF Beat
    <3> HIDE DEF silent
    <3> QED BY <3>1, BeatAges
  <2>3. CASE Start(p) \/ Drain(p) \/ Stop(p) \/ Crash(p) \/ Freeze(p) \/ Thaw(p) \/ TurnHealthy(p)
    BY <2>3, SameRowsAge DEF Start, Drain, Stop, Crash, Freeze, Thaw, TurnHealthy
  <2> QED BY <1>5, <2>1, <2>2, <2>3 DEF Life
<1>6. ASSUME NEW p \in Procs, NEW r \in RunIds, Carry(p, r) \/ Stray(p, r), ~EndsWell(p, r)
      PROVE  RowsAge
  <2>1. CASE Finish(p, r)
    <3>1. Finalize(r, "FAILURE")
      BY <1>6, <2>1 DEF Finish, EndsWell
    <3> QED BY <3>1, CloseAges DEF Finalize
  <2>2. CASE Interrupt(p, r)
    BY <2>2, CloseAges DEF Interrupt, Finalize
  <2>3. CASE \/ Load(p, r) \/ Check(p, r) \/ Place(p, r) \/ Submit(p, r) \/ Record(p, r)
             \/ Await(p, r) \/ StepsStopped(p, r) \/ Stray(p, r)
    BY <2>3, SameRowsAge DEF Load, Check, Place, Submit, Record, Await, StepsStopped, Stray,
                             SubmitRefused, SubmitAnswerLost, GiveUpWaiting, DatabaseFails,
                             LoseOutcome
  <2> QED BY <1>6, <2>1, <2>2, <2>3 DEF Carry
<1>7. ASSUME NEW p \in Procs, NEW r \in RunIds, CloseOrphan(p, r) \/ SweepQueued(p, r)
      PROVE  RowsAge
  BY <1>7, CloseAges DEF CloseOrphan, SweepQueued, CloseQueued
<1>8. ASSUME NEW r \in RunIds, CloseQueued(r) \/ \E n \in Steps : Engine(r, n)
      PROVE  RowsAge
  BY <1>8, CloseAges, SameRowsAge DEF CloseQueued, Engine, TaskEnds, Reconcile, StaleRun,
                                      NeverQueued
<1>9. ASSUME NEW r \in RunIds, Silent(r)
      PROVE  RowsAge
  <2>1. runs' = [q \in RunIds |->
                   IF q \in {r} THEN [runs[q] EXCEPT !.beat = "old"] ELSE runs[q]]
    BY <1>9 DEF Silent, TypeOK
  <2> QED BY <2>1, BeatAges
<1>10. ASSUME Outage
       PROVE  RowsAge
  <2> DEFINE S == {r \in RunIds : runs[r].status = "STARTED"}
  <2>1. runs' = [r \in RunIds |-> IF r \in S THEN [runs[r] EXCEPT !.beat = "old"] ELSE runs[r]]
    BY <1>10 DEF Outage
  <2> HIDE DEF S
  <2> QED BY <2>1, BeatAges
<1>11. ASSUME NEW p \in Procs, SkipFails(p)
       PROVE  RowsAge
  BY <1>11, SameRowsAge DEF SkipFails
<1> QED BY <1>1, <1>2, <1>3, <1>4, <1>5, <1>6, <1>7, <1>8, <1>9, <1>10, <1>11 DEF Next


\* The refinement mapping, row by row.
Lives   == [r \in RunIds |-> LifeOf(r)]
FlowsOf == [r \in RunIds |-> runs[r].flow]

LEMMA MapsToInit == Init => Promise!Init
BY DEF Init, NoRun, LifeOf, Promise!Init

LEMMA LifeSays ==
  ASSUME TypeOK, NEW r \in RunIds
  PROVE  /\ runs[r].status = "none"    <=> Lives[r] = "none"
         /\ runs[r].status = "PENDING" <=> Lives[r] = "queued"
         /\ runs[r].status = "STARTED" <=> Lives[r] = "running"
         /\ runs[r].status = "SUCCESS" <=> Lives[r] = "succeeded"
         /\ runs[r].status = "FAILURE" <=> Lives[r] = "failed"
         /\ runs[r].status = "DELETED" <=> Lives[r] = "skipped"
         /\ FlowsOf[r] = runs[r].flow
BY DEF TypeOK, Run, Statuses, Final, Lives, LifeOf, FlowsOf

\* One row changes its status or its flow.
LEMMA OneRowMaps ==
  ASSUME TypeOK, TypeOK', NEW r \in RunIds, NEW x, UNCHANGED told,
         \A q \in RunIds : q # r => runs'[q] = runs[q],
         LifeOf(r)' = x
  PROVE  /\ Lives' = [Lives EXCEPT ![r] = x]
         /\ FlowsOf' = [FlowsOf EXCEPT ![r] = runs'[r].flow]
<1>1. \A q \in RunIds : q # r => LifeOf(q)' = LifeOf(q)
  BY DEF LifeOf
<1>2. Lives' = [Lives EXCEPT ![r] = x]
  BY <1>1 DEF Lives
<1>3. FlowsOf' = [FlowsOf EXCEPT ![r] = runs'[r].flow]
  BY DEF FlowsOf
<1> QED BY <1>2, <1>3

LEMMA SameFlow ==
  ASSUME NEW r \in RunIds, runs'[r].flow = runs[r].flow
  PROVE  [FlowsOf EXCEPT ![r] = runs'[r].flow] = FlowsOf
BY DEF FlowsOf

LEMMA KeptMaps ==
  ASSUME TypeOK, TypeOK', RowsKept, RowsAge
  PROVE  [Promise!Next]_(Promise!vars)
<1> DEFINE S == {r \in RunIds : runs'[r].status # runs[r].status}
<1>1. FlowsOf' = FlowsOf
  BY DEF FlowsOf, RowsKept, RowKept
<1>2. \A r \in S : Open(r) /\ runs'[r].status = "FAILURE" /\ told'[r] = told[r] + 1
  BY DEF RowsKept, RowKept, RowsAge, RowAges, Final, Open
<1>3. \A r \in RunIds \ S : runs'[r].status = runs[r].status /\ told'[r] = told[r]
  BY DEF RowsKept, RowKept, Open, Final
<1>4. told' = [r \in RunIds |-> IF r \in S THEN told[r] + 1 ELSE told[r]]
  BY <1>2, <1>3 DEF TypeOK
<1> HIDE DEF S
<1>5. Lives' = [r \in RunIds |-> IF r \in S THEN "failed" ELSE Lives[r]]
  <2>1. \A r \in S : LifeOf(r)' = "failed"
    BY <1>2 DEF LifeOf
  <2>2. \A r \in RunIds \ S : LifeOf(r)' = LifeOf(r)
    BY <1>3 DEF LifeOf
  <2> QED BY <2>1, <2>2 DEF Lives
<1>6. \A r \in S : Lives[r] \in {"queued", "running"}
  BY <1>2, LifeSays DEF Open, S
<1>7. CASE S = {}
  <2>1. told' = told
    BY <1>4, <1>7 DEF TypeOK
  <2>2. Lives' = Lives
    BY <1>5, <1>7 DEF Lives
  <2> QED BY <1>1, <2>1, <2>2 DEF Promise!vars, Lives, FlowsOf
<1>8. CASE S # {}
  <2>1. Promise!Fail(S)
    BY <1>1, <1>4, <1>5, <1>6, <1>8 DEF Promise!Fail, Lives, FlowsOf
  <2>2. S \in SUBSET RunIds
    BY DEF S
  <2> QED BY <2>1, <2>2 DEF Promise!Next
<1> QED BY <1>7, <1>8

\* Whoever signs a row that waits found nobody running its flow.
LEMMA SignMaps ==
  ASSUME TypeOK, TypeOK', NEW r \in RunIds, NEW p \in Procs, UNCHANGED told,
         runs[r].status = "PENDING", IndexFree(r, runs[r].flow),
         Sign(r, p, runs[r].flow, runs[r].trigger)
  PROVE  Promise!Begin(r)
<1>1. /\ runs'[r].status = "STARTED" /\ runs'[r].flow = runs[r].flow
      /\ \A q \in RunIds : q # r => runs'[q] = runs[q]
  BY DEF Sign, TypeOK
<1>2. LifeOf(r)' = "running"
  BY <1>1 DEF LifeOf
<1>3. Lives' = [Lives EXCEPT ![r] = "running"] /\ FlowsOf' = FlowsOf
  BY <1>1, <1>2, OneRowMaps, SameFlow
<1>4. Lives[r] = "queued"
  BY LifeSays
<1>5. \A q \in RunIds : ~(FlowsOf[q] = FlowsOf[r] /\ Lives[q] = "running")
  BY LifeSays DEF IndexFree
<1> QED BY <1>3, <1>4, <1>5 DEF Promise!Begin, Promise!IsRunning, Lives, FlowsOf

LEMMA ChildMaps ==
  ASSUME TypeOK, TypeOK', NEW r \in RunIds, NEW p \in Procs, NEW f \in Flows, UNCHANGED told,
         runs[r].status = "none", IndexFree(r, f), Sign(r, p, f, "cell")
  PROVE  Promise!BeginAtOnce(r, f)
<1>1. /\ runs'[r].status = "STARTED" /\ runs'[r].flow = f
      /\ \A q \in RunIds : q # r => runs'[q] = runs[q]
  BY DEF Sign, TypeOK
<1>2. LifeOf(r)' = "running"
  BY <1>1 DEF LifeOf
<1>3. Lives' = [Lives EXCEPT ![r] = "running"] /\ FlowsOf' = [FlowsOf EXCEPT ![r] = f]
  BY <1>1, <1>2, OneRowMaps
<1>4. Lives[r] = "none"
  BY LifeSays
<1>5. \A q \in RunIds : ~(FlowsOf[q] = f /\ Lives[q] = "running")
  BY LifeSays DEF IndexFree
<1> QED BY <1>3, <1>4, <1>5 DEF Promise!BeginAtOnce, Promise!IsRunning, Lives, FlowsOf

LEMMA AskMaps ==
  ASSUME TypeOK, TypeOK', NEW f \in Flows, NEW t, Enqueue(f, t)
  PROVE  \E r \in RunIds : Promise!Ask(r, f)
<1> DEFINE queued == [NoRun EXCEPT !.status = "PENDING", !.flow = f, !.trigger = t]
<1>1. PICK r \in RunIds : /\ NextId(r) /\ runs' = [runs EXCEPT ![r] = queued]
                          /\ \A q \in RunIds : ~(runs[q].flow = f /\ Open(q))
  BY DEF Enqueue
<1>2. queued.status = "PENDING" /\ queued.flow = f
  BY DEF NoRun
<1> HIDE DEF queued
<1>3. /\ runs'[r].status = "PENDING" /\ runs'[r].flow = f
      /\ \A q \in RunIds : q # r => runs'[q] = runs[q]
  BY <1>1, <1>2 DEF TypeOK
<1>4. UNCHANGED told
  BY DEF Enqueue
<1>5. LifeOf(r)' = "queued"
  BY <1>3 DEF LifeOf
<1>6. Lives' = [Lives EXCEPT ![r] = "queued"] /\ FlowsOf' = [FlowsOf EXCEPT ![r] = f]
  BY <1>3, <1>4, <1>5, OneRowMaps
<1>7. Lives[r] = "none"
  BY <1>1, LifeSays DEF NextId
<1>8. \A q \in RunIds : ~(FlowsOf[q] = f /\ Lives[q] \in {"queued", "running"})
  BY <1>1, LifeSays DEF Open
<1>9. Promise!Ask(r, f)
  BY <1>4, <1>6, <1>7, <1>8 DEF Promise!Ask, Promise!IsLive, Lives, FlowsOf
<1> QED BY <1>9

LEMMA SkipMaps ==
  ASSUME TypeOK, TypeOK', NEW r \in RunIds, UNCHANGED told,
         runs[r].status = "PENDING", runs' = [runs EXCEPT ![r].status = "DELETED"]
  PROVE  Promise!Skip(r)
<1>1. /\ [runs[r] EXCEPT !.status = "DELETED"].status = "DELETED"
      /\ [runs[r] EXCEPT !.status = "DELETED"].flow = runs[r].flow
  BY DEF TypeOK, Run
<1>2. \A q \in RunIds : runs'[q] = IF q = r THEN [runs[r] EXCEPT !.status = "DELETED"] ELSE runs[q]
  BY DEF TypeOK
<1>3. LifeOf(r)' = "skipped"
  BY <1>1, <1>2 DEF LifeOf
<1>4. Lives' = [Lives EXCEPT ![r] = "skipped"] /\ FlowsOf' = FlowsOf
  BY <1>1, <1>2, <1>3, OneRowMaps, SameFlow
<1>5. Lives[r] = "queued"
  BY LifeSays
<1> QED BY <1>4, <1>5 DEF Promise!Skip, Lives, FlowsOf

LEMMA EndMaps ==
  ASSUME IInv, TypeOK', NEW p \in Procs, NEW r \in RunIds, EndsWell(p, r)
  PROVE  [Promise!Next]_(Promise!vars)
<1>0. TypeOK /\ runs[r].status \in {"STARTED"} \union Final
  BY DEF IInv, CarriesItsOwn, EndsWell
<1>1. Finalize(r, "SUCCESS")
  BY DEF EndsWell, Finish
<1>2. CASE runs[r].status = "STARTED"
  <2>1. \A q \in RunIds : /\ runs'[q] = IF q = r THEN [runs[r] EXCEPT !.status = "SUCCESS"] ELSE runs[q]
                          /\ told'[q] = IF q = r THEN told[r] + 1 ELSE told[q]
    BY <1>1, <1>2 DEF Finalize, Close, Open
  <2>2. /\ [runs[r] EXCEPT !.status = "SUCCESS"].status = "SUCCESS"
        /\ [runs[r] EXCEPT !.status = "SUCCESS"].flow = runs[r].flow
    BY <1>0 DEF TypeOK, Run
  <2>3. LifeOf(r)' = "succeeded" /\ \A q \in RunIds : q # r => LifeOf(q)' = LifeOf(q)
    BY <2>1, <2>2 DEF LifeOf
  <2>4. Lives' = [Lives EXCEPT ![r] = "succeeded"]
    BY <2>3 DEF Lives
  <2>5. FlowsOf' = FlowsOf
    BY <2>1, <2>2 DEF FlowsOf
  <2>6. told' = [told EXCEPT ![r] = @ + 1]
    BY <1>0, <2>1 DEF TypeOK
  <2>7. Lives[r] = "running"
    BY <1>0, <1>2, LifeSays
  <2> QED BY <2>4, <2>5, <2>6, <2>7 DEF Promise!Succeed, Promise!Next, Lives, FlowsOf
<1>3. CASE runs[r].status \in Final
  <2>1. \A q \in RunIds : runs'[q] = runs[q] /\ told'[q] = told[q]
    BY <1>1, <1>3 DEF Finalize, Close, Open, Final
  <2>2. UNCHANGED <<runs, told>>
    BY <1>0, <2>1 DEF TypeOK
  <2> QED BY <2>2 DEF Promise!vars, LifeOf
<1> QED BY <1>0, <1>2, <1>3

\* The steps that change a row nobody carries yet.
LEMMA QueueMaps ==
  ASSUME TypeOK, TypeOK', NEW p \in Procs,
         \/ ClaimNext(p) \/ ClaimAnswerLost(p) \/ SkipSlot(p) \/ ClaimUnattended(p)
         \/ \E f \in Flows : TakeChildSlot(p, f)
  PROVE  [Promise!Next]_(Promise!vars)
<1>0. loop[p] \in LoopState /\ UNCHANGED told
  BY DEF TypeOK, ClaimNext, ClaimAnswerLost, SkipSlot, ClaimUnattended, TakeChildSlot
<1>1. UNCHANGED runs => [Promise!Next]_(Promise!vars)
  BY <1>0 DEF Promise!vars, LifeOf
<1>2. CASE ClaimNext(p) \/ ClaimAnswerLost(p)
  <2>1. PICK r \in Earliest(loop[p].cands) :
            \/ /\ Claimable(r) /\ IndexFree(r, runs[r].flow)
               /\ Sign(r, p, runs[r].flow, runs[r].trigger)
            \/ UNCHANGED runs
    BY <1>2 DEF ClaimNext, ClaimAnswerLost
  <2>2. r \in RunIds
    BY <1>0 DEF Earliest, LoopState
  <2> QED BY <1>0, <1>1, <2>1, <2>2, SignMaps, SMTT(30) DEF Claimable, Promise!Next
<1>3. CASE SkipSlot(p) \/ ClaimUnattended(p)
  <2>1. PICK r \in loop[p].skip \union Earliest(loop[p].cands) :
            \/ /\ Claimable(r) /\ IndexFree(r, runs[r].flow)
               /\ Sign(r, p, runs[r].flow, runs[r].trigger)
            \/ Claimable(r) /\ runs' = [runs EXCEPT ![r].status = "DELETED"]
            \/ runs' = [runs EXCEPT ![r].status = @]
    <3>1. CASE ClaimUnattended(p)
      BY <3>1 DEF ClaimUnattended
    <3>2. CASE SkipSlot(p)
      <4>1. PICK r \in loop[p].skip :
                runs' = [runs EXCEPT ![r].status = IF @ = "PENDING" THEN "DELETED" ELSE @]
        BY <3>2 DEF SkipSlot
      <4>2. r \in RunIds
        BY <1>0 DEF LoopState
      <4>3. \/ runs[r].status = "PENDING" /\ runs' = [runs EXCEPT ![r].status = "DELETED"]
            \/ runs' = [runs EXCEPT ![r].status = @]
        BY <4>1, <4>2 DEF TypeOK
      <4> QED BY <4>3 DEF Claimable
    <3> QED BY <1>3, <3>1, <3>2
  <2>2. r \in RunIds
    BY <1>0 DEF Earliest, LoopState
  <2>3. ASSUME runs' = [runs EXCEPT ![r].status = @]
        PROVE  UNCHANGED runs
    <3>1. [runs[r] EXCEPT !.status = runs[r].status] = runs[r]
      BY <2>2 DEF TypeOK, Run
    <3>2. runs' = [runs EXCEPT ![r] = [runs[r] EXCEPT !.status = runs[r].status]]
      BY <2>2, <2>3 DEF TypeOK
    <3> QED BY <3>1, <3>2 DEF TypeOK
  <2> QED BY <1>0, <1>1, <2>1, <2>2, <2>3, SignMaps, SkipMaps DEF Claimable, Promise!Next
<1>4. CASE \E f \in Flows : TakeChildSlot(p, f)
  <2>1. PICK f \in Flows, r \in RunIds : /\ NextId(r) /\ IndexFree(r, f)
                                         /\ Sign(r, p, f, "cell")
    BY <1>4 DEF TakeChildSlot
  <2>2. runs[r].status = "none"
    BY <2>1 DEF NextId
  <2> QED BY <1>0, <2>1, <2>2, ChildMaps DEF Promise!Next
<1> QED BY SMTT(30), <1>2, <1>3, <1>4

LEMMA StepMaps ==
  ASSUME IInv, [Next]_vars
  PROVE  [Promise!Next]_(Promise!vars)
<1>0. TypeOK /\ TypeOK'
  BY TypeStep DEF IInv
<1>1. CASE UNCHANGED vars
  BY <1>1 DEF vars, Promise!vars, LifeOf
<1>2. CASE \E p \in Procs, r \in RunIds : EndsWell(p, r)
  BY <1>0, <1>2, EndMaps
<1>3. CASE Next /\ RowsAge /\ RowsKept
  BY <1>0, <1>3, KeptMaps
<1>4. CASE Next /\ RowsAge /\ ~RowsKept
  <2>1. CASE Quiet \/ \E p \in Procs, r \in RunIds : Moves(p, r)
    BY <1>4, <2>1 DEF Quiet, Moves
  <2>2. CASE \E f \in Flows : RunNow(f) \/ FireSchedule(f)
    <3>1. PICK f \in Flows, r \in RunIds : Promise!Ask(r, f)
      BY <1>0, <2>2, AskMaps DEF RunNow, FireSchedule
    <3> QED BY <3>1 DEF Promise!Next
  <2>3. ASSUME NEW p \in Procs, \/ StartTaken(p) \/ SkipFails(p) \/ Start(p) \/ CloseEarlier(p)
                                \/ Stop(p) \/ Leave(p) \/ Crash(p)
        PROVE  RowsKept
    <3>1. CASE CloseEarlier(p) \/ Leave(p)
      BY <1>0, <3>1, CloseKeeps DEF CloseEarlier, Leave, Open, Final
    <3>2. CASE StartTaken(p) \/ SkipFails(p) \/ Start(p) \/ Stop(p) \/ Crash(p)
      BY <3>2, SameRowsKeep DEF StartTaken, SkipFails, Start, Stop, Crash
    <3> QED BY <2>3, <3>1, <3>2
  <2> QED BY <1>0, <1>4, <2>1, <2>2, <2>3, StepKinds, QueueMaps
<1> QED BY <1>0, <1>1, <1>2, <1>3, <1>4, SuccessByItsOwn

(***************************************************************************)
(* Whatever the processes, the heartbeats and the database do, a user who  *)
(* only looks at the runs sees the lives FlowRuns allows.                  *)
(***************************************************************************)
THEOREM Implements == Spec => ImplementsFlowRuns
<1>1. IInv /\ [Next]_vars => [Promise!Next]_(Promise!vars)
  BY StepMaps
<1> QED BY <1>1, MapsToInit, Invariance, PTL DEF Spec, ImplementsFlowRuns, Promise!Spec
-----------------------------------------------------------------------------
(***************************************************************************)
(* Who closes a run whose process beats.  A step either closes no such run *)
(* or is the end of its coroutine; what is then left is that a sweep finds *)
(* no old beat of a living process, which the invariant SpareInv says.     *)
(***************************************************************************)
\* A row's beat is as it was, or of no matter, or new.
RowSeen(r) == runs'[r] = runs[r] \/ runs'[r].status # "STARTED" \/ runs'[r].beat = "fresh"
RowsSeen   == \A r \in RunIds : RowSeen(r)

NoneBegins == \A p \in Procs, r \in RunIds : work'[p][r].pc # "idle" => work[p][r].pc # "idle"

HeartStays(p) == /\ ProcessKept(p)
                 /\ proc'[p].beats = proc[p].beats
                 /\ proc'[p].healthy => proc[p].healthy
HeartsStay    == \A p \in Procs : HeartStays(p)

NoneCloses == \A r \in RunIds : Closed(r)' => Closed(r)
ByItsOwn(r) == \E p \in Procs : runs[r].by = Sig(p) /\ work[p][r].pc \in {"end", "fail"}
Spared == \A r \in RunIds : Beaten(r) /\ Open(r) /\ Closed(r)' => ByItsOwn(r)

Spares == BeatsAsItRuns' /\ SoundIsFresh' /\ Spared

LEMMA NoneClosesSpares == NoneCloses => Spared
BY DEF NoneCloses, Spared, Open, Closed, Final

LEMMA StillSound ==
  ASSUME SpareInv, RowsSeen, NoneBegins, HeartsStay, Spared
  PROVE  Spares
<1>1. BeatsAsItRuns'
  BY DEF SpareInv, BeatsAsItRuns, HeartsStay, HeartStays, ProcessKept
<1>2. SoundIsFresh'
  <2> SUFFICES ASSUME NEW p \in Procs, proc'[p].healthy,
                      NEW r \in RunIds, runs'[r].status = "STARTED", Beaten(r)'
               PROVE  runs'[r].beat = "fresh"
    BY DEF SoundIsFresh
  <2>1. proc[p].healthy
    BY DEF HeartsStay, HeartStays
  <2>2. PICK q \in Procs : /\ runs'[r].by = Sig(q)'
                           /\ proc'[q].phase = "run" /\ proc'[q].beats
                           /\ work'[q][r].pc # "idle"
    BY DEF Beaten
  <2>3. /\ Sig(q)' = Sig(q) /\ proc[q].phase = "run" /\ proc[q].beats
        /\ work[q][r].pc # "idle"
    BY <2>2 DEF HeartsStay, HeartStays, ProcessKept, Sig, NoneBegins
  <2>4. CASE runs'[r] = runs[r]
    <3>1. Beaten(r)
      BY <2>2, <2>3, <2>4 DEF Beaten
    <3> QED BY <2>1, <2>4, <3>1 DEF SpareInv, SoundIsFresh
  <2> QED BY <2>4 DEF RowsSeen, RowSeen
<1> QED BY <1>1, <1>2 DEF Spares

\* Of a run carried by p, nobody but p can be its beating process.
LEMMA BeatenByItsOwn ==
  ASSUME SpareInv, NEW p \in Procs, NEW r \in RunIds, work[p][r].pc # "idle", Beaten(r)
  PROVE  runs[r].by = Sig(p) /\ proc[p].phase = "run"
<1>1. runs[r].by = Sig(p)
  BY DEF SpareInv, IInv, CarriesItsOwn
<1>2. PICK q \in Procs : runs[r].by = Sig(q) /\ proc[q].phase = "run"
  BY DEF Beaten
<1>3. q = p
  BY <1>1, <1>2 DEF Sig
<1> QED BY <1>1, <1>2, <1>3

-----------------------------------------------------------------------------
(***************************************************************************)
(* What the shared operators do to the beats.                              *)
(***************************************************************************)
LEMMA CloseSeen ==
  ASSUME TypeOK, NEW S, NEW outcome \in Final, Close(S, outcome)
  PROVE  RowsSeen /\ \A r \in RunIds : Closed(r)' => Closed(r) \/ r \in S
<1> SUFFICES ASSUME NEW r \in RunIds
             PROVE  RowSeen(r) /\ (Closed(r)' => Closed(r) \/ r \in S)
  BY DEF RowsSeen
<1>1. CASE r \in S
  <2>1. runs'[r] = [runs[r] EXCEPT !.status = outcome]
    BY <1>1 DEF Close
  <2>2. runs'[r].status = outcome
    BY <2>1 DEF TypeOK, Run
  <2> QED BY <1>1, <2>2 DEF RowSeen, Final
<1>2. CASE r \notin S
  <2>1. runs'[r] = runs[r]
    BY <1>2 DEF Close
  <2> QED BY <2>1 DEF RowSeen, Closed
<1> QED BY <1>1, <1>2

LEMMA SameSeen == UNCHANGED runs => RowsSeen /\ NoneCloses
BY DEF RowsSeen, RowSeen, NoneCloses, Closed

LEMMA BeatSeen ==
  ASSUME TypeOK, NEW S,
         runs' = [r \in RunIds |-> IF r \in S THEN [runs[r] EXCEPT !.beat = "fresh"] ELSE runs[r]]
  PROVE  RowsSeen /\ NoneCloses
<1> SUFFICES ASSUME NEW r \in RunIds
             PROVE  RowSeen(r) /\ (Closed(r)' => Closed(r))
  BY DEF RowsSeen, NoneCloses
<1>1. CASE r \in S
  <2>1. runs'[r] = [runs[r] EXCEPT !.beat = "fresh"]
    BY <1>1
  <2>2. runs'[r].beat = "fresh" /\ runs'[r].status = runs[r].status
    BY <2>1 DEF TypeOK, Run
  <2> QED BY <2>2 DEF RowSeen, Closed
<1>2. CASE r \notin S
  <2>1. runs'[r] = runs[r]
    BY <1>2
  <2> QED BY <2>1 DEF RowSeen, Closed
<1> QED BY <1>1, <1>2

LEMMA SignSeen ==
  ASSUME TypeOK, NEW r \in RunIds, NEW p, NEW f, NEW t, Sign(r, p, f, t)
  PROVE  /\ RowsSeen /\ NoneCloses
         /\ runs'[r].beat = "fresh"
         /\ \A q \in RunIds : q # r => runs'[q] = runs[q]
<1>1. runs'[r].beat = "fresh" /\ runs'[r].status = "STARTED" /\ \A q \in RunIds : q # r => runs'[q] = runs[q]
  BY DEF TypeOK, Sign
<1> QED BY <1>1 DEF RowsSeen, RowSeen, NoneCloses, Closed, Final

LEMMA SkipSeen ==
  ASSUME TypeOK, NEW r \in RunIds, NEW s \in {"DELETED", runs[r].status},
         runs' = [runs EXCEPT ![r].status = s]
  PROVE  RowsSeen /\ NoneCloses
<1> DEFINE x == [runs[r] EXCEPT !.status = s]
<1>1. x.status = s
  BY DEF TypeOK, Run
<1>2. s = runs[r].status => x = runs[r]
  BY DEF TypeOK, Run
<1>3. runs'[r] = x /\ \A q \in RunIds : q # r => runs'[q] = runs[q]
  BY DEF TypeOK
<1> HIDE DEF x
<1>4. ASSUME NEW q \in RunIds PROVE RowSeen(q) /\ (Closed(q)' => Closed(q))
  BY <1>1, <1>2, <1>3 DEF RowSeen, Closed, Final
<1> QED BY <1>4 DEF RowsSeen, NoneCloses

-----------------------------------------------------------------------------
(***************************************************************************)
(* The actions.                                                            *)
(***************************************************************************)
\* A coroutine that goes on closes only its own run, at its end or interrupted.
LEMMA MovesSpare ==
  ASSUME SpareInv, \E p \in Procs, r \in RunIds : Carry(p, r) \/ Stray(p, r)
  PROVE  Spares
<1>0. TypeOK
  BY DEF SpareInv, IInv
<1>1. NoneBegins /\ HeartsStay
  <2>1. PICK p \in Procs, r \in RunIds : Moves(p, r)
    BY <1>0, MovingSteps
  <2>2. NoneBegins
    BY <2>1 DEF Moves, OthersStay, NoneBegins
  <2>3. HeartsStay
    BY <2>1 DEF Moves, HeartsStay, HeartStays, ProcessKept
  <2> QED BY <2>2, <2>3
<1>2. PICK p \in Procs, r \in RunIds : Carry(p, r) \/ Stray(p, r)
  OBVIOUS
<1>3. CASE Finish(p, r)
  <2>1. PICK outcome \in Final : Finalize(r, outcome)
    BY <1>3 DEF Finish, Final
  <2>2. RowsSeen /\ \A s \in RunIds : Closed(s)' => Closed(s) \/ s = r
    BY <1>0, <2>1, CloseSeen DEF Finalize
  <2>3. work[p][r].pc \in {"end", "fail"}
    BY <1>3 DEF Finish
  <2>4. Beaten(r) => ByItsOwn(r)
    BY <2>3, BeatenByItsOwn DEF ByItsOwn
  <2>5. Spared
    BY <2>2, <2>4 DEF Spared, Open, Closed, Final
  <2> QED BY <1>1, <2>2, <2>5, StillSound
<1>4. CASE Interrupt(p, r)
  <2>1. Finalize(r, "FAILURE") /\ proc[p].phase = "stop" /\ work[p][r].pc # "idle"
    BY <1>4 DEF Interrupt
  <2>2. RowsSeen /\ \A s \in RunIds : Closed(s)' => Closed(s) \/ s = r
    BY <1>0, <2>1, CloseSeen DEF Finalize, Final
  <2>3. ~Beaten(r)
    BY <2>1, BeatenByItsOwn
  <2>4. Spared
    BY <2>2, <2>3 DEF Spared, Open, Closed, Final
  <2> QED BY <1>1, <2>2, <2>4, StillSound
<1>5. CASE UNCHANGED runs
  BY <1>1, <1>5, SameSeen, NoneClosesSpares, StillSound
<1>6. Finish(p, r) \/ Interrupt(p, r) \/ UNCHANGED runs
  BY <1>2 DEF Carry, Stray, Load, Check, Place, Submit, Record, Await, StepsStopped,
              SubmitRefused, SubmitAnswerLost, GiveUpWaiting, DatabaseFails, LoseOutcome
<1> QED BY <1>3, <1>4, <1>5, <1>6

\* The loops, the sweeps, the heartbeats and the engine.
LEMMA QuietSpare ==
  ASSUME SpareInv, "freeze" \notin Upsets,
         \/ \E p \in Procs : \/ ReadQueue(p) \/ Refuse(p) \/ ReadSteps(p) \/ StopStep(p)
                             \/ Drain(p) \/ Freeze(p) \/ Thaw(p) \/ Beat(p) \/ TurnHealthy(p)
                             \/ \E r \in RunIds : CloseOrphan(p, r) \/ SweepQueued(p, r)
         \/ \E r \in RunIds : \/ Silent(r) \/ CloseQueued(r)
                              \/ \E n \in Steps : Engine(r, n)
         \/ Outage
  PROVE  Spares
<1>0. TypeOK /\ CarriesItsOwn
  BY DEF SpareInv, IInv
<1>1. UNCHANGED work /\ (\A p \in Procs : ProcessKept(p)) /\ NoneBegins
  BY <1>0, QuietSteps DEF Quiet, NoneBegins
<1>2. ASSUME UNCHANGED proc, RowsSeen, Spared
      PROVE  Spares
  <2>1. HeartsStay
    BY <1>2 DEF HeartsStay, HeartStays, ProcessKept
  <2> QED BY <1>1, <1>2, <2>1, StillSound
<1>3. ASSUME NEW r \in RunIds, runs[r].status = "PENDING", UNCHANGED proc,
             NEW S \in SUBSET {r}, Close(S, "FAILURE")
      PROVE  Spares
  <2>1. RowsSeen /\ \A s \in RunIds : Closed(s)' => Closed(s) \/ s = r
    BY <1>0, <1>3, CloseSeen DEF Final
  <2>2. ~Beaten(r)
    BY <1>0, <1>3 DEF Beaten, CarriesItsOwn, Final
  <2>3. Spared
    BY <2>1, <2>2 DEF Spared, Open, Closed, Final
  <2> QED BY <1>2, <1>3, <2>1, <2>3
<1>4. ASSUME UNCHANGED <<runs, proc>>
      PROVE  Spares
  BY <1>2, <1>4, SameSeen, NoneClosesSpares
<1>5. ASSUME NEW p \in Procs, Refuse(p) PROVE Spares
  <2>1. PICK r \in Earliest(loop[p].refused) : Close({q \in {r} : runs[q].status = "PENDING"}, "FAILURE")
    BY <1>5 DEF Refuse
  <2>2. r \in RunIds /\ UNCHANGED proc
    BY <1>0, <1>5, <2>1 DEF Refuse, Earliest, TypeOK, LoopState
  <2>3. CASE runs[r].status = "PENDING"
    BY <2>1, <2>2, <2>3, <1>3
  <2>4. CASE runs[r].status # "PENDING"
    <3>1. Close({}, "FAILURE")
      <4>1. {q \in {r} : runs[q].status = "PENDING"} = {}
        BY <2>4
      <4> QED BY <2>1, <4>1
    <3>2. RowsSeen /\ NoneCloses
      BY <1>0, <3>1, CloseSeen DEF Final, NoneCloses
    <3> QED BY <1>2, <2>2, <3>2, NoneClosesSpares
  <2> QED BY <2>3, <2>4
<1>6. ASSUME NEW r \in RunIds, CloseQueued(r) PROVE Spares
  BY <1>6, <1>3 DEF CloseQueued
<1>7. ASSUME NEW p \in Procs, NEW r \in RunIds, CloseOrphan(p, r) PROVE Spares
  <2>1. /\ Close({r}, "FAILURE") /\ UNCHANGED proc /\ proc[p].healthy
        /\ runs[r].status = "STARTED" /\ runs[r].beat = "old"
    BY <1>7 DEF CloseOrphan, Sweeps, Orphan
  <2>2. RowsSeen /\ \A s \in RunIds : Closed(s)' => Closed(s) \/ s = r
    BY <1>0, <2>1, CloseSeen DEF Final
  <2>3. ~Beaten(r)
    BY <2>1 DEF SpareInv, SoundIsFresh
  <2>4. Spared
    BY <2>2, <2>3 DEF Spared, Open, Closed, Final
  <2> QED BY <1>2, <2>1, <2>2, <2>4
<1>8. ASSUME NEW p \in Procs, Beat(p) PROVE Spares
  <2>1. PICK S : runs' = [r \in RunIds |-> IF r \in S THEN [runs[r] EXCEPT !.beat = "fresh"] ELSE runs[r]]
    BY <1>8 DEF Beat
  <2>2. UNCHANGED proc
    BY <1>8 DEF Beat
  <2> QED BY <1>0, <1>2, <2>1, <2>2, BeatSeen, NoneClosesSpares
<1>9. ASSUME NEW r \in RunIds, Silent(r) PROVE Spares
  <2>1. ~Beaten(r) /\ UNCHANGED <<proc, work>> /\ runs' = [runs EXCEPT ![r].beat = "old"]
    BY <1>9 DEF Silent
  <2>2. /\ runs'[r].by = runs[r].by /\ runs'[r].status = runs[r].status
        /\ \A s \in RunIds : s # r => runs'[s] = runs[s]
    BY <1>0, <2>1 DEF TypeOK, Run
  <2>3. \A s \in RunIds : Beaten(s)' => Beaten(s) /\ s # r
    BY <2>1, <2>2 DEF Beaten, Sig
  <2>4. SoundIsFresh'
    BY <2>1, <2>2, <2>3 DEF SpareInv, SoundIsFresh
  <2>5. BeatsAsItRuns'
    BY <2>1 DEF SpareInv, BeatsAsItRuns
  <2>6. NoneCloses
    BY <2>2 DEF NoneCloses, Closed
  <2> QED BY <2>4, <2>5, <2>6, NoneClosesSpares DEF Spares
<1>10. ASSUME Outage PROVE Spares
  <2>1. \A p \in Procs : proc'[p] = [proc[p] EXCEPT !.healthy = FALSE]
    BY <1>10 DEF Outage
  <2>2. ASSUME NEW p \in Procs
        PROVE  ~proc'[p].healthy /\ proc'[p].phase = proc[p].phase /\ proc'[p].beats = proc[p].beats
    <3>1. proc[p] \in Process
      BY <1>0 DEF TypeOK
    <3> QED BY <2>1, <3>1 DEF Process
  <2>3. NoneCloses
    <3>1. ASSUME NEW r \in RunIds PROVE runs'[r].status = runs[r].status
      BY <1>0, <1>10 DEF Outage, TypeOK, Run
    <3> QED BY <3>1 DEF NoneCloses, Closed
  <2>4. SoundIsFresh'
    BY <2>2 DEF SoundIsFresh
  <2>5. BeatsAsItRuns'
    BY <2>2 DEF SpareInv, BeatsAsItRuns
  <2> QED BY <2>3, <2>4, <2>5, NoneClosesSpares DEF Spares
<1>11. ASSUME NEW p \in Procs, Drain(p) PROVE Spares
  <2>1. UNCHANGED runs /\ proc' = [proc EXCEPT ![p] = [proc[p] EXCEPT !.drains = TRUE]]
    BY <1>0, <1>11 DEF Drain, TypeOK
  <2>2. \A q \in Procs : proc'[q].beats = proc[q].beats /\ proc'[q].healthy = proc[q].healthy
    BY <1>0, <2>1 DEF TypeOK, Process
  <2>3. HeartsStay
    BY <1>1, <2>2 DEF HeartsStay, HeartStays
  <2> QED BY <1>1, <2>1, <2>3, SameSeen, NoneClosesSpares, StillSound
<1>12. ASSUME NEW p \in Procs, TurnHealthy(p) PROVE Spares
  <2>1. /\ UNCHANGED <<runs, work>>
        /\ \A r \in RunIds : runs[r].status = "STARTED" /\ Beaten(r) => runs[r].beat = "fresh"
        /\ proc' = [proc EXCEPT ![p] = [proc[p] EXCEPT !.healthy = TRUE]]
    BY <1>0, <1>12 DEF TurnHealthy, TypeOK
  <2>2. \A q \in Procs : /\ proc'[q].beats = proc[q].beats /\ proc'[q].phase = proc[q].phase
                         /\ proc'[q].start = proc[q].start
    BY <1>0, <2>1 DEF TypeOK, Process
  <2>3. \A r \in RunIds : Beaten(r)' => Beaten(r)
    BY <2>1, <2>2 DEF Beaten, Sig
  <2>4. SoundIsFresh'
    BY <2>1, <2>3 DEF SoundIsFresh
  <2>5. BeatsAsItRuns'
    BY <2>2 DEF SpareInv, BeatsAsItRuns
  <2> QED BY <2>1, <2>4, <2>5, SameSeen, NoneClosesSpares DEF Spares
<1>13. ASSUME NEW p \in Procs PROVE ~Freeze(p) /\ ~Thaw(p)
  BY SMTT(30) DEF Freeze, Thaw, Upset, SpareInv, BeatsAsItRuns
<1>14. ASSUME NEW p \in Procs, ReadQueue(p) \/ ReadSteps(p) \/ StopStep(p) PROVE Spares
  BY <1>4, <1>14, ZenonT(60) DEF ReadQueue, ReadSteps, StopStep
<1>15. ASSUME NEW r \in RunIds, NEW n \in Steps, Engine(r, n) PROVE Spares
  BY <1>4, <1>15 DEF Engine, TaskEnds, Reconcile, StaleRun, NeverQueued
<1> QED BY <1>5, <1>6, <1>7, <1>8, <1>9, <1>10, <1>11, <1>12, <1>13, <1>14, <1>15 DEF SweepQueued

\* A row is queued, skipped or signed.
LEMMA QueueSpare ==
  ASSUME SpareInv,
         \/ \E f \in Flows : RunNow(f) \/ FireSchedule(f)
         \/ \E p \in Procs : \/ ClaimNext(p) \/ ClaimAnswerLost(p) \/ SkipSlot(p) \/ StartTaken(p)
                             \/ SkipFails(p) \/ ClaimUnattended(p)
                             \/ \E f \in Flows : TakeChildSlot(p, f)
  PROVE  Spares
<1>0. TypeOK /\ \A p \in Procs : loop[p] \in LoopState
  BY DEF SpareInv, IInv, TypeOK
<1>1. UNCHANGED proc /\ HeartsStay
  <2>1. UNCHANGED proc
    BY ZenonT(60) DEF RunNow, FireSchedule, Enqueue, ClaimNext, ClaimAnswerLost, SkipSlot, StartTaken, SkipFails,
           ClaimUnattended, TakeChildSlot
  <2> QED BY <2>1, SMTT(30) DEF HeartsStay, HeartStays, ProcessKept
<1>2. ASSUME RowsSeen, NoneCloses, NoneBegins PROVE Spares
  BY <1>1, <1>2, NoneClosesSpares, StillSound
<1>3. ASSUME NEW p \in Procs, NEW r \in RunIds, NEW f, NEW t, Sign(r, p, f, t), OthersStay(p, r)
      PROVE  Spares
  <2>1. /\ RowsSeen /\ NoneCloses
        /\ runs'[r].beat = "fresh"
        /\ \A q \in RunIds : q # r => runs'[q] = runs[q]
    BY <1>0, <1>3, SignSeen
  <2>2. \A s \in RunIds : s # r /\ Beaten(s)' => Beaten(s)
    BY <1>1, <1>3, <2>1 DEF Beaten, Sig, OthersStay
  <2>3. SoundIsFresh'
    BY <1>1, <2>1, <2>2 DEF SpareInv, SoundIsFresh
  <2>4. BeatsAsItRuns'
    BY <1>1 DEF SpareInv, BeatsAsItRuns
  <2> QED BY <2>1, <2>3, <2>4, NoneClosesSpares DEF Spares
<1>4. ASSUME NEW f \in Flows, RunNow(f) \/ FireSchedule(f) PROVE Spares
  <2>1. PICK t : Enqueue(f, t)
    BY <1>4 DEF RunNow, FireSchedule
  <2> DEFINE queued == [NoRun EXCEPT !.status = "PENDING", !.flow = f, !.trigger = t]
  <2>2. PICK r \in RunIds : runs' = [runs EXCEPT ![r] = queued]
    BY <2>1 DEF Enqueue
  <2>3. queued.status = "PENDING"
    BY DEF NoRun
  <2>4. UNCHANGED work
    BY <2>1 DEF Enqueue
  <2> HIDE DEF queued
  <2>5. runs'[r] = queued /\ \A q \in RunIds : q # r => runs'[q] = runs[q]
    BY <1>0, <2>2 DEF TypeOK
  <2>6. RowsSeen /\ NoneCloses /\ NoneBegins
    BY <2>3, <2>4, <2>5 DEF RowsSeen, RowSeen, NoneCloses, Closed, Final, NoneBegins
  <2> QED BY <1>2, <2>6
<1>5. ASSUME NEW p \in Procs, ClaimNext(p) PROVE Spares
  <2>1. PICK r \in Earliest(loop[p].cands) :
            \/ Sign(r, p, runs[r].flow, runs[r].trigger) /\ Goto(p, r, "taken")
            \/ UNCHANGED <<runs, work>>
    BY <1>5 DEF ClaimNext
  <2>2. r \in RunIds
    BY <1>0, <2>1 DEF Earliest, LoopState
  <2>3. CASE UNCHANGED <<runs, work>>
    BY <1>2, <2>3, SameSeen DEF NoneBegins
  <2>4. CASE Sign(r, p, runs[r].flow, runs[r].trigger) /\ Goto(p, r, "taken")
    BY <1>0, <1>3, <2>2, <2>4, GotoMoves
  <2> QED BY <2>1, <2>3, <2>4
<1>6. ASSUME NEW p \in Procs, ClaimAnswerLost(p) PROVE Spares
  <2>1. PICK r \in Earliest(loop[p].cands) : Sign(r, p, runs[r].flow, runs[r].trigger)
    BY <1>6 DEF ClaimAnswerLost
  <2>2. r \in RunIds
    BY <1>0, <2>1 DEF Earliest, LoopState
  <2>3. OthersStay(p, r)
    BY <1>6 DEF ClaimAnswerLost, OthersStay
  <2> QED BY <1>3, <2>1, <2>2, <2>3
<1>7. ASSUME NEW p \in Procs, SkipSlot(p) PROVE Spares
  <2>1. PICK r \in loop[p].skip :
            runs' = [runs EXCEPT ![r].status = IF @ = "PENDING" THEN "DELETED" ELSE @]
    BY <1>7 DEF SkipSlot
  <2>2. r \in RunIds
    BY <1>0, <2>1 DEF LoopState
  <2>3. PICK s \in {"DELETED", runs[r].status} : s = IF runs[r].status = "PENDING" THEN "DELETED" ELSE runs[r].status
    OBVIOUS
  <2>4. runs' = [runs EXCEPT ![r].status = s]
    BY <2>1, <2>3
  <2>5. NoneBegins
    BY <1>7 DEF SkipSlot, NoneBegins
  <2> QED BY <1>0, <1>2, <2>2, <2>4, <2>5, SkipSeen
<1>8. ASSUME NEW p \in Procs, StartTaken(p) PROVE Spares
  <2>1. UNCHANGED runs
    BY <1>8, ZenonT(60) DEF StartTaken
  <2>2. ASSUME NEW r \in RunIds, work[p][r].pc = "idle" PROVE work'[p][r] = work[p][r]
    BY <1>0, <1>8, <2>2, ZenonT(60) DEF StartTaken, Taken, TypeOK
  <2>3. ASSUME NEW q \in Procs, NEW r \in RunIds, q # p PROVE work'[q][r] = work[q][r]
    BY <1>0, <1>8, <2>3, ZenonT(60) DEF StartTaken, TypeOK
  <2>4. NoneBegins
    BY <2>2, <2>3 DEF NoneBegins
  <2> QED BY <1>2, <2>1, <2>4, SameSeen, SMTT(30)
<1>9. ASSUME NEW p \in Procs, SkipFails(p) PROVE Spares
  <2>1. UNCHANGED runs /\ LetGo(p)
    BY <1>9 DEF SkipFails
  <2>2. NoneBegins
    BY <1>0, <2>1, LetGoLeaves DEF NoneBegins
  <2> QED BY <1>2, <2>1, <2>2, SameSeen
<1>10. ASSUME NEW p \in Procs, ClaimUnattended(p) PROVE Spares
  <2>1. UNCHANGED work
    BY <1>10 DEF ClaimUnattended
  <2>2. PICK r \in Earliest(loop[p].cands) :
            \/ Sign(r, p, runs[r].flow, runs[r].trigger)
            \/ \E s \in {"DELETED", runs[r].status} : runs' = [runs EXCEPT ![r].status = s]
    BY <1>10 DEF ClaimUnattended
  <2>3. r \in RunIds
    BY <1>0, <2>2 DEF Earliest, LoopState
  <2>4. CASE Sign(r, p, runs[r].flow, runs[r].trigger)
    BY <1>3, <2>1, <2>3, <2>4 DEF OthersStay
  <2>5. ASSUME NEW s \in {"DELETED", runs[r].status}, runs' = [runs EXCEPT ![r].status = s]
        PROVE  Spares
    BY <1>0, <1>2, <2>1, <2>3, <2>5, SkipSeen DEF NoneBegins
  <2> QED BY <2>2, <2>4, <2>5
<1>11. ASSUME NEW p \in Procs, NEW f \in Flows, TakeChildSlot(p, f) PROVE Spares
  <2>1. PICK r \in RunIds : Sign(r, p, f, "cell") /\ Goto(p, r, "load")
    BY <1>11 DEF TakeChildSlot
  <2> QED BY <1>0, <1>3, <2>1, GotoMoves
<1> QED BY <1>4, <1>5, <1>6, <1>7, <1>8, <1>9, <1>10, <1>11

\* A process begins, stops, leaves or dies: what it closes, none that beats carries.
LEMMA LifeSpare ==
  ASSUME SpareInv, \E p \in Procs : Start(p) \/ CloseEarlier(p) \/ Stop(p) \/ Leave(p) \/ Crash(p)
  PROVE  Spares
<1>0. TypeOK /\ CarriesItsOwn
  BY DEF SpareInv, IInv
<1>1. PICK p \in Procs : Start(p) \/ CloseEarlier(p) \/ Stop(p) \/ Leave(p) \/ Crash(p)
  OBVIOUS
<1> DEFINE x == proc'[p]
<1>2. /\ proc' = [proc EXCEPT ![p] = x]
      /\ x.healthy => proc[p].healthy
      /\ x.phase \in {"boot", "run"} => x.beats
  <2>1. CASE Start(p)
    BY <1>0, <2>1 DEF Start, TypeOK
  <2>2. CASE CloseEarlier(p)
    BY <1>0, <2>2 DEF CloseEarlier, TypeOK, Process, SpareInv, BeatsAsItRuns
  <2>3. CASE Stop(p)
    BY <1>0, <2>3 DEF Stop, TypeOK, Process
  <2>4. CASE Leave(p)
    BY <1>0, <2>4 DEF Leave, TypeOK, Process
  <2>5. CASE Crash(p)
    <3>1. proc' = [proc EXCEPT ![p].phase = "down", ![p].beats = FALSE]
      BY <2>5 DEF Crash
    <3>2. proc[p] \in Process
      BY <1>0 DEF TypeOK
    <3>3. x = [proc[p] EXCEPT !.phase = "down", !.beats = FALSE]
      BY <1>0, <3>1 DEF TypeOK
    <3>4. x.healthy = proc[p].healthy /\ x.phase = "down"
      BY <3>2, <3>3 DEF Process
    <3> QED BY <1>0, <3>1, <3>3, <3>4 DEF TypeOK
  <2> QED BY <1>1, <2>1, <2>2, <2>3, <2>4, <2>5
<1> HIDE DEF x
<1>3. \A q \in Procs : q # p => proc'[q] = proc[q]
  BY <1>0, <1>2 DEF TypeOK
<1>4. \A r \in RunIds : /\ x.phase = "run" => work'[p][r].pc = "idle"
                        /\ \A q \in Procs : q # p => work'[q][r].pc = work[q][r].pc
  <2>1. CASE Start(p)
    BY <1>0, <2>1 DEF Start, TypeOK, x
  <2>2. CASE CloseEarlier(p)
    BY <1>0, <2>2 DEF CloseEarlier, CarriesItsOwn
  <2>3. CASE Stop(p)
    <3>1. x.phase = "stop"
      BY <1>0, <2>3 DEF Stop, TypeOK, Process, x
    <3>2. LetGo(p)
      BY <2>3 DEF Stop
    <3> QED BY <1>0, <3>1, <3>2, LetGoLeaves
  <2>4. CASE Leave(p)
    BY <2>4 DEF Leave
  <2>5. CASE Crash(p)
    <3>1. \A r \in RunIds : work'[p][r].pc = "idle" /\ \A q \in Procs : q # p => work'[q][r] = work[q][r]
      BY <1>0, <2>5 DEF Crash, TypeOK, Idle
    <3> QED BY <3>1
  <2> QED BY <1>1, <2>1, <2>2, <2>3, <2>4, <2>5
<1>5. RowsSeen /\ Spared
  <2>1. CASE Start(p) \/ Stop(p) \/ Crash(p)
    <3>1. UNCHANGED runs
      BY <2>1 DEF Start, Stop, Crash
    <3> QED BY <3>1, SameSeen, NoneClosesSpares
  <2>2. CASE CloseEarlier(p)
    <3> DEFINE S == {r \in RunIds : /\ runs[r].status = "STARTED" /\ runs[r].by # Nobody
                                   /\ runs[r].by[1] = p /\ runs[r].by # Sig(p)}
    <3>1. RowsSeen /\ \A r \in RunIds : Closed(r)' => Closed(r) \/ r \in S
      BY <1>0, <2>2, CloseSeen DEF CloseEarlier, Final
    <3>2. ASSUME NEW r \in S PROVE ~Beaten(r)
      <4>1. ASSUME NEW q \in Procs, runs[r].by = Sig(q) PROVE FALSE
        <5>1. q = p
          BY <4>1 DEF Sig
        <5> QED BY <4>1, <5>1
      <4> QED BY <4>1 DEF Beaten
    <3> HIDE DEF S
    <3> QED BY <3>1, <3>2 DEF Spared, Open, Closed, Final
  <2>3. CASE Leave(p)
    <3> DEFINE S == {r \in RunIds : runs[r].status = "STARTED" /\ runs[r].by = Sig(p)}
    <3>1. RowsSeen /\ \A r \in RunIds : Closed(r)' => Closed(r) \/ r \in S
      BY <1>0, <2>3, CloseSeen DEF Leave, Final
    <3>2. ASSUME NEW r \in S PROVE ~Beaten(r)
      <4>1. ASSUME NEW q \in Procs, runs[r].by = Sig(q), work[q][r].pc # "idle" PROVE FALSE
        <5>1. q = p
          BY <4>1 DEF Sig
        <5> QED BY <2>3, <4>1, <5>1 DEF Leave
      <4> QED BY <4>1 DEF Beaten
    <3> HIDE DEF S
    <3> QED BY <3>1, <3>2 DEF Spared, Open, Closed, Final
  <2> QED BY <1>1, <2>1, <2>2, <2>3
<1>6. BeatsAsItRuns'
  BY <1>2, <1>3 DEF SpareInv, BeatsAsItRuns, x
<1>7. SoundIsFresh'
  <2> SUFFICES ASSUME NEW h \in Procs, proc'[h].healthy,
                      NEW r \in RunIds, runs'[r].status = "STARTED", Beaten(r)'
               PROVE  runs'[r].beat = "fresh"
    BY DEF SoundIsFresh
  <2>1. proc[h].healthy
    BY <1>2, <1>3 DEF x
  <2>2. PICK q \in Procs : /\ runs'[r].by = Sig(q)'
                           /\ proc'[q].phase = "run" /\ proc'[q].beats
                           /\ work'[q][r].pc # "idle"
    BY DEF Beaten
  <2>3. q # p
    BY <1>4, <2>2 DEF x
  <2>4. CASE runs'[r] = runs[r]
    <3>1. Beaten(r)
      BY <1>3, <1>4, <2>2, <2>3, <2>4 DEF Beaten, Sig
    <3> QED BY <2>1, <2>4, <3>1 DEF SpareInv, SoundIsFresh
  <2> QED BY <1>5, <2>4 DEF RowsSeen, RowSeen
<1> QED BY <1>5, <1>6, <1>7 DEF Spares

LEMMA StepSpares ==
  ASSUME "freeze" \notin Upsets, SpareInv, [Next]_vars
  PROVE  Spares
<1>1. CASE UNCHANGED vars
  <2>1. RowsSeen /\ NoneCloses
    BY <1>1, SameSeen DEF vars
  <2>2. NoneBegins /\ HeartsStay
    BY <1>1 DEF vars, NoneBegins, HeartsStay, HeartStays, ProcessKept
  <2> QED BY <2>1, <2>2, NoneClosesSpares, StillSound
<1>2. CASE Next
  BY <1>2, MovesSpare, QuietSpare, QueueSpare, LifeSpare DEF Next, Loop, Life
<1> QED BY <1>1, <1>2

(***************************************************************************)
(* After an outage too, a run whose process beats is closed by its own     *)
(* coroutine only, where no process freezes: one that thaws finds its runs *)
(* as old as a dead one's, and they may be closed before it beats.         *)
(***************************************************************************)
THEOREM TheLivingAreSpared ==
  ASSUME "freeze" \notin Upsets
  PROVE  Spec => OutageSparesTheLiving
<1>1. Init => SpareInv
  BY InvInit DEF Init, SpareInv, BeatsAsItRuns, SoundIsFresh, NoRun
<1>2. SpareInv /\ [Next]_vars => SpareInv'
  BY StepSpares, StepKeeps, TypeStep DEF SpareInv, IInv, Kept, Spares
<1>3. SpareInv /\ [Next]_vars =>
          [\A r \in RunIds : Beaten(r) /\ Open(r) /\ Closed(r)' =>
              \E p \in Procs : runs[r].by = Sig(p) /\ work[p][r].pc \in {"end", "fail"}]_vars
  BY StepSpares DEF Spares, Spared, ByItsOwn
<1> QED BY <1>1, <1>2, <1>3, PTL DEF Spec, OutageSparesTheLiving
=============================================================================
