------------------------------- MODULE MCGateway -------------------------------
(* Six components of the gateway that share nothing with each other, checked in  *)
(* one run: `which` says whose behaviours a behaviour is of.                      *)
EXTENDS WebhookDeliveries

CONSTANTS Requests, Email, All, MaxPassword, Threshold, Window, Block, MaxBlock, NoSession,   \* SignIn
          Items, Delay, Lag, Batch, MaxFaults,                                  \* SiemExport
          Order, Places, MaxRequests, MaxFailures,                              \* SettingsRollout
          Cells, StepOf, KindOf, TargetOf, Others, Budget, SlotAttempts, MaxMishaps,   \* FlowGroupRun
          Savers, Users, Schedules, SlotsOf, Horizon, Edits, Upsets, MaxTickUpsets,
          NoText, Nobody                                                        \* ScheduleSlots

VARIABLES which,
          attempts, tally, wiped, req, account, sessions, changer,
          log, dest, sender, received, first, faults,
          pods, requested, asked, step, failures,
          group, cell, row, mishaps,
          clock, due, live, able, tick, edit, fired, upsets, blind

S == INSTANCE SignIn
E == INSTANCE SiemExport WITH InOrder <- TRUE
R == INSTANCE SettingsRollout WITH Slots <- Places
G == INSTANCE FlowGroupRun
Q == INSTANCE ScheduleSlots
       WITH Requests <- Savers, Slots <- SlotsOf, Queued <- TRUE, MaxUpsets <- MaxTickUpsets,
            row <- due, active <- able, held <- edit

ASSUME GatewayAssumption ==
    S!ConstantsOK /\ E!ConstantsOK /\ R!ConstantsOK /\ G!ConstantsOK /\ Q!ConstantsAssumption

sv == <<attempts, tally, wiped, req, account, sessions, changer>>
ev == <<log, dest, sender, received, first, faults>>
rv == <<pods, requested, asked, step, failures>>
gv == <<group, cell, row, mishaps>>
qv == <<clock, due, live, able, tick, edit, fired, upsets, blind>>
allVars == <<which, vars, sv, ev, rv, gv, qv>>

MCInit == /\ which \in {"webhooks", "sign-in", "SIEM", "rollout", "group", "schedule"}
          /\ Init /\ E!Init /\ R!Init /\ G!Init /\ S!Init /\ Q!Init
          /\ which # "sign-in" => \A r \in Requests : req[r].guess = 0
          /\ which # "schedule" => due = Q!Off

MCNext == \/ which = "webhooks" /\ Next /\ UNCHANGED <<which, sv, ev, rv, gv, qv>>
          \/ which = "sign-in" /\ S!Next /\ UNCHANGED <<which, vars, ev, rv, gv, qv>>
          \/ which = "SIEM" /\ E!Next /\ UNCHANGED <<which, vars, sv, rv, gv, qv>>
          \/ which = "rollout" /\ R!Next /\ UNCHANGED <<which, vars, sv, ev, gv, qv>>
          \/ which = "group" /\ G!Next /\ UNCHANGED <<which, vars, sv, ev, rv, qv>>
          \/ which = "schedule" /\ Q!Next /\ UNCHANGED <<which, vars, sv, ev, rv, gv>>

(* Each component's Fairness, of the behaviours that are its own.                 *)
MCFairness ==
    /\ WF_vars(which = "webhooks" /\ Pass)
    /\ \A p \in Procs : WF_vars(which = "webhooks" /\ Sends(p))
    /\ WF_ev(which = "SIEM" /\ E!Pass) /\ WF_ev(which = "SIEM" /\ E!WaitOver)
    /\ WF_ev(which = "SIEM" /\ E!Receive("yes")) /\ WF_ev(which = "SIEM" /\ E!Save)
    /\ WF_ev(which = "SIEM" /\ \E p \in Procs : E!Send(p))
    /\ WF_ev(which = "SIEM" /\ \E i \in Items : E!Insert(i))
    /\ WF_ev(which = "SIEM" /\ \E i \in Items : E!Commit(i))
    /\ WF_rv(which = "rollout" /\ R!Steps)
    /\ \A c \in R!Components :
          WF_rv(which = "rollout" /\ (R!Replace(c) \/ \E s \in Places : R!Gone(c, s) \/ R!Ready(c, s)))
    /\ WF_gv(which = "group" /\ G!GroupStep)
    /\ WF_gv(which = "group" /\ \E c \in Cells : G!CellStep(c))
    /\ WF_gv(which = "group" /\ \E c \in Cells : G!CloseChild(c))
    /\ WF_gv(which = "group" /\ \E r \in Cells \union Others, ok \in BOOLEAN : G!TaskEnds(r, ok))
    /\ WF_gv(which = "group" /\ group.at = "left" /\ G!CloseOrphan)
    /\ \A p \in Procs : /\ WF_qv(which = "schedule" /\ Q!BeginTick(p))
                          /\ WF_qv(which = "schedule" /\ Q!TickGoesOn(p))

MCSpec == MCInit /\ [][MCNext]_allVars /\ MCFairness

(* The constants' values of the run: one webhook, a brake sooner on an email than   *)
(* on an address, three pods' places of two components, five cells in three steps,  *)
(* a schedule of every minute and one of once.                                      *)
CONSTANTS hook, flow, image, dump, sql, c1, c2, c3, c4, c5, often, once
OneHook == [d \in Deliveries |-> hook]
OneWait == <<1>>
Thresholds == [k \in {Email, All} |-> IF k = Email THEN 1 ELSE 2]
WorkerThenOrchestrator == <<"worker", "orchestrator">>
ThreeSteps == [c \in Cells |-> IF c \in {c1, c2} THEN 1 ELSE IF c \in {c3, c4} THEN 2 ELSE 3]
FlowTaskRefreshScript == [c \in Cells |-> CASE c \in {c1, c3} -> "flow" [] c = c2 -> "task"
                                            [] c = c4 -> "refresh" [] OTHER -> "sql"]
SameFlowTwice == [c \in Cells |-> CASE c \in {c1, c3} -> flow [] c = c2 -> image
                                    [] c = c4 -> dump [] OTHER -> sql]
OftenAndOnce == [s \in Schedules |-> IF s = often THEN 1..7 ELSE {1}]

(* The variables of every component have their types.                             *)
TypesOK == TypeOK /\ S!TypeOK /\ E!TypeOK /\ R!TypeOK /\ G!TypeOK /\ Q!SlotTypes
(* Sign-in: replicas that record failures at once lose none.                      *)
NoFailureLost == S!NoFailureLost
(* Sign-in: after a change of password no session of the old one is open.         *)
OldPasswordIsOut == S!OldPasswordIsOut
(* SIEM: no item between the start and the cursor is missing at Splunk.           *)
NothingSkipped == E!NothingSkipped
(* SIEM: every item gets there while the forwarding is on.                        *)
EveryItemArrives == E!EveryItemArrives
(* Rollout: a request ends only when every pod of it started after it.            *)
ClosedWhenAllAreNew == [][R!ClosedStep]_rv
(* Rollout: one pod of a component down at a time.                                *)
OneDownAtATime == R!OneDownAtATime
(* Rollout: every rollout ends.                                                   *)
EveryRolloutEnds == R!EveryRolloutEnds
(* Group: steps in order, and no flow or script stands on data older than its step. *)
StepsInOrder == G!StepsInOrder
(* Group: no flow or script of a group its process closed is still running in it. *)
FlowsEndWithTheGroup == G!FlowsEndWithTheGroup
(* Group: every run of a group is closed.                                         *)
GroupCloses == []<>(which = "group" => group.status # "STARTED")
(* Schedules: a slot that is due is fired, skipped or turned off.                 *)
EverySlotIsSpent == Q!EverySlotIsSpent
================================================================================
