------------------------------ MODULE FlowRuns ------------------------------
(***************************************************************************)
(* What a user of the queue of flow runs may rely on, without the          *)
(* processes, heartbeats and steps that bring it about: the life of a run  *)
(* as the API and the webhooks show it (the queue described at the top of  *)
(* gateway/app/services/orchestrator.py).  OrchestrationQueue implements   *)
(* it.                                                                     *)
(***************************************************************************)
EXTENDS Naturals

CONSTANTS RunIds, Flows, NoFlow

VARIABLES
    life,       \* what a run's status says
    flowOf,     \* the flow a run is of
    announced   \* how many times its end was announced

vars == <<life, flowOf, announced>>

Ended == {"succeeded", "failed"}

Init == /\ life = [r \in RunIds |-> "none"]
        /\ flowOf = [r \in RunIds |-> NoFlow]
        /\ announced = [r \in RunIds |-> 0]

IsRunning(f) == \E r \in RunIds : flowOf[r] = f /\ life[r] = "running"
IsLive(f)    == \E r \in RunIds : flowOf[r] = f /\ life[r] \in {"queued", "running"}

\* A run is asked for: one of a flow waits at a time, and none behind a running one.
Ask(r, f) == /\ life[r] = "none" /\ ~IsLive(f)
             /\ life' = [life EXCEPT ![r] = "queued"]
             /\ flowOf' = [flowOf EXCEPT ![r] = f]
             /\ UNCHANGED announced

\* It begins, alone.
Begin(r) == /\ life[r] = "queued" /\ ~IsRunning(flowOf[r])
            /\ life' = [life EXCEPT ![r] = "running"]
            /\ UNCHANGED <<flowOf, announced>>

\* A cell of a group begins without having waited.
BeginAtOnce(r, f) == /\ life[r] = "none" /\ ~IsRunning(f)
                     /\ life' = [life EXCEPT ![r] = "running"]
                     /\ flowOf' = [flowOf EXCEPT ![r] = f]
                     /\ UNCHANGED announced

\* A slot that came while the flow was running leaves no trace.
Skip(r) == /\ life[r] = "queued"
           /\ life' = [life EXCEPT ![r] = "skipped"]
           /\ UNCHANGED <<flowOf, announced>>

\* It succeeds.
Succeed(r) == /\ life[r] = "running"
              /\ life' = [life EXCEPT ![r] = "succeeded"]
              /\ announced' = [announced EXCEPT ![r] = @ + 1]
              /\ UNCHANGED flowOf

\* Some fail together, those a process that is gone left for instance.
Fail(S) == /\ S # {} /\ \A r \in S : life[r] \in {"queued", "running"}
           /\ life' = [r \in RunIds |-> IF r \in S THEN "failed" ELSE life[r]]
           /\ announced' = [r \in RunIds |-> IF r \in S THEN announced[r] + 1 ELSE announced[r]]
           /\ UNCHANGED flowOf

Next == \/ \E r \in RunIds, f \in Flows : Ask(r, f) \/ BeginAtOnce(r, f)
        \/ \E r \in RunIds : Begin(r) \/ Skip(r) \/ Succeed(r)
        \/ \E S \in SUBSET RunIds : Fail(S)

Spec == Init /\ [][Next]_vars
=============================================================================
