---------------------------- MODULE SettingsRollout ----------------------------
(* The restart of the components that read a changed setting only when they start  *)
(* (gateway: services/settings_rollout.py).  An administrator asks for a           *)
(* component's restart (requested_at); every orchestrator runs one_step, under a   *)
(* lock of the database, which evicts one pod at a time and closes the request     *)
(* when no pod older than it is left.  The orchestrators run in pods that are      *)
(* rolled out as well.  A time is the number of requests made so far: a pod born   *)
(* after a request is not older than it.                                           *)
EXTENDS Naturals, FiniteSets, FiniteSetsExt, Sequences, SequencesExt
CONSTANTS Order,          \* ORDER: the components, the orchestrator last
          Slots,          \* places for pods of a component: its replicas and one on its way out
          MaxRequests,    \* bound: requests
          MaxFailures     \* bound: pods that stop being ready, refused evictions, lost nodes

VARIABLES pods,           \* each component's pods, as Kubernetes has them
          requested,      \* settings_rollout: requested_at, 0 when there is none
          asked,          \* how many requests were made
          step,           \* the one_step under the lock: who runs it and what it read
          failures

vars == <<pods, requested, asked, step, failures>>

Components == Range(Order)
Orchestrator == Order[Len(Order)]
Replicas == Cardinality(Slots) - 1
NoPod == [at |-> "none", born |-> 0]
NoStep == [by |-> {}, of |-> Orchestrator, since |-> 0, seen |-> [s \in Slots |-> NoPod]]

Init == /\ pods = [c \in Components |->
                     [s \in Slots |-> IF s = Min(Slots) THEN NoPod ELSE [at |-> "ready", born |-> 0]]]
        /\ requested = [c \in Components |-> 0]
        /\ asked = 0
        /\ step = NoStep
        /\ failures = 0

Fails == failures < MaxFailures /\ failures' = failures + 1

(* request: now, over an earlier request not finished too.                        *)
Request(c) == /\ asked < MaxRequests
              /\ asked' = asked + 1
              /\ requested' = [requested EXCEPT ![c] = asked + 1]
              /\ UNCHANGED <<pods, step, failures>>

Cancel(c) == /\ requested[c] # 0
             /\ Fails
             /\ requested' = [requested EXCEPT ![c] = 0]
             /\ UNCHANGED <<pods, asked, step>>

(* The first component of ORDER that has a request.                               *)
Asked == {i \in DOMAIN Order : requested[Order[i]] # 0}
First == {Order[i] : i \in {j \in Asked : \A k \in Asked : j <= k}}

(* one_step takes the lock and reads the requests and the component's pods (one   *)
(* on its way out for longer than MAX_OUTPUT is not there: "lost").                *)
Begin(s) ==
    /\ step = NoStep
    /\ pods[Orchestrator][s].at \in {"starting", "ready", "leaving"}
    /\ \E c \in First : step' = [by |-> {s}, of |-> c, since |-> requested[c], seen |-> pods[c]]
    /\ UNCHANGED <<pods, requested, asked, failures>>

(* old: started before the request, not on their way out.                         *)
Old(P, since) == {s \in Slots : P[s].at \in {"starting", "ready"} /\ P[s].born < since}

(* On its way out, or a new one not ready yet: to be waited for.                  *)
NotWaited == {}
Waited == {s \in Slots : \/ step.seen[s].at = "leaving"
                         \/ step.seen[s].at = "starting" /\ s \notin Old(step.seen, step.since)}

Wait == /\ step # NoStep
        /\ Waited # {}
        /\ step' = NoStep
        /\ UNCHANGED <<pods, requested, asked, failures>>

ClosedAnyway == TRUE
(* Closed only if nobody asked again meanwhile.                                   *)
SameRequest == requested[step.of] = step.since

Close == /\ step # NoStep
         /\ Waited = {}
         /\ Old(step.seen, step.since) = {}
         /\ requested' = IF SameRequest THEN [requested EXCEPT ![step.of] = 0] ELSE requested
         /\ step' = NoStep
         /\ UNCHANGED <<pods, asked, failures>>

TargetsNotItself ==
    LET old == Old(step.seen, step.since)
        unready == {s \in old : step.seen[s].at = "starting"}
        others == {s \in old : step.of # Orchestrator \/ s \notin step.by}
        S == IF unready # {} THEN unready ELSE others
    IN  {s \in S : \A r \in S : step.seen[s].born <= step.seen[r].born}

(* An old pod that is not ready first, itself last, otherwise the oldest.         *)
Targets ==
    LET old == Old(step.seen, step.since)
        unready == {s \in old : step.seen[s].at = "starting"}
        others == {s \in old : step.of # Orchestrator \/ s \notin step.by}
        S == IF unready # {} THEN unready ELSE IF others # {} THEN others ELSE old
    IN  {s \in S : \A r \in S : step.seen[s].born <= step.seen[r].born}

(* pods/eviction: the pod starts to leave.                                        *)
Evict(s) == /\ step # NoStep
            /\ Waited = {}
            /\ s \in Targets
            /\ pods' = [pods EXCEPT ![step.of][s].at = "leaving"]
            /\ step' = NoStep
            /\ UNCHANGED <<requested, asked, failures>>

(* A PodDisruptionBudget says not now, or the Kubernetes API fails.               *)
Refused == /\ step # NoStep
           /\ Waited = {}
           /\ Targets # {}
           /\ Fails
           /\ step' = NoStep
           /\ UNCHANGED <<pods, requested, asked>>

(* Kubernetes: the Deployment makes another pod in place of one that leaves, at   *)
(* once (before it is gone); the other goes, the new one gets ready.               *)
Up(c) == {s \in Slots : pods[c][s].at \in {"starting", "ready"}}
Gone(c, s) == /\ pods[c][s].at = "leaving"
              /\ Cardinality(Up(c)) = Replicas
              /\ pods' = [pods EXCEPT ![c][s] = NoPod]
              /\ step' = IF c = Orchestrator /\ s \in step.by THEN NoStep ELSE step
              /\ UNCHANGED <<requested, asked, failures>>
Replace(c) == /\ Cardinality(Up(c)) < Replicas
              /\ \E s \in Slots : /\ pods[c][s] = NoPod
                                 /\ pods' = [pods EXCEPT ![c][s] = [at |-> "starting", born |-> asked]]
              /\ UNCHANGED <<requested, asked, step, failures>>
Ready(c, s) == /\ pods[c][s].at = "starting"
               /\ pods' = [pods EXCEPT ![c][s].at = "ready"]
               /\ UNCHANGED <<requested, asked, step, failures>>

(* A pod stops being ready by itself (its container restarted).                   *)
Unready(c, s) == /\ pods[c][s].at = "ready"
                 /\ Fails
                 /\ pods' = [pods EXCEPT ![c][s].at = "starting"]
                 /\ step' = IF c = Orchestrator /\ s \in step.by THEN NoStep ELSE step
                 /\ UNCHANGED <<requested, asked>>

Kubernetes(c) == \/ Replace(c)
                 \/ \E s \in Slots : Gone(c, s) \/ Ready(c, s)
Steps == \/ \E s \in Slots : Begin(s) \/ Evict(s)
         \/ Wait \/ Close
Next == \/ \E c \in Components : \/ Request(c) \/ Cancel(c) \/ Kubernetes(c)
                                 \/ \E s \in Slots : Unready(c, s)
        \/ Steps \/ Refused
Spec == Init /\ [][Next]_vars

(* Kubernetes brings pods up and down, the orchestrators' loop goes on.           *)
Fairness == /\ WF_vars(Steps)
            /\ \A c \in Components :
                  WF_vars(Replace(c) \/ \E s \in Slots : Gone(c, s) \/ Ready(c, s))

--------------------------------------------------------------------------------
Pod == [at : {"none", "starting", "ready", "leaving"}, born : 0..MaxRequests]
StepState == [by : SUBSET Slots, of : Components, since : 0..MaxRequests, seen : [Slots -> Pod]]
TypeOK == /\ pods \in [Components -> [Slots -> Pod]]
          /\ requested \in [Components -> 0..MaxRequests]
          /\ asked \in 0..MaxRequests
          /\ step \in StepState
          /\ failures \in 0..MaxFailures

(* A request ends, unless it is cancelled, only when every pod of the component   *)
(* started after it: asked again while a rollout goes on, it is not closed with    *)
(* the earlier one.                                                               *)
ClosedStep ==
    \A c \in Components :
        requested[c] # 0 /\ requested'[c] = 0 /\ failures' = failures
            => Old(pods[c], requested[c]) = {}
ClosedWhenAllAreNew == [][ClosedStep]_vars

Serving(c) == {s \in Slots : pods[c][s].at = "ready"}
(* The rollout takes one pod of a component down at a time: the others serve, but  *)
(* for those that failed by themselves, whoever runs it and however often it is    *)
(* asked for meanwhile.  (Of two components two may be down: a request for an      *)
(* earlier one does not wait for a later one's pod.)                               *)
OneDownAtATime ==
    \A c \in Components : Cardinality(Serving(c)) + 1 + failures >= Replicas

(* Every rollout ends, when the new pods get ready.                               *)
EveryRolloutEnds == []<>(\A c \in Components : requested[c] = 0)

ConstantsOK == /\ IsFiniteSet(Slots) /\ Slots # {} /\ Slots = 1..Cardinality(Slots)
               /\ Order \in Seq(Components) /\ Order # <<>>
               /\ MaxRequests \in Nat /\ MaxFailures \in Nat

(* A step is for a request that was made.                                         *)
SinceARequest == /\ \A c \in Components : requested[c] <= asked
                 /\ step = NoStep \/ step.since \in 1..asked
(* No pod has become old since the step looked.                                   *)
OldWasSeen == Old(pods[step.of], step.since) \subseteq Old(step.seen, step.since)
(* All the replicas are up, or all but one and that one is on its way out.        *)
Deployed == \A c \in Components :
    \/ Cardinality(Up(c)) = Replicas
    \/ Cardinality(Up(c)) + 1 = Replicas /\ \E s \in Slots : pods[c][s].at = "leaving"
(* Where a step waits for no pod, none comes or goes until it is over...          *)
SeenStay == step # NoStep /\ Waited = {} =>
    \A s \in Slots : /\ pods[step.of][s].at # "leaving"
                     /\ step.seen[s].at = "none" => pods[step.of][s].at = "none"
                     /\ pods[step.of][s].at = "none" => step.seen[s].at = "none"
(* ...and the one it evicts may go.                                               *)
TargetMayGo == step # NoStep /\ Waited = {} =>
    \A s \in Targets : Cardinality(Serving(step.of) \ {s}) + 1 + failures >= Replicas
IInv == /\ TypeOK /\ SinceARequest /\ OldWasSeen
        /\ Deployed /\ SeenStay /\ TargetMayGo /\ OneDownAtATime
================================================================================
