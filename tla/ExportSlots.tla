------------------------------ MODULE ExportSlots ------------------------------
(* The places of one person on the export queue                                   *)
(* (src/backend/app/core/export_slots.py, api/exports.py, the signals of           *)
(* tasks/celery_app.py).  Each task takes a place when it is queued, in a sorted   *)
(* set of the tasks and when they took it, and the worker gives it back when the   *)
(* task ends, to the owner it reads in a key of the task; a place never given back *)
(* ends after the longest a task runs and an allowance for its wait.  Nothing ends *)
(* the wait itself: a task still waiting then, or begun late, is no longer counted. *)
EXTENDS Naturals, FiniteSets

CONSTANTS Tasks, Cap,
          TaskLimit,            \* the longest a task runs: Celery kills it there
          QueueWait,            \* _QUEUE_WAIT_SECONDS
          Horizon, None

ConstantsOK ==
  /\ QueueWait \in Nat /\ TaskLimit \in Nat \ {0}
  /\ IsFiniteSet(Tasks) /\ Cap \in Nat /\ None \notin Nat

VARIABLES clock,
          place,                \* by task: when it took the place it holds, or None
          owner,                \* the tasks whose owner key is there
          task,                 \* by task: where it is
          asked, began          \* by task: when it was admitted, when it began to run

vars == <<clock, place, owner, task, asked, began>>

Unfinished == {t \in Tasks : task[t] \in {"admitted", "queued", "running"}}

TypeOK ==
  /\ clock \in Nat /\ owner \subseteq Tasks
  /\ place \in [Tasks -> Nat \union {None}] /\ asked \in [Tasks -> Nat] /\ began \in [Tasks -> Nat]
  /\ task \in [Tasks -> {"new", "admitted", "queued", "running", "ended", "over"}]

Init ==
  /\ clock = 0 /\ place = [t \in Tasks |-> None] /\ owner = {}
  /\ task = [t \in Tasks |-> "new"] 
  /\ asked = [t \in Tasks |-> 0] /\ began = [t \in Tasks |-> 0]
--------------------------------------------------------------------------------
(* Slip: the place lasts as long as a task may run.                               *)
HeldWhileRunning == TaskLimit

(* `_held_for`, and the places the script finds still held.                       *)
HeldFor == TaskLimit + QueueWait
Held == {t \in Tasks : place[t] # None /\ place[t] + HeldFor > clock}

(* `admit`: atomically, those past their time leave and there is room, or not.    *)
Admit(t) ==
  /\ task[t] = "new" /\ Cardinality(Held) < Cap
  /\ place' = [u \in Tasks |-> IF u = t THEN clock ELSE IF u \in Held THEN place[u] ELSE None]
  /\ task' = [task EXCEPT ![t] = "admitted"] /\ asked' = [asked EXCEPT ![t] = clock]
  /\ UNCHANGED <<clock, owner, began>>

(* `start` says whose the task is, then the route sends it; either may fail, and   *)
(* the place is kept.                                                             *)
RememberOwner(t) == /\ task[t] = "admitted" /\ t \notin owner /\ owner' = owner \union {t}
                    /\ UNCHANGED <<clock, place, task, asked, began>>

SendTask(t) == /\ task[t] = "admitted" /\ t \in owner /\ task' = [task EXCEPT ![t] = "queued"]
               /\ UNCHANGED <<clock, place, owner, asked, began>>

NotSent(t) == /\ task[t] = "admitted" /\ task' = [task EXCEPT ![t] = "over"]
              /\ UNCHANGED <<clock, place, owner, asked, began>>

Begin(t) == /\ task[t] = "queued" /\ task' = [task EXCEPT ![t] = "running"]
            /\ began' = [began EXCEPT ![t] = clock]
            /\ UNCHANGED <<clock, place, owner, asked>>

End(t) == /\ task[t] = "running" /\ task' = [task EXCEPT ![t] = "ended"]
          /\ UNCHANGED <<clock, place, owner, asked, began>>

(* The worker's process is killed: no signal of the task's end is sent.           *)
Killed(t) == /\ task[t] = "running" /\ task' = [task EXCEPT ![t] = "over"]
             /\ UNCHANGED <<clock, place, owner, asked, began>>

(* `task_ended`, on task_postrun or task_revoked: nobody's place when the owner's  *)
(* key is gone, or when Valkey does not answer.                                   *)
GivenBack(t) == \/ place' = [place EXCEPT ![t] = IF t \in owner THEN None ELSE @]
                \/ UNCHANGED place

TaskEnded(t) ==
  /\ task[t] = "ended" /\ task' = [task EXCEPT ![t] = "over"]
  /\ GivenBack(t)
  /\ UNCHANGED <<clock, owner, asked, began>>

Revoked(t) ==
  /\ task[t] = "queued" /\ task' = [task EXCEPT ![t] = "over"]
  /\ GivenBack(t)
  /\ UNCHANGED <<clock, owner, asked, began>>

(* `send_file`'s cleanup, which may come before the worker's signal.              *)
Download(t) == /\ task[t] \in {"ended", "over"} /\ t \in owner /\ owner' = owner \ {t}
               /\ UNCHANGED <<clock, place, task, asked, began>>

(* Time passes: a task runs up to its limit, and waits as long as the queue takes. *)
Pass ==
  /\ clock < Horizon /\ clock' = clock + 1
  /\ \A t \in Tasks : task[t] = "running" => clock + 1 < began[t] + TaskLimit
  /\ UNCHANGED <<place, owner, task, asked, began>>

Next == Pass \/ \E t \in Tasks :
          \/ Admit(t) \/ RememberOwner(t) \/ SendTask(t) \/ NotSent(t) \/ Begin(t) \/ End(t)
          \/ Killed(t) \/ TaskEnded(t) \/ Revoked(t) \/ Download(t)

Spec == Init /\ [][Next]_vars
--------------------------------------------------------------------------------
(* A person never has more exports waiting and running than the cap, however     *)
(* their ends, the downloads and the places that end by themselves interleave,    *)
(* counting those whose wait for a worker is, or was, within what their place     *)
(* allows for.                                                                    *)
InTime(t) == IF task[t] = "running" THEN began[t] <= asked[t] + QueueWait ELSE clock <= asked[t] + QueueWait
CapHolds == Cardinality({t \in Unfinished : InTime(t)}) <= Cap


(* Why CapHolds does: the places held are within the cap, and each of those tasks  *)
(* still holds the place it took, since it has not run for longer than a task may. *)
Placed == \A t \in Unfinished : /\ InTime(t) => place[t] = asked[t]
                                /\ task[t] = "running" => clock < began[t] + TaskLimit

IInv == TypeOK /\ Placed /\ Cardinality(Held) <= Cap
================================================================================
