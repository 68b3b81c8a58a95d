------------------------------ MODULE BlobGrace ------------------------------
(***************************************************************************)
(* The time a replaced blob is kept for the runs that were given its key:  *)
(* schedule_blob_deletion and sweep_blob_deletions                         *)
(* (gateway/app/services/blobgc.py), _reconcile (routes/runs.py).          *)
(*                                                                         *)
(* A run's key is read when it is launched; its task waits for a worker,   *)
(* then reads the blob as long as it runs.  A run is given up Stale after  *)
(* its launch while it waits, and Stale after its task was seen to have    *)
(* started from then on: nothing else bounds its wait, and a wait and a    *)
(* task may be longer together than the grace, counted from one launch.    *)
(* An instant is longer than a scheduler's tick.                           *)
(***************************************************************************)
EXTENDS Naturals

CONSTANTS
    Runs,       \* the runs that read the datasource
    Stale,      \* ENGINE__RUN_STALE_TIMEOUT_SECONDS
    Margin,     \* what the grace adds to it (600 seconds)
    TaskLimit,  \* CELERY__TASK_TIME_LIMIT: the engine kills a task that lasts longer
    Horizon,    \* the last instant (bound)
    Swaps       \* how many times the datasource gets new data (bound)

ASSUME ConstantsAssumption ==
    /\ Stale \in Nat /\ Margin \in Nat /\ TaskLimit \in Nat
    /\ Horizon \in Nat /\ Swaps \in Nat
    /\ TaskLimit <= Stale
    /\ Margin > 1

VARIABLES
    clock,
    key,      \* the datasource's blob
    marked,   \* pending_blob_deletions: when each marked blob may be deleted
    gone,     \* the blobs deleted
    run       \* the runs: what they read, and their times

vars == <<clock, key, marked, gone, run>>

Never   == Horizon + 1   \* a time that did not come: NULL
Blobs   == 0..Swaps
Times   == 0..Horizon
NoRun   == [at |-> "none", key |-> 0, launched |-> Never, began |-> Never, seen |-> Never]

\* Slip: the margin alone.
GraceOfMargin == Margin

Grace == Stale + Margin

Init == /\ clock = 0
        /\ key = 0
        /\ marked = {}
        /\ gone = {}
        /\ run = [r \in Runs |-> NoRun]

Going(r) == run[r].at \in {"waiting", "running"}

Launch(r) ==
    /\ run[r].at = "none"
    /\ run' = [run EXCEPT ![r] = [NoRun EXCEPT !.at = "waiting", !.key = key, !.launched = clock]]
    /\ UNCHANGED <<clock, key, marked, gone>>

\* A worker takes the task.
Begin(r) ==
    /\ run[r].at = "waiting"
    /\ run' = [run EXCEPT ![r].at = "running", ![r].began = clock]
    /\ UNCHANGED <<clock, key, marked, gone>>

\* It ends; at its limit the engine kills it.
End(r) ==
    /\ run[r].at = "running"
    /\ run' = [run EXCEPT ![r].at = "over"]
    /\ UNCHANGED <<clock, key, marked, gone>>

\* reconcile finds the task started.
SeeStarted(r) ==
    /\ run[r].at = "running" /\ run[r].seen = Never
    /\ run' = [run EXCEPT ![r].seen = clock]
    /\ UNCHANGED <<clock, key, marked, gone>>

\* The run's age: since its task was seen started, since its launch before.
Age(r) == clock - (IF run[r].seen # Never THEN run[r].seen ELSE run[r].launched)

\* reconcile revokes the task of a run that is too old.
GiveUp(r) ==
    /\ Going(r) /\ Age(r) > Stale
    /\ run' = [run EXCEPT ![r].at = "over"]
    /\ UNCHANGED <<clock, key, marked, gone>>

\* New data: the old blob is marked, in the same transaction.
Swap ==
    /\ key < Swaps
    /\ key' = key + 1
    /\ marked' = marked \union {[key |-> key, after |-> clock + Grace]}
    /\ UNCHANGED <<clock, gone, run>>

Sweep ==
    /\ \E m \in marked : /\ m.after <= clock
                         /\ gone' = gone \union {m.key}
                         /\ marked' = marked \ {m}
    /\ UNCHANGED <<clock, key, run>>

\* What happens within an instant of its time: the engine's kill, what a tick of the
\* scheduler finds.
Overdue(r) == \/ run[r].at = "running" /\ (run[r].seen = Never \/ clock >= run[r].began + TaskLimit)
              \/ Going(r) /\ Age(r) > Stale

Pass == /\ clock < Horizon
        /\ \A r \in Runs : ~Overdue(r)
        /\ clock' = clock + 1
        /\ UNCHANGED <<key, marked, gone, run>>

Next == \/ \E r \in Runs : Launch(r) \/ Begin(r) \/ End(r) \/ SeeStarted(r) \/ GiveUp(r)
        \/ Swap \/ Sweep \/ Pass

Spec == Init /\ [][Next]_vars

-----------------------------------------------------------------------------
\* The type invariant.
TypeOK ==
    /\ clock \in Times
    /\ key \in Blobs
    /\ marked \subseteq [key : Blobs, after : Nat]
    /\ gone \subseteq Blobs
    /\ run \in [Runs -> [at : {"none", "waiting", "running", "over"}, key : Blobs,
                         launched : Times \union {Never}, began : Times \union {Never},
                         seen : Times \union {Never}]]

(***************************************************************************)
(* A run that waits for a worker always finds the blob it was given the    *)
(* key of, however long it waits; one that runs does when its wait and the *)
(* longest task are shorter together than the grace.                       *)
(***************************************************************************)
BeganInTime(r) == run[r].began + TaskLimit < run[r].launched + Grace
InTime(r) == run[r].at = "waiting" \/ (run[r].at = "running" /\ BeganInTime(r))
RunsFindTheirBlob == \A r \in Runs : InTime(r) => run[r].key \notin gone

(***************************************************************************)
(* blobgc.py: "past this window no run reads the overtaken blob any more"; *)
(* docs/sources: "a grace period longer than any run".                     *)
(***************************************************************************)
GraceOutlivesRuns == \A r \in Runs : Going(r) => run[r].key \notin gone

-----------------------------------------------------------------------------
(***************************************************************************)
(* The invariant the theorem rests on: a run that waits is no older than   *)
(* what gives it up, one that runs no older than its task's limit, and a   *)
(* blob it was given is the present one, or was marked after its launch.   *)
(***************************************************************************)
Young(r) ==
    /\ Going(r) => run[r].launched \in Nat /\ run[r].launched <= clock /\ run[r].key <= key
    /\ run[r].at = "waiting" => run[r].seen = Never /\ clock <= run[r].launched + Stale + 1
    /\ run[r].at = "running" => run[r].began \in Nat /\ clock <= run[r].began + TaskLimit

Marked(r) == Going(r) => \A m \in marked : m.key = run[r].key => m.after >= run[r].launched + Grace
KeptFor(r) == InTime(r) => run[r].key \notin gone

MarkedIsOld == /\ \A m \in marked : m.key < key
               /\ \A b \in gone : b < key

IInv == TypeOK /\ MarkedIsOld /\ \A r \in Runs : Young(r) /\ Marked(r) /\ KeptFor(r)
=============================================================================
