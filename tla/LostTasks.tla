------------------------------- MODULE LostTasks -------------------------------
(* Telling that the worker of a task the result backend says STARTED is gone      *)
(* (src/backend/app/tasks/worker_pool.py).  The worker's main process writes its  *)
(* state in Valkey, with an expiry, from its consumer's step and, when that has   *)
(* stopped, from a thread; a look at a task that does not find it marks the task  *)
(* suspect, and says LOST when it is still missing some time after.  One worker   *)
(* of one name, whose container may start again, and one task; at most `Blips`    *)
(* times Valkey loses everything, or is out of the worker's reach for at most     *)
(* `Cut` ticks.                                                                   *)
EXTENDS Naturals

CONSTANTS TTL, TICK, CONFIRM,   \* TTL, TICK and CONFIRM_SECONDS
          Blips, Cut, Horizon, None

(* The worker's turns come before a suspicion ends and its state expires, and it   *)
(* is out of reach at most once, and not for so long that both pass.              *)
TimesAssumption ==
  /\ TTL \in Nat /\ TICK \in Nat \ {0} /\ CONFIRM \in Nat /\ Cut \in Nat
  /\ TICK < CONFIRM /\ TICK < TTL /\ Cut + TICK + TICK < TTL + CONFIRM
  /\ Blips \in {0, 1} /\ None \notin Nat \union [started : Nat, until : Nat]

VARIABLES clock,
          worker,               \* "up", "draining" or "down"
          started,              \* when the worker that is up started
          wrote,                \* when it last wrote, or started
          key,                  \* its state in Valkey, [started, until], or None
          task,                 \* "none", "started", "orphan" or "over"
          since,                \* the task's meta: when it began
          suspect,              \* when a look first missed the worker, or None
          told,                 \* the task was said LOST
          cut,                  \* since when Valkey is out of the worker's reach, or None
          blips

vars == <<clock, worker, started, wrote, key, task, since, suspect, told, cut, blips>>
faults == <<cut, blips>>

TypeOK ==
  /\ clock \in Nat /\ worker \in {"up", "draining", "down"}
  /\ started \in Nat /\ wrote \in Nat /\ since \in Nat
  /\ key \in [started : Nat, until : Nat] \union {None}
  /\ task \in {"none", "started", "orphan", "over"}
  /\ suspect \in Nat \union {None} /\ told \in BOOLEAN
  /\ cut \in Nat \union {None} /\ blips \in 0..Blips

Init ==
  /\ clock = 0 /\ worker = "up" /\ started = 0 /\ wrote = 0
  /\ key = [started |-> 0, until |-> TTL]
  /\ task = "none" /\ since = 0 /\ suspect = None /\ told = FALSE
  /\ cut = None /\ blips = 0

Running == worker \in {"up", "draining"}
State == [started |-> started, until |-> clock + TTL]
Seen == IF key = None THEN None ELSE IF key.until <= clock THEN None ELSE key
--------------------------------------------------------------------------------
(* `report` while the consumer runs, `keep_alive` for as long as the process does.*)
Beat == /\ Running /\ wrote' = clock /\ key' = (IF cut = None THEN State ELSE key)
        /\ UNCHANGED <<clock, worker, started, task, since, suspect, told, faults>>

(* A warm shutdown: `draining` writes the state, the tasks go on.                 *)
Drain == /\ worker = "up" /\ worker' = "draining"
         /\ key' = (IF cut = None THEN State ELSE key)
         /\ UNCHANGED <<clock, started, wrote, task, since, suspect, told, faults>>

(* The process exits once its tasks are over, and its state is forgotten.         *)
Exit == /\ worker = "draining" /\ task # "started" /\ worker' = "down"
        /\ key' = (IF cut = None THEN None ELSE key)
        /\ UNCHANGED <<clock, started, wrote, task, since, suspect, told, faults>>

(* SIGKILL, OOM, the node lost: the tasks' meta stays STARTED.                    *)
Kill == /\ Running /\ worker' = "down"
        /\ task' = (IF task = "started" THEN "orphan" ELSE task)
        /\ UNCHANGED <<clock, started, wrote, key, since, suspect, told, faults>>

(* The container starts again, under the same name: `report` at once.             *)
Restart == /\ worker = "down" /\ worker' = "up" /\ started' = clock /\ wrote' = clock
           /\ key' = (IF cut = None THEN [started |-> clock, until |-> clock + TTL] ELSE key)
           /\ UNCHANGED <<clock, task, since, suspect, told, faults>>

(* A task comes from the same Valkey, and its STARTED is written there.           *)
TaskBegins == /\ worker = "up" /\ cut = None /\ task = "none" /\ task' = "started" /\ since' = clock
              /\ UNCHANGED <<clock, worker, started, wrote, key, suspect, told, faults>>

TaskEnds == /\ task = "started" /\ task' = "over"
            /\ UNCHANGED <<clock, worker, started, wrote, key, since, suspect, told, faults>>

(* Slip: one look is enough.                                                      *)
AtOnce == TRUE

(* `lost`: a look at the task, by whoever waits for it or asks of it.             *)
First == IF suspect = None THEN clock ELSE suspect
Confirmed == clock >= First + CONFIRM

Look ==
  /\ task \in {"started", "orphan"} /\ ~told
  /\ IF Seen # None
     THEN suspect' = None /\ told' = (Seen.started > since)
     ELSE suspect' = First /\ told' = Confirmed
  /\ UNCHANGED <<clock, worker, started, wrote, key, task, since, faults>>
--------------------------------------------------------------------------------
Blip == blips < Blips /\ blips' = blips + 1

Wipe == /\ Blip /\ key' = None /\ suspect' = None
        /\ UNCHANGED <<clock, worker, started, wrote, task, since, told, cut>>

CutOff == /\ Blip /\ cut = None /\ cut' = clock
          /\ UNCHANGED <<clock, worker, started, wrote, key, task, since, suspect, told>>

Back == /\ cut # None /\ cut' = None
        /\ UNCHANGED <<clock, worker, started, wrote, key, task, since, suspect, told, blips>>

(* A live worker writes at least every TICK.                                      *)
Pass == /\ clock < Horizon /\ clock' = clock + 1
        /\ Running => clock < wrote + TICK
        /\ cut # None => clock < cut + Cut
        /\ UNCHANGED <<worker, started, wrote, key, task, since, suspect, told, faults>>

Next == \/ Beat \/ Drain \/ Exit \/ Kill \/ Restart \/ TaskBegins \/ TaskEnds \/ Look
        \/ Wipe \/ CutOff \/ Back \/ Pass

Spec == Init /\ [][Next]_vars
--------------------------------------------------------------------------------
(* A task is said LOST only when the worker that ran it is gone: neither Valkey    *)
(* losing everything, nor being out of the worker's reach once, nor a warm        *)
(* shutdown, nor the same worker started again before the task began makes a live  *)
(* task look lost, wherever the looks fall.                                       *)
LostIsGone == told => task # "started"

(* Why: a worker that is up wrote at most a TICK ago; until the blip its state is  *)
(* there.  After it the state is there again, or it is not yet since the suspicion*)
(* began too late to be confirmed before the worker writes; while Valkey is out of*)
(* reach the state lasts on, and a suspicion begins only after it.                *)
Punctual ==
  /\ started <= clock /\ wrote <= clock /\ since <= clock
  /\ Running => clock <= wrote + TICK
  /\ cut # None => cut <= clock /\ clock <= cut + Cut
  /\ key # None => key.started <= started
  /\ task = "none" => suspect = None /\ ~told
  /\ task = "started" => Running /\ started <= since

WellKept == key # None /\ key.until >= wrote + TTL
Whole == blips = 0 => /\ cut = None
                      /\ Running => WellKept
                      /\ task = "started" => suspect = None
Mended == (task = "started" /\ blips > 0 /\ cut = None) =>
            \/ WellKept \/ suspect = None \/ wrote + TICK < suspect + CONFIRM
Lasts == (task = "started" /\ cut # None) =>
            /\ key # None /\ key.until + TICK >= cut + TTL
            /\ suspect # None => suspect + TICK >= cut + TTL

IInv == TypeOK /\ Punctual /\ Whole /\ Mended /\ Lasts /\ LostIsGone
================================================================================
