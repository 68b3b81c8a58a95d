------------------------------ MODULE PreviewSlots -----------------------------
(* One slot of previews, where only the last request counts                       *)
(* (src/backend/app/api/preview_slots.py; on_preview_worker, api/routes/tasks.py):*)
(* a request takes the slot, sends its task, has the task of whom it took the     *)
(* slot from stopped, waits, and frees the slot while it is still its own.        *)
(* `Faults` bounds how often Valkey or the broker does not answer and how often a *)
(* request dies with its process: `stray` are the requests it happened to.        *)
EXTENDS Naturals

CONSTANTS Asks, Faults, None

ConstantsOK == Faults \in Nat /\ None \notin Asks

VARIABLES slot,                 \* who holds it in Valkey, or None
          at,                   \* by request: the call it is at
          previous,             \* by request: whom it took the slot from
          task,                 \* by request: its task
          revoked,              \* the tasks the workers were told to stop
          later,                \* by request: those that claimed after it (history)
          stray, faults

vars == <<slot, at, previous, task, revoked, later, stray, faults>>

Left == {"answered", "superseded", "timedOut"}

TypeOK ==
  /\ slot \in Asks \union {None} /\ previous \in [Asks -> Asks \union {None}]
  /\ at \in [Asks -> {"claim", "send", "revoke", "wait", "freed", "failed"} \union Left]
  /\ task \in [Asks -> {"none", "queued", "running", "ended", "stopped"}]
  /\ revoked \subseteq Asks /\ stray \subseteq Asks
  /\ later \in [Asks -> SUBSET Asks] /\ faults \in 0..Faults

Init ==
  /\ slot = None /\ previous = [r \in Asks |-> None]
  /\ at = [r \in Asks |-> "claim"] /\ task = [r \in Asks |-> "none"]
  /\ revoked = {} /\ stray = {} /\ later = [r \in Asks |-> {}] /\ faults = 0

Goto(r, s) == at' = [at EXCEPT ![r] = s]
Astray(r) == faults < Faults /\ faults' = faults + 1 /\ stray' = stray \union {r}
Well == UNCHANGED <<stray, faults>>

(* Slip: whoever had the slot, nobody too.                                        *)
StopWhoever(r) == /\ revoked' = revoked \union {r}
                  /\ task' = [q \in Asks |-> IF q = r /\ task[q] = "running" THEN "stopped" ELSE task[q]]

(* A task is revoked: stopped where it runs, discarded when it gets to a worker.  *)
Stop(r) == /\ revoked' = revoked \union ({r} \ {None})
           /\ task' = [q \in Asks |-> IF q = r /\ task[q] = "running" THEN "stopped" ELSE task[q]]
--------------------------------------------------------------------------------
(* `claim`, a SET that returns who was there; when it fails it may have been done,*)
(* and the request goes on as if nobody was.                                      *)
Claim(r) ==
  /\ at[r] = "claim" /\ Goto(r, "send")
  /\ \/ slot' = r /\ previous' = [previous EXCEPT ![r] = slot] /\ Well
     \/ Astray(r) /\ slot' \in {slot, r} /\ UNCHANGED previous
  /\ later' = [q \in Asks |-> IF at[q] = "claim" THEN {} ELSE later[q] \union {r}]
  /\ UNCHANGED <<task, revoked>>

(* The task is sent; what fails here is outside the `try` that frees the slot.    *)
Send(r) ==
  /\ at[r] = "send"
  /\ \/ Goto(r, "revoke") /\ task' = [task EXCEPT ![r] = "queued"] /\ Well
     \/ Astray(r) /\ Goto(r, "failed") /\ UNCHANGED task
  /\ UNCHANGED <<slot, previous, revoked, later>>

Revoke(r) ==
  /\ at[r] = "revoke"
  /\ \/ Goto(r, "wait") /\ Stop(previous[r]) /\ Well
     \/ Astray(r) /\ Goto(r, "failed") /\ UNCHANGED <<task, revoked>>
  /\ UNCHANGED <<slot, previous, later>>

(* A worker discards a revoked task on arrival.                                   *)
Begin(r) ==
  /\ task[r] = "queued"
  /\ task' = [task EXCEPT ![r] = IF r \in revoked THEN "stopped" ELSE "running"]
  /\ UNCHANGED <<slot, at, previous, revoked, later, stray, faults>>

End(r) == /\ task[r] = "running" /\ task' = [task EXCEPT ![r] = "ended"]
          /\ UNCHANGED <<slot, at, previous, revoked, later, stray, faults>>

(* The wait: the result, else a look at the slot, else the deadline.              *)
Answered(r) == /\ at[r] = "wait" /\ task[r] \in {"ended", "stopped"}
               /\ Goto(r, IF task[r] = "ended" THEN "answered" ELSE "superseded")
               /\ UNCHANGED <<slot, previous, task, revoked, later, stray, faults>>

Superseded(r) == /\ at[r] = "wait" /\ task[r] \in {"queued", "running"}
                 /\ slot \notin {None, r} /\ Goto(r, "superseded")
                 /\ UNCHANGED <<slot, previous, task, revoked, later, stray, faults>>

TimedOut(r) == /\ at[r] = "wait" /\ task[r] \in {"queued", "running"}
               /\ slot \in {None, r} /\ Goto(r, "timedOut") /\ Stop(r)
               /\ UNCHANGED <<slot, previous, later, stray, faults>>

(* Slip: the slot is freed whoever has it.                                        *)
FreedOutright(r) == None

(* `release`: compare and delete; its failure is swallowed.                       *)
Freed(r) == IF slot = r THEN None ELSE slot

Free(r) ==
  /\ at[r] \in Left /\ Goto(r, "freed")
  /\ \/ slot' = Freed(r) /\ Well
     \/ Astray(r) /\ UNCHANGED slot
  /\ UNCHANGED <<previous, task, revoked, later>>

Die(r) == /\ at[r] \in {"send", "revoke", "wait"} \union Left
          /\ Astray(r) /\ Goto(r, "failed")
          /\ UNCHANGED <<slot, previous, task, revoked, later>>

(* The key lasts longer than the wait: it ends by itself only after its holder.   *)
Expire == /\ slot # None /\ at[slot] \in {"freed", "failed"} /\ slot' = None
          /\ UNCHANGED <<at, previous, task, revoked, later, stray, faults>>

Next == Expire \/ \E r \in Asks :
          \/ Claim(r) \/ Send(r) \/ Revoke(r) \/ Begin(r) \/ End(r)
          \/ Answered(r) \/ Superseded(r) \/ TimedOut(r) \/ Free(r) \/ Die(r)

Spec == Init /\ [][Next]_vars
--------------------------------------------------------------------------------
(* A request is told it was superseded, and its task is stopped, only when another*)
(* claimed the slot after it, or its own claim was not answered.                  *)
NewestIsHeard ==
  \A r \in Asks : /\ at[r] = "superseded" => later[r] # {} \/ r \in stray
                  /\ r \in revoked => later[r] # {} \/ at[r] \in {"timedOut", "freed", "failed"}

(* Once a request has begun to wait, the tasks of all those before it are over or *)
(* told to stop: but for those it happened something to, and for those a request  *)
(* in between took the slot from and has not stopped yet, or never will.          *)
OlderAreStopped ==
  \A q, r \in Asks :
    (at[r] = "wait" /\ r \in later[q] /\ task[q] \in {"queued", "running"} /\ q \notin revoked)
      => \/ q \in stray
         \/ \E s \in later[q] : /\ s = r \/ r \in later[s]
                                /\ s \in stray \/ at[s] \in {"send", "revoke"}

(* The two together: in a slot the requests give way to those after them.          *)
OnlyTheNewest == NewestIsHeard /\ OlderAreStopped
(* Why.  Who claims is later than all those that claimed; a slot is held by the    *)
(* last that claimed, but for those something happened to, and let go of only when *)
(* its holder's task is over or stopped; so the next to claim takes it from there, *)
(* and stops the task before it waits.                                             *)
Over(q) == task[q] \in {"ended", "stopped"} \/ q \in revoked

Claimed ==
  /\ slot # None => at[slot] # "claim"
  /\ \A r \in Asks : /\ at[r] = "claim" => later[r] = {} /\ r \notin revoked
                     /\ at[r] \in {"claim", "send"} => task[r] = "none"
                     /\ previous[r] # None => r \in later[previous[r]]
                     /\ \A q \in Asks : r \in later[q] => at[r] # "claim"

LeftRightly ==
  \A r \in Asks : /\ at[r] = "answered" => task[r] = "ended"
                  /\ at[r] = "timedOut" \/ task[r] = "stopped" => r \in revoked
                  /\ at[r] = "failed" => r \in stray
                  /\ at[r] = "freed" => Over(r) \/ later[r] # {} \/ r \in stray

HeldByTheLast ==
  \A q \in Asks : at[q] # "claim" /\ q \notin stray =>
                   /\ slot \notin {None, q} => slot \in later[q]
                   /\ later[q] = {} => slot = q \/ Over(q)

TakenThenStopped ==
  \A s \in Asks : previous[s] # None =>
                   at[s] \in {"send", "revoke"} \/ s \in stray \/ previous[s] \in revoked

NextTookIt ==
  \A q, r \in Asks : (r \in later[q] /\ q \notin stray /\ ~Over(q)) =>
      \E s \in later[q] : (s = r \/ r \in later[s]) /\ (s \in stray \/ previous[s] = q)

IInv == /\ TypeOK /\ Claimed /\ LeftRightly /\ HeldByTheLast /\ TakenThenStopped /\ NextTookIt
        /\ NewestIsHeard
================================================================================
