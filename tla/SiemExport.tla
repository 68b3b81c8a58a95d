------------------------------ MODULE SiemExport ------------------------------
(* The forwarding of the audit log to a SIEM (gateway: services/siem.py).  The    *)
(* audit table is the queue: the destination keeps the id of the last item        *)
(* delivered, every process runs one_round, an advisory lock lets one send at a   *)
(* time, and the cursor moves only when Splunk said yes.  An item's time is taken *)
(* by the process that writes it (services/audit.py), its id by the database when *)
(* it is inserted, and it is visible once committed; only items older than DELAY  *)
(* are sent.                                                                      *)
EXTENDS Naturals, FiniteSets, FiniteSetsExt
CONSTANTS Procs,         \* gateway processes that forward
          Items,         \* audit items that may be written
          Delay,         \* DELAY, in ticks
          Lag,           \* bound: from an item's time to its commit, below DELAY
          Batch,         \* BATCH: items per request
          InOrder,       \* whether ids are given in the order of the items' times
          MaxFaults      \* bound: crashes, refusals, lost answers

VARIABLES log,           \* audit_logs: each item's state, id and age
          dest,          \* siem_destinations: enabled, cursor_id, waiting for a retry
          sender,        \* who holds the lock, and what it is sending
          received,      \* items Splunk has
          first,         \* the cursor when the forwarding was first turned on
          faults

vars == <<log, dest, sender, received, first, faults>>

NoItem == [at |-> "none", id |-> 0, age |-> 0]
NoSender == [who |-> {}, batch |-> {}, answer |-> "none"]
Visible == {i \in Items : log[i].at = "in"}
LastId == Max({0} \union {log[i].id : i \in Visible})
NextId == 1 + Max({0} \union {log[i].id : i \in Items})

Init == /\ log = [i \in Items |-> NoItem]
        /\ dest = [enabled |-> FALSE, cursor |-> 0, waits |-> FALSE]
        /\ sender = NoSender
        /\ received = {}
        /\ first = 0
        /\ faults = 0

Fault == faults < MaxFaults /\ faults' = faults + 1

(* record_audit: the item's time is taken, ...                                   *)
Make(i) == /\ log[i].at = "none"
           /\ log' = [log EXCEPT ![i].at = "made"]
           /\ UNCHANGED <<dest, sender, received, first, faults>>

(* ... then the INSERT takes its id, ...                                         *)
Insert(i) == /\ log[i].at = "made"
             /\ InOrder => \A j \in Items : log[j].at = "made" => log[j].age <= log[i].age
             /\ log' = [log EXCEPT ![i] = [@ EXCEPT !.at = "inserted", !.id = NextId]]
             /\ UNCHANGED <<dest, sender, received, first, faults>>

(* ... and the commit shows it.                                                  *)
Commit(i) == /\ log[i].at = "inserted"
             /\ log' = [log EXCEPT ![i].at = "in"]
             /\ UNCHANGED <<dest, sender, received, first, faults>>

AnyAge(i) == TRUE
(* The query's condition on the time, so that an item not yet committed is not   *)
(* passed.                                                                       *)
OldEnough(i) == log[i].age >= Delay
Waiting == {i \in Visible : log[i].id > dest.cursor /\ OldEnough(i)}

(* _batch, cut by _within_the_cap: the first ones, at least one.                 *)
Batches == {B \in SUBSET Waiting : /\ B # {}
                                   /\ Cardinality(B) <= Batch
                                   /\ \A i \in Waiting \ B, b \in B : log[i].id > log[b].id}

(* one_round: under the lock, a batch is read and sent.                          *)
Send(p) == /\ sender = NoSender
           /\ dest.enabled
           /\ ~dest.waits
           /\ \E B \in Batches : sender' = [who |-> {p}, batch |-> B, answer |-> "none"]
           /\ UNCHANGED <<log, dest, received, first, faults>>

(* Splunk takes the batch; its answer arrives, or not.                           *)
Receive(answer) ==
    /\ sender # NoSender
    /\ sender.answer = "none"
    /\ IF answer = "yes" THEN UNCHANGED faults ELSE Fault
    /\ received' = IF answer = "refused" THEN received ELSE received \union sender.batch
    /\ sender' = [sender EXCEPT !.answer = IF answer = "yes" THEN "yes" ELSE "no"]
    /\ UNCHANGED <<log, dest, first>>

Unmoved(B) == dest.cursor
LastOf(B) == Max({log[i].id : i \in B})

(* The cursor and the lock go in one commit; a refusal puts the next attempt off. *)
Save == /\ sender.answer # "none"
        /\ dest' = IF sender.answer = "yes"
                   THEN [dest EXCEPT !.cursor = LastOf(sender.batch), !.waits = FALSE]
                   ELSE [dest EXCEPT !.waits = TRUE]
        /\ sender' = NoSender
        /\ UNCHANGED <<log, received, first, faults>>

(* The sender dies, or loses its connection and with it the lock: nothing saved. *)
Crash == /\ sender # NoSender
         /\ Fault
         /\ sender' = NoSender
         /\ UNCHANGED <<log, dest, received, first>>

(* The wait is over, or the administrator changed the destination.               *)
WaitOver == /\ dest.waits
            /\ dest' = [dest EXCEPT !.waits = FALSE]
            /\ UNCHANGED <<log, sender, received, first, faults>>

(* routes/siem.py write: turned on, the first time from now.                     *)
TurnOn == /\ ~dest.enabled
          /\ Visible # {}
          /\ dest' = [enabled |-> TRUE, waits |-> FALSE,
                      cursor |-> IF dest.cursor = 0 THEN LastId ELSE dest.cursor]
          /\ first' = IF dest.cursor = 0 THEN LastId ELSE first
          /\ UNCHANGED <<log, sender, received, faults>>

TurnOff == /\ dest.enabled
           /\ Fault
           /\ dest' = [dest EXCEPT !.enabled = FALSE]
           /\ UNCHANGED <<log, sender, received, first>>

(* The log's retention (audit_retention.py) deletes an old item.                  *)
Expire(i) == /\ log[i].at = "in"
             /\ OldEnough(i)
             /\ Fault
             /\ log' = [log EXCEPT ![i].at = "gone"]
             /\ UNCHANGED <<dest, sender, received, first>>

Pass == /\ \A i \in Items : log[i].at \in {"made", "inserted"} => log[i].age < Lag
        /\ \E i \in Items : log[i].at \in {"made", "inserted", "in"} /\ log[i].age < Delay
        /\ log' = [i \in Items |-> IF log[i].at \in {"made", "inserted", "in"} /\ log[i].age < Delay
                                   THEN [log[i] EXCEPT !.age = @ + 1] ELSE log[i]]
        /\ UNCHANGED <<dest, sender, received, first, faults>>

Next == \/ \E i \in Items : Make(i) \/ Insert(i) \/ Commit(i) \/ Expire(i)
        \/ \E p \in Procs : Send(p)
        \/ \E a \in {"yes", "refused", "lost"} : Receive(a)
        \/ Save \/ Crash \/ WaitOver \/ TurnOn \/ TurnOff \/ Pass
Spec == Init /\ [][Next]_vars

(* Items being written are committed, time passes, Splunk is up in the end       *)
(* (faults are bounded), and every process runs its round again (CYCLE).         *)
Fairness == /\ WF_vars(Pass) /\ WF_vars(WaitOver) /\ WF_vars(Receive("yes")) /\ WF_vars(Save)
            /\ WF_vars(\E p \in Procs : Send(p))
            /\ WF_vars(\E i \in Items : Insert(i)) /\ WF_vars(\E i \in Items : Commit(i))

------------------------------------------------------------------------------
Item == [at : {"none", "made", "inserted", "in", "gone"}, id : Nat, age : 0..Delay]
TypeOK == /\ log \in [Items -> Item]
          /\ dest \in [enabled : BOOLEAN, cursor : Nat, waits : BOOLEAN]
          /\ sender \in [who : SUBSET Procs, batch : SUBSET Items, answer : {"none", "yes", "no"}]
          /\ received \subseteq Items
          /\ first \in Nat
          /\ faults \in 0..MaxFaults

(* Nothing is skipped (docs/siem-splunk.md): every item between the forwarding's *)
(* start and the cursor is with Splunk, or its retention expired.  An item        *)
(* committed after the forwarding's start with an id below it is history.  The    *)
(* code keeps it where ids are given in the order of the times (InOrder).         *)
NothingSkipped ==
    \A i \in Items : /\ log[i].at \in {"inserted", "in"}
                     /\ log[i].id > first
                     /\ log[i].id <= dest.cursor
                     => i \in received

(* While the forwarding stays on, every item gets to Splunk, unless it expired:   *)
(* again and again none is still to be sent.                                     *)
EveryItemArrives ==
    []<>(dest.enabled => \A i \in Visible : log[i].id > first => i \in received)

ConstantsOK == /\ IsFiniteSet(Items)
               /\ Delay \in Nat /\ Lag \in Nat /\ Lag < Delay
               /\ MaxFaults \in Nat

(* An id is given by the insert; an item not made has no time.                   *)
IdsOfInserted == \A i \in Items : /\ log[i].at \in {"none", "made"} <=> log[i].id = 0
                                  /\ log[i].at = "none" => log[i].age = 0
(* No transaction is older than the bound on its life.                           *)
YoungWrites == \A i \in Items : log[i].at \in {"made", "inserted"} => log[i].age <= Lag
(* Where ids are given in the order of the times, an item with an id is not      *)
(* younger than one with a later id, or with none yet.                           *)
IdsInOrder == InOrder =>
    \A i, j \in Items : log[i].at \in {"inserted", "in"} =>
        /\ log[j].at = "made" => log[j].age <= log[i].age
        /\ log[j].at \in {"inserted", "in"} /\ log[i].id <= log[j].id => log[j].age <= log[i].age
(* The cursor is not past the ids given; who sends has one.                      *)
CursorIsGiven == /\ dest.cursor = 0 \/ \E i \in Items : dest.cursor <= log[i].id
                 /\ dest.enabled \/ sender # NoSender => dest.cursor > 0
(* What is sent is all there is from the cursor to its end, also what is          *)
(* committed meanwhile.                                                          *)
BatchIsWhole == InOrder /\ sender # NoSender =>
    /\ sender.batch # {} /\ \A b \in sender.batch : log[b].id > dest.cursor
    /\ \A i \in Items, b \in sender.batch :
           log[i].at \in {"inserted", "in"} /\ log[i].id > dest.cursor /\ log[i].id <= log[b].id => i \in sender.batch
(* Said to be received, it is.                                                   *)
YesIsReceived == /\ sender.answer = "yes" => sender.batch \subseteq received
                 /\ sender.answer # "none" => sender # NoSender
IInv == /\ TypeOK /\ IdsOfInserted /\ YoungWrites /\ IdsInOrder
        /\ CursorIsGiven /\ BatchIsWhole /\ YesIsReceived /\ NothingSkipped
==============================================================================
