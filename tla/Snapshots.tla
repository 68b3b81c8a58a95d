------------------------------ MODULE Snapshots ------------------------------
(***************************************************************************)
(* How a run that succeeded becomes the data of a datasource: the closing  *)
(* transactions of _reconcile, _finalize_ingest and _publish_datasource    *)
(* (gateway/app/routes/runs.py), the deletion of a datasource or of a      *)
(* folder meanwhile, and the storage's blobs, deleted later by the         *)
(* scheduler's sweep.                                                      *)
(*                                                                         *)
(* Any gateway process and any orchestrator may reconcile the same run.    *)
(* What a transaction reads is a step, what it writes and its commit are   *)
(* another (READ COMMITTED); the rows it locked meanwhile are locked.      *)
(***************************************************************************)
EXTENDS Naturals

CONSTANTS
    N,          \* how many runs are ever launched (bound)
    Publishes,  \* the runs that publish a flow's output; the others refresh
    Overwrites, \* those of them that overwrite a datasource of that name
    Procs,      \* the processes that reconcile
    Edits       \* what users do meanwhile: "delete", "rename", "removeFolder"

ConstantsOK == N \in Nat /\ Publishes \subseteq 1..N

VARIABLES
    run,      \* the status of each run, whose output is the blob of its number
    ds,       \* the rows of the datasources
    folder,   \* the folder published to is there
    tx,       \* the closing transaction of each process
    del,      \* a request deleting a datasource
    pending,  \* pending_blob_deletions
    gone      \* the blobs deleted

vars == <<run, ds, folder, tx, del, pending, gone>>

RunIds == 1..N
Blobs  == 0..N       \* 0: the imported file
\* A datasource is named after the run that created it; 0 is the one refreshed.
Ids    == 0..N
Absent == N + 1      \* no row found

NoRow == [state |-> "none", name |-> "none", key |-> 0, snap |-> 0]
NoRows == [d \in Ids |-> NoRow]
NoTx  == [at |-> "idle", run |-> 0, found |-> Absent, key |-> 0, snap |-> 0]
NoDel == [id |-> Absent, key |-> 0]

Live(d) == ds[d].state = "live"

Init == /\ run = [r \in RunIds |-> "none"]
        /\ ds = [NoRows EXCEPT ![0].state = "live", ![0].name = "elsewhere"]
        /\ folder = TRUE
        /\ tx = [p \in Procs |-> NoTx]
        /\ del = NoDel
        /\ pending = {}
        /\ gone = {}

\* The datasources that have the name published (at most one: the unique constraint).
Named == {d \in Ids : Live(d) /\ ds[d].name = "shared"}

\* The row locks of transactions under way.
LockedRun(r) == \E p \in Procs : tx[p].at # "idle" /\ tx[p].run = r
LockedDs(d)  == \E p \in Procs : tx[p].at = "found" /\ tx[p].found = d /\ tx[p].run \notin Publishes

(***************************************************************************)
(* A run is launched, and its task succeeds at some time.  Refreshes of a  *)
(* datasource wait in line; publishes are only refused when the name is    *)
(* taken as they are launched.                                             *)
(***************************************************************************)
Launch(r) ==
    /\ run[r] = "none" /\ \A q \in RunIds : q < r => run[q] # "none"
    /\ IF r \in Publishes
       THEN /\ folder
            /\ \A d \in Named : r \in Overwrites /\ d # 0
       ELSE /\ Live(0)
            /\ \A q \in RunIds \ Publishes : run[q] # "going"
    /\ run' = [run EXCEPT ![r] = "going"]
    /\ UNCHANGED <<ds, folder, tx, del, pending, gone>>

(***************************************************************************)
(* The transaction that closes a run.                                      *)
(***************************************************************************)
\* The condition of the claim's UPDATE.
Closable(r) == run[r] \in {"going", "unpublished"}

Claim(p, r) ==
    /\ tx[p].at = "idle"
    /\ Closable(r) /\ ~LockedRun(r)
    /\ tx' = [tx EXCEPT ![p] = [NoTx EXCEPT !.at = "claimed", !.run = r]]
    /\ UNCHANGED <<run, ds, folder, del, pending, gone>>

Found(p, d) ==
    tx' = [tx EXCEPT ![p].at = "found", ![p].found = d,
                     ![p].key = IF d = Absent THEN 0 ELSE ds[d].key,
                     ![p].snap = IF d = Absent THEN 0 ELSE ds[d].snap]

\* _finalize_ingest reads its datasource FOR UPDATE.
FindLocked(p) ==
    /\ tx[p].at = "claimed" /\ tx[p].run \notin Publishes
    /\ ~LockedDs(0)
    /\ Found(p, IF Live(0) THEN 0 ELSE Absent)
    /\ UNCHANGED <<run, ds, folder, del, pending, gone>>

\* _publish_datasource reads the one to overwrite, without a lock.
FindByName(p) ==
    /\ tx[p].at = "claimed" /\ tx[p].run \in Publishes
    /\ LET mine == IF tx[p].run \in Overwrites THEN Named \ {0} ELSE {}
       IN IF mine = {} THEN Found(p, Absent) ELSE \E d \in mine : Found(p, d)
    /\ UNCHANGED <<run, ds, folder, del, pending, gone>>

\* The run closed, and the blobs no longer needed marked, with the transaction.
Commit(p, status, obsolete) ==
    /\ run' = [run EXCEPT ![tx[p].run] = status]
    /\ pending' = pending \union obsolete
    /\ tx' = [tx EXCEPT ![p] = NoTx]
    /\ UNCHANGED <<folder, del, gone>>

\* Slip: whoever finishes last wins.
NeverOvertaken(p) == FALSE

\* The datasource has the snapshot of a later run already.
Overtaken(p) == tx[p].found # Absent /\ tx[p].run < tx[p].snap

\* Slip: the output of an overtaken run forgotten.
OvertakenForgetting(p) ==
    /\ tx[p].at = "found" /\ Overtaken(p)
    /\ Commit(p, "SUCCESS", {})
    /\ UNCHANGED ds

CommitOvertaken(p) ==
    /\ tx[p].at = "found" /\ Overtaken(p)
    /\ Commit(p, "SUCCESS", {tx[p].run})
    /\ UNCHANGED ds

\* The datasource pointed at the run's blob; the one it had, as it was read, is obsolete.
\* One deleted since it was read fails the transaction (Abort).
CommitSwap(p) ==
    LET d == tx[p].found
    IN /\ tx[p].at = "found" /\ d # Absent /\ ~Overtaken(p)
       /\ Live(d)
       /\ Commit(p, "SUCCESS", {tx[p].key} \ {tx[p].run})
       /\ ds' = [ds EXCEPT ![d].key = tx[p].run, ![d].snap = tx[p].run]

\* The datasource refreshed is gone.
CommitGone(p) ==
    /\ tx[p].at = "found" /\ tx[p].run \notin Publishes /\ tx[p].found = Absent
    /\ Commit(p, "SUCCESS", {tx[p].run})
    /\ UNCHANGED ds

\* Slip: the name asked for, whether or not it is taken.
CreateAsAsked(p) ==
    LET r == tx[p].run
    IN /\ tx[p].at = "found" /\ r \in Publishes /\ tx[p].found = Absent
       /\ Commit(p, "SUCCESS", {})
       /\ ds' = [ds EXCEPT ![r] = [state |-> "live", key |-> r, snap |-> r, name |-> "shared"]]

\* A datasource created, under a name of its own when the one asked for is taken.
CommitCreate(p) ==
    LET r == tx[p].run
    IN /\ tx[p].at = "found" /\ r \in Publishes /\ tx[p].found = Absent
       /\ folder
       /\ Commit(p, "SUCCESS", {})
       /\ ds' = [ds EXCEPT ![r] = [state |-> "live", key |-> r, snap |-> r,
                                   name |-> IF Named = {} THEN "shared" ELSE "own"]]

\* The session holds the run as it was before its folder was deleted: the INSERT
\* is rejected under either name, and the blob is not published.
CommitRejected(p) ==
    /\ tx[p].at = "found" /\ tx[p].run \in Publishes /\ tx[p].found = Absent
    /\ ~folder
    /\ Commit(p, "SUCCESS", {tx[p].run})
    /\ UNCHANGED ds

\* The folder was deleted before: the run no longer says where to publish.
CommitUnpublished(p) ==
    /\ tx[p].at = "claimed" /\ run[tx[p].run] = "unpublished"
    /\ Commit(p, "SUCCESS", {})
    /\ UNCHANGED ds

\* The data contract refuses the data.
Refuse(p) ==
    /\ tx[p].at = "claimed"
    /\ Commit(p, "FAILURE", {tx[p].run})
    /\ UNCHANGED ds

\* Slip: the blob marked in a transaction of its own.
AbortHalfDone(p) ==
    /\ tx[p].at # "idle"
    /\ tx' = [tx EXCEPT ![p] = NoTx]
    /\ pending' = IF tx[p].at = "found" /\ tx[p].found # Absent
                  THEN pending \union {tx[p].key} ELSE pending
    /\ UNCHANGED <<run, ds, folder, del, gone>>

\* The transaction fails, or its process dies: nothing of it stays, and the run is
\* reconciled again.
Abort(p) ==
    /\ tx[p].at # "idle"
    /\ tx' = [tx EXCEPT ![p] = NoTx]
    /\ UNCHANGED <<run, ds, folder, del, pending, gone>>

(***************************************************************************)
(* What users delete.                                                      *)
(***************************************************************************)
\* The datasource is read and its uses are looked for.
DeleteBegin(d) ==
    /\ "delete" \in Edits
    /\ del = NoDel /\ Live(d)
    /\ del' = [id |-> d, key |-> ds[d].key]
    /\ UNCHANGED <<run, ds, folder, tx, pending, gone>>

\* One transaction, which waits for the closing of its runs; the blob marked is the
\* one that was read.
DeleteCommit ==
    LET d == del.id
    IN /\ d # Absent
       /\ ~LockedDs(d)
       /\ d = 0 => \A r \in RunIds \ Publishes : ~LockedRun(r)
       /\ ds' = [ds EXCEPT ![d].state = "gone"]
       /\ pending' = IF Live(d) THEN pending \union {del.key} ELSE pending
       /\ del' = NoDel
       /\ UNCHANGED <<run, folder, tx, gone>>

\* The imported datasource moved to where flows publish, under the name of one.
Rename == /\ "rename" \in Edits
          /\ folder /\ Live(0) /\ ds[0].name = "elsewhere" /\ Named = {}
          /\ ~LockedDs(0)
          /\ ds' = [ds EXCEPT ![0].name = "shared"]
          /\ UNCHANGED <<run, folder, tx, del, pending, gone>>

\* An empty folder; the runs that publish to it lose the destination.
DeleteFolder ==
    /\ "removeFolder" \in Edits
    /\ folder
    /\ \A d \in Ids : Live(d) => ds[d].name = "elsewhere"
    /\ \A r \in Publishes : ~LockedRun(r)
    /\ folder' = FALSE
    /\ run' = [r \in RunIds |-> IF r \in Publishes /\ run[r] = "going" THEN "unpublished" ELSE run[r]]
    /\ UNCHANGED <<ds, tx, del, pending, gone>>

\* The sweep: the object is deleted first, its row as soon as it is gone.
Sweep(b) ==
    /\ b \in pending
    /\ gone' = gone \union {b}
    /\ pending' \in {pending, pending \ {b}}
    /\ UNCHANGED <<run, ds, folder, tx, del>>

Close(p) == \/ CommitOvertaken(p) \/ CommitSwap(p) \/ CommitGone(p) \/ CommitCreate(p)
            \/ CommitRejected(p) \/ CommitUnpublished(p) \/ Refuse(p)

Next == \/ \E r \in RunIds : Launch(r)
        \/ \E p \in Procs : \/ \E r \in RunIds : Claim(p, r)
                            \/ FindLocked(p) \/ FindByName(p) \/ Close(p) \/ Abort(p)
        \/ \E d \in Ids : DeleteBegin(d)
        \/ DeleteCommit \/ Rename \/ DeleteFolder
        \/ \E b \in Blobs : Sweep(b)

Spec == Init /\ [][Next]_vars

-----------------------------------------------------------------------------
\* The type invariant; the names are unique.
TypeOK ==
    /\ run \in [RunIds -> {"none", "going", "unpublished", "SUCCESS", "FAILURE"}]
    /\ ds \in [Ids -> [state : {"none", "live", "gone"},
                       name : {"none", "shared", "own", "elsewhere"}, key : Blobs, snap : 0..N]]
    /\ folder \in BOOLEAN
    /\ tx \in [Procs -> [at : {"idle", "claimed", "found"}, run : 0..N,
                         found : Ids \union {Absent}, key : Blobs, snap : 0..N]]
    /\ del \in [id : Ids \union {Absent}, key : Blobs]
    /\ \A d, e \in Named : d = e
    /\ pending \subseteq Blobs /\ gone \subseteq Blobs

(***************************************************************************)
(* The blob a datasource points at is never deleted, nor about to be,      *)
(* whatever was overtaken, retried or deleted around it                    *)
(* (schedule_blob_deletion, in the transaction that makes it obsolete).    *)
(***************************************************************************)
InUseStays == \A d \in Ids : Live(d) => ds[d].key \notin pending \union gone

(***************************************************************************)
(* Another publish was committed on a datasource since a transaction read  *)
(* its name without locking it, or since a request to delete it read it.   *)
(***************************************************************************)
ReadStale(d)   == d # 0 /\ \E p \in Procs : tx[p].found = d /\ tx[p].key # ds[d].key
DeleteStale(d) == del.id = d /\ del.key # ds[d].key

(***************************************************************************)
(* Who was launched later wins: the data of a run never replaces those of  *)
(* a later one, in whatever order they finish and are closed, but by a     *)
(* publish that read the datasource before the last one was committed      *)
(* (the check of _finalize_ingest and _publish_datasource).                *)
(***************************************************************************)
LaterStep == \A d \in Ids : Live(d) /\ Live(d)' => ds'[d].snap >= ds[d].snap \/ ReadStale(d)

LaterWins == [][LaterStep]_vars

(***************************************************************************)
(* The same without exception, as the docs have it.                        *)
(***************************************************************************)
LaterAlwaysWins == [][\A d \in Ids : Live(d) /\ Live(d)' => ds'[d].snap >= ds[d].snap]_vars

(***************************************************************************)
(* No blob is lost: in the step that takes a blob from its datasource it   *)
(* is marked for deletion, unless what was read is stale; and in the step  *)
(* that closes a run, its output becomes the data of a datasource or is    *)
(* marked, unless the folder it was to be published in is gone             *)
(* (schedule_blob_deletion).                                               *)
(***************************************************************************)
LetGo(d) == Live(d) /\ ~(Live(d)' /\ ds'[d].key = ds[d].key)

Ends(r) == run[r] = "going" /\ run'[r] \in {"SUCCESS", "FAILURE"}

MarkedStep ==
    /\ \A d \in Ids : LetGo(d) => ds[d].key \in pending' \/ ReadStale(d) \/ DeleteStale(d)
    /\ \A r \in RunIds : Ends(r) => r \in pending' \/ \E d \in Ids : Live(d)' /\ ds'[d].key = r

NoBlobLost == [][MarkedStep]_vars
(***************************************************************************)
(* Why.  A run is closed once, by the transaction that holds it; so the    *)
(* blob it commits is nobody's yet, no two datasources ever share one, and *)
(* what a transaction or a request read is, or was, of that datasource     *)
(* only.  The datasource refreshed is locked while it is read and written. *)
(***************************************************************************)
Exists(d)  == ds[d].state # "none"
Settled(b) == b = 0 \/ (b # 0 /\ run[b] = "SUCCESS")
Alone(d, b) == \A e \in Ids \ {d} : Exists(e) => ds[e].key # b

OwnBlobs ==
    \A d \in Ids : Exists(d) => Settled(d) /\ Settled(ds[d].key) /\ Alone(d, ds[d].key)

ClosedOnce ==
    \A p \in Procs : tx[p].at # "idle" =>
        /\ tx[p].run \in RunIds /\ Closable(tx[p].run)
        /\ \A q \in Procs \ {p} : tx[q].at # "idle" => tx[q].run # tx[p].run

FoundItsOwn ==
    \A p \in Procs :
        /\ tx[p].at # "found" => tx[p].found = Absent
        /\ tx[p].found # Absent =>
              LET d == tx[p].found
              IN /\ Exists(d) /\ Settled(tx[p].key) /\ Alone(d, tx[p].key)
                 /\ tx[p].key = ds[d].key => tx[p].snap = ds[d].snap
                 /\ d = 0 <=> tx[p].run \notin Publishes
                 /\ d = 0 => /\ tx[p].key = ds[0].key
                             /\ \A q \in Procs \ {p} : tx[q].found # 0

DeletesItsOwn ==
    del.id # Absent => Exists(del.id) /\ Settled(del.key) /\ Alone(del.id, del.key)

MarkedIsClosed ==
    \A b \in pending \union gone : b # 0 => run[b] \in {"SUCCESS", "FAILURE"}

IInv == /\ TypeOK /\ OwnBlobs /\ ClosedOnce /\ FoundItsOwn /\ DeletesItsOwn /\ MarkedIsClosed
        /\ InUseStays
=============================================================================
