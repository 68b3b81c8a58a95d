----------------------------- MODULE StorageProofs -----------------------------
(* What the storage's parts promise, for any runs, processes and times: the grace  *)
(* of a replaced blob (BlobGrace), and the transactions that make a run's output a *)
(* datasource's data (Snapshots), proved of the instance MCStorage has of it and   *)
(* then of the behaviours of MCStorage.                                            *)
EXTENDS MCStorage, TLAPS

\* The initial state satisfies the invariant.
LEMMA InitIInv == Init => IInv
<1> SUFFICES ASSUME Init PROVE IInv
  OBVIOUS
<1>1. TypeOK
  BY ConstantsAssumption DEF Init, TypeOK, Times, Blobs, NoRun, Never
<1>2. MarkedIsOld
  BY DEF Init, MarkedIsOld
<1>3. ASSUME NEW r \in Runs PROVE Young(r) /\ Marked(r) /\ KeptFor(r)
  BY <1>3 DEF Init, Young, Marked, KeptFor, InTime, Going, NoRun
<1> QED
  BY <1>1, <1>2, <1>3 DEF IInv

\* Every step keeps the types.
LEMMA StepTypes == TypeOK /\ [Next]_vars => TypeOK'
<1> SUFFICES ASSUME TypeOK, [Next]_vars PROVE TypeOK'
  OBVIOUS
<1> USE ConstantsAssumption DEF TypeOK, Times, Blobs, Never
<1>1. ASSUME NEW r \in Runs, Launch(r) PROVE TypeOK'
  BY <1>1 DEF Launch, NoRun
<1>2. ASSUME NEW r \in Runs, Begin(r) PROVE TypeOK'
  BY <1>2, ZenonT(60) DEF Begin
<1>3. ASSUME NEW r \in Runs, End(r) PROVE TypeOK'
  BY <1>3 DEF End
<1>4. ASSUME NEW r \in Runs, SeeStarted(r) PROVE TypeOK'
  BY <1>4 DEF SeeStarted
<1>5. ASSUME NEW r \in Runs, GiveUp(r) PROVE TypeOK'
  BY <1>5 DEF GiveUp
<1>6. ASSUME Swap PROVE TypeOK'
  BY <1>6 DEF Swap, Grace
<1>7. ASSUME Sweep PROVE TypeOK'
  BY <1>7 DEF Sweep
<1>8. ASSUME Pass PROVE TypeOK'
  BY <1>8 DEF Pass
<1>9. ASSUME UNCHANGED vars PROVE TypeOK'
  BY <1>9 DEF vars
<1> QED
  BY <1>1, <1>2, <1>3, <1>4, <1>5, <1>6, <1>7, <1>8, <1>9 DEF Next

\* What is marked or deleted is no longer the datasource's.
LEMMA StepOld == TypeOK /\ MarkedIsOld /\ [Next]_vars => MarkedIsOld'
<1> SUFFICES ASSUME TypeOK, MarkedIsOld, [Next]_vars PROVE MarkedIsOld'
  OBVIOUS
<1> USE ConstantsAssumption DEF MarkedIsOld
<1>1. CASE Swap
  BY <1>1 DEF Swap, TypeOK, Blobs
<1>2. CASE Sweep
  BY <1>2 DEF Sweep
<1>3. CASE UNCHANGED <<key, marked, gone>>
  BY <1>3
<1> QED
  BY <1>1, <1>2, <1>3 DEF Next, Launch, Begin, End, SeeStarted, GiveUp, Pass, vars

\* A run stays as young as what gives it up and what kills it leave it.
LEMMA StepYoung ==
  ASSUME NEW r \in Runs, TypeOK, Young(r), [Next]_vars
  PROVE  Young(r)'
<1> USE ConstantsAssumption
<1>1. ASSUME NEW q \in Runs, Launch(q) PROVE Young(r)'
  BY <1>1 DEF Launch, NoRun, Young, Going, TypeOK, Times, Blobs
<1>2. ASSUME NEW q \in Runs, Begin(q) PROVE Young(r)'
  BY <1>2 DEF Begin, Young, Going, TypeOK, Times
<1>3. ASSUME NEW q \in Runs, End(q) PROVE Young(r)'
  BY <1>3 DEF End, Young, Going, TypeOK, Times
<1>4. ASSUME NEW q \in Runs, SeeStarted(q) PROVE Young(r)'
  BY <1>4 DEF SeeStarted, Young, Going, TypeOK, Times
<1>5. ASSUME NEW q \in Runs, GiveUp(q) PROVE Young(r)'
  BY <1>5 DEF GiveUp, Young, Going, TypeOK, Times
<1>6. CASE Pass
  BY <1>6 DEF Pass, Overdue, Age, Young, Going, TypeOK, Times
<1>7. CASE Swap
  BY <1>7 DEF Swap, Young, Going, TypeOK, Times, Blobs
<1>8. CASE UNCHANGED <<clock, key, run>>
  BY <1>8 DEF Young, Going
<1> QED
  BY <1>1, <1>2, <1>3, <1>4, <1>5, <1>6, <1>7, <1>8 DEF Next, Sweep, vars

\* The blob of a run is marked after its launch.
LEMMA StepMarked ==
  ASSUME NEW r \in Runs, TypeOK, MarkedIsOld, Young(r), Marked(r), [Next]_vars
  PROVE  Marked(r)'
<1> USE ConstantsAssumption
<1>1. ASSUME NEW q \in Runs, Launch(q) PROVE Marked(r)'
  <2>1. CASE q = r
    BY <1>1, <2>1 DEF Launch, NoRun, Marked, Going, TypeOK, Times, MarkedIsOld, Blobs
  <2>2. CASE q # r
    BY <1>1, <2>2 DEF Launch, Marked, Going, TypeOK
  <2> QED
    BY <2>1, <2>2
<1>2. ASSUME NEW q \in Runs, Begin(q) \/ End(q) \/ SeeStarted(q) \/ GiveUp(q) PROVE Marked(r)'
  BY <1>2 DEF Begin, End, SeeStarted, GiveUp, Marked, Going, TypeOK
<1>3. ASSUME Swap, Going(r) PROVE Marked(r)'
  <2>1. run[r].launched <= clock /\ run[r].launched \in Nat /\ clock \in Nat
    BY <1>3 DEF Young, Going, TypeOK, Times
  <2>2. Grace \in Nat
    BY DEF Grace
  <2>3. clock + Grace >= run[r].launched + Grace
    BY <2>1, <2>2
  <2> HIDE DEF Grace
  <2> QED
    BY <1>3, <2>3 DEF Swap, Marked, Going
<1>4. CASE Sweep
  BY <1>4 DEF Sweep, Marked, Going
<1>5. CASE UNCHANGED <<marked, run>>
  BY <1>5 DEF Marked, Going
<1>6. ASSUME Swap, ~Going(r) PROVE Marked(r)'
  BY <1>6 DEF Swap, Marked, Going
<1> QED
  BY <1>1, <1>2, <1>3, <1>4, <1>5, <1>6 DEF Next, Pass, vars

\* In time, a run is younger than the grace.
LEMMA YoungerThanGrace ==
  ASSUME NEW r \in Runs, TypeOK, Young(r), InTime(r)
  PROVE  Going(r) /\ clock < run[r].launched + Grace
<1> USE ConstantsAssumption
<1>1. CASE run[r].at = "waiting"
  BY <1>1 DEF Going, Young, TypeOK, Times, Grace
<1>2. CASE run[r].at = "running" /\ BeganInTime(r)
  BY <1>2 DEF Going, Young, BeganInTime, TypeOK, Times, Grace
<1> QED
  BY <1>1, <1>2 DEF InTime

\* A blob a run was given is kept for it as long as it is in time.
LEMMA StepKept ==
  ASSUME NEW r \in Runs, TypeOK, MarkedIsOld, Young(r), Marked(r), KeptFor(r), [Next]_vars
  PROVE  KeptFor(r)'
<1> USE ConstantsAssumption
<1>1. ASSUME NEW q \in Runs, Launch(q) PROVE KeptFor(r)'
  <2>1. CASE q = r
    BY <1>1, <2>1 DEF Launch, NoRun, KeptFor, TypeOK, Times, MarkedIsOld, Blobs
  <2>2. CASE q # r
    BY <1>1, <2>2 DEF Launch, KeptFor, InTime, BeganInTime, TypeOK
  <2> QED
    BY <2>1, <2>2
<1>2. ASSUME NEW q \in Runs, Begin(q) PROVE KeptFor(r)'
  BY <1>2 DEF Begin, KeptFor, InTime, BeganInTime, TypeOK
<1>3. ASSUME NEW q \in Runs, End(q) \/ SeeStarted(q) \/ GiveUp(q) PROVE KeptFor(r)'
  BY <1>3 DEF End, SeeStarted, GiveUp, KeptFor, InTime, BeganInTime, TypeOK
<1>4. ASSUME Sweep, InTime(r) PROVE KeptFor(r)'
  <2>1. Going(r) /\ clock < run[r].launched + Grace
    BY <1>4, YoungerThanGrace
  <2>2. \A m \in marked : m.after <= clock => m.key # run[r].key
    <3> SUFFICES ASSUME NEW m \in marked, m.after <= clock, m.key = run[r].key PROVE FALSE
      OBVIOUS
    <3>1. m.after >= run[r].launched + Grace
      BY <2>1 DEF Marked
    <3>2. m.after \in Nat /\ clock \in Nat
      BY DEF TypeOK, Times
    <3>3. run[r].launched + Grace \in Nat
      BY <2>1 DEF Young, Grace
    <3> QED
      BY <2>1, <3>1, <3>2, <3>3
  <2> QED
    BY <1>4, <2>2 DEF Sweep, KeptFor
<1>5. ASSUME Sweep, ~InTime(r) PROVE KeptFor(r)'
  BY <1>5 DEF Sweep, KeptFor, InTime, BeganInTime
<1>6. CASE UNCHANGED <<gone, run>>
  BY <1>6 DEF KeptFor, InTime, BeganInTime
<1> QED
  BY <1>1, <1>2, <1>3, <1>4, <1>5, <1>6 DEF Next, Swap, Pass, vars

(***************************************************************************)
(* A run that waits for a worker finds the blob it was given the key of,   *)
(* and so does one that runs when its wait and the longest task together   *)
(* are shorter than the grace (schedule_blob_deletion), for any runs, any  *)
(* changes and any times, the margin longer than an instant and the stale  *)
(* timeout no shorter than the task's limit.                               *)
(***************************************************************************)
THEOREM GraceKeeps == Spec => []RunsFindTheirBlob
<1>1. IInv /\ [Next]_vars => IInv'
  <2> SUFFICES ASSUME IInv, [Next]_vars PROVE IInv'
    OBVIOUS
  <2>1. TypeOK'
    BY StepTypes DEF IInv
  <2>2. MarkedIsOld'
    BY StepOld DEF IInv
  <2>3. ASSUME NEW r \in Runs PROVE Young(r)' /\ Marked(r)' /\ KeptFor(r)'
    BY StepYoung, StepMarked, StepKept DEF IInv
  <2> QED
    BY <2>1, <2>2, <2>3 DEF IInv
<1>2. IInv => RunsFindTheirBlob
  BY DEF IInv, KeptFor, RunsFindTheirBlob
<1> QED
  BY <1>1, <1>2, InitIInv, PTL DEF Spec
--------------------------------------------------------------------------------
(* Snapshots                                                                      *)

TxType == [at : {"idle", "claimed", "found"}, run : 0..N, found : S!Ids \union {S!Absent},
           key : S!Blobs, snap : 0..N]
RowType == [state : {"none", "live", "gone"}, name : {"none", "shared", "own", "elsewhere"},
            key : S!Blobs, snap : 0..N]
OneName == \A d, e \in S!Named : d = e

(* The types, apart.                                                              *)
LEMMA TypesApart ==
  S!TypeOK <=> /\ sRun \in [S!RunIds -> {"none", "going", "unpublished", "SUCCESS", "FAILURE"}]
               /\ ds \in [S!Ids -> RowType] /\ folder \in BOOLEAN /\ tx \in [Procs -> TxType]
               /\ del \in [id : S!Ids \union {S!Absent}, key : S!Blobs]
               /\ OneName
               /\ pending \subseteq S!Blobs /\ sGone \subseteq S!Blobs
BY DEF S!TypeOK, TxType, RowType, OneName

(* What a transaction holds once it found its datasource.                         *)
LEMMA FoundTx ==
  ASSUME S!ConstantsOK, S!TypeOK, NEW p \in Procs, NEW d \in S!Ids \union {S!Absent}, S!Found(p, d)
  PROVE  /\ tx' \in [Procs -> TxType] /\ \A q \in Procs \ {p} : tx'[q] = tx[q]
         /\ tx'[p].at = "found" /\ tx'[p].found = d /\ tx'[p].run = tx[p].run
         /\ d # S!Absent => tx'[p].key = ds[d].key /\ tx'[p].snap = ds[d].snap
<1>1. tx \in [Procs -> TxType] /\ tx[p] \in TxType
  BY TypesApart
<1>2. d # S!Absent => ds[d].key \in S!Blobs /\ ds[d].snap \in 0..N
  BY TypesApart DEF RowType
<1>3. 0 \in S!Blobs /\ 0 \in 0..N
  BY DEF S!ConstantsOK, S!Blobs
<1> DEFINE K == IF d = S!Absent THEN 0 ELSE ds[d].key
           Z == IF d = S!Absent THEN 0 ELSE ds[d].snap
           new == [tx[p] EXCEPT !.at = "found", !.found = d, !.key = K, !.snap = Z]
<1>4. tx' = [tx EXCEPT ![p] = new]
  BY <1>1 DEF S!Found, TxType
<1>5. new \in TxType /\ new.at = "found" /\ new.found = d /\ new.run = tx[p].run /\ new.key = K /\ new.snap = Z
  <2>1. K \in S!Blobs /\ Z \in 0..N
    BY <1>2, <1>3
  <2> HIDE DEF K, Z
  <2> QED BY <1>1, <2>1 DEF TxType
<1> HIDE DEF new
<1> QED BY <1>1, <1>4, <1>5

(* What committing does: the run of the transaction is closed, and nothing else    *)
(* happens to the runs and to the other transactions.                             *)
LEMMA Committed ==
  ASSUME S!ConstantsOK, S!TypeOK, NEW p \in Procs, NEW status \in {"SUCCESS", "FAILURE"}, NEW obsolete,
         S!Commit(p, status, obsolete)
  PROVE  /\ sRun' \in [S!RunIds -> {"none", "going", "unpublished", "SUCCESS", "FAILURE"}]
         /\ \A r \in S!RunIds : sRun'[r] = IF r = tx[p].run THEN status ELSE sRun[r]
         /\ tx' \in [Procs -> TxType] /\ \A q \in Procs \ {p} : tx'[q] = tx[q]
         /\ tx'[p].at = "idle" /\ tx'[p].found = S!Absent
<1>1. S!NoTx \in TxType
  BY DEF S!ConstantsOK, S!NoTx, TxType, S!Ids, S!Absent, S!Blobs
<1>2. sRun' = [sRun EXCEPT ![tx[p].run] = status]
  BY DEF S!Commit
<1>3. sRun \in [S!RunIds -> {"none", "going", "unpublished", "SUCCESS", "FAILURE"}]
  BY TypesApart
<1>4. tx \in [Procs -> TxType] /\ tx' = [tx EXCEPT ![p] = S!NoTx]
  BY TypesApart DEF S!Commit
<1> QED BY <1>1, <1>2, <1>3, <1>4 DEF S!NoTx

(* A closing that leaves the datasources alone.                                   *)
QuietClose(p) ==
  /\ tx[p].at # "idle" /\ ds' = ds
  /\ \E status \in {"SUCCESS", "FAILURE"} : \E obsolete \in SUBSET {tx[p].run} : S!Commit(p, status, obsolete)

LEMMA Closings ==
  ASSUME NEW p \in Procs, S!Close(p) PROVE QuietClose(p) \/ S!CommitSwap(p) \/ S!CommitCreate(p)
<1>1. CASE S!CommitOvertaken(p) BY <1>1 DEF S!CommitOvertaken, QuietClose
<1>2. CASE S!CommitGone(p) BY <1>2 DEF S!CommitGone, QuietClose
<1>3. CASE S!CommitRejected(p) BY <1>3 DEF S!CommitRejected, QuietClose
<1>4. CASE S!CommitUnpublished(p) BY <1>4 DEF S!CommitUnpublished, QuietClose
<1>5. CASE S!Refuse(p) BY <1>5 DEF S!Refuse, QuietClose
<1> QED BY <1>1, <1>2, <1>3, <1>4, <1>5 DEF S!Close

(* The steps, closings in three kinds.                                            *)
LEMMA Steps ==
  ASSUME [S!Next]_(S!vars)
  PROVE  \/ UNCHANGED S!vars \/ S!DeleteCommit \/ S!Rename \/ S!DeleteFolder
         \/ \E r \in S!RunIds : S!Launch(r)
         \/ \E p \in Procs : \E r \in S!RunIds : S!Claim(p, r)
         \/ \E p \in Procs : S!FindLocked(p)
         \/ \E p \in Procs : S!FindByName(p)
         \/ \E p \in Procs : QuietClose(p)
         \/ \E p \in Procs : S!CommitSwap(p)
         \/ \E p \in Procs : S!CommitCreate(p)
         \/ \E p \in Procs : S!Abort(p)
         \/ \E d \in S!Ids : S!DeleteBegin(d)
         \/ \E b \in S!Blobs : S!Sweep(b)
BY Closings DEF S!Next

(* What becomes of the runs, of the transactions and of the datasources in a step. *)
RunsKept ==
  /\ sRun' \in [S!RunIds -> {"none", "going", "unpublished", "SUCCESS", "FAILURE"}]
  /\ \A r \in S!RunIds :
        /\ sRun[r] \in {"SUCCESS", "FAILURE"} => sRun'[r] = sRun[r]
        /\ S!Closable(r) /\ ~S!Closable(r)' =>
              \E p \in Procs : tx[p].at # "idle" /\ tx[p].run = r /\ tx'[p].at = "idle"

Claiming(p) ==
  /\ tx'[p].at = "claimed" /\ tx'[p].found = S!Absent /\ tx'[p].run \in S!RunIds
  /\ S!Closable(tx'[p].run) /\ sRun' = sRun
  /\ \A q \in Procs : tx[q].at # "idle" => tx[q].run # tx'[p].run
  /\ \A q \in Procs \ {p} : tx'[q] = tx[q]

Finding(p) ==
  /\ tx[p].at = "claimed" /\ tx'[p].at = "found" /\ tx'[p].run = tx[p].run /\ ds' = ds /\ sRun' = sRun
  /\ tx'[p].found # S!Absent =>
        /\ tx'[p].found \in S!Ids /\ S!Live(tx'[p].found)
        /\ tx'[p].key = ds[tx'[p].found].key /\ tx'[p].snap = ds[tx'[p].found].snap
        /\ tx'[p].found = 0 <=> tx[p].run \notin Publishes
        /\ tx'[p].found = 0 => \A q \in Procs : tx[q].found # 0
  /\ \A q \in Procs \ {p} : tx'[q] = tx[q]

TxKept ==
  /\ tx' \in [Procs -> TxType]
  /\ \A p \in Procs : \/ tx'[p] = tx[p]
                      \/ tx'[p].at = "idle" /\ tx'[p].found = S!Absent
                      \/ Claiming(p) \/ Finding(p)

SameRow(d) == /\ S!Exists(d)' <=> S!Exists(d)
              /\ S!Live(d)' => S!Live(d)
              /\ ds'[d].key = ds[d].key /\ ds'[d].snap = ds[d].snap

Rekeyed(p, d) ==
  /\ tx[p].at = "found" /\ tx'[p].at = "idle"
  /\ tx[p].run \in S!RunIds /\ S!Closable(tx[p].run) /\ sRun'[tx[p].run] = "SUCCESS"
  /\ ds'[d].key = tx[p].run /\ ds'[d].snap = tx[p].run /\ S!Exists(d)'
  /\ \/ tx[p].found = d /\ d # S!Absent /\ S!Exists(d) /\ tx[p].run >= tx[p].snap
     \/ tx[p].run = d /\ d # 0 /\ ~S!Exists(d)

RowsKept ==
  /\ ds' \in [S!Ids -> RowType]
  /\ \/ \A d \in S!Ids : SameRow(d)
     \/ \E p \in Procs : \E c \in S!Ids : Rekeyed(p, c) /\ \A d \in S!Ids \ {c} : SameRow(d)

(* The runs keep their type, and one that is closed stays so; one that may be closed*)
(* may be closed still, or was closed by the transaction that held it.            *)
LEMMA RunsStay ==
  ASSUME S!ConstantsOK, S!IInv, [S!Next]_(S!vars)
  PROVE  RunsKept
<1> USE DEF RunsKept
<1>1. CASE UNCHANGED S!vars
  BY <1>1, TypesApart DEF S!vars, S!IInv, S!Closable
<1>2. CASE S!DeleteCommit
  BY <1>2, TypesApart DEF S!DeleteCommit, S!IInv, S!Closable
<1>3. CASE S!Rename
  BY <1>3, TypesApart DEF S!Rename, S!IInv, S!Closable
<1>4. CASE S!DeleteFolder
  BY <1>4, TypesApart DEF S!DeleteFolder, S!IInv, S!Closable
<1>5. ASSUME NEW r \in S!RunIds, S!Launch(r) PROVE RunsKept
  BY <1>5, TypesApart DEF S!Launch, S!IInv, S!Closable
<1>6. ASSUME NEW p \in Procs, NEW r \in S!RunIds, S!Claim(p, r) PROVE RunsKept
  BY <1>6, TypesApart DEF S!Claim, S!IInv, S!Closable
<1>7. ASSUME NEW p \in Procs, S!FindLocked(p) PROVE RunsKept
  BY <1>7, TypesApart DEF S!FindLocked, S!IInv, S!Closable
<1>8. ASSUME NEW p \in Procs, S!FindByName(p) PROVE RunsKept
  BY <1>8, TypesApart DEF S!FindByName, S!IInv, S!Closable
<1>9. ASSUME NEW p \in Procs, QuietClose(p) PROVE RunsKept
  <2>1. PICK status \in {"SUCCESS", "FAILURE"} : \E obsolete \in SUBSET {tx[p].run} : S!Commit(p, status, obsolete)
    BY <1>9 DEF QuietClose
  <2> QED BY <1>9, <2>1, Committed DEF S!IInv, S!ClosedOnce, S!Closable, QuietClose
<1>10. ASSUME NEW p \in Procs, S!CommitSwap(p) PROVE RunsKept
  <2>1. S!Commit(p, "SUCCESS", {tx[p].key} \ {tx[p].run}) /\ tx[p].at # "idle"
    BY <1>10 DEF S!CommitSwap
  <2> QED BY <2>1, Committed DEF S!IInv, S!ClosedOnce, S!Closable
<1>11. ASSUME NEW p \in Procs, S!CommitCreate(p) PROVE RunsKept
  <2>1. S!Commit(p, "SUCCESS", {}) /\ tx[p].at # "idle"
    BY <1>11 DEF S!CommitCreate
  <2> QED BY <2>1, Committed DEF S!IInv, S!ClosedOnce, S!Closable
<1>12. ASSUME NEW p \in Procs, S!Abort(p) PROVE RunsKept
  BY <1>12, TypesApart DEF S!Abort, S!IInv, S!Closable
<1>13. ASSUME NEW d \in S!Ids, S!DeleteBegin(d) PROVE RunsKept
  BY <1>13, TypesApart DEF S!DeleteBegin, S!IInv, S!Closable
<1>14. ASSUME NEW b \in S!Blobs, S!Sweep(b) PROVE RunsKept
  BY <1>14, TypesApart DEF S!Sweep, S!IInv, S!Closable
<1> QED BY Steps, <1>1, <1>2, <1>3, <1>4, <1>5, <1>6, <1>7, <1>8, <1>9, <1>10, <1>11, <1>12, <1>13, <1>14

(* What a step does to a transaction.                                             *)
LEMMA TxStep ==
  ASSUME S!ConstantsOK, S!IInv, [S!Next]_(S!vars)
  PROVE  TxKept
<1> USE DEF TxKept
<1>1. CASE UNCHANGED S!vars
  BY <1>1, TypesApart DEF S!vars, S!IInv
<1>2. CASE S!DeleteCommit
  BY <1>2, TypesApart DEF S!DeleteCommit, S!IInv
<1>3. CASE S!Rename
  BY <1>3, TypesApart DEF S!Rename, S!IInv
<1>4. CASE S!DeleteFolder
  BY <1>4, TypesApart DEF S!DeleteFolder, S!IInv
<1>5. ASSUME NEW r \in S!RunIds, S!Launch(r) PROVE TxKept
  BY <1>5, TypesApart DEF S!Launch, S!IInv
<1>6. ASSUME NEW p \in Procs, NEW r \in S!RunIds, S!Claim(p, r) PROVE TxKept
  <2> DEFINE new == [S!NoTx EXCEPT !.at = "claimed", !.run = r]
  <2>0. r \in 0..N /\ S!NoTx \in TxType /\ S!NoTx.found = S!Absent
    BY DEF S!ConstantsOK, S!NoTx, TxType, S!Ids, S!Absent, S!Blobs, S!RunIds
  <2>1. new \in TxType /\ new.at = "claimed" /\ new.run = r /\ new.found = S!Absent
    BY <2>0 DEF TxType
  <2>2. tx \in [Procs -> TxType] /\ tx' = [tx EXCEPT ![p] = new]
    BY <1>6, TypesApart DEF S!Claim, S!IInv
  <2>3. S!Closable(r) /\ sRun' = sRun /\ \A q \in Procs : tx[q].at # "idle" => tx[q].run # r
    BY <1>6 DEF S!Claim, S!LockedRun
  <2> HIDE DEF new
  <2>4. tx' \in [Procs -> TxType] /\ tx'[p] = new /\ \A q \in Procs \ {p} : tx'[q] = tx[q]
    BY <2>1, <2>2
  <2>5. Claiming(p)
    BY <2>1, <2>3, <2>4 DEF Claiming
  <2> QED BY <2>4, <2>5
<1>7. ASSUME NEW p \in Procs, S!FindLocked(p) PROVE TxKept
  <2> DEFINE d == IF S!Live(0) THEN 0 ELSE S!Absent
  <2>1. tx[p].at = "claimed" /\ tx[p].run \notin Publishes /\ S!Found(p, d) /\ ds' = ds /\ sRun' = sRun
    BY <1>7 DEF S!FindLocked
  <2>2. d \in S!Ids \union {S!Absent} /\ (d # S!Absent => d = 0 /\ S!Live(d) /\ d \in S!Ids)
    BY DEF S!ConstantsOK, S!Ids
  <2>3. \A q \in Procs : tx[q].found # 0
    <3> SUFFICES ASSUME NEW q \in Procs, tx[q].found = 0 PROVE FALSE
      OBVIOUS
    <3>1. tx[q].found # S!Absent
      BY DEF S!ConstantsOK, S!Absent
    <3>2. tx[q].at = "found" /\ tx[q].run \notin Publishes
      BY <3>1 DEF S!IInv, S!FoundItsOwn
    <3> QED BY <1>7, <3>2 DEF S!FindLocked, S!LockedDs
  <2> HIDE DEF d
  <2>4. Finding(p)
    BY <2>1, <2>2, <2>3, FoundTx DEF Finding, S!IInv
  <2> QED BY <2>1, <2>2, <2>4, FoundTx DEF S!IInv
<1>8. ASSUME NEW p \in Procs, S!FindByName(p) PROVE TxKept
  <2>1. PICK d \in S!Ids \union {S!Absent} : S!Found(p, d) /\ (d # S!Absent => d # 0 /\ S!Live(d) /\ d \in S!Ids)
    BY <1>8 DEF S!FindByName, S!Named
  <2>2. tx[p].at = "claimed" /\ tx[p].run \in Publishes /\ ds' = ds /\ sRun' = sRun
    BY <1>8 DEF S!FindByName
  <2>3. Finding(p)
    BY <2>1, <2>2, FoundTx DEF Finding, S!IInv
  <2> QED BY <2>1, <2>3, FoundTx DEF S!IInv
<1>9. ASSUME NEW p \in Procs, QuietClose(p) PROVE TxKept
  <2>1. PICK status \in {"SUCCESS", "FAILURE"} : \E obsolete \in SUBSET {tx[p].run} : S!Commit(p, status, obsolete)
    BY <1>9 DEF QuietClose
  <2> QED BY <2>1, Committed DEF S!IInv
<1>10. ASSUME NEW p \in Procs, S!CommitSwap(p) PROVE TxKept
  <2>1. S!Commit(p, "SUCCESS", {tx[p].key} \ {tx[p].run})
    BY <1>10 DEF S!CommitSwap
  <2> QED BY <2>1, Committed DEF S!IInv
<1>11. ASSUME NEW p \in Procs, S!CommitCreate(p) PROVE TxKept
  <2>1. S!Commit(p, "SUCCESS", {})
    BY <1>11 DEF S!CommitCreate
  <2> QED BY <2>1, Committed DEF S!IInv
<1>12. ASSUME NEW p \in Procs, S!Abort(p) PROVE TxKept
  <2>1. S!NoTx \in TxType /\ S!NoTx.at = "idle" /\ S!NoTx.found = S!Absent
    BY DEF S!ConstantsOK, S!NoTx, TxType, S!Ids, S!Absent, S!Blobs
  <2>2. tx \in [Procs -> TxType] /\ tx' = [tx EXCEPT ![p] = S!NoTx]
    BY <1>12, TypesApart DEF S!Abort, S!IInv
  <2> QED BY <2>1, <2>2
<1>13. ASSUME NEW d \in S!Ids, S!DeleteBegin(d) PROVE TxKept
  BY <1>13, TypesApart DEF S!DeleteBegin, S!IInv
<1>14. ASSUME NEW b \in S!Blobs, S!Sweep(b) PROVE TxKept
  BY <1>14, TypesApart DEF S!Sweep, S!IInv
<1> QED BY Steps, <1>1, <1>2, <1>3, <1>4, <1>5, <1>6, <1>7, <1>8, <1>9, <1>10, <1>11, <1>12, <1>13, <1>14

(* What a step does to the datasources.                                           *)
LEMMA RowStep ==
  ASSUME S!ConstantsOK, S!IInv, [S!Next]_(S!vars)
  PROVE  RowsKept
<1>1. CASE UNCHANGED S!vars
  BY <1>1, TypesApart DEF RowsKept, SameRow, S!vars, S!IInv, S!Exists, S!Live
<1>2. CASE S!DeleteCommit
  <2> DEFINE d == del.id
  <2>1. d \in S!Ids /\ S!Exists(d)
    BY <1>2, TypesApart DEF S!DeleteCommit, S!IInv, S!DeletesItsOwn
  <2>2. ds' = [ds EXCEPT ![d].state = "gone"] /\ ds \in [S!Ids -> RowType]
    BY <1>2, TypesApart DEF S!DeleteCommit, S!IInv
  <2> HIDE DEF d
  <2>3. ds' \in [S!Ids -> RowType] /\ \A c \in S!Ids : SameRow(c)
    BY <2>1, <2>2 DEF RowType, SameRow, S!Exists, S!Live
  <2> QED BY <2>3 DEF RowsKept
<1>3. CASE S!Rename
  <2>1. ds' = [ds EXCEPT ![0].name = "shared"] /\ ds \in [S!Ids -> RowType] /\ 0 \in S!Ids
    BY <1>3, TypesApart DEF S!Rename, S!IInv, S!Ids, S!ConstantsOK
  <2>2. ds' \in [S!Ids -> RowType] /\ \A c \in S!Ids : SameRow(c)
    BY <2>1 DEF RowType, SameRow, S!Exists, S!Live
  <2> QED BY <2>2 DEF RowsKept
<1>4. CASE S!DeleteFolder
  BY <1>4, TypesApart DEF RowsKept, SameRow, S!DeleteFolder, S!IInv, S!Exists, S!Live
<1>5. ASSUME NEW r \in S!RunIds, S!Launch(r) PROVE RowsKept
  BY <1>5, TypesApart DEF RowsKept, SameRow, S!Launch, S!IInv, S!Exists, S!Live
<1>6. ASSUME NEW p \in Procs, NEW r \in S!RunIds, S!Claim(p, r) PROVE RowsKept
  BY <1>6, TypesApart DEF RowsKept, SameRow, S!Claim, S!IInv, S!Exists, S!Live
<1>7. ASSUME NEW p \in Procs, S!FindLocked(p) PROVE RowsKept
  BY <1>7, TypesApart DEF RowsKept, SameRow, S!FindLocked, S!IInv, S!Exists, S!Live
<1>8. ASSUME NEW p \in Procs, S!FindByName(p) PROVE RowsKept
  BY <1>8, TypesApart DEF RowsKept, SameRow, S!FindByName, S!IInv, S!Exists, S!Live
<1>9. ASSUME NEW p \in Procs, QuietClose(p) PROVE RowsKept
  BY <1>9, TypesApart DEF RowsKept, SameRow, QuietClose, S!IInv, S!Exists, S!Live
<1>10. ASSUME NEW p \in Procs, S!CommitSwap(p) PROVE RowsKept
  <2>0. tx[p].found \in S!Ids /\ tx[p].at = "found" /\ ~S!Overtaken(p) /\ tx[p].run \in S!RunIds
    BY <1>10, TypesApart DEF S!CommitSwap, S!IInv, S!ClosedOnce, TxType
  <2>1. PICK c \in S!Ids, k \in S!RunIds : c = tx[p].found /\ k = tx[p].run
    BY <2>0
  <2>2. /\ ds' = [ds EXCEPT ![c].key = k, ![c].snap = k] /\ ds \in [S!Ids -> RowType]
        /\ S!Live(c) /\ c # S!Absent
    BY <1>10, <2>1, TypesApart DEF S!CommitSwap, S!IInv
  <2>3. S!Closable(k) /\ sRun'[k] = "SUCCESS" /\ tx'[p].at = "idle"
    BY <1>10, <2>0, <2>1, Committed DEF S!CommitSwap, S!IInv, S!ClosedOnce
  <2>4. k \in S!Blobs /\ k \in 0..N
    BY <2>1 DEF S!ConstantsOK, S!RunIds, S!Blobs
  <2>5. k >= tx[p].snap
    BY <2>0, <2>1, <2>2, TypesApart DEF S!Overtaken, S!IInv, TxType, S!RunIds, S!ConstantsOK
  <2>6. /\ ds' \in [S!Ids -> RowType] /\ \A d \in S!Ids \ {c} : SameRow(d)
        /\ ds'[c].key = k /\ ds'[c].snap = k /\ S!Exists(c)' /\ S!Exists(c)
    BY <2>2, <2>4, ZenonT(60) DEF RowType, SameRow, S!Exists, S!Live
  <2>7. Rekeyed(p, c)
    BY <2>0, <2>1, <2>2, <2>3, <2>5, <2>6 DEF Rekeyed
  <2> QED BY <2>6, <2>7 DEF RowsKept
<1>11. ASSUME NEW p \in Procs, S!CommitCreate(p) PROVE RowsKept
  <2>0. tx[p].at = "found" /\ tx[p].run \in S!RunIds
    BY <1>11 DEF S!CommitCreate, S!IInv, S!ClosedOnce
  <2>1. PICK k \in S!RunIds : k = tx[p].run
    BY <2>0
  <2> DEFINE row == [state |-> "live", key |-> k, snap |-> k, name |-> IF S!Named = {} THEN "shared" ELSE "own"]
  <2>2. ds' = [ds EXCEPT ![k] = row] /\ ds \in [S!Ids -> RowType]
    BY <1>11, <2>1, TypesApart DEF S!CommitCreate, S!IInv
  <2>3. S!Closable(k) /\ sRun'[k] = "SUCCESS" /\ tx'[p].at = "idle"
    BY <1>11, <2>0, <2>1, Committed DEF S!CommitCreate, S!IInv, S!ClosedOnce
  <2>4. k \in S!Blobs /\ k \in 0..N /\ k \in S!Ids /\ k # 0
    BY <2>1 DEF S!ConstantsOK, S!RunIds, S!Blobs, S!Ids
  <2>5. ~S!Exists(k)
    BY <2>3, <2>4 DEF S!IInv, S!OwnBlobs, S!Settled, S!Closable
  <2>6. row \in RowType /\ row.key = k /\ row.snap = k /\ row.state = "live"
    BY <2>4 DEF RowType
  <2> HIDE DEF row
  <2>7. /\ ds' \in [S!Ids -> RowType] /\ \A d \in S!Ids \ {k} : SameRow(d)
        /\ ds'[k].key = k /\ ds'[k].snap = k /\ S!Exists(k)'
    BY <2>2, <2>4, <2>6 DEF SameRow, S!Exists, S!Live
  <2>8. Rekeyed(p, k)
    BY <2>0, <2>1, <2>3, <2>4, <2>5, <2>7 DEF Rekeyed
  <2> QED BY <2>4, <2>7, <2>8 DEF RowsKept
<1>12. ASSUME NEW p \in Procs, S!Abort(p) PROVE RowsKept
  BY <1>12, TypesApart DEF RowsKept, SameRow, S!Abort, S!IInv, S!Exists, S!Live
<1>13. ASSUME NEW d \in S!Ids, S!DeleteBegin(d) PROVE RowsKept
  BY <1>13, TypesApart DEF RowsKept, SameRow, S!DeleteBegin, S!IInv, S!Exists, S!Live
<1>14. ASSUME NEW b \in S!Blobs, S!Sweep(b) PROVE RowsKept
  BY <1>14, TypesApart DEF RowsKept, SameRow, S!Sweep, S!IInv, S!Exists, S!Live
<1> QED BY Steps, <1>1, <1>2, <1>3, <1>4, <1>5, <1>6, <1>7, <1>8, <1>9, <1>10, <1>11, <1>12, <1>13, <1>14


(* A blob that is settled stays so, and the run a transaction is about to close has *)
(* one that is not.                                                                *)
LEMMA SettledStays ==
  ASSUME S!ConstantsOK, S!IInv, [S!Next]_(S!vars), NEW b \in S!Blobs, S!Settled(b) PROVE S!Settled(b)'
BY RunsStay DEF RunsKept, S!Settled, S!Blobs, S!RunIds, S!ConstantsOK

LEMMA ClosableUnsettled ==
  ASSUME S!ConstantsOK, NEW k \in S!RunIds, S!Closable(k) PROVE ~S!Settled(k)
BY DEF S!ConstantsOK, S!Settled, S!Closable, S!RunIds

(* No two datasources share a blob.                                                *)
LEMMA OwnKept == ASSUME S!ConstantsOK, S!IInv, [S!Next]_(S!vars) PROVE S!OwnBlobs'
<1> SUFFICES ASSUME NEW d \in S!Ids, S!Exists(d)'
             PROVE  /\ S!Settled(d)' /\ S!Settled(ds[d].key)'
                    /\ \A e \in S!Ids \ {d} : S!Exists(e)' => ds'[e].key # ds'[d].key
  BY DEF S!OwnBlobs, S!Alone
<1>0. /\ d \in S!Blobs
      /\ \A e \in S!Ids : S!Exists(e) => /\ S!Settled(e) /\ S!Settled(ds[e].key) /\ ds[e].key \in S!Blobs
                                          /\ \A f \in S!Ids \ {e} : S!Exists(f) => ds[f].key # ds[e].key
  BY TypesApart DEF RowType, S!IInv, S!OwnBlobs, S!Alone, S!Ids, S!Blobs
<1>1. CASE \A e \in S!Ids : SameRow(e)
  <2>1. \A e \in S!Ids : (S!Exists(e)' <=> S!Exists(e)) /\ ds'[e].key = ds[e].key
    BY <1>1 DEF SameRow
  <2>2. PICK b \in S!Blobs : b = ds[d].key
    BY <1>0, <2>1
  <2>3. S!Settled(d)' /\ S!Settled(b)'
    BY <1>0, <2>1, <2>2, SettledStays
  <2>4. S!Settled(ds[d].key)'
    BY <2>1, <2>2, <2>3 DEF S!Settled
  <2> QED BY <1>0, <2>1, <2>3, <2>4
<1>2. ASSUME NEW p \in Procs, NEW c \in S!Ids, Rekeyed(p, c), \A e \in S!Ids \ {c} : SameRow(e)
      PROVE  /\ S!Settled(d)' /\ S!Settled(ds[d].key)'
             /\ \A e \in S!Ids \ {d} : S!Exists(e)' => ds'[e].key # ds'[d].key
  <2>1. PICK k \in S!RunIds : /\ k = tx[p].run /\ S!Closable(k) /\ sRun'[k] = "SUCCESS" /\ ds'[c].key = k
                              /\ S!Exists(c) \/ c = k
    BY <1>2 DEF Rekeyed
  <2>2. \A e \in S!Ids \ {c} : (S!Exists(e)' <=> S!Exists(e)) /\ ds'[e].key = ds[e].key
    BY <1>2 DEF SameRow
  <2>3. ~S!Settled(k) /\ k # 0
    BY <2>1, ClosableUnsettled DEF S!RunIds, S!ConstantsOK
  <2>4. \A e \in S!Ids : S!Exists(e) => ds[e].key # k
    BY <1>0, <2>3
  <2>5. CASE d = c
    <3>1. S!Settled(c)'
      <4>1. CASE S!Exists(c)
        BY <1>0, <2>5, <4>1, SettledStays
      <4>2. CASE c = k
        BY <2>1, <2>3, <4>2 DEF S!Settled
      <4> QED BY <2>1, <4>1, <4>2
    <3>2. S!Settled(ds[d].key)'
      BY <2>1, <2>3, <2>5 DEF S!Settled
    <3> QED BY <2>1, <2>2, <2>4, <2>5, <3>1, <3>2
  <2>6. CASE d # c
    <3>1. S!Exists(d) /\ ds'[d].key = ds[d].key
      BY <2>2, <2>6
    <3>2. PICK b \in S!Blobs : b = ds[d].key
      BY <1>0, <3>1
    <3>3. S!Settled(d)' /\ S!Settled(b)'
      BY <1>0, <3>1, <3>2, SettledStays
    <3>4. S!Settled(ds[d].key)'
      BY <3>1, <3>2, <3>3 DEF S!Settled
    <3> QED BY <1>0, <2>1, <2>2, <2>4, <3>1, <3>3, <3>4
  <2> QED BY <2>5, <2>6
<1> QED BY <1>1, <1>2, RowStep DEF RowsKept

(* A run is closed by the one transaction that holds it.                           *)
LEMMA ClosedKept == ASSUME S!ConstantsOK, S!IInv, [S!Next]_(S!vars) PROVE S!ClosedOnce'
<1> SUFFICES ASSUME NEW p \in Procs, tx'[p].at # "idle"
             PROVE  /\ tx'[p].run \in S!RunIds /\ S!Closable(tx[p].run)'
                    /\ \A q \in Procs \ {p} : tx'[q].at # "idle" => tx'[q].run # tx'[p].run
  BY DEF S!ClosedOnce
<1> DEFINE Held(q) == tx'[q].at # "idle" => \/ tx[q].at # "idle" /\ tx'[q].run = tx[q].run
                                            \/ Claiming(q)
<1>1. \A q \in Procs : Held(q)
  BY TxStep DEF TxKept, Finding
<1>2. CASE Claiming(p)
  <2>1. tx'[p].run \in S!RunIds /\ S!Closable(tx[p].run)'
    BY <1>2 DEF Claiming, S!Closable
  <2>2. \A q \in Procs \ {p} : tx'[q].at # "idle" => tx'[q].run # tx'[p].run
    BY <1>2 DEF Claiming
  <2> QED BY <2>1, <2>2
<1>3. CASE ~Claiming(p)
  <2>1. PICK k \in S!RunIds : k = tx[p].run /\ k = tx'[p].run /\ tx[p].at # "idle" /\ S!Closable(k)
    BY <1>1, <1>3 DEF S!IInv, S!ClosedOnce
  <2>2. S!Closable(k)'
    <3> SUFFICES ASSUME ~S!Closable(k)' PROVE FALSE
      OBVIOUS
    <3>1. PICK q \in Procs : tx[q].at # "idle" /\ tx[q].run = k /\ tx'[q].at = "idle"
      BY <2>1, RunsStay DEF RunsKept
    <3> QED BY <2>1, <3>1 DEF S!IInv, S!ClosedOnce
  <2>3. \A q \in Procs \ {p} : tx'[q].at # "idle" => tx'[q].run # k
    <3> SUFFICES ASSUME NEW q \in Procs \ {p}, tx'[q].at # "idle" PROVE tx'[q].run # k
      OBVIOUS
    <3>1. CASE Claiming(q)
      BY <2>1, <3>1 DEF Claiming
    <3>2. CASE ~Claiming(q)
      BY <1>1, <2>1, <3>2 DEF S!IInv, S!ClosedOnce
    <3> QED BY <3>1, <3>2
  <2>4. S!Closable(tx[p].run)'
    BY <2>1, <2>2 DEF S!Closable
  <2> QED BY <2>1, <2>3, <2>4
<1> QED BY <1>2, <1>3

(* A blob settled that no other datasource has stays so.                           *)
LEMMA AloneStays ==
  ASSUME S!ConstantsOK, S!IInv, [S!Next]_(S!vars),
         NEW d \in S!Ids, NEW b \in S!Blobs, S!Settled(b), S!Alone(d, b)
  PROVE  S!Alone(d, b)'
<1> SUFFICES ASSUME NEW e \in S!Ids \ {d}, S!Exists(e)' PROVE ds'[e].key # b
  BY DEF S!Alone
<1>1. CASE SameRow(e)
  BY <1>1 DEF SameRow, S!Alone
<1>2. ASSUME NEW p \in Procs, Rekeyed(p, e) PROVE ds'[e].key # b
  <2>1. tx[p].run \in S!RunIds /\ S!Closable(tx[p].run) /\ ds'[e].key = tx[p].run
    BY <1>2 DEF Rekeyed
  <2> QED BY <2>1, ClosableUnsettled
<1> QED BY <1>1, <1>2, RowStep DEF RowsKept

(* What a row's key does while a settled blob is compared with it.                 *)
LEMMA KeyStays ==
  ASSUME S!ConstantsOK, S!IInv, [S!Next]_(S!vars),
         NEW d \in S!Ids, NEW b \in S!Blobs, S!Settled(b), ds'[d].key = b
  PROVE  ds[d].key = b /\ ds'[d].snap = ds[d].snap
<1>1. CASE SameRow(d)
  BY <1>1 DEF SameRow
<1>2. ASSUME NEW p \in Procs, Rekeyed(p, d) PROVE FALSE
  <2>1. tx[p].run \in S!RunIds /\ S!Closable(tx[p].run) /\ ds'[d].key = tx[p].run
    BY <1>2 DEF Rekeyed
  <2> QED BY <2>1, ClosableUnsettled
<1> QED BY <1>1, <1>2, RowStep DEF RowsKept

LEMMA ExistsStays ==
  ASSUME S!ConstantsOK, S!IInv, [S!Next]_(S!vars), NEW d \in S!Ids, S!Exists(d) PROVE S!Exists(d)'
BY RowStep DEF RowsKept, SameRow, Rekeyed

(* The datasource refreshed has its blob changed only by the transaction that found *)
(* it.                                                                             *)
LEMMA ZeroStays ==
  ASSUME S!ConstantsOK, S!IInv, [S!Next]_(S!vars), NEW p \in Procs, tx[p].found = 0, tx'[p].at # "idle"
  PROVE  ds'[0].key = ds[0].key
<1>1. 0 \in S!Ids /\ 0 # S!Absent
  BY DEF S!ConstantsOK, S!Ids, S!Absent
<1>2. \A q \in Procs \ {p} : tx[q].found # 0
  BY <1>1 DEF S!IInv, S!FoundItsOwn
<1>3. \A q \in Procs : ~Rekeyed(q, 0)
  <2> SUFFICES ASSUME NEW q \in Procs, Rekeyed(q, 0) PROVE FALSE
    OBVIOUS
  <2>1. tx'[q].at = "idle" /\ tx[q].found = 0
    BY DEF Rekeyed
  <2> QED BY <1>2, <2>1
<1>4. SameRow(0)
  BY <1>1, <1>3, RowStep DEF RowsKept
<1> QED BY <1>4 DEF SameRow

(* What a transaction read is, or was, of the datasource it found.                 *)
LEMMA FoundKept == ASSUME S!ConstantsOK, S!IInv, [S!Next]_(S!vars) PROVE S!FoundItsOwn'
<1>0. 0 \in S!Ids /\ S!Absent # 0 /\ tx \in [Procs -> TxType]
  BY TypesApart DEF S!ConstantsOK, S!Ids, S!Absent, S!IInv
<1>1. ASSUME NEW p \in Procs, tx'[p].at # "found" PROVE tx'[p].found = S!Absent
  BY <1>1, TxStep DEF TxKept, Claiming, Finding, S!IInv, S!FoundItsOwn
<1>2. ASSUME NEW p \in Procs, tx'[p] = tx[p], tx[p].found # S!Absent
      PROVE  /\ S!Exists(tx[p].found)' /\ S!Settled(tx[p].key)' /\ S!Alone(tx[p].found, tx[p].key)'
             /\ tx'[p].key = ds'[tx'[p].found].key => tx'[p].snap = ds'[tx'[p].found].snap
             /\ tx'[p].found = 0 <=> tx'[p].run \notin Publishes
             /\ tx'[p].found = 0 => /\ tx'[p].key = ds'[0].key
                                    /\ \A q \in Procs \ {p} : tx'[q].found # 0
  <2>1. PICK d \in S!Ids, b \in S!Blobs : d = tx[p].found /\ b = tx[p].key
    BY <1>0, <1>2 DEF TxType
  <2>2. /\ S!Exists(d) /\ S!Settled(b) /\ S!Alone(d, b) /\ tx[p].at = "found"
        /\ b = ds[d].key => tx[p].snap = ds[d].snap
        /\ d = 0 <=> tx[p].run \notin Publishes
        /\ d = 0 => b = ds[0].key /\ \A q \in Procs \ {p} : tx[q].found # 0
    BY <1>2, <2>1 DEF S!IInv, S!FoundItsOwn
  <2>3. S!Exists(d)' /\ S!Settled(b)' /\ S!Alone(d, b)'
    BY <2>2, ExistsStays, SettledStays, AloneStays
  <2>4. b = ds'[d].key => tx[p].snap = ds'[d].snap
    BY <2>2, KeyStays
  <2>5. d = 0 => b = ds'[0].key
    BY <1>2, <2>1, <2>2, ZeroStays
  <2>6. ASSUME d = 0, NEW q \in Procs \ {p} PROVE tx'[q].found # 0
    <3>1. CASE tx'[q] = tx[q]
      BY <2>2, <2>6, <3>1
    <3>2. CASE tx'[q].found = S!Absent
      BY <1>0, <3>2
    <3>3. CASE Finding(q)
      BY <1>0, <2>1, <2>6, <3>3 DEF Finding
    <3> QED BY <3>1, <3>2, <3>3, TxStep DEF TxKept, Claiming
  <2>7. S!Exists(tx[p].found)' /\ S!Settled(tx[p].key)' /\ S!Alone(tx[p].found, tx[p].key)'
    BY <1>2, <2>1, <2>3 DEF S!Exists, S!Settled, S!Alone
  <2> QED BY <1>2, <2>1, <2>2, <2>4, <2>5, <2>6, <2>7
<1>3. ASSUME NEW p \in Procs, Finding(p), tx'[p].found # S!Absent
      PROVE  /\ S!Exists(tx[p].found)' /\ S!Settled(tx[p].key)' /\ S!Alone(tx[p].found, tx[p].key)'
             /\ tx'[p].key = ds'[tx'[p].found].key => tx'[p].snap = ds'[tx'[p].found].snap
             /\ tx'[p].found = 0 <=> tx'[p].run \notin Publishes
             /\ tx'[p].found = 0 => /\ tx'[p].key = ds'[0].key
                                    /\ \A q \in Procs \ {p} : tx'[q].found # 0
  <2>1. PICK d \in S!Ids : d = tx'[p].found
    BY <1>3 DEF Finding
  <2>2. /\ S!Live(d) /\ tx'[p].key = ds[d].key /\ tx'[p].snap = ds[d].snap /\ ds' = ds /\ sRun' = sRun
        /\ d = 0 <=> tx'[p].run \notin Publishes
        /\ d = 0 => \A q \in Procs \ {p} : tx'[q].found # 0
    BY <1>3, <2>1 DEF Finding
  <2>3. S!Exists(d) /\ S!Settled(ds[d].key) /\ S!Alone(d, ds[d].key)
    BY <2>2 DEF S!IInv, S!OwnBlobs, S!Live, S!Exists
  <2>4. S!Exists(tx[p].found)' /\ S!Settled(tx[p].key)' /\ S!Alone(tx[p].found, tx[p].key)'
    BY <2>1, <2>2, <2>3 DEF S!Exists, S!Settled, S!Alone
  <2> QED BY <2>1, <2>2, <2>4
<1>4. ASSUME NEW p \in Procs, tx'[p].found # S!Absent
      PROVE  /\ S!Exists(tx[p].found)' /\ S!Settled(tx[p].key)' /\ S!Alone(tx[p].found, tx[p].key)'
             /\ tx'[p].key = ds'[tx'[p].found].key => tx'[p].snap = ds'[tx'[p].found].snap
             /\ tx'[p].found = 0 <=> tx'[p].run \notin Publishes
             /\ tx'[p].found = 0 => /\ tx'[p].key = ds'[0].key
                                    /\ \A q \in Procs \ {p} : tx'[q].found # 0
  <2>1. tx'[p] = tx[p] \/ Finding(p)
    BY <1>4, TxStep DEF TxKept, Claiming
  <2>2. tx'[p] = tx[p] => tx[p].found # S!Absent
    BY <1>4
  <2>3. CASE tx'[p] = tx[p] BY <1>2, <2>2, <2>3
  <2>4. CASE Finding(p) BY <1>3, <1>4, <2>4
  <2> QED BY <2>1, <2>3, <2>4
<1> QED BY <1>1, <1>4 DEF S!FoundItsOwn

(* What a request to delete read is of its datasource.                             *)
LEMMA DeletesKept == ASSUME S!ConstantsOK, S!IInv, [S!Next]_(S!vars) PROVE S!DeletesItsOwn'
<1>0. del \in [id : S!Ids \union {S!Absent}, key : S!Blobs]
  BY TypesApart DEF S!IInv
<1>1. \/ del' = del \/ del' = S!NoDel
      \/ ds' = ds /\ sRun' = sRun /\ \E d \in S!Ids : S!Live(d) /\ del' = [id |-> d, key |-> ds[d].key]
  BY Steps DEF S!vars, S!DeleteCommit, S!Rename, S!DeleteFolder, S!Launch, S!Claim, S!FindLocked, S!FindByName,
               QuietClose, S!CommitSwap, S!CommitCreate, S!Commit, S!Abort, S!DeleteBegin, S!Sweep
<1>2. CASE del' = del
  <2> SUFFICES ASSUME del.id # S!Absent PROVE S!DeletesItsOwn'
    BY <1>2 DEF S!DeletesItsOwn
  <2>1. PICK d \in S!Ids, b \in S!Blobs : d = del.id /\ b = del.key
    BY <1>0
  <2>2. S!Exists(d)' /\ S!Settled(b)' /\ S!Alone(d, b)'
    BY <2>1, ExistsStays, SettledStays, AloneStays DEF S!IInv, S!DeletesItsOwn
  <2> QED BY <1>2, <2>1, <2>2 DEF S!DeletesItsOwn, S!Exists, S!Settled, S!Alone
<1>3. CASE del' = S!NoDel
  BY <1>3 DEF S!NoDel, S!DeletesItsOwn
<1>4. ASSUME ds' = ds, sRun' = sRun, NEW d \in S!Ids, S!Live(d), del' = [id |-> d, key |-> ds[d].key]
      PROVE  S!DeletesItsOwn'
  <2>1. S!Exists(d) /\ S!Settled(ds[d].key) /\ S!Alone(d, ds[d].key)
    BY <1>4 DEF S!IInv, S!OwnBlobs, S!Live, S!Exists
  <2> QED BY <1>4, <2>1 DEF S!DeletesItsOwn, S!Exists, S!Settled, S!Alone
<1> QED BY <1>1, <1>2, <1>3, <1>4

(* A blob newly marked is settled or of a run just closed, and nobody's.            *)
Unused(b) == /\ b \in S!Blobs
             /\ b # 0 => sRun'[b] \in {"SUCCESS", "FAILURE"}
             /\ \A e \in S!Ids : S!Live(e)' => ds'[e].key # b

LEMMA Marks ==
  ASSUME S!ConstantsOK, S!IInv, [S!Next]_(S!vars), NEW b \in pending' \union sGone', b \notin pending \union sGone
  PROVE  Unused(b)
<1>0. tx \in [Procs -> TxType] /\ ds \in [S!Ids -> RowType]
  BY TypesApart DEF S!IInv
<1>1. ASSUME NEW p \in Procs, QuietClose(p) PROVE Unused(b)
  <2>1. PICK status \in {"SUCCESS", "FAILURE"} : \E obsolete \in SUBSET {tx[p].run} : S!Commit(p, status, obsolete)
    BY <1>1 DEF QuietClose
  <2>2. b = tx[p].run
    BY <2>1 DEF S!Commit
  <2>3. b \in S!RunIds /\ S!Closable(b)
    BY <1>1, <2>2 DEF QuietClose, S!IInv, S!ClosedOnce
  <2>4. sRun'[b] \in {"SUCCESS", "FAILURE"}
    BY <2>1, <2>2, <2>3, Committed DEF S!IInv
  <2>5. \A e \in S!Ids : S!Live(e) => ds[e].key # b
    BY <2>3, ClosableUnsettled DEF S!IInv, S!OwnBlobs, S!Live, S!Exists
  <2>6. ds' = ds /\ b \in S!Blobs
    BY <1>1, <2>3 DEF QuietClose, S!RunIds, S!Blobs, S!ConstantsOK
  <2> QED BY <2>4, <2>5, <2>6 DEF Unused, S!Live
<1>2. ASSUME NEW p \in Procs, S!CommitSwap(p) PROVE Unused(b)
  <2>1. b = tx[p].key /\ tx[p].found # S!Absent /\ tx[p].at = "found" /\ b # tx[p].run
    BY <1>2 DEF S!CommitSwap, S!Commit
  <2>2. PICK c \in S!Ids : c = tx[p].found
    BY <1>0, <2>1 DEF TxType
  <2>3. b \in S!Blobs /\ S!Settled(b) /\ S!Alone(c, b)
    BY <1>0, <2>1, <2>2 DEF S!IInv, S!FoundItsOwn, TxType
  <2>4. S!Settled(b)' /\ S!Alone(c, b)'
    BY <2>3, SettledStays, AloneStays
  <2>5. ds'[c].key # b
    <3>1. ds'[c].key = tx[p].run
      BY <1>0, <1>2, <2>2 DEF S!CommitSwap, RowType
    <3> QED BY <2>1, <3>1
  <2> QED BY <2>3, <2>4, <2>5 DEF Unused, S!Settled, S!Alone, S!Live, S!Exists
<1>3. CASE S!DeleteCommit
  <2>1. b = del.key /\ del.id # S!Absent
    BY <1>3 DEF S!DeleteCommit
  <2>2. PICK c \in S!Ids : c = del.id
    BY <2>1, TypesApart DEF S!IInv
  <2>3. b \in S!Blobs /\ S!Settled(b) /\ S!Alone(c, b)
    BY <2>1, <2>2, TypesApart DEF S!IInv, S!DeletesItsOwn
  <2>4. S!Settled(b)' /\ S!Alone(c, b)'
    BY <2>3, SettledStays, AloneStays
  <2>5. ~S!Live(c)'
    BY <1>0, <1>3, <2>2 DEF S!DeleteCommit, RowType, S!Live
  <2> QED BY <2>3, <2>4, <2>5 DEF Unused, S!Settled, S!Alone, S!Live, S!Exists
<1>4. \/ \E p \in Procs : QuietClose(p) \/ S!CommitSwap(p)
      \/ S!DeleteCommit
  BY Steps DEF S!vars, S!Rename, S!DeleteFolder, S!Launch, S!Claim, S!FindLocked, S!FindByName,
               S!CommitCreate, S!Commit, S!Abort, S!DeleteBegin, S!Sweep
<1> QED BY <1>1, <1>2, <1>3, <1>4

(* Only the blobs of closed runs are marked.                                       *)
LEMMA MarkedKept == ASSUME S!ConstantsOK, S!IInv, [S!Next]_(S!vars) PROVE S!MarkedIsClosed'
<1> SUFFICES ASSUME NEW b \in pending' \union sGone', b # 0 PROVE sRun'[b] \in {"SUCCESS", "FAILURE"}
  BY DEF S!MarkedIsClosed
<1>1. CASE b \in pending \union sGone
  <2>1. sRun[b] \in {"SUCCESS", "FAILURE"} /\ b \in S!RunIds
    BY <1>1, TypesApart DEF S!IInv, S!MarkedIsClosed, S!Blobs, S!RunIds, S!ConstantsOK
  <2> QED BY <2>1, RunsStay DEF RunsKept
<1>2. CASE b \notin pending \union sGone
  BY <1>2, Marks DEF Unused
<1> QED BY <1>1, <1>2

(* What is marked is no live datasource's.                                         *)
LEMMA InUseKept == ASSUME S!ConstantsOK, S!IInv, [S!Next]_(S!vars) PROVE S!InUseStays'
<1> SUFFICES ASSUME NEW d \in S!Ids, S!Live(d)', ds'[d].key \in pending' \union sGone' PROVE FALSE
  BY DEF S!InUseStays
<1>1. ds'[d].key \in pending \union sGone
  BY Marks DEF Unused
<1>2. CASE SameRow(d)
  BY <1>1, <1>2 DEF SameRow, S!IInv, S!InUseStays
<1>3. ASSUME NEW p \in Procs, Rekeyed(p, d) PROVE FALSE
  <2>1. PICK k \in S!RunIds : k = tx[p].run /\ S!Closable(k) /\ ds'[d].key = k
    BY <1>3 DEF Rekeyed
  <2> QED BY <1>1, <2>1 DEF S!IInv, S!MarkedIsClosed, S!Closable, S!RunIds, S!ConstantsOK
<1> QED BY <1>2, <1>3, RowStep DEF RowsKept

(* The names stay unique: a datasource is created under a name that is taken by     *)
(* nobody, or under its own, and renamed to one that is taken by nobody.           *)
LEMMA NamesKept == ASSUME S!ConstantsOK, S!IInv, [S!Next]_(S!vars) PROVE OneName'
<1>0. OneName /\ ds \in [S!Ids -> RowType] /\ 0 \in S!Ids
  BY TypesApart DEF S!IInv, S!Ids, S!ConstantsOK
<1>1. CASE ds' = ds
  BY <1>0, <1>1 DEF OneName, S!Named, S!Live
<1>2. CASE S!DeleteCommit
  BY <1>0, <1>2 DEF S!DeleteCommit, OneName, S!Named, S!Live, RowType
<1>3. CASE S!Rename
  BY <1>0, <1>3 DEF S!Rename, OneName, S!Named, S!Live, RowType
<1>4. ASSUME NEW p \in Procs, S!CommitSwap(p) PROVE OneName'
  <2>1. \A d \in S!Ids : ds'[d].state = ds[d].state /\ ds'[d].name = ds[d].name
    BY <1>0, <1>4 DEF S!CommitSwap, RowType
  <2> QED BY <1>0, <2>1 DEF OneName, S!Named, S!Live
<1>5. ASSUME NEW p \in Procs, S!CommitCreate(p) PROVE OneName'
  <2>1. tx[p].run \in S!Ids
    BY <1>5 DEF S!CommitCreate, S!IInv, S!ClosedOnce, S!Ids, S!RunIds, S!ConstantsOK
  <2>2. PICK k \in S!Ids : k = tx[p].run
    BY <2>1
  <2>3. /\ \A d \in S!Ids \ {k} : ds'[d] = ds[d]
        /\ S!Named # {} => ds'[k].name = "own"
    BY <1>0, <1>5, <2>2 DEF S!CommitCreate
  <2>4. CASE S!Named = {}
    BY <2>3, <2>4 DEF OneName, S!Named, S!Live
  <2>5. CASE S!Named # {}
    BY <1>0, <2>3, <2>5 DEF OneName, S!Named, S!Live
  <2> QED BY <2>4, <2>5
<1> QED BY <1>1, <1>2, <1>3, <1>4, <1>5, Steps
        DEF S!vars, S!DeleteFolder, S!Launch, S!Claim, S!FindLocked, S!FindByName, QuietClose, S!Abort,
            S!DeleteBegin, S!Sweep

LEMMA SnapshotTypes == ASSUME S!ConstantsOK, S!IInv, [S!Next]_(S!vars) PROVE S!TypeOK'
<1>0. /\ folder \in BOOLEAN /\ del \in [id : S!Ids \union {S!Absent}, key : S!Blobs]
      /\ ds \in [S!Ids -> RowType] /\ pending \subseteq S!Blobs /\ sGone \subseteq S!Blobs
  BY TypesApart DEF S!IInv
<1>1. sRun' \in [S!RunIds -> {"none", "going", "unpublished", "SUCCESS", "FAILURE"}]
  BY RunsStay DEF RunsKept
<1>2. ds' \in [S!Ids -> RowType]
  BY RowStep DEF RowsKept
<1>3. tx' \in [Procs -> TxType]
  BY TxStep DEF TxKept
<1>4. folder' \in BOOLEAN
  BY <1>0, Steps DEF S!vars, S!DeleteCommit, S!Rename, S!DeleteFolder, S!Launch, S!Claim, S!FindLocked, S!FindByName,
               QuietClose, S!CommitSwap, S!CommitCreate, S!Commit, S!Abort, S!DeleteBegin, S!Sweep
<1>5. del' \in [id : S!Ids \union {S!Absent}, key : S!Blobs]
  <2>1. \/ del' = del \/ del' = S!NoDel \/ \E d \in S!Ids : del' = [id |-> d, key |-> ds[d].key]
    BY Steps DEF S!vars, S!DeleteCommit, S!Rename, S!DeleteFolder, S!Launch, S!Claim, S!FindLocked, S!FindByName,
                 QuietClose, S!CommitSwap, S!CommitCreate, S!Commit, S!Abort, S!DeleteBegin, S!Sweep
  <2>2. S!NoDel \in [id : S!Ids \union {S!Absent}, key : S!Blobs]
    BY DEF S!NoDel, S!Blobs, S!ConstantsOK
  <2> QED BY <1>0, <2>1, <2>2 DEF RowType
<1>6. pending' \subseteq S!Blobs /\ sGone' \subseteq S!Blobs
  <2> SUFFICES ASSUME NEW b \in pending' \union sGone' PROVE b \in S!Blobs
    OBVIOUS
  <2> QED BY <1>0, Marks DEF Unused
<1>7. (/\ sRun \in [S!RunIds -> {"none", "going", "unpublished", "SUCCESS", "FAILURE"}]
       /\ ds \in [S!Ids -> RowType] /\ folder \in BOOLEAN /\ tx \in [Procs -> TxType]
       /\ del \in [id : S!Ids \union {S!Absent}, key : S!Blobs]
       /\ OneName
       /\ pending \subseteq S!Blobs /\ sGone \subseteq S!Blobs)'
  BY <1>1, <1>2, <1>3, <1>4, <1>5, <1>6, NamesKept
<1> QED BY <1>7 DEF S!TypeOK, TxType, RowType, OneName

LEMMA SnapshotInit == ASSUME S!ConstantsOK, S!Init PROVE S!IInv
<1> DEFINE row == [S!NoRow EXCEPT !.state = "live", !.name = "elsewhere"]
<1>0. /\ 0 \in S!Ids /\ 0 \in S!Blobs /\ 0 \in 0..N /\ S!NoRow \in RowType /\ row \in RowType
      /\ S!NoTx \in TxType
  <2>1. 0 \in S!Ids /\ 0 \in S!Blobs /\ 0 \in 0..N
    BY DEF S!ConstantsOK, S!Ids, S!Blobs
  <2>2. S!NoRow \in RowType
    BY <2>1 DEF S!NoRow, RowType
  <2>3. row \in RowType
    BY <2>2 DEF RowType
  <2>4. S!NoTx \in TxType
    BY <2>1 DEF S!NoTx, TxType
  <2> QED BY <2>1, <2>2, <2>3, <2>4
<1>1. ds = [d \in S!Ids |-> IF d = 0 THEN row ELSE S!NoRow]
  BY <1>0 DEF S!Init, S!NoRows
<1>2. \A d \in S!Ids : /\ d # 0 => ds[d] = S!NoRow /\ ~S!Exists(d) /\ ~S!Live(d)
                       /\ d = 0 => ds[d].key = 0
  BY <1>0, <1>1 DEF S!NoRow, S!Exists, S!Live
<1>3. \A p \in Procs : tx[p].at = "idle" /\ tx[p].found = S!Absent
  BY DEF S!Init, S!NoTx
<1>4. S!TypeOK
  <2>1. ds \in [S!Ids -> RowType]
    BY <1>0, <1>1
  <2>2. tx \in [Procs -> TxType]
    BY <1>0 DEF S!Init
  <2>3. sRun \in [S!RunIds -> {"none", "going", "unpublished", "SUCCESS", "FAILURE"}]
    BY DEF S!Init
  <2>4. del \in [id : S!Ids \union {S!Absent}, key : S!Blobs]
    BY <1>0 DEF S!Init, S!NoDel
  <2>5. OneName
    BY <1>2 DEF OneName, S!Named
  <2> QED BY <2>1, <2>2, <2>3, <2>4, <2>5, TypesApart DEF S!Init
<1>5. S!OwnBlobs
  BY <1>2 DEF S!OwnBlobs, S!Settled, S!Alone
<1>6. S!ClosedOnce /\ S!FoundItsOwn
  BY <1>3 DEF S!ClosedOnce, S!FoundItsOwn
<1>7. S!DeletesItsOwn
  BY DEF S!Init, S!NoDel, S!DeletesItsOwn
<1>8. S!MarkedIsClosed /\ S!InUseStays
  BY DEF S!Init, S!MarkedIsClosed, S!InUseStays
<1> QED BY <1>4, <1>5, <1>6, <1>7, <1>8 DEF S!IInv

LEMMA SnapshotStays == ASSUME S!ConstantsOK, S!IInv, [S!Next]_(S!vars) PROVE S!IInv'
BY SnapshotTypes, OwnKept, ClosedKept, FoundKept, DeletesKept, MarkedKept, InUseKept DEF S!IInv

LEMMA SnapshotInvariance == ASSUME S!ConstantsOK PROVE S!Spec => []S!IInv
<1>1. S!Init => S!IInv BY SnapshotInit
<1>2. S!IInv /\ [S!Next]_(S!vars) => S!IInv' BY SnapshotStays
<1> QED BY <1>1, <1>2, PTL DEF S!Spec

(* Only the transaction that read a datasource before the last commit puts older    *)
(* data in it: any other finds it locked, or compares its run with what is there.   *)
LEMMA LaterKept == ASSUME S!ConstantsOK, S!IInv, [S!Next]_(S!vars) PROVE S!LaterStep
<1> SUFFICES ASSUME NEW d \in S!Ids, S!Live(d), S!Live(d)' PROVE ds'[d].snap >= ds[d].snap \/ S!ReadStale(d)
  BY DEF S!LaterStep
<1>0. ds[d].snap \in Nat /\ d # S!Absent
  BY TypesApart DEF S!IInv, RowType, S!Ids, S!Absent, S!ConstantsOK
<1>1. CASE SameRow(d)
  BY <1>0, <1>1 DEF SameRow
<1>2. ASSUME NEW p \in Procs, Rekeyed(p, d) PROVE ds'[d].snap >= ds[d].snap \/ S!ReadStale(d)
  <2>1. tx[p].found = d /\ tx[p].run >= tx[p].snap /\ ds'[d].snap = tx[p].run
    BY <1>2 DEF Rekeyed, S!Live, S!Exists
  <2>2. CASE tx[p].key = ds[d].key
    BY <1>0, <2>1, <2>2 DEF S!IInv, S!FoundItsOwn
  <2>3. CASE tx[p].key # ds[d].key
    <3>1. d # 0
      BY <1>0, <2>1, <2>3 DEF S!IInv, S!FoundItsOwn
    <3> QED BY <2>1, <2>3, <3>1 DEF S!ReadStale
  <2> QED BY <2>2, <2>3
<1> QED BY <1>1, <1>2, RowStep DEF RowsKept

(* A blob let go of is marked in the step that does it, unless what was read of the *)
(* datasource is stale.                                                            *)
LEMMA LetGoMarked ==
  ASSUME S!ConstantsOK, S!IInv, [S!Next]_(S!vars), NEW d \in S!Ids, S!LetGo(d)
  PROVE  ds[d].key \in pending' \/ S!ReadStale(d) \/ S!DeleteStale(d)
<1>0. ds \in [S!Ids -> RowType] /\ d # S!Absent /\ S!Live(d)
  BY TypesApart DEF S!IInv, S!LetGo, S!Ids, S!Absent, S!ConstantsOK
<1>1. CASE ds' = ds
  BY <1>0, <1>1 DEF S!LetGo, S!Live
<1>2. CASE S!DeleteCommit
  <2>1. d = del.id
    BY <1>0, <1>2 DEF S!DeleteCommit, S!LetGo, S!Live, RowType
  <2>2. del.key \in pending'
    BY <1>0, <1>2, <2>1 DEF S!DeleteCommit
  <2> QED BY <2>1, <2>2 DEF S!DeleteStale
<1>3. CASE S!Rename
  BY <1>0, <1>3 DEF S!Rename, S!LetGo, S!Live, RowType
<1>4. ASSUME NEW p \in Procs, S!CommitSwap(p) PROVE ds[d].key \in pending' \/ S!ReadStale(d)
  <2>1. tx[p].found = d /\ tx[p].at = "found"
    BY <1>0, <1>4 DEF S!CommitSwap, S!LetGo, S!Live, RowType
  <2>2. CASE tx[p].key = ds[d].key
    <3>1. S!Settled(ds[d].key) /\ tx[p].run \in S!RunIds /\ S!Closable(tx[p].run)
      BY <1>0, <2>1 DEF S!IInv, S!OwnBlobs, S!ClosedOnce, S!Live, S!Exists
    <3>2. ds[d].key # tx[p].run
      BY <3>1, ClosableUnsettled
    <3> QED BY <1>4, <2>2, <3>2 DEF S!CommitSwap, S!Commit
  <2>3. CASE tx[p].key # ds[d].key
    <3>1. d # 0
      BY <1>0, <2>1, <2>3 DEF S!IInv, S!FoundItsOwn
    <3> QED BY <2>1, <2>3, <3>1 DEF S!ReadStale
  <2> QED BY <2>2, <2>3
<1>5. ASSUME NEW p \in Procs, S!CommitCreate(p) PROVE FALSE
  <2>1. tx[p].run \in S!RunIds /\ S!Closable(tx[p].run)
    BY <1>5 DEF S!CommitCreate, S!IInv, S!ClosedOnce
  <2>2. d # tx[p].run
    BY <1>0, <2>1, ClosableUnsettled DEF S!IInv, S!OwnBlobs, S!Live, S!Exists
  <2> QED BY <1>0, <1>5, <2>2 DEF S!CommitCreate, S!LetGo, S!Live
<1> QED BY <1>1, <1>2, <1>3, <1>4, <1>5, Steps
        DEF S!vars, S!DeleteFolder, S!Launch, S!Claim, S!FindLocked, S!FindByName, QuietClose, S!Abort,
            S!DeleteBegin, S!Sweep

(* The output of a run that is closed becomes the data of a datasource, or is       *)
(* marked, in the step that closes it.                                             *)
LEMMA EndsWell ==
  ASSUME S!ConstantsOK, S!IInv, [S!Next]_(S!vars), NEW r \in S!RunIds, S!Ends(r)
  PROVE  r \in pending' \/ \E d \in S!Ids : S!Live(d)' /\ ds'[d].key = r
<1>0. /\ ds \in [S!Ids -> RowType] /\ sRun \in [S!RunIds -> {"none", "going", "unpublished", "SUCCESS", "FAILURE"}]
      /\ sRun[r] = "going" /\ sRun'[r] \in {"SUCCESS", "FAILURE"} /\ tx \in [Procs -> TxType]
  BY TypesApart DEF S!IInv, S!Ends
<1>1. ASSUME NEW p \in Procs, S!Close(p) PROVE r \in pending' \/ \E d \in S!Ids : S!Live(d)' /\ ds'[d].key = r
  <2>1. r = tx[p].run
    BY <1>0, <1>1 DEF S!Close, S!CommitOvertaken, S!CommitSwap, S!CommitGone, S!CommitCreate, S!CommitRejected,
                      S!CommitUnpublished, S!Refuse, S!Commit
  <2>2. CASE S!CommitOvertaken(p) \/ S!CommitGone(p) \/ S!CommitRejected(p) \/ S!Refuse(p)
    BY <2>1, <2>2 DEF S!CommitOvertaken, S!CommitGone, S!CommitRejected, S!Refuse, S!Commit
  <2>3. CASE S!CommitUnpublished(p)
    BY <1>0, <2>1, <2>3 DEF S!CommitUnpublished
  <2>4. CASE S!CommitSwap(p)
    <3>1. PICK c \in S!Ids : c = tx[p].found /\ S!Live(c)
      BY <1>0, <2>4 DEF S!CommitSwap, TxType
    <3>2. ds' = [ds EXCEPT ![c].key = r, ![c].snap = r]
      BY <2>1, <2>4, <3>1 DEF S!CommitSwap
    <3>3. S!Live(c)' /\ ds'[c].key = r
      BY <1>0, <3>1, <3>2 DEF S!Live, RowType
    <3> QED BY <3>3
  <2>5. CASE S!CommitCreate(p)
    <3>1. r \in S!Ids
      BY DEF S!RunIds, S!Ids, S!ConstantsOK
    <3>2. S!Live(r)' /\ ds'[r].key = r
      BY <1>0, <2>1, <2>5, <3>1 DEF S!CommitCreate, S!Live
    <3> QED BY <3>1, <3>2
  <2> QED BY <1>1, <2>2, <2>3, <2>4, <2>5 DEF S!Close
<1>2. \E p \in Procs : S!Close(p)
  <2>1. ~(sRun' = sRun) /\ ~S!DeleteFolder
    BY <1>0 DEF S!DeleteFolder
  <2>2. \A q \in S!RunIds : ~S!Launch(q)
    BY <1>0 DEF S!Launch
  <2> QED BY <2>1, <2>2 DEF S!Next, S!vars, S!Claim, S!FindLocked, S!FindByName, S!Abort, S!DeleteBegin,
                           S!DeleteCommit, S!Rename, S!Sweep
<1> QED BY <1>1, <1>2

(* The blob a datasource points at is never deleted, nor about to be, in whatever   *)
(* order runs are closed, retried, overtaken, and datasources deleted              *)
(* (_finalize_ingest, _publish_datasource, schedule_blob_deletion), for any number  *)
(* of runs and processes.                                                          *)
THEOREM BlobsInUseStay == ASSUME S!ConstantsOK PROVE S!Spec => []S!InUseStays
<1>1. S!IInv => S!InUseStays BY DEF S!IInv
<1> QED BY <1>1, SnapshotInvariance, PTL

--------------------------------------------------------------------------------
(* The behaviours of MCStorage                                                    *)

LEMMA Parts == MCSpec => Spec /\ S!Spec
<1>1. MCInit => Init /\ S!Init
  BY DEF MCInit
<1>2. [MCNext]_allVars => [Next]_vars
  BY DEF MCNext, allVars, vars
<1>3. [MCNext]_allVars => [S!Next]_(S!vars)
  BY DEF MCNext, allVars, nv, S!vars
<1> QED BY <1>1, <1>2, <1>3, PTL DEF MCSpec, Spec, S!Spec

(* The state of both parts of the storage keeps its type, and the names their unity.*)
THEOREM StorageTypes == MCSpec => []TypesOK
<1>1. Init => TypeOK
  BY InitIInv DEF IInv
<1>2. TypeOK /\ [Next]_vars => TypeOK'
  BY StepTypes
<1>3. S!Spec => []S!IInv
  BY SnapshotsAssumption, SnapshotInvariance
<1>4. TypeOK /\ S!IInv => TypesOK
  BY DEF S!IInv, TypesOK
<1> QED BY <1>1, <1>2, <1>3, <1>4, Parts, PTL DEF Spec

(* The blob of a live datasource stays, beside the marks and times of BlobGrace.   *)
THEOREM BlobsInUse == MCSpec => []InUseStays
<1>1. S!Spec => []S!InUseStays
  BY SnapshotsAssumption, BlobsInUseStay
<1>2. S!InUseStays => InUseStays
  BY DEF InUseStays
<1> QED BY <1>1, <1>2, Parts, PTL

(* Who was launched later wins: a run's data replace those of a later one only when  *)
(* its publish read the datasource before the last commit (the lock and the check    *)
(* of _finalize_ingest and _publish_datasource), for any number of runs.             *)
THEOREM LaterRunsWin == MCSpec => LaterWins
<1>1. S!Spec => []S!IInv
  BY SnapshotsAssumption, SnapshotInvariance
<1>2. S!IInv /\ [S!Next]_(S!vars) => S!LaterStep
  BY SnapshotsAssumption, LaterKept
<1>3. S!IInv /\ [S!Next]_(S!vars) => [S!LaterStep]_nv
  BY <1>2
<1> QED BY <1>1, <1>3, Parts, PTL DEF LaterWins, S!Spec

(* No blob is lost: let go of, or the output of a run that is closed, it is marked   *)
(* or some datasource's in that very step (schedule_blob_deletion), but for what a   *)
(* publish or a deletion read before another's commit.                               *)
THEOREM BlobsAreMarked == MCSpec => NoBlobLost
<1>1. S!Spec => []S!IInv
  BY SnapshotsAssumption, SnapshotInvariance
<1>2. S!IInv /\ [S!Next]_(S!vars) => S!MarkedStep
  BY SnapshotsAssumption, LetGoMarked, EndsWell DEF S!MarkedStep
<1>3. S!IInv /\ [S!Next]_(S!vars) => [S!MarkedStep]_nv
  BY <1>2
<1> QED BY <1>1, <1>3, Parts, PTL DEF NoBlobLost, S!Spec
================================================================================
