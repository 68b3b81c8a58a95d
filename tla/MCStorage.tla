------------------------------- MODULE MCStorage -------------------------------
(* The storage's blobs, checked in one run: BlobGrace, which is about times, and  *)
(* Snapshots, which is about transactions.  They share nothing here: `which` says *)
(* whose behaviours a behaviour is of.                                            *)
EXTENDS BlobGrace, TLC

CONSTANTS N, Publishes, Overwrites, Procs, Edits   \* Snapshots

VARIABLES which,
          sRun, ds, folder, tx, del, pending, sGone

S == INSTANCE Snapshots WITH run <- sRun, gone <- sGone

ASSUME SnapshotsAssumption == S!ConstantsOK

nv == <<sRun, ds, folder, tx, del, pending, sGone>>
allVars == <<which, vars, nv>>

MCInit == which \in {"grace", "snapshots"} /\ Init /\ S!Init

MCNext == \/ which = "grace" /\ Next /\ UNCHANGED <<which, nv>>
          \/ which = "snapshots" /\ S!Next /\ UNCHANGED <<which, vars>>

MCSpec == MCInit /\ [][MCNext]_allVars

(* The processes and the runs that only read are interchangeable.                 *)
Symmetry == Permutations(Procs) \union Permutations(Runs)

(* The variables of every component have their types.                             *)
TypesOK == TypeOK /\ S!TypeOK
(* Snapshots: the blob of a live datasource is neither deleted nor marked.        *)
InUseStays == S!InUseStays
(* Snapshots: a run's data never replace those of a later one.                    *)
LaterWins == [][S!LaterStep]_nv
(* Snapshots: a blob let go of is marked, and a run's output lands or is marked.  *)
NoBlobLost == [][S!MarkedStep]_nv
================================================================================
