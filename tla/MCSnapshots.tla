---------------------------- MODULE MCSnapshots ----------------------------
(***************************************************************************)
(* The instances of Snapshots that TLC checks.                             *)
(***************************************************************************)
EXTENDS Snapshots, TLC

\* The processes are interchangeable.
Symmetry == Permutations(Procs)
=============================================================================
