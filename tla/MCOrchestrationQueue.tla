------------------------ MODULE MCOrchestrationQueue ------------------------
(***************************************************************************)
(* The instances of OrchestrationQueue that TLC checks.                    *)
(***************************************************************************)
EXTENDS OrchestrationQueue, TLC

\* The sequences of a flow's action nodes.
OneOutput  == <<"output">>
OneRefresh == <<"refresh">>
OneEmail   == <<"email">>

\* The processes are interchangeable.
Symmetry == Permutations(Procs)
=============================================================================
