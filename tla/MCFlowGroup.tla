------------------------------ MODULE MCFlowGroup ------------------------------
(* A group of a flow and a SQL script in one step, and another flow after them.    *)
EXTENDS FlowGroupRun
CONSTANTS c1, c2, c3, flow, sql, after
GridStep == [c \in Cells |-> IF c = c3 THEN 2 ELSE 1]
GridKind == [c \in Cells |-> IF c = c2 THEN "sql" ELSE "flow"]
GridTarget == [c \in Cells |-> IF c = c1 THEN flow ELSE IF c = c2 THEN sql ELSE after]
================================================================================
