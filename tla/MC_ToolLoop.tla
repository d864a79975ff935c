---------------------------- MODULE MC_ToolLoop ----------------------------
EXTENDS ToolLoop

CONSTANTS k8s, dba, pods

(* Every agent works on every goal. *)
MCConsumes == [a \in Agents |-> Goals]
=============================================================================
