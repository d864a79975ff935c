---------------------------- MODULE MC_Branches ----------------------------
(* Instances of Branches for TLC.                                           *)
EXTENDS Branches

Symmetry == Permutations(Items) \cup Permutations(Names)
=============================================================================
