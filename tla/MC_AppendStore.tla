--------------------------- MODULE MC_AppendStore ---------------------------
(* Instances of AppendStore for TLC.                                        *)
EXTENDS AppendStore

CONSTANT MaxSteps   \* bound on application steps and faults together

Symmetry == Permutations(Vals) \cup Permutations(Jobs)

(* Behaviours are not followed beyond the first of Hurts, after which only  *)
(* a repeated entry leaves anything to promise.                             *)
Unhurt  == hurt \subseteq {"repeated"}
Bounded == changes + faults <= MaxSteps
=============================================================================
