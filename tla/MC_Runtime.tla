----------------------------- MODULE MC_Runtime -----------------------------
(* Instances of Runtime for TLC.                                            *)
EXTENDS Runtime

CONSTANTS q, x, planner, notifier, none

(* A request wakes the planner; the planner's note, an action, is performed *)
(* by the dispatcher and wakes the notifier when its status changes.        *)
MCItems    == {q, x}
MCActions  == {x}
MCExternal == {q}
MCAgents   == {planner, notifier}
MCConsumes == [a \in MCAgents |-> IF a = planner THEN {q} ELSE {x}]

(* Both agents react to a request, so that a small max_runs cuts the work.  *)
MCShared == [a \in MCAgents |-> IF a = planner THEN {q} ELSE {q, x}]

MCProduces == [a \in MCAgents |-> IF a = planner THEN {x} ELSE {}]

(* What the next steps and the properties can still read: the counters of a *)
(* turn are reset by _begin_turn before anything looks at them again, and    *)
(* `unsaved` is only read by the liveness property of the other run.        *)
InLoop == mode # "flush" /\ pc \notin {"idle", "ending", "endsave"}

View ==
  <<ctx, disk, saving, stray, policy, pc, drainVars, stop, worldVars, faults,
    IF pc = "idle" THEN "" ELSE mode,
    IF InLoop THEN <<cap, gen, runs, batchVars, outcome, cutNow, spent>> ELSE <<>>,
    IF InLoop /\ pc \in {"drain", "save"} THEN ranNow ELSE 0>>
=============================================================================
