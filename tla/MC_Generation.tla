--------------------------- MODULE MC_Generation ---------------------------
EXTENDS Generation, TLC

CONSTANTS writer, critic, search

(* Two agents that share the tier of limit 2, one of no limit.              *)
MCAgents   == <<search, writer, critic>>
MCPriority == (writer :> 0) @@ (critic :> 1) @@ (search :> 2)
MCLimit    == (writer :> 2) @@ (critic :> 2) @@ (search :> 0)

Event(k, l, n) == (writer :> k) @@ (critic :> l) @@ (search :> n)

(* Both events match writer and critic, or writer with a debounce, and the  *)
(* second wakes search; or both wake search only.                           *)
MCBatches ==
  {<<Event(k, l, "no"), Event(k, l, "now")>> :
     <<k, l>> \in {<<"now", "now">>, <<"settle", "no">>}}
    \cup {<<Event("no", "no", "now"), Event("no", "no", "now")>>}
=============================================================================
