--------------------------- MODULE MC_TraceStores ---------------------------
EXTENDS TraceStores

CONSTANTS alice, bob

(* Three turns, the first and the last of one session; the one between has  *)
(* no span.                                                                 *)
MCSessionOf == <<alice, bob, alice>>
MCSpansOf   == <<1, 0, 1>>

MCPicks == {{1}, {1, 2}}

(* An empty database, and one that overlapping exports have left with two   *)
(* traces, where a reviewer has worked.                                     *)
MCStarts ==
  {NoRows,
   [runs |-> {1, 2}, spans |-> {<<1, 1>>}, marks |-> {<<1, "bad">>}, tags |-> {"bad", "good"}]}
=============================================================================
