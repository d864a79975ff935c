---------------------------- MODULE MC_A2ATasks ----------------------------
EXTENDS A2ATasks

(* Requests are alike until they come in: let them come in in order. *)
InOrder ==
  LET come == {r \in Requests : pc'[r] # "new"}
  IN  \A r \in come : \A q \in 1 .. r - 1 : q \in come

(* At most two requests are in flight at a time, and one runner outlives    *)
(* its request.                                                             *)
Bounded ==
  /\ InOrder
  /\ Cardinality({r \in Requests : pc'[r] \in InFlight}) <= 2
  /\ Cardinality(strays') <= 1

(* The records that can still be reached. *)
Live == (ToSet(table) \cup {home[r] : r \in Requests}) \ {None}

(* No step reads a record that is neither in the table nor in use any more. *)
View ==
  <<table, id, pc, home, strays, cut \cap Live,
    [k \in Live |-> <<state[k], pending[k], asked[k], answered[k], talk[k]>>]>>
=============================================================================
