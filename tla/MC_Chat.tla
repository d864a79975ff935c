------------------------------ MODULE MC_Chat ------------------------------
EXTENDS Chat

(* Requests are alike until they arrive, and so are sessions no one has     *)
(* asked for: let both be taken in order.                                   *)
Taken(S) == \A x \in S : \A y \in 1 .. x - 1 : y \in S

InOrder ==
  /\ Taken({r \in Requests : pc'[r] # "new"})
  /\ Taken({of'[r] : r \in Requests} \ {None})
=============================================================================
