--------------------------- MODULE VersionedState ---------------------------
(***************************************************************************)
(* What Contexts promise of their history (commit_log.py, context.py): a   *)
(* history is a run of versions, each with its state.  A commit adds a     *)
(* version on top, a rollback drops versions from the top, a compaction    *)
(* from the bottom, a fork copies the history.  Nothing ever changes the   *)
(* state of a version that is still there.                                 *)
(***************************************************************************)
EXTENDS Integers, FiniteSetsExt, Functions

CONSTANTS
  Names,   \* the Contexts
  States,  \* what a version can hold
  Blank    \* the state before any commit

VARIABLE hist   \* per Context: a function from versions to states; <<>> if there is none

Newest(h) == Max(DOMAIN h)

OnTop(h, s) ==
  [u \in (DOMAIN h) \cup {Newest(h) + 1} |-> IF u \in DOMAIN h THEN h[u] ELSE s]

Extensions(h)  == {OnTop(h, s) : s \in States}
Rollbacks(h)   == {Restrict(h, {u \in DOMAIN h : u <= v}) : v \in DOMAIN h}
Compactions(h) == {Restrict(h, {u \in DOMAIN h : u >= v}) : v \in DOMAIN h}

Change(n) ==
  LET before == hist[n]
      after  == hist'[n]
  IN  \/ before # <<>> /\ after \in Extensions(before) \cup Rollbacks(before) \cup Compactions(before)
      \/ after # <<>> /\ \E m \in Names \ {n} : after = hist[m]

(* One Context to begin with, with a history from version 0 on.             *)
Init ==
  \E root \in Names :
    /\ hist[root] \in [0 .. Newest(hist[root]) -> States] /\ hist[root][0] = Blank
    /\ \A n \in Names \ {root} : hist[n] = <<>>

(* One history changes at a time: by a commit, a rollback or a compaction,  *)
(* or because it is forked from another.                                    *)
Next == \E n \in Names : Change(n) /\ \A m \in Names \ {n} : hist'[m] = hist[m]

Spec == Init /\ [][Next]_hist
=============================================================================
