----------------------------- MODULE CommitLog -----------------------------
(***************************************************************************)
(* The commit chain of reactifact/commit_log.py and what context.py makes  *)
(* of it: how commits are applied to the live artifacts, how the committed *)
(* state of a version is replayed, and how the chain is cut at its young   *)
(* end (checkout) and at its old end (compact).                            *)
(*                                                                         *)
(* Artifact data is a value per item, or Absent.  A commit has at most one *)
(* operation per item: the operations of a patch are applied one by one    *)
(* and the items do not influence each other.  Relations follow the same   *)
(* rules as artifacts (Link creates, Unlink deletes) and have no operators *)
(* here.                                                                   *)
(***************************************************************************)
EXTENDS Integers, Sequences, SequencesExt

CONSTANTS
  Items,   \* artifact ids
  Vals,    \* artifact data
  Absent   \* "there is no such artifact"

ASSUME AbsentAssumption == Absent \notin Vals

States == [Items -> Vals \cup {Absent}]

NoArtifacts == [i \in Items |-> Absent]

Ops == [kind : {"create", "update"}, val : Vals] \cup {[kind |-> "delete", val |-> Absent]}

Commits == [ops : UNION {[S -> Ops] : S \in (SUBSET Items) \ {{}}}]

(* The chain: `baseline` is the state of version `floor`, everything older  *)
(* was compacted away; the retained commits follow it.                      *)
Logs == [floor : Nat, baseline : States, commits : Seq(Commits)]

EmptyLog == [floor |-> 0, baseline |-> NoArtifacts, commits |-> <<>>]

Version(log) == log.floor + Len(log.commits)

AppendCommit(log, c) == [log EXCEPT !.commits = Append(@, c)]

-----------------------------------------------------------------------------
(* Replaying *)

CommitsUpto(log, v) == SubSeq(log.commits, 1, v - log.floor)

CommitsFrom(log, v) ==
  SubSeq(log.commits, (IF v > log.floor THEN v - log.floor ELSE 0) + 1, Len(log.commits))

(* The committed state: an Update counts whether or not the artifact was    *)
(* ever created by a commit; a Create nobody gave an artifact_id ("adopt",  *)
(* which only merges log) does not count.                                   *)
ReplayCommit(state, c) ==
  [i \in Items |-> IF i \in DOMAIN c.ops /\ c.ops[i].kind # "adopt"
                     THEN c.ops[i].val ELSE state[i]]

(* Versions below the baseline read as the baseline.                        *)
ReplayState(log, v) == FoldLeft(ReplayCommit, log.baseline, CommitsUpto(log, v))

Committed(log) == ReplayState(log, Version(log))

(* The live artifacts: an Update of an absent artifact does nothing.        *)
ApplyCommit(art, c) ==
  [i \in Items |-> IF i \in DOMAIN c.ops /\ ~(c.ops[i].kind = "update" /\ art[i] = Absent)
                     THEN c.ops[i].val ELSE art[i]]

-----------------------------------------------------------------------------
(* Cutting the chain *)

Truncate(log, v) == [log EXCEPT !.commits = CommitsUpto(log, v)]

(* Folds the commits up to `cutoff` into the baseline.                      *)
CompactTo(log, cutoff) ==
  [floor    |-> cutoff,
   baseline |-> ReplayState(log, cutoff),
   commits  |-> CommitsFrom(log, cutoff)]

(* The items written after v, as far as the operations name them.           *)
Touched(log, v) ==
  {i \in Items : \E c \in ToSet(CommitsFrom(log, v)) :
                   i \in DOMAIN c.ops /\ c.ops[i].kind # "adopt"}

(* Items written after v return to their state at v; the others keep the    *)
(* live artifact, and one deleted outside commits comes back.               *)
CheckoutState(art, log, v) ==
  LET rebuilt == ReplayState(log, v)
  IN  [i \in Items |-> IF i \notin Touched(log, v) /\ art[i] # Absent
                         THEN art[i] ELSE rebuilt[i]]
=============================================================================
