---------------------------- MODULE ContextStore ----------------------------
(***************************************************************************)
(* A Context (reactifact/context.py) as a value, and what its operations   *)
(* make of it: live artifacts with their versions, the commit chain with   *)
(* the reads and writes of each commit, the producer index of              *)
(* commit_log.py and the set of stale artifacts.  An artifact is stale     *)
(* when its producing commit read a source that has moved to a newer       *)
(* version; the code maintains index and set step by step and rebuilds     *)
(* both after bulk rewrites.                                               *)
(***************************************************************************)
EXTENDS CommitLog, FiniteSets

ASSUME ArtifactAssumption == Absent \notin [val : Vals, ver : Nat]

Artifacts == [val : Vals, ver : Nat] \cup {Absent}

(* A read names an item and a version; `was` is history: the data it saw.   *)
Reads == [item : Items, ver : Nat, was : Vals]

NoReading == [i \in Items |-> {}]

EmptyContext ==
  [art     |-> [i \in Items |-> Absent],
   log     |-> EmptyLog,
   reading |-> NoReading,   \* _producing_read_ids: what the producer of i read
   deps    |-> NoReading,   \* _dependents: whose producer read i
   stale   |-> {},
   base    |-> <<>>]        \* _base: <<data at the fork>>

Live(c) == {i \in Items : c.art[i] # Absent}
Data(c) == [i \in Items |-> IF i \in Live(c) THEN c.art[i].val ELSE Absent]

ReadsOf(c, S) == {[item |-> i, ver |-> c.art[i].ver, was |-> c.art[i].val] : i \in S \cap Live(c)}

Fresh(v) == [val |-> v, ver |-> 0]

-----------------------------------------------------------------------------
(* The producer index *)

Sources(commit) == {r.item : r \in commit.reads}

(* _index_commit: the edges of the former producer go, the new ones come.   *)
IndexCommit(ix, commit) ==
  [ix EXCEPT !.reading = [i \in Items |-> IF i \in commit.writes THEN Sources(commit) ELSE @[i]],
             !.deps    = [s \in Items |->
                            (@[s] \ {w \in commit.writes : s \in ix.reading[w]})
                              \cup {w \in commit.writes : s \in Sources(commit)}]]

Reindexed(c) ==
  LET ix == FoldLeft(IndexCommit, [reading |-> NoReading, deps |-> NoReading], c.log.commits)
  IN  [c EXCEPT !.reading = ix.reading, !.deps = ix.deps]

WritesTo(log, i) == {k \in DOMAIN log.commits : i \in log.commits[k].writes}

HasProducer(log, i) == WritesTo(log, i) # {}
Producer(log, i)    == log.commits[Max(WritesTo(log, i))]

-----------------------------------------------------------------------------
(* Staleness *)

(* The read of a source that has moved since; a deleted source has not.     *)
Outdated(c, r) == r.item \in Live(c) /\ c.art[r.item].ver > r.ver

(* What "stale" means.                                                      *)
StaleNow(c) ==
  {i \in Live(c) : HasProducer(c.log, i) /\ \E r \in Producer(c.log, i).reads : Outdated(c, r)}

Recomputed(c) == [c EXCEPT !.stale = StaleNow(c)]

(* A bug: a read of the version just replaced counts as current.            *)
DependentsButLast(c, i) ==
  {j \in c.deps[i] \cap Live(c) :
     \E r \in Producer(c.log, j).reads : r.item = i /\ r.ver + 1 < c.art[i].ver}

Dependents(c, i) ==
  {j \in c.deps[i] \cap Live(c) :
     \E r \in Producer(c.log, j).reads : r.item = i /\ Outdated(c, r)}

-----------------------------------------------------------------------------
(* create, update, delete *)

(* What an operation leaves of an artifact: a Create of an existing one     *)
(* refreshes it, equal data changes nothing.                                *)
AfterOp(a, op) ==
  CASE op.kind = "delete"                 -> Absent
    [] op.kind = "update" /\ a = Absent   -> Absent
    [] op.kind # "delete" /\ a # Absent   -> IF a.val = op.val THEN a
                                             ELSE [val |-> op.val, ver |-> a.ver + 1]
    [] OTHER                              -> Fresh(op.val)

(* Deleted artifacts leave the stale set, dependents of updated ones enter. *)
WithOps(c, ops) ==
  LET art  == [i \in Items |-> IF i \in DOMAIN ops THEN AfterOp(c.art[i], ops[i]) ELSE c.art[i]]
      next == [c EXCEPT !.art = art]
      both == Live(c) \cap Live(next)
      bumped == {i \in both : art[i] # c.art[i]}
  IN  [next EXCEPT !.stale = (@ \cup (both \cap UNION {Dependents(next, i) : i \in bumped}))
                               \cap Live(next)]

(* The writes of a patch: not an Update of an artifact that is not there.   *)
WritesOf(c, ops) == {i \in DOMAIN ops : ops[i].kind = "update" => i \in Live(c)}

(* `behind` is history: the reads that were outdated before the commit was  *)
(* logged, because a source moved after the agent read it.                  *)
CommitOf(c, ops, reads, writes) ==
  [ops |-> ops, reads |-> reads, writes |-> writes,
   behind |-> {r.item : r \in {x \in reads : Outdated(c, x)}}]

(* log_commit: what a commit wrote is fresh.                                *)
Logged(c, commit) ==
  IndexCommit([c EXCEPT !.log = AppendCommit(@, commit), !.stale = @ \ commit.writes], commit)

(* _apply_patch and log_commit.                                             *)
Patched(c, ops, reads) ==
  LET applied == WithOps(c, ops)
  IN  Logged(applied, CommitOf(applied, ops, reads, WritesOf(c, ops)))

-----------------------------------------------------------------------------
(* checkout, compact, clone, load *)

(* A bug: only artifacts absent at v are taken back.                        *)
RolledBackNew(c, v) ==
  LET then == ReplayState(c.log, v)
      art  == [i \in Items |-> IF then[i] = Absent /\ i \in Touched(c.log, v) THEN Absent ELSE c.art[i]]
  IN  Recomputed(Reindexed([c EXCEPT !.art = art, !.log = Truncate(@, v)]))

(* Artifacts touched since v are rebuilt, their versions start over.        *)
RolledBack(c, v) ==
  LET then == CheckoutState(Data(c), c.log, v)
      kept == Live(c) \ Touched(c.log, v)
      art  == [i \in Items |-> IF i \in kept THEN c.art[i]
                               ELSE IF then[i] = Absent THEN Absent ELSE Fresh(then[i])]
  IN  Recomputed(Reindexed([c EXCEPT !.art = art, !.log = Truncate(@, v)]))

CanCompact(c, keep) == Version(c.log) - keep > c.log.floor

(* A bug: the last commit that is dropped is not in the baseline.           *)
CompactedShort(c, keep) ==
  LET cutoff == Version(c.log) - keep
      short  == [CompactTo(c.log, cutoff) EXCEPT !.baseline = ReplayState(c.log, cutoff - 1)]
  IN  Recomputed(Reindexed([c EXCEPT !.log = short]))

Compacted(c, keep) ==
  Recomputed(Reindexed([c EXCEPT !.log = CompactTo(@, Version(@) - keep)]))

(* clone_context, and from_dict of to_dict.                                 *)
Copied(c) == Recomputed(Reindexed(c))

Forked(c) == [Copied(c) EXCEPT !.base = <<Data(c)>>]
=============================================================================
