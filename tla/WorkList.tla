------------------------------ MODULE WorkList ------------------------------
(***************************************************************************)
(* Which agents a generation runs, for which events and in which order:    *)
(* the collection in Runtime._arun_once_impl (reactifact/runtime.py), the  *)
(* Scheduler (reactifact/scheduler.py) and the cut by max_runs.            *)
(*                                                                         *)
(* A batch m says of event e and agent a whether it does not match ("no"), *)
(* matches ("now"), or matches with every trigger debounced ("settle").    *)
(* A work item is <<a, e>>; the reads collected with it are left out.      *)
(***************************************************************************)
EXTENDS Integers, Sequences, FiniteSets, FiniteSetsExt, SequencesExt

CONSTANTS
  Agents,    \* the agents of the Runtime, a sequence
  Priority,  \* Agent.priority: lower runs earlier
  None       \* Python's None

ASSUME WorkListAssumption ==
  /\ Agents \in Seq(DOMAIN Priority) /\ IsInjective(Agents)
  /\ \A a \in DOMAIN Priority : Priority[a] \in Int
  /\ None \notin Nat

(* The elements of S in the order of the pairs in `before`.                 *)
Arranged(S, before) ==
  [n \in 1 .. Cardinality(S) |->
     CHOOSE x \in S : Cardinality({y \in S : <<y, x>> \in before}) = n - 1]

(* The part of s that is at the places I. *)
Part(s, I) ==
  LET places == Arranged(I, {p \in I \X I : p[1] < p[2]})
  IN  [n \in DOMAIN places |-> s[places[n]]]

(* sorted(items, key=priority), which is stable. *)
ByPriority(items) ==
  LET key(i) == Priority[items[i][1]]
      places == Arranged(DOMAIN items, {p \in (DOMAIN items) \X (DOMAIN items) :
                  key(p[1]) < key(p[2]) \/ (key(p[1]) = key(p[2]) /\ p[1] < p[2])})
  IN  [n \in DOMAIN places |-> items[places[n]]]

(* a comes before b in sorted(self.agents, key=priority). *)
Earlier(a, b) ==
  \/ Priority[a] < Priority[b]
  \/ /\ Priority[a] = Priority[b]
     /\ \E i, j \in DOMAIN Agents : i < j /\ Agents[i] = a /\ Agents[j] = b

(* The items of a set as the loops over events and over agents meet them.   *)
AsMet(items) ==
  Arranged(items, {p \in items \X items :
    p[1][2] < p[2][2] \/ (p[1][2] = p[2][2] /\ Earlier(p[1][1], p[2][1]))})

(* What is left of a batch for the loops when the deadline passes just      *)
(* before they look at agent a for event e: they stop there.                *)
UpTo(m, a, e) ==
  [d \in DOMAIN m |-> [b \in DOMAIN Priority |->
     IF d < e \/ (d = e /\ Earlier(b, a)) THEN m[d][b] ELSE "no"]]

Asking(m, how) == {it \in ToSet(Agents) \X DOMAIN m : m[it[2]][it[1]] = how}

SettleEvents(m, a) == {e \in DOMAIN m : m[e][a] = "settle"}

(* The dict of debounced runs: an agent keeps the place of its first        *)
(* debounced event and the last event staged for it.                        *)
Debounced(m) ==
  LET firsts == AsMet({it \in Asking(m, "settle") : it[2] = Min(SettleEvents(m, it[1]))})
  IN  [i \in DOMAIN firsts |-> <<firsts[i][1], Max(SettleEvents(m, firsts[i][1]))>>]

(* A bug: the first debounced event of an agent wins. *)
CollectFirst(m) ==
  LET settled == AsMet({it \in Asking(m, "settle") : it[2] = Min(SettleEvents(m, it[1]))})
  IN  IF settled = <<>> THEN AsMet(Asking(m, "now"))
      ELSE ByPriority(AsMet(Asking(m, "now")) \o settled)

(* The work a batch asks for: sorted only if something is debounced. *)
Collect(m) ==
  LET now == AsMet(Asking(m, "now"))
  IN  IF Debounced(m) = <<>> THEN now ELSE ByPriority(now \o Debounced(m))

(* Scheduler.run: the items that resume an answered question come first, in *)
(* their order; of the rest the rules keep a part, or all of it if they     *)
(* would keep none; the metric and the model put that in any order; and     *)
(* rank_limit, unless it is None, keeps that many of it, which may be none. *)
Schedules(work, resumes, limit) ==
  IF Len(work) <= 1 THEN {work}
  ELSE LET pinned == Part(work, {i \in DOMAIN work : work[i][2] \in resumes})
           rest   == {it \in ToSet(work) : it[2] \notin resumes}
           kept   == IF rest = {} THEN {{}} ELSE (SUBSET rest) \ {{}}
           Cut(s) == IF limit # None /\ Len(s) > limit THEN SubSeq(s, 1, limit) ELSE s
       IN  {pinned \o Cut(s) : s \in UNION {SetToSeqs(k) : k \in kept}}

(* work[:remaining], nothing once max_runs is used up. *)
Slice(work, remaining) == SubSeq(work, 1, IF remaining < Len(work) THEN remaining ELSE Len(work))
=============================================================================
