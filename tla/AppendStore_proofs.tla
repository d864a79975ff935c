------------------------- MODULE AppendStore_proofs -------------------------
(***************************************************************************)
(* What TLAPS proves of AppendStore, for any number of overlapping saves   *)
(* and deletions and any sequence of cancellations, failures and crashes.  *)
(*                                                                         *)
(* compact_every bounds the append log up to one entry per fault.          *)
(* EntriesBounded is not inductive: what an append does to it was decided  *)
(* when the save counted.  The invariant charges every save on its way to  *)
(* append in advance (LogCharged), and there are no more of those than one *)
(* awaited save and the abandoned ones, each of which cost a fault.        *)
(*                                                                         *)
(* A reopened session is the one last saved.  SessionIsSaved speaks of the *)
(* store at rest; the invariant (Held) relates it to the Context, to the   *)
(* marker and to what each save under way has read of the three: the store *)
(* has reached a version w (Reached) below which no save starts copying    *)
(* and above which no commit is marked, and what was changed outside the   *)
(* commits is still so in the Context and in every save that captured it,  *)
(* so that the working tree of the next entry makes it good.               *)
(*                                                                         *)
(* A stopped rewrite is repeated while faults are few (Repeats): what made *)
(* it due is still there unless the one abandoned save there can be has    *)
(* cleared the entries.                                                    *)
(*                                                                         *)
(* What replaying makes of a chain of commits that grows, is rolled back   *)
(* or is compacted comes first, for chains of any length.  Replaying is a  *)
(* fold, so these are inductions over the chain, done by least             *)
(* counterexample: the fold is computed by a run of states, one per commit *)
(* (FoldReplays), and two runs that differed would first differ somewhere. *)
(***************************************************************************)
EXTENDS AppendStore, FiniteSetTheorems, WellFoundedInduction, TLAPS

-----------------------------------------------------------------------------
(* Least elements *)

Smaller == {xy \in Nat \X Nat : xy[1] < xy[2]}

(* The natural numbers have no infinite descent, so what is not empty among *)
(* them has a least element, which Min picks.                               *)
LEMMA LeastNatural ==
  ASSUME NEW S, S \subseteq Nat, S # {}
  PROVE  Min(S) \in S /\ \A y \in S : Min(S) <= y
<1>1. IsWellFoundedOn(Smaller, Nat)
  BY NatLessThanWellFounded DEF OpToRel, Smaller
<1>2. \E x \in S : \A y \in S : ~ (<<y, x>> \in Smaller)
  BY Zenon, <1>1, WFMin
<1>3. ASSUME NEW x \in S, NEW y \in S, ~ (<<y, x>> \in Smaller)
      PROVE  x <= y
  BY <1>3 DEF Smaller
<1>4. \E x \in S : \A y \in S : x <= y
  BY Zenon, <1>2, <1>3
<1> QED
  BY Zenon, <1>4 DEF Min

(* A set of indices has a greatest one, which Max picks.                    *)
LEMMA MaxOfSegment ==
  ASSUME NEW n \in Nat, NEW s \in SUBSET (1 .. n), s # {}
  PROVE  Max(s) \in s /\ \A y \in s : Max(s) >= y
<1> DEFINE T == {n - x : x \in s}
<1>1. T \subseteq Nat /\ T # {}
  <2>1. \A x \in s : n - x \in Nat
    OBVIOUS
  <2> QED BY <2>1
<1>2. PICK m \in T : \A y \in T : m <= y
  BY Zenon, <1>1, LeastNatural
<1>3. PICK x \in s : m = n - x
  OBVIOUS
<1>4. \A y \in s : x >= y
  <2> TAKE y \in s
  <2>1. m <= n - y
    BY <1>2
  <2> QED BY <1>3, <2>1
<1> QED
  BY Zenon, <1>4 DEF Max

-----------------------------------------------------------------------------
(* Folds *)

(* g computes, for each set of indices up to n, what folding over it yields *)
(* that takes the greatest index away and makes a step with it: the         *)
(* recursion of Folds.tla as FoldLeft uses it.                              *)
FoldsOver(g, n, V, base, step) ==
  /\ g \in [SUBSET (1 .. n) -> V]
  /\ \A s \in SUBSET (1 .. n) :
       g[s] = IF s = {} THEN base ELSE step[<<g[s \ {Max(s)}], Max(s)>>]

(* What g says of the initial segments of the indices.                      *)
Segments(g, n) == [k \in 0 .. n |-> g[1 .. k]]

(* What is known of a g that is defined by that recursion, where nothing is *)
(* known yet of the values it takes.                                        *)
Recurs(g, n, V, base, step) ==
  \A s \in SUBSET (1 .. n) :
    IF s = {} THEN g[s] = base
    ELSE g[s \ {Max(s)}] \in V => g[s] = step[<<g[s \ {Max(s)}], Max(s)>>]

(* r begins with `base` and makes one step per index.                       *)
Runs(r, n, V, base, step) ==
  /\ r \in [0 .. n -> V] /\ r[0] = base
  /\ \A k \in 1 .. n : r[k] = step[<<r[k - 1], k>>]

(* What FoldLeft computes from `base` and `step` is computed by a function  *)
(* on the sets of indices: Folds.tla takes the last index away, one by one. *)
(* There is such a function whatever the step is, shown without an          *)
(* induction over operators: if there were none for some length, there      *)
(* would be a least such length.                                            *)
LEMMA FoldExists ==
  ASSUME NEW n \in Nat, NEW V, NEW base \in V, NEW step \in [V \X (1 .. n) -> V]
  PROVE  \E g : FoldsOver(g, n, V, base, step)
<1> DEFINE Computes(g, k) == FoldsOver(g, k, V, base, step)
           Fails == {k \in 0 .. n : \A g : ~Computes(g, k)}
<1>1. 0 \notin Fails
  <2> DEFINE g == [s \in SUBSET (1 .. 0) |-> base]
  <2>1. 1 .. 0 = {} /\ 0 \in 0 .. n
    OBVIOUS
  <2>2. Computes(g, 0)
    BY <2>1 DEF FoldsOver
  <2> QED BY <2>2
<1>2. ASSUME NEW k \in 0 .. n, k + 1 \in 0 .. n, k \notin Fails
      PROVE  k + 1 \notin Fails
  <2>1. PICK g : Computes(g, k)
    BY <1>2
  <2> DEFINE h == [s \in SUBSET (1 .. k + 1) |->
                     IF k + 1 \in s THEN step[<<g[s \ {k + 1}], k + 1>>] ELSE g[s]]
  <2>2. \A s \in SUBSET (1 .. k + 1) :
          /\ s \ {k + 1} \in SUBSET (1 .. k)
          /\ k + 1 \in s => Max(s) = k + 1
          /\ k + 1 \notin s => s \in SUBSET (1 .. k) /\ s \ {Max(s)} \in SUBSET (1 .. k)
    <3> TAKE s \in SUBSET (1 .. k + 1)
    <3>1. k \in Nat /\ \A x \in s : x \in Nat /\ x <= k + 1
      OBVIOUS
    <3>2. \A x \in s \ {k + 1} : x \in 1 .. k
      BY <3>1
    <3>3. ASSUME k + 1 \in s PROVE Max(s) = k + 1
      <4>1. \A y \in s : k + 1 >= y
        BY <3>1
      <4>2. Max(s) \in s /\ \A y \in s : Max(s) >= y
        BY Zenon, <3>3, <4>1 DEF Max
      <4>3. Max(s) <= k + 1 /\ Max(s) >= k + 1 /\ Max(s) \in Nat /\ k + 1 \in Nat
        BY <3>1, <3>3, <4>2
      <4> QED BY <4>3
    <3> QED BY <3>2, <3>3
  <2>3. k + 1 \in 1 .. n /\ k \in Nat
    BY <1>2
  <2>4. h \in [SUBSET (1 .. k + 1) -> V]
    <3>1. \A s \in SUBSET (1 .. k + 1) : g[s \ {k + 1}] \in V /\ (k + 1 \notin s => g[s] \in V)
      BY <2>1, <2>2 DEF FoldsOver
    <3> QED BY <2>3, <3>1
  <2>5. ASSUME NEW s \in SUBSET (1 .. k + 1)
        PROVE  h[s] = IF s = {} THEN base ELSE step[<<h[s \ {Max(s)}], Max(s)>>]
    <3>1. CASE k + 1 \in s
      <4>1. s # {} /\ Max(s) = k + 1
        BY <2>2, <3>1
      <4>2. h[s \ {k + 1}] = g[s \ {k + 1}]
        BY <2>2
      <4> QED BY <3>1, <4>1, <4>2
    <3>2. CASE k + 1 \notin s
      <4>1. h[s] = g[s] /\ s \in SUBSET (1 .. k)
        BY <2>2, <3>2
      <4>2. h[s \ {Max(s)}] = g[s \ {Max(s)}]
        BY <2>2, <3>2
      <4> HIDE DEF h
      <4> QED BY <2>1, <4>1, <4>2 DEF FoldsOver
    <3> QED BY <3>1, <3>2
  <2> HIDE DEF h
  <2>6. Computes(h, k + 1)
    BY <2>4, <2>5 DEF FoldsOver
  <2> QED BY <2>6
<1>3. Fails = {}
  <2> HIDE DEF Fails
  <2> SUFFICES ASSUME Fails # {} PROVE FALSE
    OBVIOUS
  <2>1. Fails \subseteq 0 .. n /\ Fails \subseteq Nat
    BY DEF Fails
  <2>2. PICK k \in Fails : \A y \in Fails : k <= y
    BY Zenon, <2>1, LeastNatural
  <2>3. k # 0 /\ k \in 0 .. n
    BY <1>1, <2>1
  <2>4. k - 1 \in 0 .. n /\ (k - 1) + 1 = k
    BY <2>3
  <2>5. k - 1 \in Fails
    BY <1>2, <2>3, <2>4
  <2> QED BY <2>2, <2>3, <2>5
<1>4. \E g : Computes(g, n)
  <2> HIDE DEF Computes
  <2>1. n \in 0 .. n
    OBVIOUS
  <2> QED BY <1>3, <2>1
<1> QED
  BY <1>4

(* What such a function says of the initial segments: a run, which begins   *)
(* with `base` and makes one step per index.                                *)
LEMMA FoldRuns ==
  ASSUME NEW n \in Nat, NEW V, NEW base \in V, NEW step \in [V \X (1 .. n) -> V], NEW g,
         Recurs(g, n, V, base, step)
  PROVE  Runs(Segments(g, n), n, V, base, step)
<1> DEFINE r == [k \in 0 .. n |-> g[1 .. k]]
           Fails == {k \in 0 .. n : g[1 .. k] \notin V}
<1>1. g[1 .. 0] = base
  <2>1. 1 .. 0 = {} /\ {} \in SUBSET (1 .. n)
    OBVIOUS
  <2> QED BY <2>1 DEF Recurs
<1>2. ASSUME NEW k \in 1 .. n, g[1 .. (k - 1)] \in V
      PROVE  g[1 .. k] = step[<<g[1 .. (k - 1)], k>>]
  <2>1. /\ 1 .. k \in SUBSET (1 .. n) /\ 1 .. k # {}
        /\ (1 .. k) \ {k} = 1 .. (k - 1)
        /\ k \in 1 .. k /\ \A y \in 1 .. k : k >= y
    OBVIOUS
  <2>2. Max(1 .. k) \in 1 .. k /\ \A y \in 1 .. k : Max(1 .. k) >= y
    BY Zenon, <2>1 DEF Max
  <2>3. Max(1 .. k) = k
    BY <2>1, <2>2
  <2> QED BY <1>2, <2>1, <2>3 DEF Recurs
<1>3. Fails = {}
  <2> HIDE DEF Fails
  <2> SUFFICES ASSUME Fails # {} PROVE FALSE
    OBVIOUS
  <2>1. Fails \subseteq 0 .. n /\ Fails \subseteq Nat
    BY DEF Fails
  <2>2. PICK k \in Fails : \A y \in Fails : k <= y
    BY Zenon, <2>1, LeastNatural
  <2>3. k \in 0 .. n /\ g[1 .. k] \notin V
    BY DEF Fails
  <2>4. k \in 1 .. n /\ k - 1 \in 0 .. n /\ k - 1 < k
    BY <1>1, <2>3
  <2>5. g[1 .. (k - 1)] \in V
    BY <2>2, <2>4 DEF Fails
  <2>6. step[<<g[1 .. (k - 1)], k>>] \in V
    BY <2>4, <2>5
  <2> QED BY <1>2, <2>3, <2>4, <2>5, <2>6
<1>4. \A k \in 0 .. n : g[1 .. k] \in V
  BY <1>3
<1>5. r \in [0 .. n -> V] /\ r[0] = base
  BY <1>1, <1>4
<1>6. \A k \in 1 .. n : r[k] = step[<<r[k - 1], k>>]
  BY <1>2, <1>4
<1> QED
  BY <1>5, <1>6 DEF Runs, Segments

-----------------------------------------------------------------------------
(* Parts of sequences *)

(* f is g from index d on, as far as I goes.                                *)
Shifted(f, g, d, I) == \A k \in I : f[k] = g[k + d]

LEMMA SuffixFacts ==
  ASSUME NEW S, NEW q \in Seq(S), NEW a \in 0 .. Len(q), NEW p, p = SubSeq(q, a + 1, Len(q))
  PROVE  p \in Seq(S) /\ Len(p) = Len(q) - a /\ Shifted(p, q, a, 1 .. Len(q) - a)
<1>1. p \in Seq(S) /\ Len(p) = Len(q) - a
  OBVIOUS
<1>2. \A k \in 1 .. Len(q) - a : p[k] = q[k + a]
  OBVIOUS
<1> QED
  BY <1>1, <1>2 DEF Shifted

-----------------------------------------------------------------------------
(* Chains *)

(* The operations a commit can record, those of a merge included.           *)
OpRecs ==
  [kind : {"create", "update", "adopt"}, val : Vals] \cup {[kind |-> "delete", val |-> Absent]}

(* C is a set of commits, whatever else they record besides operations.     *)
HasOps(C) == \A c \in C : c.ops \in UNION {[S -> OpRecs] : S \in SUBSET Items}

LogsOf(C) == [floor : Nat, baseline : States, commits : Seq(C)]

-----------------------------------------------------------------------------
(* Replaying *)

(* r holds the states that replaying cs from base goes through.             *)
Replays(r, base, cs) ==
  /\ r \in [0 .. Len(cs) -> States] /\ r[0] = base
  /\ \A k \in 1 .. Len(cs) : r[k] = ReplayCommit(r[k - 1], cs[k])

LEMMA OpsTyped ==
  ASSUME NEW C, HasOps(C), NEW c \in C
  PROVE  /\ DOMAIN c.ops \subseteq Items
         /\ \A i \in DOMAIN c.ops : c.ops[i] \in OpRecs /\ c.ops[i].val \in Vals \cup {Absent}
<1>1. PICK S \in SUBSET Items : c.ops \in [S -> OpRecs]
  BY DEF HasOps
<1>2. \A op \in OpRecs : op.val \in Vals \cup {Absent}
  BY DEF OpRecs
<1> QED
  BY <1>1, <1>2

LEMMA ReplayTyped ==
  ASSUME NEW C, HasOps(C), NEW state \in States, NEW c \in C
  PROVE  ReplayCommit(state, c) \in States
<1>1. \A i \in Items : state[i] \in Vals \cup {Absent}
  BY DEF States
<1> QED
  BY <1>1, OpsTyped DEF ReplayCommit, States

(* FoldLeft makes such a run. *)
LEMMA FoldReplays ==
  ASSUME NEW C, HasOps(C), NEW base \in States, NEW cs \in Seq(C)
  PROVE  \E r : Replays(r, base, cs) /\ FoldLeft(ReplayCommit, base, cs) = r[Len(cs)]
<1> DEFINE n == Len(cs)
           step == [p \in States \X (1 .. n) |-> ReplayCommit(p[1], cs[p[2]])]
           Computes(g) == g = [s \in SUBSET (1 .. n) |->
             IF s = {} THEN base ELSE ReplayCommit(g[s \ {Max(s)}], cs[Max(s)])]
           it == CHOOSE g : Computes(g)
<1>1. DOMAIN cs = 1 .. n /\ n \in Nat /\ \A k \in 1 .. n : cs[k] \in C
  OBVIOUS
<1>2. FoldLeft(ReplayCommit, base, cs) = it[1 .. n]
  BY <1>1 DEF FoldLeft, MapThenFoldSet
<1>3. step \in [States \X (1 .. n) -> States]
  BY <1>1, ReplayTyped
<1>4. \E g : Computes(g)
  <2>1. PICK g : FoldsOver(g, n, States, base, step)
    <3> HIDE DEF step, n
    <3>1. n \in Nat
      BY <1>1
    <3> QED BY <3>1, <1>3, FoldExists
  <2>2. ASSUME NEW s \in SUBSET (1 .. n), s # {}
        PROVE  g[s] = ReplayCommit(g[s \ {Max(s)}], cs[Max(s)])
    <3>1. s \ {Max(s)} \in SUBSET (1 .. n)
      OBVIOUS
    <3>2. Max(s) \in s
      BY Zenon, <1>1, <2>2, MaxOfSegment
    <3> HIDE DEF n
    <3>3. <<g[s \ {Max(s)}], Max(s)>> \in States \X (1 .. n)
      BY <2>1, <3>1, <3>2 DEF FoldsOver
    <3> QED BY <2>1, <2>2, <3>3 DEF FoldsOver
  <2>3. Computes(g)
    BY <2>1, <2>2 DEF FoldsOver
  <2> QED BY <2>3
<1>5. Computes(it)
  BY Zenon, <1>4
<1>6. Recurs(it, n, States, base, step)
  <2> SUFFICES ASSUME NEW s \in SUBSET (1 .. n)
               PROVE  IF s = {} THEN it[s] = base
                      ELSE it[s \ {Max(s)}] \in States =>
                             it[s] = step[<<it[s \ {Max(s)}], Max(s)>>]
    BY DEF Recurs
  <2> HIDE DEF it
  <2>1. CASE s = {}
    BY <1>5, <2>1
  <2>2. CASE s # {}
    <3>1. it[s] = ReplayCommit(it[s \ {Max(s)}], cs[Max(s)])
      BY <1>5, <2>2
    <3>2. Max(s) \in 1 .. n
      <4>1. Max(s) \in s
        BY Zenon, <1>1, <2>2, MaxOfSegment
      <4> QED BY <4>1
    <3> QED BY <2>2, <3>1, <3>2
  <2> QED BY <2>1, <2>2
<1> DEFINE r == Segments(it, n)
<1>7. Runs(r, n, States, base, step) /\ r[n] = it[1 .. n]
  <2> HIDE DEF it, step, n, Computes
  <2>1. n \in Nat
    BY <1>1
  <2>2. Runs(r, n, States, base, step)
    BY <2>1, <1>3, <1>6, FoldRuns
  <2> QED BY <2>1, <2>2 DEF Segments
<1> HIDE DEF r
<1>8. \A k \in 1 .. n : r[k] = ReplayCommit(r[k - 1], cs[k])
  <2> TAKE k \in 1 .. n
  <2>1. k - 1 \in 0 .. n
    BY <1>1
  <2> HIDE DEF n
  <2>2. <<r[k - 1], k>> \in States \X (1 .. n)
    BY <1>7, <2>1 DEF Runs
  <2> QED BY <1>7, <2>2 DEF Runs
<1> QED
  BY <1>2, <1>7, <1>8 DEF Replays, Runs

(* Two runs over commits that are the same from index d on, the second of   *)
(* which begins with the state the first has there, are the same.           *)
LEMMA ReplaysAgree ==
  ASSUME NEW C, HasOps(C), NEW d \in Nat, NEW m \in Nat,
         NEW cs \in Seq(C), NEW ds \in Seq(C), d + m <= Len(cs), m <= Len(ds),
         Shifted(ds, cs, d, 1 .. m),
         NEW r, NEW base, Replays(r, base, cs), NEW q, Replays(q, r[d], ds)
  PROVE  Shifted(q, r, d, 0 .. m)
<1> DEFINE Fails == {k \in 0 .. m : q[k] # r[k + d]}
<1>1. q[0] = r[0 + d]
  BY DEF Replays
<1>2. ASSUME NEW k \in 1 .. m, q[k - 1] = r[(k - 1) + d]
      PROVE  q[k] = r[k + d]
  <2>1. k \in 1 .. Len(ds) /\ k + d \in 1 .. Len(cs) /\ (k - 1) + d = (k + d) - 1
    OBVIOUS
  <2>2. q[k] = ReplayCommit(q[k - 1], ds[k])
    BY <2>1 DEF Replays
  <2>3. r[k + d] = ReplayCommit(r[(k + d) - 1], cs[k + d])
    BY <2>1 DEF Replays
  <2> QED BY <1>2, <2>1, <2>2, <2>3 DEF Shifted
<1>3. Fails = {}
  <2> HIDE DEF Fails
  <2> SUFFICES ASSUME Fails # {} PROVE FALSE
    OBVIOUS
  <2>1. Fails \subseteq 0 .. m /\ Fails \subseteq Nat
    BY DEF Fails
  <2>2. PICK k \in Fails : \A y \in Fails : k <= y
    BY Zenon, <2>1, LeastNatural
  <2>3. k \in 0 .. m /\ q[k] # r[k + d]
    BY DEF Fails
  <2>4. k \in 1 .. m /\ k - 1 \in 0 .. m /\ k - 1 < k
    BY <1>1, <2>3
  <2>5. q[k - 1] = r[(k - 1) + d]
    BY <2>2, <2>4 DEF Fails
  <2> QED BY <1>2, <2>3, <2>4, <2>5
<1> QED
  BY <1>3 DEF Shifted

(* The states of the versions a chain retains are those of one run.         *)
Recalls(r, log) ==
  /\ Replays(r, log.baseline, log.commits)
  /\ \A v \in log.floor .. Version(log) : ReplayState(log, v) = r[v - log.floor]

LEMMA VersionStates ==
  ASSUME NEW C, HasOps(C), NEW log \in LogsOf(C)
  PROVE  \E r : Recalls(r, log)
<1> DEFINE cs == log.commits
<1>1. /\ log.floor \in Nat /\ log.baseline \in States /\ cs \in Seq(C)
      /\ Len(cs) \in Nat
  BY DEF LogsOf
<1>2. PICK r : Replays(r, log.baseline, cs)
  BY <1>1, FoldReplays
<1>3. ASSUME NEW v \in log.floor .. Version(log)
      PROVE  ReplayState(log, v) = r[v - log.floor]
  <2> DEFINE m == v - log.floor
             ds == CommitsUpto(log, v)
  <2>1. m \in 0 .. Len(cs) /\ m \in Nat
    BY <1>1 DEF Version
  <2>2. ds \in Seq(C) /\ Len(ds) = m /\ \A k \in 1 .. m : ds[k] = cs[k]
    BY <1>1, <2>1 DEF CommitsUpto
  <2>3. PICK q : Replays(q, log.baseline, ds) /\ ReplayState(log, v) = q[Len(ds)]
    BY <1>1, <2>2, FoldReplays DEF ReplayState
  <2>4. r[0] = log.baseline
    BY <1>2 DEF Replays
  <2> HIDE DEF ds, m, cs
  <2>5. Shifted(ds, cs, 0, 1 .. m)
    BY <2>1, <2>2 DEF Shifted
  <2>6. 0 \in Nat /\ 0 + m <= Len(cs) /\ m <= Len(ds)
    BY <1>1, <2>1, <2>2
  <2>7. Shifted(q, r, 0, 0 .. m)
    <3>1. Replays(q, r[0], ds)
      BY <2>3, <2>4
    <3>2. m \in Nat /\ ds \in Seq(C) /\ cs \in Seq(C) /\ Replays(r, log.baseline, cs)
      BY <1>1, <1>2, <2>1, <2>2
    <3> QED BY <3>1, <3>2, <2>5, <2>6, ReplaysAgree
  <2>8. m \in 0 .. m /\ m + 0 = m
    BY <2>1
  <2>9. q[m] = r[m]
    BY <2>7, <2>8 DEF Shifted
  <2> QED BY <2>2, <2>3, <2>9 DEF m
<1> QED
  BY <1>2, <1>3 DEF Recalls

LEMMA HistoryTyped ==
  ASSUME NEW C, HasOps(C), NEW log \in LogsOf(C)
  PROVE  /\ Version(log) \in Nat /\ log.floor <= Version(log)
         /\ \A v \in log.floor .. Version(log) : ReplayState(log, v) \in States
         /\ ReplayState(log, log.floor) = log.baseline
<1>1. PICK r : Recalls(r, log)
  BY VersionStates
<1>2. log.floor \in Nat /\ Len(log.commits) \in Nat /\ Version(log) = log.floor + Len(log.commits)
  BY DEF LogsOf, Version
<1>3. \A v \in log.floor .. Version(log) : v - log.floor \in 0 .. Len(log.commits)
  BY <1>2
<1> QED
  BY <1>1, <1>2, <1>3 DEF Recalls, Replays

(* What two chains say of the versions they share, the commits of which     *)
(* they share.                                                              *)
LEMMA SharedHistory ==
  ASSUME NEW C, HasOps(C), NEW log \in LogsOf(C), NEW new \in LogsOf(C), NEW d \in Nat, NEW m \in Nat,
         new.floor = log.floor + d, new.baseline = ReplayState(log, new.floor),
         d + m <= Len(log.commits), m <= Len(new.commits),
         Shifted(new.commits, log.commits, d, 1 .. m)
  PROVE  \A v \in new.floor .. new.floor + m : ReplayState(new, v) = ReplayState(log, v)
<1>1. PICK r : Recalls(r, log)
  BY VersionStates
<1>2. PICK q : Recalls(q, new)
  BY VersionStates
<1>3. /\ log.floor \in Nat /\ log.commits \in Seq(C) /\ Len(log.commits) \in Nat
      /\ new.floor \in Nat /\ new.commits \in Seq(C) /\ Len(new.commits) \in Nat
  BY DEF LogsOf
<1>4. new.floor \in log.floor .. Version(log)
  BY <1>3 DEF Version
<1>5. new.baseline = r[d]
  <2>1. new.floor - log.floor = d
    BY <1>3
  <2> QED BY <1>1, <1>4, <2>1 DEF Recalls
<1>6. Shifted(q, r, d, 0 .. m)
  <2>1. Replays(r, log.baseline, log.commits) /\ Replays(q, r[d], new.commits)
    BY <1>1, <1>2, <1>5 DEF Recalls
  <2> QED BY <1>3, <2>1, ReplaysAgree
<1> TAKE v \in new.floor .. new.floor + m
<1> DEFINE k == v - new.floor
<1>7. /\ k \in 0 .. m /\ v - log.floor = k + d
      /\ v \in new.floor .. Version(new) /\ v \in log.floor .. Version(log)
  <2> DEFINE a == log.floor
             b == new.floor
             x == Len(log.commits)
             y == Len(new.commits)
  <2>1. /\ Version(new) = b + y /\ Version(log) = a + x /\ b = a + d
        /\ a \in Nat /\ b \in Nat /\ x \in Nat /\ y \in Nat /\ d + m <= x /\ m <= y
        /\ v \in Int /\ b <= v /\ v <= b + m
    BY <1>3 DEF Version
  <2> HIDE DEF a, b, x, y
  <2>2. v - b \in 0 .. m /\ v - a = (v - b) + d /\ v \in b .. b + y /\ v \in a .. a + x
    BY <2>1
  <2> QED BY <2>1, <2>2 DEF a, b
<1>8. ReplayState(new, v) = q[k] /\ ReplayState(log, v) = r[k + d]
  BY <1>1, <1>2, <1>7 DEF Recalls
<1>9. q[k] = r[k + d]
  BY <1>6, <1>7 DEF Shifted
<1> QED
  BY <1>8, <1>9

(* A commit adds a version and changes none.                                *)
LEMMA AppendHistory ==
  ASSUME NEW C, HasOps(C), NEW log \in LogsOf(C), NEW c \in C, NEW new, new = AppendCommit(log, c)
  PROVE  /\ new \in LogsOf(C) /\ new.floor = log.floor /\ Version(new) = Version(log) + 1
         /\ \A v \in log.floor .. Version(log) : ReplayState(new, v) = ReplayState(log, v)
         /\ Committed(new) = ReplayCommit(Committed(log), c)
<1> DEFINE n == Len(log.commits)
<1>1. /\ log.floor \in Nat /\ log.baseline \in States /\ log.commits \in Seq(C)
      /\ n \in Nat
      /\ log = [floor |-> log.floor, baseline |-> log.baseline, commits |-> log.commits]
  BY DEF LogsOf
<1>2. new = [floor |-> log.floor, baseline |-> log.baseline, commits |-> Append(log.commits, c)]
  BY <1>1 DEF AppendCommit
<1>3. new \in LogsOf(C)
  BY <1>1, <1>2 DEF LogsOf
<1>4. /\ new.floor = log.floor /\ new.baseline = log.baseline
      /\ Len(new.commits) = n + 1 /\ new.commits[n + 1] = c
      /\ \A k \in 1 .. n : new.commits[k] = log.commits[k]
  BY <1>1, <1>2
<1>5. Version(new) = Version(log) + 1 /\ Version(log) = log.floor + n
  BY <1>1, <1>4 DEF Version
<1>6. \A v \in log.floor .. Version(log) : ReplayState(new, v) = ReplayState(log, v)
  <2>1. Shifted(new.commits, log.commits, 0, 1 .. n)
    BY <1>1, <1>4 DEF Shifted
  <2>2. /\ 0 \in Nat /\ n \in Nat /\ new.floor = log.floor + 0
        /\ 0 + n <= Len(log.commits) /\ n <= Len(new.commits)
    BY <1>1, <1>4
  <2>3. new.baseline = ReplayState(log, new.floor)
    BY <1>4, HistoryTyped
  <2> HIDE DEF n
  <2>4. \A v \in new.floor .. new.floor + n : ReplayState(new, v) = ReplayState(log, v)
    BY <1>3, <2>1, <2>2, <2>3, SharedHistory
  <2> QED BY <1>4, <1>5, <2>4
<1>7. Committed(new) = ReplayCommit(Committed(log), c)
  <2>1. PICK q : Recalls(q, new)
    BY <1>3, VersionStates
  <2>2. q[n + 1] = ReplayCommit(q[n], c)
    <3>1. n + 1 \in 1 .. Len(new.commits) /\ (n + 1) - 1 = n
      BY <1>1, <1>4
    <3>2. q[n + 1] = ReplayCommit(q[(n + 1) - 1], new.commits[n + 1])
      BY <2>1, <3>1 DEF Recalls, Replays
    <3> QED BY <1>4, <3>1, <3>2
  <2>3. /\ Version(new) \in new.floor .. Version(new) /\ Version(new) - new.floor = n + 1
        /\ Version(log) \in new.floor .. Version(new) /\ Version(log) - new.floor = n
        /\ Version(log) \in log.floor .. Version(log)
    BY <1>1, <1>4, <1>5
  <2>4. ReplayState(new, Version(new)) = q[n + 1] /\ ReplayState(new, Version(log)) = q[n]
    BY <2>1, <2>3 DEF Recalls
  <2> QED BY <1>6, <2>2, <2>3, <2>4 DEF Committed
<1> QED
  BY <1>3, <1>4, <1>5, <1>6, <1>7

(* A rollback drops versions from the top.                                  *)
LEMMA TruncateHistory ==
  ASSUME NEW C, HasOps(C), NEW log \in LogsOf(C), NEW v \in log.floor .. Version(log), NEW new, new = Truncate(log, v)
  PROVE  /\ new \in LogsOf(C) /\ new.floor = log.floor /\ Version(new) = v
         /\ \A u \in log.floor .. v : ReplayState(new, u) = ReplayState(log, u)
<1> DEFINE m == v - log.floor
<1>1. /\ log.floor \in Nat /\ log.baseline \in States /\ log.commits \in Seq(C)
      /\ Len(log.commits) \in Nat /\ m \in Nat /\ m <= Len(log.commits)
      /\ log = [floor |-> log.floor, baseline |-> log.baseline, commits |-> log.commits]
  BY DEF LogsOf, Version
<1>2. new = [floor |-> log.floor, baseline |-> log.baseline, commits |-> SubSeq(log.commits, 1, m)]
  BY <1>1 DEF Truncate, CommitsUpto
<1>3. new \in LogsOf(C)
  BY <1>1, <1>2 DEF LogsOf
<1>4. /\ new.floor = log.floor /\ new.baseline = log.baseline /\ Len(new.commits) = m
      /\ \A k \in 1 .. m : new.commits[k] = log.commits[k]
  BY <1>1, <1>2
<1>5. Version(new) = v
  BY <1>1, <1>4 DEF Version
<1>6. Shifted(new.commits, log.commits, 0, 1 .. m)
  BY <1>1, <1>4 DEF Shifted
<1>7. /\ 0 \in Nat /\ new.floor = log.floor + 0
      /\ 0 + m <= Len(log.commits) /\ m <= Len(new.commits) /\ new.floor + m = v
  BY <1>1, <1>4
<1>8. new.baseline = ReplayState(log, new.floor)
  BY <1>4, HistoryTyped
<1> HIDE DEF m
<1>9. \A u \in new.floor .. new.floor + m : ReplayState(new, u) = ReplayState(log, u)
  BY <1>1, <1>3, <1>6, <1>7, <1>8, SharedHistory
<1> QED
  BY <1>3, <1>4, <1>5, <1>7, <1>9

(* A compaction drops versions from the bottom.                             *)
LEMMA CompactHistory ==
  ASSUME NEW C, HasOps(C), NEW log \in LogsOf(C), NEW cutoff \in log.floor .. Version(log),
         NEW new, new = CompactTo(log, cutoff)
  PROVE  /\ new \in LogsOf(C) /\ new.floor = cutoff /\ Version(new) = Version(log)
         /\ \A v \in cutoff .. Version(log) : ReplayState(new, v) = ReplayState(log, v)
<1> DEFINE d == cutoff - log.floor
           m == Len(log.commits) - d
<1>1. /\ log.floor \in Nat /\ log.baseline \in States /\ log.commits \in Seq(C)
      /\ Len(log.commits) \in Nat /\ d \in Nat /\ m \in Nat /\ d + m = Len(log.commits)
      /\ cutoff \in Nat /\ cutoff = log.floor + d
  BY DEF LogsOf, Version
<1>2. (IF cutoff > log.floor THEN cutoff - log.floor ELSE 0) + 1 = d + 1
  BY <1>1
<1>3. new = [floor |-> cutoff, baseline |-> ReplayState(log, cutoff),
             commits |-> SubSeq(log.commits, d + 1, Len(log.commits))]
  BY <1>2 DEF CompactTo, CommitsFrom
<1>4. ReplayState(log, cutoff) \in States
  BY HistoryTyped
<1>a. new.floor = cutoff /\ new.baseline = ReplayState(log, cutoff)
  BY <1>3
<1>5. /\ new.commits \in Seq(C) /\ Len(new.commits) = m
      /\ \A k \in 1 .. m : new.commits[k] = log.commits[k + d]
  <2> HIDE DEF d, m
  <2>1. new.commits = SubSeq(log.commits, d + 1, Len(log.commits)) /\ d \in 0 .. Len(log.commits)
    BY <1>1, <1>3
  <2>2. new.commits \in Seq(C) /\ Len(new.commits) = Len(log.commits) - d
        /\ Shifted(new.commits, log.commits, d, 1 .. Len(log.commits) - d)
    BY <1>1, <2>1, SuffixFacts
  <2>3. Len(log.commits) - d = m
    BY <1>1
  <2> QED BY <2>2, <2>3 DEF Shifted
<1>6. new \in LogsOf(C)
  BY <1>1, <1>3, <1>4, <1>5, <1>a DEF LogsOf
<1>7. Version(new) = Version(log) /\ cutoff + m = Version(log)
  BY <1>1, <1>5, <1>a DEF Version
<1>8. Shifted(new.commits, log.commits, d, 1 .. m)
  BY <1>1, <1>5 DEF Shifted
<1>9. d + m <= Len(log.commits) /\ m <= Len(new.commits)
  <2>1. d + m \in Nat /\ d + m = Len(log.commits) /\ m \in Nat /\ m = Len(new.commits)
    BY <1>1, <1>5
  <2>2. \A x, y \in Nat : x = y => x <= y
    OBVIOUS
  <2> HIDE DEF d, m
  <2> QED BY ONLY <2>1, <2>2
<1> HIDE DEF d, m
<1>10. \A v \in new.floor .. new.floor + m : ReplayState(new, v) = ReplayState(log, v)
  <2>1. /\ d \in Nat /\ m \in Nat /\ new.floor = log.floor + d
        /\ new.baseline = ReplayState(log, new.floor)
    BY <1>1, <1>a
  <2> QED BY <2>1, <1>6, <1>8, <1>9, SharedHistory
<1> QED
  BY <1>a, <1>6, <1>7, <1>10

(* What no commit after v names is at the newest version what it was at v.  *)
LEMMA UntouchedStays ==
  ASSUME NEW C, HasOps(C), NEW log \in LogsOf(C), NEW v \in log.floor .. Version(log),
         NEW i \in Items, i \notin Touched(log, v)
  PROVE  ReplayState(log, v)[i] = Committed(log)[i]
<1> DEFINE m == v - log.floor
           n == Len(log.commits)
<1>1. PICK r : Recalls(r, log)
  BY VersionStates
<1>2. /\ log.floor \in Nat /\ log.commits \in Seq(C) /\ n \in Nat /\ m \in 0 .. n
      /\ Version(log) = log.floor + n /\ v \in Nat /\ n = Len(log.commits)
      /\ v - log.floor = m
      /\ (IF v > log.floor THEN v - log.floor ELSE 0) + 1 = m + 1
  BY DEF LogsOf, Version
<1> HIDE DEF m, n
<1>3. ASSUME NEW k \in m + 1 .. n  PROVE r[k][i] = r[k - 1][i]
  <2>1. PICK late : late = CommitsFrom(log, v)
    OBVIOUS
  <2>2. late = SubSeq(log.commits, m + 1, n)
    BY <1>2, <2>1 DEF CommitsFrom
  <2>3. k - m \in DOMAIN late /\ late[k - m] = log.commits[k]
    <3> DEFINE b == n - m
               j == k - m
    <3>1. m \in Nat /\ b \in Nat /\ n = m + b /\ j \in 1 .. b /\ j + m = k /\ m + b <= n
      BY <1>2
    <3> HIDE DEF m, b, j
    <3>2. Len(late) = b /\ late \in Seq(C) /\ \A l \in 1 .. b : late[l] = log.commits[l + m]
      <4>1. late = SubSeq(log.commits, m + 1, Len(log.commits)) /\ m \in 0 .. Len(log.commits)
        BY <1>2, <2>2
      <4>2. late \in Seq(C) /\ Len(late) = Len(log.commits) - m
            /\ Shifted(late, log.commits, m, 1 .. Len(log.commits) - m)
        BY <4>1, <1>2, SuffixFacts
      <4>3. Len(log.commits) - m = b
        BY <1>2, <3>1
      <4> QED BY <4>2, <4>3 DEF Shifted
    <3>3. j \in DOMAIN late /\ late[j] = log.commits[k]
      BY <3>1, <3>2
    <3> QED BY <3>3 DEF j
  <2>4. log.commits[k] \in ToSet(late)
    BY <2>3 DEF ToSet
  <2>5. ~(i \in DOMAIN log.commits[k].ops /\ log.commits[k].ops[i].kind # "adopt")
    BY <2>1, <2>4 DEF Touched
  <2>6. r[k] = ReplayCommit(r[k - 1], log.commits[k])
    BY <1>1, <1>2 DEF Recalls, Replays
  <2> QED BY <2>5, <2>6 DEF ReplayCommit
<1> DEFINE Fails == {k \in m .. n : r[k][i] # r[m][i]}
<1>4. Fails = {}
  <2> HIDE DEF Fails
  <2> SUFFICES ASSUME Fails # {} PROVE FALSE
    OBVIOUS
  <2>1. Fails \subseteq m .. n /\ Fails \subseteq Nat
    BY <1>2 DEF Fails
  <2>2. PICK k \in Fails : \A y \in Fails : k <= y
    BY Zenon, <2>1, LeastNatural
  <2>3. k \in m .. n /\ r[k][i] # r[m][i]
    BY DEF Fails
  <2>4. k \in m + 1 .. n /\ k - 1 \in m .. n /\ k - 1 < k
    BY <1>2, <2>3
  <2>5. r[k - 1][i] = r[m][i]
    BY <2>2, <2>4 DEF Fails
  <2> QED BY <1>3, <2>3, <2>4, <2>5
<1>5. r[n][i] = r[m][i]
  BY <1>2, <1>4
<1>6. /\ v \in log.floor .. Version(log) /\ Version(log) \in log.floor .. Version(log)
      /\ Version(log) - log.floor = n
  BY <1>2
<1> QED
  <2>1. ReplayState(log, v) = r[m] /\ ReplayState(log, Version(log)) = r[n]
    BY <1>1, <1>2, <1>6 DEF Recalls
  <2> QED BY <1>5, <2>1 DEF Committed

-----------------------------------------------------------------------------
(* Commits, versions and the live artifacts *)

(* The commit that made version u.                                          *)
CommitAt(log, u) == log.commits[u - log.floor]

(* From m on, no commit updates what no commit created.                     *)
Grounded(log, m) ==
  \A u \in m + 1 .. Version(log) : \A i \in DOMAIN CommitAt(log, u).ops :
    CommitAt(log, u).ops[i].kind = "update" => ReplayState(log, u - 1)[i] # Absent

LEMMA CommitsShaped == HasOps(Commits) /\ LogsOf(Commits) = Logs
<1>1. Ops \subseteq OpRecs
  BY DEF Ops, OpRecs
<1>2. ASSUME NEW c \in Commits
      PROVE  c.ops \in UNION {[S -> OpRecs] : S \in SUBSET Items}
  <2>1. PICK S \in SUBSET Items : c.ops \in [S -> Ops]
    BY DEF Commits
  <2>2. c.ops \in [S -> OpRecs]
    BY <1>1, <2>1
  <2> QED BY <2>2
<1> QED
  BY <1>2 DEF HasOps, LogsOf, Logs

LEMMA CommitTyped ==
  ASSUME NEW c \in Commits
  PROVE  /\ DOMAIN c.ops \subseteq Items
         /\ \A i \in DOMAIN c.ops : /\ c.ops[i].kind \in {"create", "update", "delete"}
                                    /\ c.ops[i].kind = "delete" => c.ops[i].val = Absent
                                    /\ c.ops[i].kind # "delete" => c.ops[i].val \in Vals
                                    /\ c.ops[i].val \in Vals \cup {Absent}
<1>1. PICK S \in SUBSET Items : c.ops \in [S -> Ops]
  BY DEF Commits
<1>2. \A o \in Ops : /\ o.kind \in {"create", "update", "delete"}
                     /\ o.kind = "delete" => o.val = Absent
                     /\ o.kind # "delete" => o.val \in Vals
                     /\ o.val \in Vals \cup {Absent}
  BY DEF Ops
<1> QED
  BY <1>1, <1>2

(* What one commit does to an item of the committed state ...               *)
LEMMA ReplayOne ==
  ASSUME NEW c \in Commits, NEW state \in States, NEW i \in Items
  PROVE  /\ ReplayCommit(state, c) \in States
         /\ i \in DOMAIN c.ops => ReplayCommit(state, c)[i] = c.ops[i].val
         /\ i \notin DOMAIN c.ops => ReplayCommit(state, c)[i] = state[i]
<1>1. ReplayCommit(state, c) \in States
  BY CommitsShaped, ReplayTyped
<1> QED
  BY <1>1, CommitTyped DEF ReplayCommit

(* ... and to a live one.                                                   *)
LEMMA ApplyOne ==
  ASSUME NEW c \in Commits, NEW art \in States, NEW i \in Items
  PROVE  /\ ApplyCommit(art, c) \in States
         /\ i \in DOMAIN c.ops /\ (c.ops[i].kind = "update" => art[i] # Absent)
              => ApplyCommit(art, c)[i] = c.ops[i].val
         /\ i \in DOMAIN c.ops /\ c.ops[i].kind = "update" /\ art[i] = Absent
              => ApplyCommit(art, c)[i] = art[i]
         /\ i \notin DOMAIN c.ops => ApplyCommit(art, c)[i] = art[i]
<1>1. ApplyCommit(art, c) \in States
  BY CommitTyped DEF ApplyCommit, States
<1> QED
  BY <1>1, CommitTyped DEF ApplyCommit

(* r holds the live artifacts that applying cs to base goes through.        *)
Applies(r, base, cs) ==
  /\ r \in [0 .. Len(cs) -> States] /\ r[0] = base
  /\ \A k \in 1 .. Len(cs) : r[k] = ApplyCommit(r[k - 1], cs[k])

LEMMA FoldApplies ==
  ASSUME NEW base \in States, NEW cs \in Seq(Commits)
  PROVE  \E r : Applies(r, base, cs) /\ FoldLeft(ApplyCommit, base, cs) = r[Len(cs)]
<1> DEFINE n == Len(cs)
           step == [p \in States \X (1 .. n) |-> ApplyCommit(p[1], cs[p[2]])]
           Computes(g) == g = [s \in SUBSET (1 .. n) |->
             IF s = {} THEN base ELSE ApplyCommit(g[s \ {Max(s)}], cs[Max(s)])]
           it == CHOOSE g : Computes(g)
<1>1. DOMAIN cs = 1 .. n /\ n \in Nat /\ \A k \in 1 .. n : cs[k] \in Commits
  OBVIOUS
<1>2. FoldLeft(ApplyCommit, base, cs) = it[1 .. n]
  BY <1>1 DEF FoldLeft, MapThenFoldSet
<1>3. step \in [States \X (1 .. n) -> States]
  <2>1. \A art \in States, c \in Commits : ApplyCommit(art, c) \in States
    BY CommitTyped DEF ApplyCommit, States
  <2> QED BY <1>1, <2>1
<1>4. \E g : Computes(g)
  <2>1. PICK g : FoldsOver(g, n, States, base, step)
    <3> HIDE DEF step, n
    <3>1. n \in Nat
      BY <1>1
    <3> QED BY <3>1, <1>3, FoldExists
  <2>2. ASSUME NEW s \in SUBSET (1 .. n), s # {}
        PROVE  g[s] = ApplyCommit(g[s \ {Max(s)}], cs[Max(s)])
    <3>1. s \ {Max(s)} \in SUBSET (1 .. n)
      OBVIOUS
    <3>2. Max(s) \in s
      BY Zenon, <1>1, <2>2, MaxOfSegment
    <3> HIDE DEF n
    <3>3. <<g[s \ {Max(s)}], Max(s)>> \in States \X (1 .. n)
      BY <2>1, <3>1, <3>2 DEF FoldsOver
    <3> QED BY <2>1, <2>2, <3>3 DEF FoldsOver
  <2>3. Computes(g)
    BY <2>1, <2>2 DEF FoldsOver
  <2> QED BY <2>3
<1>5. Computes(it)
  BY Zenon, <1>4
<1>6. Recurs(it, n, States, base, step)
  <2> SUFFICES ASSUME NEW s \in SUBSET (1 .. n)
               PROVE  IF s = {} THEN it[s] = base
                      ELSE it[s \ {Max(s)}] \in States =>
                             it[s] = step[<<it[s \ {Max(s)}], Max(s)>>]
    BY DEF Recurs
  <2> HIDE DEF it
  <2>1. CASE s = {}
    BY <1>5, <2>1
  <2>2. CASE s # {}
    <3>1. it[s] = ApplyCommit(it[s \ {Max(s)}], cs[Max(s)])
      BY <1>5, <2>2
    <3>2. Max(s) \in 1 .. n
      <4>1. Max(s) \in s
        BY Zenon, <1>1, <2>2, MaxOfSegment
      <4> QED BY <4>1
    <3> QED BY <2>2, <3>1, <3>2
  <2> QED BY <2>1, <2>2
<1> DEFINE r == Segments(it, n)
<1>7. Runs(r, n, States, base, step) /\ r[n] = it[1 .. n]
  <2> HIDE DEF it, step, n, Computes
  <2>1. n \in Nat
    BY <1>1
  <2>2. Runs(r, n, States, base, step)
    BY <2>1, <1>3, <1>6, FoldRuns
  <2> QED BY <2>1, <2>2 DEF Segments
<1> HIDE DEF r
<1>8. \A k \in 1 .. n : r[k] = ApplyCommit(r[k - 1], cs[k])
  <2> TAKE k \in 1 .. n
  <2>1. k - 1 \in 0 .. n
    BY <1>1
  <2> HIDE DEF n
  <2>2. <<r[k - 1], k>> \in States \X (1 .. n)
    BY <1>7, <2>1 DEF Runs
  <2> QED BY <1>7, <2>2 DEF Runs
<1> QED
  BY <1>2, <1>7, <1>8 DEF Applies, Runs

-----------------------------------------------------------------------------
(* The commits after version m and the states they lead to.                 *)
LEMMA LaterCommits ==
  ASSUME NEW log \in Logs, NEW m \in log.floor .. Version(log), NEW cs, cs = CommitsFrom(log, m)
  PROVE  /\ cs \in Seq(Commits) /\ Len(cs) = Version(log) - m
         /\ \A k \in 1 .. Len(cs) : /\ cs[k] = CommitAt(log, m + k) /\ cs[k] \in Commits
                                    /\ m + k \in m + 1 .. Version(log)
<1> DEFINE d == m - log.floor
<1>1. /\ log.floor \in Nat /\ log.commits \in Seq(Commits) /\ Len(log.commits) \in Nat
      /\ d \in 0 .. Len(log.commits) /\ m = log.floor + d
      /\ Version(log) = log.floor + Len(log.commits)
      /\ (IF m > log.floor THEN m - log.floor ELSE 0) + 1 = d + 1
  BY DEF Logs, Version
<1>2. cs = SubSeq(log.commits, d + 1, Len(log.commits))
  BY <1>1 DEF CommitsFrom
<1> HIDE DEF d
<1>3. cs \in Seq(Commits) /\ Len(cs) = Len(log.commits) - d
      /\ Shifted(cs, log.commits, d, 1 .. Len(log.commits) - d)
  BY <1>1, <1>2, SuffixFacts
<1>4. ASSUME NEW k \in 1 .. Len(cs)
      PROVE  cs[k] = CommitAt(log, m + k) /\ m + k \in m + 1 .. Version(log)
  <2>1. (m + k) - log.floor = k + d /\ k \in 1 .. Len(log.commits) - d
    <3>1. k \in 1 .. Len(log.commits) - d
      BY <1>3
    <3>2. \A f, e, j \in Int : ((f + e) + j) - f = j + e
      OBVIOUS
    <3>3. k \in Int /\ d \in Int /\ log.floor \in Int
      BY <1>1, <3>1
    <3> QED BY <1>1, <3>1, <3>2, <3>3
  <2>2. cs[k] = log.commits[k + d]
    BY <1>3, <2>1 DEF Shifted
  <2>3. m + k \in m + 1 .. Version(log)
    <3>1. PICK f, l, v : f = log.floor /\ l = Len(log.commits) /\ v = Version(log)
      OBVIOUS
    <3>2. f \in Nat /\ l \in Nat /\ d \in 0 .. l /\ m = f + d /\ v = f + l /\ k \in 1 .. l - d
      BY ONLY <1>1, <2>1, <3>1
    <3>3. m + k \in Nat /\ m + k >= m + 1 /\ m + k <= v /\ m \in Nat /\ v \in Nat
      BY ONLY <3>2
    <3> QED BY ONLY <3>1, <3>3
  <2> QED BY <2>1, <2>2, <2>3 DEF CommitAt
<1>5. Len(cs) = Version(log) - m
  <2>1. PICK l \in Nat, f \in Nat : l = Len(log.commits) /\ f = log.floor
    BY <1>1
  <2>2. d \in Int /\ m = f + d /\ Version(log) = f + l /\ Len(cs) = l - d
    BY <1>1, <1>3, <2>1
  <2>3. \A x, y, z \in Int : (x + y) - (x + z) = y - z
    OBVIOUS
  <2>4. (f + l) - (f + d) = l - d
    <3>1. f \in Int /\ l \in Int /\ d \in Int
      BY <2>1, <2>2
    <3> QED BY ONLY <2>3, <3>1, Zenon
  <2> QED BY ONLY <2>2, <2>4, Zenon
<1>6. \A k \in 1 .. Len(cs) : cs[k] \in Commits
  BY <1>3
<1> QED
  BY <1>3, <1>4, <1>5, <1>6

LEMMA VersionStep ==
  ASSUME NEW log \in Logs, NEW u \in log.floor + 1 .. Version(log)
  PROVE  /\ CommitAt(log, u) \in Commits
         /\ ReplayState(log, u - 1) \in States /\ ReplayState(log, u) \in States
         /\ ReplayState(log, u) = ReplayCommit(ReplayState(log, u - 1), CommitAt(log, u))
<1>1. PICK r : Recalls(r, log)
  BY CommitsShaped, VersionStates
<1> DEFINE k == u - log.floor
<1>2. /\ log.floor \in Nat /\ log.commits \in Seq(Commits) /\ Len(log.commits) \in Nat
      /\ k \in 1 .. Len(log.commits) /\ (u - 1) - log.floor = k - 1
      /\ u \in log.floor .. Version(log) /\ u - 1 \in log.floor .. Version(log)
      /\ k \in 0 .. Len(log.commits) /\ k - 1 \in 0 .. Len(log.commits)
  BY DEF Logs, Version
<1>3. ReplayState(log, u) = r[k] /\ ReplayState(log, u - 1) = r[k - 1]
  BY <1>1, <1>2 DEF Recalls
<1>4. CommitAt(log, u) = log.commits[k] /\ log.commits[k] \in Commits
  BY <1>2 DEF CommitAt
<1> HIDE DEF k
<1> QED
  BY <1>1, <1>2, <1>3, <1>4 DEF Recalls, Replays

(* An item a commit after m names is touched after m, and no other is.      *)
LEMMA TouchedAt ==
  ASSUME NEW log \in Logs, NEW m \in log.floor .. Version(log)
  PROVE  Touched(log, m) =
           {i \in Items : \E u \in m + 1 .. Version(log) : i \in DOMAIN CommitAt(log, u).ops}
<1> DEFINE cs == CommitsFrom(log, m)
<1>1. /\ cs \in Seq(Commits) /\ Len(cs) = Version(log) - m
      /\ \A k \in 1 .. Len(cs) : /\ cs[k] = CommitAt(log, m + k) /\ cs[k] \in Commits
                                 /\ m + k \in m + 1 .. Version(log)
  BY LaterCommits
<1> HIDE DEF cs
<1>2. log.floor \in Nat /\ m \in Nat /\ Version(log) \in Nat
  BY DEF Logs, Version
<1>3. ASSUME NEW i \in Touched(log, m)
      PROVE  \E u \in m + 1 .. Version(log) : i \in DOMAIN CommitAt(log, u).ops
  <2>1. PICK k \in 1 .. Len(cs) : i \in DOMAIN cs[k].ops
    BY <1>1 DEF Touched, ToSet, cs
  <2> QED BY <1>1, <2>1
<1>4. ASSUME NEW i \in Items, NEW u \in m + 1 .. Version(log), i \in DOMAIN CommitAt(log, u).ops
      PROVE  i \in Touched(log, m)
  <2> DEFINE k == u - m
  <2>1. k \in 1 .. Len(cs) /\ m + k = u
    BY <1>1, <1>2
  <2> HIDE DEF k
  <2>2. i \in DOMAIN cs[k].ops /\ cs[k] \in Commits
    BY <1>1, <1>4, <2>1
  <2>3. cs[k] \in ToSet(cs)
    BY <1>1, <2>1 DEF ToSet
  <2>4. cs[k].ops[i].kind # "adopt"
    BY <2>2, CommitTyped
  <2> QED BY <2>2, <2>3, <2>4 DEF Touched, cs
<1> QED
  BY <1>3, <1>4 DEF Touched

-----------------------------------------------------------------------------
(* Replaying and applying again what was seen before *)

(* What holds at a, and at k + 1 where it holds at k, holds up to b.        *)
LEMMA UpTo ==
  ASSUME NEW a \in Nat, NEW b \in Nat, NEW Good, a \in Good,
         \A k \in a + 1 .. b : k - 1 \in Good => k \in Good
  PROVE  a .. b \subseteq Good
<1> DEFINE Fails == (a .. b) \ Good
<1> SUFFICES ASSUME Fails # {} PROVE FALSE
  OBVIOUS
<1>1. Fails \subseteq Nat /\ Fails \subseteq a .. b
  OBVIOUS
<1> HIDE DEF Fails
<1>2. PICK k \in Fails : \A y \in Fails : k <= y
  BY Zenon, <1>1, LeastNatural
<1>3. k \in a .. b /\ k \notin Good
  BY <1>2 DEF Fails
<1>4. k \in a + 1 .. b /\ k - 1 \in a .. b /\ k - 1 < k
  BY <1>3
<1>5. k - 1 \in Good
  BY <1>2, <1>4 DEF Fails
<1> QED
  BY <1>3, <1>4, <1>5

(* The commits of a chain as steps between the states of its versions.      *)
LEMMA ChainSteps ==
  ASSUME NEW log \in Logs, NEW m \in log.floor .. Version(log), NEW cs, cs = CommitsFrom(log, m)
  PROVE  /\ log.floor \in Nat /\ m \in Nat /\ Version(log) \in Nat /\ m <= Version(log)
         /\ cs \in Seq(Commits) /\ Len(cs) = Version(log) - m
         /\ \A v \in log.floor .. Version(log) : ReplayState(log, v) \in States
         /\ \A k \in 1 .. Len(cs) :
              /\ cs[k] = CommitAt(log, m + k) /\ cs[k] \in Commits
              /\ m + k \in m + 1 .. Version(log)
              /\ ReplayState(log, m + k) = ReplayCommit(ReplayState(log, (m + k) - 1), cs[k])
<1>1. log.floor \in Nat /\ m \in Nat /\ Version(log) \in Nat /\ m <= Version(log)
      /\ log.floor <= m
  BY DEF Logs, Version
<1>2. /\ cs \in Seq(Commits) /\ Len(cs) = Version(log) - m
      /\ \A k \in 1 .. Len(cs) : /\ cs[k] = CommitAt(log, m + k) /\ cs[k] \in Commits
                                 /\ m + k \in m + 1 .. Version(log)
  BY LaterCommits
<1>3. \A v \in log.floor .. Version(log) : ReplayState(log, v) \in States
  BY CommitsShaped, HistoryTyped
<1>4. ASSUME NEW k \in 1 .. Len(cs)
      PROVE  ReplayState(log, m + k) = ReplayCommit(ReplayState(log, (m + k) - 1), cs[k])
  <2>1. m + k \in log.floor + 1 .. Version(log)
    BY <1>1, <1>2
  <2>2. cs[k] = CommitAt(log, m + k)
    BY <1>2
  <2> QED BY <2>1, <2>2, VersionStep
<1> QED
  BY <1>1, <1>2, <1>3, <1>4

(* Replaying once more what a state has already seen leads to where it led  *)
(* before: the last commit that names an item decides.                      *)
LEMMA ReplayedAgain ==
  ASSUME NEW log \in Logs, NEW m \in log.floor .. Version(log), NEW w \in m .. Version(log),
         NEW z, Replays(z, ReplayState(log, w), CommitsFrom(log, m))
  PROVE  z[Version(log) - m] = Committed(log)
<1> DEFINE S(v) == ReplayState(log, v)
           cs == CommitsFrom(log, m)
           n == Version(log) - m
           p == w - m
<1>1. /\ log.floor \in Nat /\ m \in Nat /\ Version(log) \in Nat /\ n \in Nat /\ p \in 0 .. n
      /\ Len(cs) = n
      /\ \A v \in log.floor .. Version(log) : S(v) \in States
      /\ \A k \in 1 .. n : cs[k] \in Commits /\ S(m + k) = ReplayCommit(S((m + k) - 1), cs[k])
      /\ m <= w /\ w <= Version(log) /\ w \in Nat /\ log.floor <= m
  BY ChainSteps
<1>2. /\ z \in [0 .. n -> States] /\ z[0] = S(w)
      /\ \A k \in 1 .. n : z[k] = ReplayCommit(z[k - 1], cs[k])
  BY <1>1 DEF Replays
<1>3. \A k \in 1 .. n : (m + k) - 1 = m + (k - 1) /\ k - 1 \in 0 .. n
  BY <1>1
<1>4. \A k \in 0 .. n : m + k \in log.floor .. Version(log)
  BY <1>1
<1> DEFINE Near == {k \in 0 .. n : \A i \in Items : z[k][i] \in {S(m + k)[i], S(w)[i]}}
<1>5. \A k \in 1 .. n : k - 1 \in Near => k \in Near
  <2> SUFFICES ASSUME NEW k \in 1 .. n, k - 1 \in Near, NEW i \in Items
               PROVE  z[k][i] \in {S(m + k)[i], S(w)[i]}
    <3>1. \A k \in 1 .. n : k \in 0 .. n
      BY <1>1
    <3> HIDE DEF S, n
    <3> QED BY <3>1
  <2>1. z[k - 1][i] \in {S(m + (k - 1))[i], S(w)[i]}
    OBVIOUS
  <2>2. S(m + (k - 1)) \in States /\ z[k - 1] \in States /\ cs[k] \in Commits
    BY <1>1, <1>2, <1>3, <1>4
  <2>3. S(m + k) = ReplayCommit(S(m + (k - 1)), cs[k]) /\ z[k] = ReplayCommit(z[k - 1], cs[k])
    BY <1>1, <1>2, <1>3
  <2> HIDE DEF Near, S, cs
  <2> QED BY <2>1, <2>2, <2>3, ReplayOne
<1>6. p \in Near
  <2>1. m + 0 = m /\ 0 \in 0 .. n
    BY <1>1
  <2>2. 0 \in Near
    BY <1>2, <2>1
  <2> HIDE DEF Near, n, p
  <2>3. \A k \in 0 + 1 .. n : k - 1 \in Near => k \in Near
    BY <1>5
  <2>4. 0 .. n \subseteq Near
    BY <1>1, <2>2, <2>3, UpTo
  <2> QED BY <1>1, <2>4
<1>7. m + p = w
  BY <1>1
<1>8. z[p] = S(m + p)
  <2>1. \A i \in Items : z[p][i] = S(w)[i]
    BY <1>6, <1>7
  <2>2. z[p] \in States /\ S(w) \in States
    <3>1. w \in log.floor .. Version(log)
      BY <1>1
    <3> QED BY <1>1, <1>2, <3>1
  <2> HIDE DEF S, p
  <2>3. z[p] = S(w)
    BY <2>1, <2>2 DEF States
  <2> QED BY <1>7, <2>3
<1> DEFINE Same == {k \in 0 .. n : z[k] = S(m + k)}
<1>9. n \in Same
  <2>1. \A k \in p + 1 .. n : k - 1 \in Same => k \in Same
    <3> SUFFICES ASSUME NEW k \in p + 1 .. n, k - 1 \in Same
                 PROVE  z[k] = S(m + k) /\ k \in 0 .. n
      OBVIOUS
    <3>1. k \in 1 .. n /\ k \in 0 .. n
      BY <1>1
    <3>2. z[k - 1] = S(m + (k - 1))
      OBVIOUS
    <3> HIDE DEF S, Same, cs, n, p
    <3>3. z[k - 1] = S((m + k) - 1)
      BY <1>3, <3>1, <3>2
    <3> QED BY <1>1, <1>2, <3>1, <3>3
  <2>2. p \in Same
    BY <1>1, <1>8
  <2> HIDE DEF Same, n, p
  <2>3. p \in Nat /\ n \in Nat
    BY <1>1
  <2>4. p .. n \subseteq Same
    BY <2>1, <2>2, <2>3, UpTo
  <2> QED BY <1>1, <2>3, <2>4
<1>10. m + n = Version(log)
  BY <1>1
<1> QED
  BY <1>9, <1>10 DEF Committed

(* Applying once more commits of which the live artifacts have seen a part  *)
(* makes every item what the commits say, but for those that were changed   *)
(* outside the commits and that no commit after m names.                    *)
LEMMA AppliedAgain ==
  ASSUME NEW log \in Logs, NEW m \in log.floor .. Version(log), NEW w \in m .. Version(log),
         Grounded(log, m), NEW x \in States, NEW i \in Items,
         ReplayState(log, w)[i] # Absent => x[i] # Absent,
         NEW y, Applies(y, x, CommitsFrom(log, m))
  PROVE  \/ y[Version(log) - m][i] = Committed(log)[i]
         \/ y[Version(log) - m][i] = x[i] /\ x[i] # Absent /\ i \notin Touched(log, m)
<1> DEFINE S(v) == ReplayState(log, v)
           cs == CommitsFrom(log, m)
           n == Version(log) - m
           p == w - m
<1>1. /\ log.floor \in Nat /\ m \in Nat /\ Version(log) \in Nat /\ n \in Nat /\ p \in 0 .. n
      /\ Len(cs) = n /\ p \in Nat
      /\ \A v \in log.floor .. Version(log) : S(v) \in States
      /\ \A k \in 1 .. n : /\ cs[k] \in Commits /\ cs[k] = CommitAt(log, m + k)
                           /\ m + k \in m + 1 .. Version(log)
                           /\ S(m + k) = ReplayCommit(S((m + k) - 1), cs[k])
      /\ m <= w /\ w <= Version(log) /\ w \in Nat /\ log.floor <= m
  BY ChainSteps
<1>2. /\ y \in [0 .. n -> States] /\ y[0] = x
      /\ \A k \in 1 .. n : y[k] = ApplyCommit(y[k - 1], cs[k])
  BY <1>1 DEF Applies
<1>3. \A k \in 1 .. n : (m + k) - 1 = m + (k - 1) /\ k - 1 \in 0 .. n /\ k \in 0 .. n
  BY <1>1
<1>4. \A k \in 0 .. n : m + k \in log.floor .. Version(log)
  BY <1>1
<1>5. ASSUME NEW k \in 1 .. n
      PROVE  /\ y[k - 1] \in States /\ S(m + (k - 1)) \in States
             /\ i \notin DOMAIN cs[k].ops =>
                  y[k][i] = y[k - 1][i] /\ S(m + k)[i] = S(m + (k - 1))[i]
             /\ i \in DOMAIN cs[k].ops /\ y[k - 1][i] # Absent => y[k][i] = S(m + k)[i]
             /\ i \in DOMAIN cs[k].ops /\ S(m + (k - 1))[i] = Absent => y[k][i] = S(m + k)[i]
             /\ y[k - 1][i] = Absent => y[k][i] \in {Absent, S(m + k)[i]}
  <2>1. y[k - 1] \in States /\ S(m + (k - 1)) \in States /\ cs[k] \in Commits
    BY <1>1, <1>2, <1>3, <1>4
  <2>2. S(m + k) = ReplayCommit(S(m + (k - 1)), cs[k]) /\ y[k] = ApplyCommit(y[k - 1], cs[k])
    BY <1>1, <1>2, <1>3
  <2>3. i \in DOMAIN cs[k].ops /\ cs[k].ops[i].kind = "update" => S(m + (k - 1))[i] # Absent
    <3>1. /\ m + k \in m + 1 .. Version(log) /\ cs[k] = CommitAt(log, m + k)
          /\ S((m + k) - 1) = S(m + (k - 1))
      BY <1>1, <1>3
    <3> QED BY <3>1 DEF Grounded
  <2> HIDE DEF S, cs, n
  <2> QED BY <2>1, <2>2, <2>3, ReplayOne, ApplyOne
<1>6. m + n = Version(log) /\ m + p = w /\ m + 0 = m /\ n \in 0 .. n /\ 0 \in 0 .. n
  BY <1>1
<1>7. CASE x[i] # Absent
  <2> DEFINE Kept(k) == y[k][i] = x[i] /\ \A j \in 1 .. k : i \notin DOMAIN cs[j].ops
             Good == {k \in 0 .. n : y[k][i] = S(m + k)[i] \/ Kept(k)}
  <2>1. 0 \in Good
    BY <1>2, <1>6
  <2>2. ASSUME NEW k \in 0 + 1 .. n, k - 1 \in Good
        PROVE  k \in Good
    <3>1. k \in 1 .. n /\ k \in 0 .. n /\ k \in Nat
      BY <1>3
    <3>2. y[k - 1][i] = S(m + (k - 1))[i] \/ Kept(k - 1)
      BY <2>2
    <3>3. CASE i \in DOMAIN cs[k].ops
      <4>1. y[k][i] = S(m + k)[i]
        BY <1>5, <1>7, <3>1, <3>2, <3>3
      <4> QED BY <3>1, <4>1
    <3>4. CASE i \notin DOMAIN cs[k].ops
      <4>1. y[k][i] = y[k - 1][i] /\ S(m + k)[i] = S(m + (k - 1))[i]
        BY <1>5, <3>1, <3>4
      <4>2. \A j \in 1 .. k : j = k \/ j \in 1 .. k - 1
        BY <3>1
      <4>3. Kept(k - 1) => Kept(k)
        BY <3>4, <4>1, <4>2
      <4>4. y[k][i] = S(m + k)[i] \/ Kept(k)
        BY <3>2, <4>1, <4>3
      <4> QED BY <3>1, <4>4
    <3> QED BY <3>3, <3>4
  <2>3. n \in Good
    <3> HIDE DEF Good, n
    <3>1. 0 .. n \subseteq Good
      BY <1>1, <2>1, <2>2, UpTo
    <3> QED BY <1>6, <3>1
  <2>4. y[n][i] = S(Version(log))[i] \/ Kept(n)
    BY <1>6, <2>3
  <2>5. Kept(n) => i \notin Touched(log, m)
    <3> SUFFICES ASSUME Kept(n), i \in Touched(log, m) PROVE FALSE
      OBVIOUS
    <3>1. PICK u \in m + 1 .. Version(log) : i \in DOMAIN CommitAt(log, u).ops
      BY TouchedAt
    <3>2. u - m \in 1 .. n /\ m + (u - m) = u
      BY <1>1
    <3>3. cs[u - m] = CommitAt(log, m + (u - m))
      BY <1>1, <3>2
    <3> QED BY <3>1, <3>2, <3>3
  <2> QED BY <1>7, <2>4, <2>5 DEF Committed
<1>8. CASE x[i] = Absent
  <2> DEFINE Near == {k \in 0 .. n : y[k][i] \in {Absent, S(m + k)[i]}}
             Same == {k \in 0 .. n : y[k][i] = S(m + k)[i]}
  <2>1. 0 \in Near
    BY <1>2, <1>6, <1>8
  <2>2. ASSUME NEW k \in 0 + 1 .. n, k - 1 \in Near
        PROVE  k \in Near
    <3>1. k \in 1 .. n /\ k \in 0 .. n
      BY <1>3
    <3>2. y[k - 1][i] \in {Absent, S(m + (k - 1))[i]}
      BY <2>2
    <3>3. y[k][i] \in {Absent, S(m + k)[i]}
      <4> HIDE DEF Near, S, cs, n
      <4> QED BY <1>5, <3>1, <3>2
    <3> QED BY <3>1, <3>3
  <2>3. p \in Near
    <3>0. n \in Nat /\ \A k \in 0 + 1 .. n : k - 1 \in Near => k \in Near
      BY <1>1, <2>2
    <3> HIDE DEF Near, n, p
    <3>1. 0 .. n \subseteq Near
      BY <2>1, <3>0, UpTo
    <3> QED BY <1>1, <3>1
  <2>4. p \in Same
    BY <1>1, <1>6, <1>8, <2>3
  <2>5. ASSUME NEW k \in p + 1 .. n, k - 1 \in Same
        PROVE  k \in Same
    <3>1. k \in 1 .. n /\ k \in 0 .. n
      BY <1>1
    <3>2. y[k - 1][i] = S(m + (k - 1))[i]
      BY <2>5
    <3>3. y[k][i] = S(m + k)[i]
      <4> HIDE DEF Same, S, cs, n
      <4> QED BY <1>5, <3>1, <3>2
    <3> QED BY <3>1, <3>3
  <2>6. n \in Same
    <3>0. n \in Nat /\ p \in Nat /\ \A k \in p + 1 .. n : k - 1 \in Same => k \in Same
      BY <1>1, <2>5
    <3> HIDE DEF Same, n, p
    <3>1. p .. n \subseteq Same
      BY <2>4, <3>0, UpTo
    <3> QED BY <1>1, <3>1
  <2> QED BY <1>6, <2>6 DEF Committed
<1> QED
  BY <1>7, <1>8

LEMMA FoldAppliesTyped ==
  ASSUME NEW base \in States, NEW cs \in Seq(Commits)
  PROVE  FoldLeft(ApplyCommit, base, cs) \in States
<1>1. PICK r : Applies(r, base, cs) /\ FoldLeft(ApplyCommit, base, cs) = r[Len(cs)]
  BY FoldApplies
<1>2. Len(cs) \in 0 .. Len(cs)
  OBVIOUS
<1> QED
  BY <1>1, <1>2 DEF Applies

(* A chain with more commits at the end.                                    *)
LEMMA ExtendHistory ==
  ASSUME NEW log \in Logs, NEW cs \in Seq(Commits),
         NEW new, new = [log EXCEPT !.commits = @ \o cs]
  PROVE  /\ new \in Logs /\ new.floor = log.floor
         /\ Version(new) = Version(log) + Len(cs)
         /\ Committed(new) = FoldLeft(ReplayCommit, Committed(log), cs)
         /\ Committed(log) \in States
<1> DEFINE d == Len(log.commits)
           m == Len(cs)
<1>1. /\ log.floor \in Nat /\ log.baseline \in States /\ log.commits \in Seq(Commits)
      /\ d \in Nat /\ m \in Nat
      /\ log = [floor |-> log.floor, baseline |-> log.baseline, commits |-> log.commits]
  BY DEF Logs
<1>2. new = [floor |-> log.floor, baseline |-> log.baseline, commits |-> log.commits \o cs]
  BY <1>1
<1>3. new.commits \in Seq(Commits) /\ Len(new.commits) = d + m
      /\ new.floor = log.floor /\ new.baseline = log.baseline
  BY <1>1, <1>2
<1>4. new \in Logs
  BY <1>1, <1>2, <1>3 DEF Logs
<1>5. (\A k \in 1 .. d : new.commits[k] = log.commits[k])
      /\ \A k \in 1 .. m : new.commits[k + d] = cs[k]
  BY <1>1, <1>2
<1>6. HasOps(Commits) /\ log \in LogsOf(Commits) /\ new \in LogsOf(Commits)
  BY <1>4, CommitsShaped
<1>7. Version(new) = Version(log) + m /\ Version(log) = log.floor + d
  BY <1>1, <1>3 DEF Version
<1>8. ReplayState(new, Version(log)) = Committed(log)
  <2>1. Shifted(new.commits, log.commits, 0, 1 .. d)
    BY <1>1, <1>5 DEF Shifted
  <2>2. /\ 0 \in Nat /\ d \in Nat /\ new.floor = log.floor + 0
        /\ 0 + d <= Len(log.commits) /\ d <= Len(new.commits)
    BY <1>1, <1>3
  <2>3. new.baseline = ReplayState(log, new.floor)
    BY <1>3, <1>6, HistoryTyped
  <2>4. Version(log) \in new.floor .. new.floor + d
    BY <1>1, <1>3, <1>7
  <2> HIDE DEF d, m
  <2>5. \A v \in new.floor .. new.floor + d : ReplayState(new, v) = ReplayState(log, v)
    <3>1. HasOps(Commits) /\ log \in LogsOf(Commits) /\ new \in LogsOf(Commits)
      BY <1>6
    <3> QED BY ONLY <2>1, <2>2, <2>3, <3>1, SharedHistory
  <2> QED BY <2>4, <2>5 DEF Committed
<1>9. PICK q : Recalls(q, new)
  BY <1>6, VersionStates
<1>10. Version(log) - new.floor = d /\ Version(new) - new.floor = d + m
       /\ Version(log) \in new.floor .. Version(new) /\ Version(new) \in new.floor .. Version(new)
  BY <1>1, <1>3, <1>7
<1>11. q[d] = Committed(log) /\ q[d + m] = Committed(new)
  BY <1>8, <1>9, <1>10 DEF Recalls, Committed
<1>12. Committed(log) \in States
  <2>1. q \in [0 .. d + m -> States] /\ d \in 0 .. d + m
    BY <1>1, <1>3, <1>9 DEF Recalls, Replays
  <2> QED BY <1>11, <2>1
<1>13. PICK r : Replays(r, Committed(log), cs) /\ FoldLeft(ReplayCommit, Committed(log), cs) = r[m]
  BY <1>12, CommitsShaped, FoldReplays
<1>14. Shifted(r, q, d, 0 .. m)
  <2>1. Shifted(cs, new.commits, d, 1 .. m)
    BY <1>5 DEF Shifted
  <2>2. d + m <= Len(new.commits) /\ m <= Len(cs) /\ d \in Nat /\ m \in Nat
    BY <1>1, <1>3
  <2>3. Replays(r, q[d], cs) /\ Replays(q, new.baseline, new.commits)
    BY <1>9, <1>11, <1>13 DEF Recalls
  <2> HIDE DEF d, m
  <2> QED BY <1>3, <1>6, <2>1, <2>2, <2>3, ReplaysAgree
<1>15. r[m] = q[m + d] /\ m + d = d + m
  <2>1. m \in 0 .. m /\ m \in Nat /\ d \in Nat
    BY <1>1
  <2> HIDE DEF d, m
  <2> QED BY <1>14, <2>1 DEF Shifted
<1> QED
  BY <1>3, <1>4, <1>7, <1>11, <1>12, <1>13, <1>15

-----------------------------------------------------------------------------
(* What becomes of commits and versions when a chain grows or is cut *)

LEMMA LogFacts ==
  ASSUME NEW log \in Logs
  PROVE  /\ log.commits \in Seq(Commits) /\ log.floor \in Nat
         /\ Version(log) \in Nat /\ log.floor <= Version(log)
         /\ Version(log) - log.floor = Len(log.commits)
BY DEF Logs, Version

(* A chain with one more commit.                                            *)
LEMMA LongerChain ==
  ASSUME NEW log \in Logs, NEW c \in Commits, NEW new, new = AppendCommit(log, c)
  PROVE  /\ new \in Logs /\ new.floor = log.floor /\ Version(new) = Version(log) + 1
         /\ \A v \in log.floor .. Version(log) : ReplayState(new, v) = ReplayState(log, v)
         /\ Committed(new) = ReplayCommit(Committed(log), c)
         /\ \A u \in log.floor + 1 .. Version(log) : CommitAt(new, u) = CommitAt(log, u)
         /\ CommitAt(new, Version(log) + 1) = c
<1>1. /\ new \in Logs /\ new.floor = log.floor /\ Version(new) = Version(log) + 1
      /\ \A v \in log.floor .. Version(log) : ReplayState(new, v) = ReplayState(log, v)
      /\ Committed(new) = ReplayCommit(Committed(log), c)
  BY CommitsShaped, AppendHistory
<1>2. new.commits = Append(log.commits, c)
  BY LogFacts DEF AppendCommit, Logs
<1>3. \A u \in log.floor + 1 .. Version(log) : CommitAt(new, u) = CommitAt(log, u)
  <2> TAKE u \in log.floor + 1 .. Version(log)
  <2>1. PICK k, q : k = u - log.floor /\ q = log.commits
    OBVIOUS
  <2>2. k \in 1 .. Len(q) /\ q \in Seq(Commits)
    BY <2>1, LogFacts
  <2>3. Append(q, c)[k] = q[k]
    BY <2>2
  <2> QED BY <1>1, <1>2, <2>1, <2>3 DEF CommitAt
<1>4. CommitAt(new, Version(log) + 1) = c
  <2>1. PICK k, q : k = (Version(log) + 1) - log.floor /\ q = log.commits
    OBVIOUS
  <2>2. k = Len(q) + 1 /\ q \in Seq(Commits)
    BY <2>1, LogFacts
  <2>3. Append(q, c)[k] = c
    BY <2>2
  <2> QED BY <1>1, <1>2, <2>1, <2>3 DEF CommitAt
<1> QED
  BY <1>1, <1>3, <1>4

LEMMA LongerGrounded ==
  ASSUME NEW log \in Logs, NEW c \in Commits, NEW new, new = AppendCommit(log, c),
         NEW m \in log.floor .. Version(log), Grounded(log, m),
         \A i \in DOMAIN c.ops : c.ops[i].kind = "update" => Committed(log)[i] # Absent
  PROVE  Grounded(new, m)
<1>1. log.floor \in Nat /\ Version(log) \in Nat /\ Version(new) = Version(log) + 1
  BY LogFacts, LongerChain
<1> SUFFICES ASSUME NEW u \in m + 1 .. Version(new), NEW i \in DOMAIN CommitAt(new, u).ops,
                    CommitAt(new, u).ops[i].kind = "update"
             PROVE  ReplayState(new, u - 1)[i] # Absent
  BY DEF Grounded
<1>2. u - 1 \in log.floor .. Version(log) /\ ReplayState(new, u - 1) = ReplayState(log, u - 1)
  <2>1. u - 1 \in log.floor .. Version(log)
    BY <1>1
  <2> QED BY <2>1, LongerChain
<1>3. CASE u <= Version(log)
  <2>1. u \in m + 1 .. Version(log) /\ u \in log.floor + 1 .. Version(log)
    BY <1>1, <1>3
  <2>2. CommitAt(new, u) = CommitAt(log, u)
    BY <2>1, LongerChain
  <2> QED BY <1>2, <2>1, <2>2 DEF Grounded
<1>4. CASE u > Version(log)
  <2>1. u = Version(log) + 1 /\ u - 1 = Version(log)
    BY <1>1, <1>4
  <2>2. CommitAt(new, u) = c
    BY <2>1, LongerChain
  <2> QED BY <1>2, <2>1, <2>2 DEF Committed
<1> QED
  BY <1>1, <1>3, <1>4

LEMMA LongerTouches ==
  ASSUME NEW log \in Logs, NEW c \in Commits, NEW new, new = AppendCommit(log, c),
         NEW m \in log.floor .. Version(log)
  PROVE  Touched(log, m) \cup DOMAIN c.ops \subseteq Touched(new, m)
<1>1. /\ log.floor \in Nat /\ Version(log) \in Nat /\ Version(new) = Version(log) + 1
      /\ new \in Logs /\ new.floor = log.floor
  BY LogFacts, LongerChain
<1>2. m \in new.floor .. Version(new)
  BY <1>1
<1>3. /\ Touched(log, m) = {i \in Items : \E u \in m + 1 .. Version(log) : i \in DOMAIN CommitAt(log, u).ops}
      /\ Touched(new, m) = {i \in Items : \E u \in m + 1 .. Version(new) : i \in DOMAIN CommitAt(new, u).ops}
  BY <1>1, <1>2, TouchedAt
<1>4. \A u \in m + 1 .. Version(log) : u \in m + 1 .. Version(new) /\ CommitAt(new, u) = CommitAt(log, u)
  <2> TAKE u \in m + 1 .. Version(log)
  <2>1. u \in m + 1 .. Version(new) /\ u \in log.floor + 1 .. Version(log)
    BY <1>1
  <2> QED BY <2>1, LongerChain
<1>5. Version(log) + 1 \in m + 1 .. Version(new) /\ CommitAt(new, Version(log) + 1) = c
  BY <1>1, LongerChain
<1>6. DOMAIN c.ops \subseteq Items
  BY CommitTyped
<1> QED
  BY <1>3, <1>4, <1>5, <1>6

(* A chain cut back to version v.                                           *)
LEMMA ShorterChain ==
  ASSUME NEW log \in Logs, NEW v \in log.floor .. Version(log), NEW new, new = Truncate(log, v)
  PROVE  /\ new \in Logs /\ new.floor = log.floor /\ Version(new) = v
         /\ \A u \in log.floor .. v : ReplayState(new, u) = ReplayState(log, u)
         /\ \A u \in log.floor + 1 .. v : CommitAt(new, u) = CommitAt(log, u)
<1>1. /\ new \in Logs /\ new.floor = log.floor /\ Version(new) = v
      /\ \A u \in log.floor .. v : ReplayState(new, u) = ReplayState(log, u)
  BY CommitsShaped, TruncateHistory
<1>2. new.commits = SubSeq(log.commits, 1, v - log.floor)
  BY DEF Truncate, CommitsUpto, Logs
<1>3. \A u \in log.floor + 1 .. v : CommitAt(new, u) = CommitAt(log, u)
  <2> TAKE u \in log.floor + 1 .. v
  <2>1. PICK k, n, q : k = u - log.floor /\ q = log.commits /\ n = v - log.floor
    OBVIOUS
  <2>2. k \in 1 .. n /\ n \in 0 .. Len(q) /\ q \in Seq(Commits)
    <3>1. /\ log.commits \in Seq(Commits) /\ log.floor \in Nat /\ Version(log) \in Nat
          /\ Version(log) - log.floor = Len(log.commits)
      BY ONLY log \in Logs, LogFacts
    <3>2. u \in log.floor + 1 .. v /\ v \in log.floor .. Version(log)
      OBVIOUS
    <3> QED BY ONLY <2>1, <3>1, <3>2
  <2>3. SubSeq(q, 1, n)[k] = q[k]
    BY <2>2
  <2> QED BY <1>1, <1>2, <2>1, <2>3 DEF CommitAt
<1> QED
  BY <1>1, <1>3

LEMMA ShorterGrounded ==
  ASSUME NEW log \in Logs, NEW v \in log.floor .. Version(log), NEW new, new = Truncate(log, v),
         NEW m \in log.floor .. v, Grounded(log, m)
  PROVE  Grounded(new, m)
<1>1. log.floor \in Nat /\ Version(log) \in Nat /\ Version(new) = v
  BY LogFacts, ShorterChain
<1> SUFFICES ASSUME NEW u \in m + 1 .. v
             PROVE  /\ CommitAt(new, u) = CommitAt(log, u)
                    /\ ReplayState(new, u - 1) = ReplayState(log, u - 1)
                    /\ u \in m + 1 .. Version(log)
  BY <1>1 DEF Grounded
<1>2. u \in log.floor + 1 .. v /\ u - 1 \in log.floor .. v /\ u \in m + 1 .. Version(log)
  BY <1>1
<1> QED
  BY <1>2, ShorterChain

(* What is touched after w is touched in what is kept or in what is cut.    *)
LEMMA ShorterTouches ==
  ASSUME NEW log \in Logs, NEW v \in log.floor .. Version(log), NEW new, new = Truncate(log, v),
         NEW w \in log.floor .. v
  PROVE  Touched(log, w) \subseteq Touched(new, w) \cup Touched(log, v)
<1>1. /\ log.floor \in Nat /\ Version(log) \in Nat /\ Version(new) = v
      /\ new \in Logs /\ new.floor = log.floor
  BY LogFacts, ShorterChain
<1>2. w \in new.floor .. Version(new) /\ w \in log.floor .. Version(log)
  BY <1>1
<1>3. /\ Touched(log, w) = {i \in Items : \E u \in w + 1 .. Version(log) : i \in DOMAIN CommitAt(log, u).ops}
      /\ Touched(log, v) = {i \in Items : \E u \in v + 1 .. Version(log) : i \in DOMAIN CommitAt(log, u).ops}
      /\ Touched(new, w) = {i \in Items : \E u \in w + 1 .. Version(new) : i \in DOMAIN CommitAt(new, u).ops}
  BY <1>1, <1>2, TouchedAt
<1>4. \A u \in w + 1 .. Version(log) :
        u \in v + 1 .. Version(log) \/ (u \in w + 1 .. Version(new) /\ CommitAt(new, u) = CommitAt(log, u))
  <2> TAKE u \in w + 1 .. Version(log)
  <2>1. u \in v + 1 .. Version(log) \/ (u \in w + 1 .. Version(new) /\ u \in log.floor + 1 .. v)
    BY <1>1
  <2> QED BY <2>1, ShorterChain
<1> QED
  BY <1>3, <1>4

(* A chain whose older commits were folded into the baseline.               *)
LEMMA YoungerChain ==
  ASSUME NEW log \in Logs, NEW cutoff \in log.floor .. Version(log), NEW new, new = CompactTo(log, cutoff)
  PROVE  /\ new \in Logs /\ new.floor = cutoff /\ Version(new) = Version(log)
         /\ \A v \in cutoff .. Version(log) : ReplayState(new, v) = ReplayState(log, v)
         /\ \A u \in cutoff + 1 .. Version(log) : CommitAt(new, u) = CommitAt(log, u)
<1>1. /\ new \in Logs /\ new.floor = cutoff /\ Version(new) = Version(log)
      /\ \A v \in cutoff .. Version(log) : ReplayState(new, v) = ReplayState(log, v)
  BY CommitsShaped, CompactHistory
<1>2. new.commits = SubSeq(log.commits, (cutoff - log.floor) + 1, Len(log.commits))
  <2>1. (IF cutoff > log.floor THEN cutoff - log.floor ELSE 0) = cutoff - log.floor
    BY LogFacts
  <2> QED BY <2>1 DEF CompactTo, CommitsFrom
<1>3. \A u \in cutoff + 1 .. Version(log) : CommitAt(new, u) = CommitAt(log, u)
  <2> TAKE u \in cutoff + 1 .. Version(log)
  <2>1. PICK k, a, n, q : /\ k = u - cutoff /\ q = log.commits /\ n = Len(q)
                          /\ a = cutoff - log.floor
    OBVIOUS
  <2>2. /\ a \in 0 .. n /\ k \in 1 .. n - a /\ n \in Nat /\ q \in Seq(Commits)
        /\ u - log.floor = a + k
    <3>1. /\ log.commits \in Seq(Commits) /\ log.floor \in Nat /\ Version(log) \in Nat
          /\ Version(log) - log.floor = Len(log.commits)
      BY ONLY log \in Logs, LogFacts
    <3>2. u \in cutoff + 1 .. Version(log) /\ cutoff \in log.floor .. Version(log)
      OBVIOUS
    <3> QED BY ONLY <2>1, <3>1, <3>2
  <2>3. SubSeq(q, a + 1, n)[k] = q[a + k]
    <3>1. PICK p : p = SubSeq(q, a + 1, Len(q))
      OBVIOUS
    <3>2. a \in 0 .. Len(q) /\ n = Len(q)
      BY <2>1, <2>2
    <3>3. Shifted(p, q, a, 1 .. Len(q) - a)
      BY <2>2, <3>1, <3>2, SuffixFacts
    <3> QED BY <2>2, <3>1, <3>2, <3>3 DEF Shifted
  <2> QED BY <1>1, <1>2, <2>1, <2>2, <2>3 DEF CommitAt
<1> QED
  BY <1>1, <1>3

LEMMA YoungerGrounded ==
  ASSUME NEW log \in Logs, NEW cutoff \in log.floor .. Version(log), NEW new, new = CompactTo(log, cutoff),
         NEW m \in cutoff .. Version(log)
  PROVE  /\ Grounded(log, m) => Grounded(new, m)
         /\ Touched(new, m) = Touched(log, m)
<1>1. /\ log.floor \in Nat /\ Version(log) \in Nat /\ Version(new) = Version(log)
      /\ new \in Logs /\ new.floor = cutoff
  BY LogFacts, YoungerChain
<1>2. \A u \in m + 1 .. Version(log) : /\ CommitAt(new, u) = CommitAt(log, u)
                                       /\ ReplayState(new, u - 1) = ReplayState(log, u - 1)
  <2> TAKE u \in m + 1 .. Version(log)
  <2>1. u \in cutoff + 1 .. Version(log) /\ u - 1 \in cutoff .. Version(log)
    BY <1>1
  <2> QED BY <2>1, YoungerChain
<1>3. Grounded(log, m) => Grounded(new, m)
  BY <1>1, <1>2 DEF Grounded
<1>4. m \in log.floor .. Version(log) /\ m \in new.floor .. Version(new)
  BY <1>1
<1>5. /\ Touched(log, m) = {i \in Items : \E u \in m + 1 .. Version(log) : i \in DOMAIN CommitAt(log, u).ops}
      /\ Touched(new, m) = {i \in Items : \E u \in m + 1 .. Version(new) : i \in DOMAIN CommitAt(new, u).ops}
  BY <1>1, <1>4, TouchedAt
<1> QED
  BY <1>1, <1>2, <1>3, <1>5

-----------------------------------------------------------------------------

JobsIn(F, C) == [Jobs -> [at : Stages, owned : BOOLEAN, from : F, taken : C]]

Shapes ==
  /\ \E F, C : job \in JobsIn(F, C)
  /\ \E S : entries \in Seq(S)
  /\ faults \in Nat

Appending == {s \in Jobs : job[s].at = "append"}

Strays == {s \in Running : ~job[s].owned}

OneAwaited == \A s, t \in Running : job[s].owned /\ job[t].owned => s = t

StraysCharged == Cardinality(Strays) <= faults

LogCharged == Len(entries) + Cardinality(Appending) <= CompactEvery - 1 + faults

Inv == Shapes /\ OneAwaited /\ StraysCharged /\ LogCharged

-----------------------------------------------------------------------------
(* The steps, as far as the invariant can tell them apart *)

(* Only the job s changes, to the given stage and owner.                    *)
Moves(s, stage, owned) ==
  /\ job'[s].at = stage
  /\ job'[s].owned = owned
  /\ \A t \in Jobs \ {s} : job'[t].at = job[t].at /\ job'[t].owned = job[t].owned

EntriesKept == entries' \in {entries, <<>>}

Quiet == UNCHANGED <<job, entries, faults>>

Starts(s) ==
  /\ ~Awaiting
  /\ \E stage \in Stages \ {"append", "idle"} : Moves(s, stage, TRUE)
  /\ UNCHANGED <<entries, faults>>

Goes(s) ==
  /\ job[s].at # "idle"
  /\ \E stage \in Stages \ {"append", "idle"} : Moves(s, stage, job[s].owned)
  /\ EntriesKept
  /\ UNCHANGED faults

Ends(s) ==
  /\ Moves(s, "idle", FALSE)
  /\ EntriesKept
  /\ UNCHANGED faults

Counts(s) ==
  /\ job[s].at # "idle"
  /\ ~LogFull
  /\ Moves(s, "append", job[s].owned)
  /\ UNCHANGED <<entries, faults>>

(* An append that lands, once, or twice at the price of a fault.            *)
Appends(s) ==
  /\ job[s].at = "append"
  /\ Moves(s, "idle", FALSE)
  /\ faults' \in {faults, faults + 1}
  /\ Len(entries') <= Len(entries) + 1 + (faults' - faults)
  /\ Len(entries') \in Nat

Abandons(s) ==
  /\ Moves(s, job[s].at, FALSE)
  /\ UNCHANGED entries
  /\ faults' = faults + 1

Stops(s) ==
  /\ Moves(s, "idle", FALSE)
  /\ EntriesKept
  /\ faults' = faults + 1

Restarts ==
  /\ \A s \in Jobs : job'[s].at = "idle" /\ ~job'[s].owned
  /\ UNCHANGED entries
  /\ faults' = faults + 1

Seen ==
  \/ Quiet
  \/ \E s \in Jobs : \/ Starts(s) \/ Goes(s) \/ Ends(s) \/ Counts(s)
                     \/ Appends(s) \/ Abandons(s) \/ Stops(s)
  \/ Restarts

(* Assigning one job keeps the others.                                      *)
LEMMA AssignJob ==
  ASSUME NEW F, NEW C, job \in JobsIn(F, C), NEW s \in Jobs,
         NEW r \in [at : Stages, owned : BOOLEAN, from : F, taken : C],
         job' = [job EXCEPT ![s] = r]
  PROVE  job' \in JobsIn(F, C) /\ Moves(s, r.at, r.owned)
  BY DEF JobsIn, Moves

LEMMA WidenJobs ==
  ASSUME NEW F, NEW C, NEW f, NEW c, job \in JobsIn(F, C)
  PROVE  job \in JobsIn(F \cup {f}, C \cup {c})
  <1>1. \A r \in [at : Stages, owned : BOOLEAN, from : F, taken : C] :
          r \in [at : Stages, owned : BOOLEAN, from : F \cup {f}, taken : C \cup {c}]
    OBVIOUS
  <1> QED BY <1>1 DEF JobsIn

LEMMA IdleShape ==
  ASSUME NEW F, NEW C
  PROVE  Idle \in [at : Stages, owned : BOOLEAN, from : F \cup {-1},
                   taken : C \cup {EmptyContext}]
  BY DEF Idle, Stages

(* ... and so do the forms the actions use.                                 *)
LEMMA ProceedSeen ==
  ASSUME Shapes, NEW s \in Jobs, NEW stage \in Stages, Proceed(s, stage)
  PROVE  (\E F, C : job' \in JobsIn(F, C)) /\ Moves(s, stage, job[s].owned)
  <1>1. PICK F, C : job \in JobsIn(F, C)
    BY DEF Shapes
  <1> DEFINE r == [job[s] EXCEPT !.at = stage]
  <1>2. r \in [at : Stages, owned : BOOLEAN, from : F, taken : C]
    BY <1>1 DEF JobsIn
  <1>3. r.at = stage /\ r.owned = job[s].owned
    BY <1>1 DEF JobsIn
  <1>4. job' = [job EXCEPT ![s] = r]
    BY DEF Proceed
  <1> HIDE DEF r
  <1> QED BY <1>1, <1>2, <1>3, <1>4, AssignJob

LEMMA ProceedWithSeen ==
  ASSUME Shapes, NEW s \in Jobs, NEW stage \in Stages, ProceedWith(s, stage)
  PROVE  (\E F, C : job' \in JobsIn(F, C)) /\ Moves(s, stage, job[s].owned)
  <1>1. PICK F, C : job \in JobsIn(F, C)
    BY DEF Shapes
  <1> DEFINE D == C \cup {ctx}
             r == [job[s] EXCEPT !.at = stage, !.taken = ctx]
  <1>2. job \in JobsIn(F \cup {-1}, D)
    BY <1>1, WidenJobs
  <1>3. r \in [at : Stages, owned : BOOLEAN, from : F \cup {-1}, taken : D]
    BY <1>2 DEF JobsIn
  <1>4. r.at = stage /\ r.owned = job[s].owned
    BY <1>2 DEF JobsIn
  <1>5. job' = [job EXCEPT ![s] = r]
    BY DEF ProceedWith
  <1> HIDE DEF r, D
  <1> QED BY <1>2, <1>3, <1>4, <1>5, AssignJob

LEMMA IdleSeen ==
  ASSUME Shapes, NEW s \in Jobs, job' = [job EXCEPT ![s] = Idle]
  PROVE  (\E F, C : job' \in JobsIn(F, C)) /\ Moves(s, "idle", FALSE)
  <1>1. PICK F, C : job \in JobsIn(F, C)
    BY DEF Shapes
  <1> DEFINE G == F \cup {-1}
             D == C \cup {EmptyContext}
  <1>2. job \in JobsIn(G, D)
    BY <1>1, WidenJobs
  <1>3. Idle \in [at : Stages, owned : BOOLEAN, from : G, taken : D]
    BY IdleShape
  <1>4. Idle.at = "idle" /\ Idle.owned = FALSE
    BY DEF Idle
  <1> HIDE DEF G, D
  <1>5. job' \in JobsIn(G, D) /\ Moves(s, Idle.at, Idle.owned)
    BY <1>2, <1>3, AssignJob
  <1> QED BY <1>4, <1>5

LEMMA StartSaveSeen ==
  ASSUME Shapes, NEW s \in Jobs, StartSave(s)
  PROVE  (\E F, C : job' \in JobsIn(F, C)) /\ Starts(s)
  <1>1. PICK F, C : job \in JobsIn(F, C)
    BY DEF Shapes
  <1> DEFINE taken == IF RewriteDue THEN ctx ELSE EmptyContext
             stage == IF RewriteDue THEN "set" ELSE "get"
             G == F \cup {marker.version}
             D == C \cup {taken}
             r == [at |-> stage, owned |-> TRUE, from |-> marker.version,
                   taken |-> taken]
  <1>2. job \in JobsIn(G, D)
    BY <1>1, WidenJobs
  <1>3. stage \in Stages \ {"append", "idle"}
    BY DEF Stages
  <1>4. job' = [job EXCEPT ![s] = r]
    BY DEF StartSave
  <1> HIDE DEF taken, stage
  <1>5. r \in [at : Stages, owned : BOOLEAN, from : G, taken : D]
    BY <1>3
  <1>6. r.at = stage /\ r.owned = TRUE
    OBVIOUS
  <1> HIDE DEF r, G, D
  <1>7. job' \in JobsIn(G, D) /\ Moves(s, stage, TRUE)
    <2>1. job' \in JobsIn(G, D) /\ Moves(s, r.at, r.owned)
      BY <1>2, <1>4, <1>5, AssignJob
    <2> QED BY <1>6, <2>1
  <1>8. ~Awaiting /\ UNCHANGED <<entries, faults>>
    BY DEF StartSave, storeVars
  <1> QED BY <1>3, <1>7, <1>8 DEF Starts

LEMMA StartDeleteSeen ==
  ASSUME Shapes, NEW s \in Jobs, StartDelete(s)
  PROVE  (\E F, C : job' \in JobsIn(F, C)) /\ Starts(s)
  <1>1. PICK F, C : job \in JobsIn(F, C)
    BY DEF Shapes
  <1> DEFINE G == F \cup {-1}
             D == C \cup {EmptyContext}
             r == [Idle EXCEPT !.at = "drop", !.owned = TRUE]
  <1>2. job \in JobsIn(G, D)
    BY <1>1, WidenJobs
  <1>3. r \in [at : Stages, owned : BOOLEAN, from : G, taken : D]
    BY DEF Idle, Stages
  <1>4. r.at = "drop" /\ r.owned = TRUE
    BY DEF Idle
  <1>5. job' = [job EXCEPT ![s] = r]
    BY DEF StartDelete
  <1> HIDE DEF r, G, D
  <1>6. job' \in JobsIn(G, D) /\ Moves(s, "drop", TRUE)
    <2>1. job' \in JobsIn(G, D) /\ Moves(s, r.at, r.owned)
      BY <1>2, <1>3, <1>5, AssignJob
    <2> QED BY <1>4, <2>1
  <1>7. ~Awaiting /\ UNCHANGED <<entries, faults>>
    BY DEF StartDelete, storeVars
  <1>8. "drop" \in Stages \ {"append", "idle"}
    BY DEF Stages
  <1> QED BY <1>6, <1>7, <1>8 DEF Starts

-----------------------------------------------------------------------------
(* Entries *)

LEMMA ClearedSeq ==
  ASSUME Shapes, EntriesKept
  PROVE  \E S : entries' \in Seq(S)
  <1>1. PICK S : entries \in Seq(S)
    BY DEF Shapes
  <1>2. <<>> \in Seq(S)
    OBVIOUS
  <1>3. entries' = entries \/ entries' = <<>>
    BY DEF EntriesKept
  <1> QED BY <1>1, <1>2, <1>3

LEMMA WriteEntrySeen ==
  ASSUME Shapes, NEW s \in Jobs, NEW times \in {1, 2}, WriteEntry(s, times)
  PROVE  /\ \E S : entries' \in Seq(S)
         /\ Len(entries') = Len(entries) + times
  <1>1. PICK S : entries \in Seq(S)
    BY DEF Shapes
  <1> DEFINE e == Entry(job[s].taken, job[s].from)
             rows == [n \in 1 .. times |-> e]
             T == S \cup {e}
  <1>2. entries' = entries \o rows
    BY DEF WriteEntry
  <1> HIDE DEF e
  <1>3. rows \in Seq(T) /\ Len(rows) = times
    OBVIOUS
  <1>4. entries \in Seq(T)
    BY <1>1
  <1> HIDE DEF rows, T
  <1> QED BY <1>2, <1>3, <1>4

-----------------------------------------------------------------------------
(* Every step of the specification is one of the steps seen above *)

LEMMA SaveSeen ==
  ASSUME Shapes, NEW s \in Jobs, Save(s)
  PROVE  Shapes' /\ Seen
  <1>0. faults \in Nat
    BY DEF Shapes
  <1>1. CASE LandGet(s)
    <2>1. PICK stage \in {"set", "count"} :
            Proceed(s, stage) \/ ProceedWith(s, stage)
      BY <1>1 DEF LandGet
    <2>2. stage \in Stages \ {"append", "idle"}
      BY DEF Stages
    <2>3. (\E F, C : job' \in JobsIn(F, C)) /\ Moves(s, stage, job[s].owned)
      BY <2>1, <2>2, ProceedSeen, ProceedWithSeen
    <2>4. job[s].at # "idle" /\ UNCHANGED <<entries, faults>>
      BY <1>1 DEF LandGet, storeVars
    <2> QED BY <2>2, <2>3, <2>4 DEF Seen, Goes, EntriesKept, Shapes
  <1>2. CASE LandCount(s)
    <2>1. job[s].at # "idle" /\ UNCHANGED <<entries, faults>>
      BY <1>2 DEF LandCount, storeVars
    <2>2. CASE LogFull
      <3>1. ProceedWith(s, "set")
        BY <1>2, <2>2 DEF LandCount
      <3>2. "set" \in Stages \ {"append", "idle"}
        BY DEF Stages
      <3>3. (\E F, C : job' \in JobsIn(F, C)) /\ Moves(s, "set", job[s].owned)
        BY <3>1, <3>2, ProceedWithSeen
      <3> QED BY <2>1, <3>2, <3>3 DEF Seen, Goes, EntriesKept, Shapes
    <2>3. CASE ~LogFull
      <3>1. ProceedWith(s, "append")
        BY <1>2, <2>3 DEF LandCount
      <3>2. "append" \in Stages
        BY DEF Stages
      <3>3. (\E F, C : job' \in JobsIn(F, C)) /\ Moves(s, "append", job[s].owned)
        BY <3>1, <3>2, ProceedWithSeen
      <3> QED BY <2>1, <2>3, <3>3 DEF Seen, Counts, Shapes
    <2> QED BY <2>2, <2>3
  <1>3. CASE LandSet(s)
    <2>1. Proceed(s, "clear") /\ job[s].at # "idle"
      BY <1>3 DEF LandSet
    <2>2. UNCHANGED <<entries, faults>>
      BY <1>3 DEF LandSet, WriteSnapshot
    <2>3. "clear" \in Stages \ {"append", "idle"}
      BY DEF Stages
    <2>4. (\E F, C : job' \in JobsIn(F, C)) /\ Moves(s, "clear", job[s].owned)
      BY <2>1, <2>3, ProceedSeen
    <2> QED BY <2>1, <2>2, <2>3, <2>4 DEF Seen, Goes, EntriesKept, Shapes
  <1>4. CASE LandClear(s)
    <2>1. EntriesKept /\ UNCHANGED faults
      BY <1>4 DEF LandClear, ClearEntries, EntriesKept
    <2>2. (\E F, C : job' \in JobsIn(F, C)) /\ Moves(s, "idle", FALSE)
      BY <1>4, IdleSeen DEF LandClear, Finish
    <2> QED BY <2>1, <2>2, ClearedSeq DEF Seen, Ends, Shapes
  <1>5. CASE LandAppend(s)
    <2>1. PICK times \in {1, 2} :
            WriteEntry(s, times) /\ faults' = faults + (times - 1)
      BY <1>0, <1>5 DEF LandAppend, Fault
    <2>2. (\E S : entries' \in Seq(S)) /\ Len(entries') = Len(entries) + times
      BY <2>1, WriteEntrySeen
    <2>3. (\E F, C : job' \in JobsIn(F, C)) /\ Moves(s, "idle", FALSE)
      BY <1>5, IdleSeen DEF LandAppend, Finish
    <2>4. job[s].at = "append"
      BY <1>5 DEF LandAppend
    <2>5. Len(entries) \in Nat /\ Len(entries') \in Nat
      BY <2>2 DEF Shapes
    <2>6. faults' \in {faults, faults + 1} /\ faults' \in Nat
      BY <1>0, <2>1
    <2>7. Len(entries') <= Len(entries) + 1 + (faults' - faults)
      BY <1>0, <2>1, <2>2, <2>5
    <2> QED BY <2>2, <2>3, <2>4, <2>5, <2>6, <2>7 DEF Seen, Appends, Shapes
  <1> QED BY <1>1, <1>2, <1>3, <1>4, <1>5 DEF Save

LEMMA DeleteSeen ==
  ASSUME Shapes, NEW s \in Jobs, Delete(s)
  PROVE  Shapes' /\ Seen
  <1>1. CASE LandDrop(s)
    <2>1. Proceed(s, "dropEntries") /\ job[s].at # "idle"
      BY <1>1 DEF LandDrop
    <2>2. UNCHANGED <<entries, faults>>
      BY <1>1 DEF LandDrop, DropSnapshot
    <2>3. "dropEntries" \in Stages \ {"append", "idle"}
      BY DEF Stages
    <2>4. (\E F, C : job' \in JobsIn(F, C)) /\ Moves(s, "dropEntries", job[s].owned)
      BY <2>1, <2>3, ProceedSeen
    <2> QED BY <2>1, <2>2, <2>3, <2>4 DEF Seen, Goes, EntriesKept, Shapes
  <1>2. CASE LandDropEntries(s)
    <2>1. EntriesKept /\ UNCHANGED faults
      BY <1>2 DEF LandDropEntries, ClearEntries, EntriesKept
    <2>2. (\E F, C : job' \in JobsIn(F, C)) /\ Moves(s, "idle", FALSE)
      BY <1>2, IdleSeen DEF LandDropEntries, Finish
    <2> QED BY <2>1, <2>2, ClearedSeq DEF Seen, Ends, Shapes
  <1> QED BY <1>1, <1>2 DEF Delete

LEMMA AbandonSeen ==
  ASSUME Shapes, NEW s \in Jobs, Abandon(s)
  PROVE  Shapes' /\ Seen
  <1>1. PICK F, C : job \in JobsIn(F, C)
    BY DEF Shapes
  <1> DEFINE r == [job[s] EXCEPT !.owned = FALSE]
  <1>2. r \in [at : Stages, owned : BOOLEAN, from : F, taken : C]
    BY <1>1 DEF JobsIn
  <1>3. r.at = job[s].at /\ r.owned = FALSE
    BY <1>1 DEF JobsIn
  <1>4. job' = [job EXCEPT ![s] = r]
    BY DEF Abandon
  <1> HIDE DEF r
  <1>5. job' \in JobsIn(F, C) /\ Moves(s, job[s].at, FALSE)
    <2>1. job' \in JobsIn(F, C) /\ Moves(s, r.at, r.owned)
      BY <1>1, <1>2, <1>4, AssignJob
    <2> QED BY <1>3, <2>1
  <1>6. UNCHANGED entries /\ faults' = faults + 1
    BY DEF Abandon, Fault, storeVars
  <1>7. Shapes'
    BY <1>5, <1>6 DEF Shapes
  <1>8. Abandons(s)
    BY <1>5, <1>6 DEF Abandons
  <1> QED BY <1>7, <1>8 DEF Seen

LEMMA StopSeen ==
  ASSUME Shapes, NEW s \in Jobs, Stop(s)
  PROVE  Shapes' /\ Seen
  <1>1. (\E F, C : job' \in JobsIn(F, C)) /\ Moves(s, "idle", FALSE)
    BY IdleSeen DEF Stop, Leave
  <1>2. UNCHANGED entries /\ faults' = faults + 1
    BY DEF Stop, Fault, storeVars
  <1>3. Shapes'
    BY <1>1, <1>2 DEF Shapes
  <1>4. Stops(s)
    BY <1>1, <1>2 DEF Stops, EntriesKept
  <1> QED BY <1>3, <1>4 DEF Seen

LEMMA StopTooLateSeen ==
  ASSUME Shapes, NEW s \in Jobs, StopTooLate(s)
  PROVE  Shapes' /\ Seen
  <1>0. faults' = faults + 1 /\ faults' \in Nat
    BY DEF StopTooLate, Fault, Shapes
  <1>1. (\E F, C : job' \in JobsIn(F, C)) /\ Moves(s, "idle", FALSE)
    BY IdleSeen DEF StopTooLate, Leave
  <1>2. CASE job[s].at = "append"
    <2>1. WriteEntry(s, 1)
      BY <1>2 DEF StopTooLate
    <2>2. (\E S : entries' \in Seq(S)) /\ Len(entries') = Len(entries) + 1
      BY <2>1, WriteEntrySeen
    <2>3. Len(entries) \in Nat /\ Len(entries') \in Nat /\ faults \in Nat
      BY <2>2 DEF Shapes
    <2>4. Len(entries') <= Len(entries) + 1 + (faults' - faults)
      BY <1>0, <2>2, <2>3
    <2>5. faults' \in {faults, faults + 1}
      BY <1>0
    <2>6. Appends(s)
      BY <1>1, <1>2, <2>3, <2>4, <2>5 DEF Appends
    <2>7. Shapes'
      BY <1>0, <1>1, <2>2 DEF Shapes
    <2> QED BY <2>6, <2>7 DEF Seen
  <1>3. CASE job[s].at # "append"
    <2>1. EntriesKept
      BY <1>3 DEF StopTooLate, WriteSnapshot, ClearEntries, DropSnapshot, EntriesKept
    <2>2. Stops(s)
      BY <1>0, <1>1, <2>1 DEF Stops
    <2>3. \E S : entries' \in Seq(S)
      BY <2>1, ClearedSeq
    <2>4. Shapes'
      BY <1>0, <1>1, <2>3 DEF Shapes
    <2> QED BY <2>2, <2>4 DEF Seen
  <1> QED BY <1>2, <1>3

LEMMA CrashSeen ==
  ASSUME Shapes, Crash
  PROVE  Shapes' /\ Seen
  <1>1. job' = [s \in Jobs |-> Idle] /\ UNCHANGED entries /\ faults' = faults + 1
    BY DEF Crash, Fault, storeVars
  <1>2. Idle \in [at : Stages, owned : BOOLEAN, from : {-1}, taken : {EmptyContext}]
    BY DEF Idle, Stages
  <1>3. job' \in JobsIn({-1}, {EmptyContext})
    BY <1>1, <1>2 DEF JobsIn
  <1>4. \A s \in Jobs : job'[s].at = "idle" /\ ~job'[s].owned
    BY <1>1 DEF Idle
  <1> QED BY <1>1, <1>3, <1>4 DEF Seen, Restarts, Shapes

LEMMA ApplicationSeen ==
  ASSUME Shapes, Application \/ UNCHANGED vars
  PROVE  Shapes' /\ Seen
  <1>1. UNCHANGED <<job, entries, faults>>
    BY DEF Application, Touch, Commit, ConsumeEvents, Checkout, Compact,
           vars, jobVars, storeVars
  <1>2. Shapes'
    <2>1. PICK F, C : job \in JobsIn(F, C)
      BY DEF Shapes
    <2>2. PICK S : entries \in Seq(S)
      BY DEF Shapes
    <2>3. job' \in JobsIn(F, C) /\ entries' \in Seq(S) /\ faults' \in Nat
      BY <1>1, <2>1, <2>2 DEF Shapes, JobsIn
    <2> QED BY <2>3 DEF Shapes
  <1> QED BY <1>1, <1>2 DEF Seen, Quiet

LEMMA NextSeen ==
  ASSUME Shapes, [Next]_vars
  PROVE  Shapes' /\ Seen
  <1>1. CASE Application \/ UNCHANGED vars
    BY <1>1, ApplicationSeen
  <1>2. ASSUME NEW s \in Jobs, StartSave(s) \/ StartDelete(s)
        PROVE  Shapes' /\ Seen
    <2>1. (\E F, C : job' \in JobsIn(F, C)) /\ Starts(s)
      BY <1>2, StartSaveSeen, StartDeleteSeen
    <2>2. UNCHANGED <<entries, faults>>
      BY <2>1 DEF Starts
    <2>3. PICK S : entries \in Seq(S)
      BY DEF Shapes
    <2>4. entries' \in Seq(S) /\ faults' \in Nat
      BY <2>2, <2>3 DEF Shapes
    <2> QED BY <2>1, <2>4 DEF Seen, Shapes
  <1>3. CASE \E s \in Jobs : Save(s) \/ Delete(s)
    BY <1>3, SaveSeen, DeleteSeen
  <1>4. CASE \E s \in Jobs : Abandon(s) \/ Stop(s) \/ StopTooLate(s)
    BY <1>4, AbandonSeen, StopSeen, StopTooLateSeen
  <1>5. CASE Crash
    BY <1>5, CrashSeen
  <1> QED BY <1>1, <1>2, <1>3, <1>4, <1>5 DEF Next

-----------------------------------------------------------------------------
(* The invariant survives them *)

LEMMA CardinalityOfPart ==
  ASSUME NEW S \in SUBSET Jobs
  PROVE  IsFiniteSet(S) /\ Cardinality(S) \in Nat
  BY FS_Subset, FS_CardinalityType, StoreAssumption DEF StoreAssumption

LEMMA CardinalityGrows ==
  ASSUME NEW S \in SUBSET Jobs, NEW T \in SUBSET Jobs
  PROVE  /\ S \subseteq T => Cardinality(S) <= Cardinality(T)
         /\ \A s \in Jobs : S \subseteq T \cup {s} => Cardinality(S) <= Cardinality(T) + 1
  <1>1. S \subseteq T => Cardinality(S) <= Cardinality(T)
    BY FS_Subset, CardinalityOfPart
  <1>2. ASSUME NEW s \in Jobs, S \subseteq T \cup {s}
        PROVE  Cardinality(S) <= Cardinality(T) + 1
    <2>1. T \cup {s} \in SUBSET Jobs
      OBVIOUS
    <2>2. Cardinality(S) <= Cardinality(T \cup {s})
      BY <1>2, <2>1, FS_Subset, CardinalityOfPart
    <2>3. Cardinality(T \cup {s}) <= Cardinality(T) + 1
      BY FS_AddElement, CardinalityOfPart
    <2> QED BY <2>1, <2>2, <2>3, CardinalityOfPart
  <1> QED BY <1>1, <1>2

(* No more saves are on their way to append than the abandoned ones and the *)
(* one awaited.                                                             *)
LEMMA AppendingBounded ==
  ASSUME Inv
  PROVE  \A s \in Running :
           Cardinality(Appending \cup {s}) <= faults + 1
  <1> TAKE s \in Running
  <1>0. /\ Running \in SUBSET Jobs /\ Strays \in SUBSET Jobs
        /\ Appending \in SUBSET Running /\ faults \in Nat
    BY DEF Running, Strays, Appending, Inv, Shapes
  <1>1. PICK t \in Running : \A u \in Running : job[u].owned => u = t
    BY DEF Inv, OneAwaited
  <1>2. Appending \cup {s} \subseteq Strays \cup {t}
    BY <1>0, <1>1 DEF Strays
  <1>3. Appending \cup {s} \in SUBSET Jobs
    BY <1>0
  <1>4. Cardinality(Appending \cup {s}) <= Cardinality(Strays) + 1
    BY <1>0, <1>2, <1>3, CardinalityGrows
  <1> QED BY <1>0, <1>3, <1>4, CardinalityOfPart DEF Inv, StraysCharged

(* What matters of a step is what it does to the three sets, to the length  *)
(* of the log and to the faults.                                            *)
LEMMA SetsAfter ==
  ASSUME Shapes', NEW s \in Jobs, NEW stage \in Stages, NEW owned \in BOOLEAN,
         Moves(s, stage, owned)
  PROVE  /\ Running' = IF stage = "idle" THEN Running \ {s} ELSE Running \cup {s}
         /\ Strays' = IF stage = "idle" \/ owned THEN Strays \ {s} ELSE Strays \cup {s}
         /\ Appending' = IF stage = "append" THEN Appending \cup {s}
                                            ELSE Appending \ {s}
         /\ \A t \in Jobs \ {s} : job'[t].owned = job[t].owned
         /\ job'[s].owned = owned
  BY DEF Moves, Running, Strays, Appending

LEMMA Numbers ==
  ASSUME Shapes, Shapes'
  PROVE  /\ Len(entries) \in Nat /\ faults \in Nat /\ CompactEvery \in Nat
         /\ Cardinality(Strays) \in Nat /\ Cardinality(Appending) \in Nat
         /\ Len(entries') \in Nat /\ faults' \in Nat
         /\ Cardinality(Strays') \in Nat /\ Cardinality(Appending') \in Nat
         /\ Strays \in SUBSET Jobs /\ Appending \in SUBSET Jobs
         /\ Strays' \in SUBSET Jobs /\ Appending' \in SUBSET Jobs
  <1>1. /\ Len(entries) \in Nat /\ faults \in Nat
        /\ Len(entries') \in Nat /\ faults' \in Nat
    BY DEF Shapes
  <1>2. /\ Strays \in SUBSET Jobs /\ Appending \in SUBSET Jobs
        /\ Strays' \in SUBSET Jobs /\ Appending' \in SUBSET Jobs
    BY DEF Strays, Appending, Running
  <1> QED BY <1>1, <1>2, CardinalityOfPart, StoreAssumption DEF StoreAssumption

(* A step that adds no stray but at the price of a fault keeps their charge. *)
LEMMA StraysKept ==
  ASSUME Inv, Shapes',
         \/ Strays' \subseteq Strays /\ faults' \in {faults, faults + 1}
         \/ \E s \in Jobs : Strays' \subseteq Strays \cup {s} /\ faults' = faults + 1
  PROVE  StraysCharged'
  <1>1. /\ faults \in Nat /\ faults' \in Nat
        /\ Cardinality(Strays) \in Nat /\ Cardinality(Strays') \in Nat
        /\ Strays \in SUBSET Jobs /\ Strays' \in SUBSET Jobs
    BY Numbers DEF Inv
  <1>2. Cardinality(Strays) <= faults
    BY DEF Inv, StraysCharged
  <1>3. CASE Strays' \subseteq Strays /\ faults' \in {faults, faults + 1}
    <2>1. Cardinality(Strays') <= Cardinality(Strays)
      BY <1>1, <1>3, CardinalityGrows
    <2> QED BY <1>1, <1>2, <1>3, <2>1 DEF StraysCharged
  <1>4. CASE \E s \in Jobs : Strays' \subseteq Strays \cup {s} /\ faults' = faults + 1
    <2>1. Cardinality(Strays') <= Cardinality(Strays) + 1
      BY <1>1, <1>4, CardinalityGrows
    <2> QED BY <1>1, <1>2, <1>4, <2>1 DEF StraysCharged
  <1> QED BY <1>3, <1>4

(* ... and one that neither adds entries nor sends a save to append keeps   *)
(* the charge on the log.                                                   *)
LEMMA LogKept ==
  ASSUME Inv, Shapes', entries' = entries \/ entries' = <<>>,
         Appending' \subseteq Appending, faults' \in {faults, faults + 1}
  PROVE  LogCharged'
  <1>1. /\ Len(entries) \in Nat /\ Len(entries') \in Nat /\ CompactEvery \in Nat
        /\ faults \in Nat /\ faults' \in Nat
        /\ Cardinality(Appending) \in Nat /\ Cardinality(Appending') \in Nat
        /\ Appending \in SUBSET Jobs /\ Appending' \in SUBSET Jobs
    BY Numbers DEF Inv
  <1>2. Len(entries) + Cardinality(Appending) <= CompactEvery - 1 + faults
    BY DEF Inv, LogCharged
  <1>3. Cardinality(Appending') <= Cardinality(Appending)
    BY <1>1, CardinalityGrows
  <1>4. Len(entries') <= Len(entries)
    <2>1. Len(<<>>) = 0
      OBVIOUS
    <2> QED BY <1>1, <2>1
  <1> QED BY <1>1, <1>2, <1>3, <1>4 DEF LogCharged

(* At most one save is awaited if there was and none is added to it.        *)
LEMMA AwaitedKept ==
  ASSUME OneAwaited, Running' \subseteq Jobs,
         \A t \in Running' : job'[t].owned => t \in Running /\ job[t].owned
  PROVE  OneAwaited'
  BY DEF OneAwaited

LEMMA StartsKeeps ==
  ASSUME Inv, Shapes', NEW s \in Jobs, Starts(s)
  PROVE  Inv'
  <1>1. PICK stage \in Stages \ {"append", "idle"} : Moves(s, stage, TRUE)
    BY DEF Starts
  <1>2. /\ Running' = Running \cup {s}
        /\ Strays' = Strays \ {s}
        /\ Appending' = Appending \ {s}
        /\ \A t \in Jobs \ {s} : job'[t].owned = job[t].owned
    BY <1>1, SetsAfter
  <1>3. UNCHANGED <<entries, faults>> /\ \A t \in Running : ~job[t].owned
    BY DEF Starts, Awaiting
  <1>4. OneAwaited'
    <2>1. \A t \in Running' : job'[t].owned => t = s
      BY <1>2, <1>3 DEF Running
    <2> QED BY <2>1 DEF OneAwaited
  <1>5. StraysCharged'
    BY <1>2, <1>3, StraysKept
  <1>6. LogCharged'
    BY <1>2, <1>3, LogKept
  <1> QED BY <1>4, <1>5, <1>6 DEF Inv

LEMMA GoesKeeps ==
  ASSUME Inv, Shapes', NEW s \in Jobs, Goes(s)
  PROVE  Inv'
  <1>1. PICK stage \in Stages \ {"append", "idle"} : Moves(s, stage, job[s].owned)
    BY DEF Goes
  <1>2. s \in Running /\ job[s].owned \in BOOLEAN
    <2>1. PICK F, C : job \in JobsIn(F, C)
      BY DEF Inv, Shapes
    <2> QED BY <2>1 DEF Goes, Running, JobsIn
  <1>3. /\ Running' = Running \cup {s}
        /\ Strays' = IF job[s].owned THEN Strays \ {s} ELSE Strays \cup {s}
        /\ Appending' = Appending \ {s}
        /\ \A t \in Jobs \ {s} : job'[t].owned = job[t].owned
        /\ job'[s].owned = job[s].owned
    BY <1>1, <1>2, SetsAfter
  <1>4. Strays' \subseteq Strays
    BY <1>2, <1>3 DEF Strays
  <1>5. (entries' = entries \/ entries' = <<>>) /\ faults' = faults
    BY DEF Goes, EntriesKept
  <1>6. OneAwaited'
    BY <1>2, <1>3, AwaitedKept DEF Inv, Running
  <1>7. StraysCharged'
    BY <1>4, <1>5, StraysKept
  <1>8. LogCharged'
    BY <1>3, <1>5, LogKept
  <1> QED BY <1>6, <1>7, <1>8 DEF Inv

(* A save that ends, completed or stopped.                                  *)
LEMMA LeavingKeeps ==
  ASSUME Inv, Shapes', NEW s \in Jobs, Ends(s) \/ Stops(s)
  PROVE  Inv'
  <1>1. Moves(s, "idle", FALSE) /\ "idle" \in Stages
    BY DEF Ends, Stops, Stages
  <1>2. /\ Running' = Running \ {s}
        /\ Strays' = Strays \ {s}
        /\ Appending' = Appending \ {s}
        /\ \A t \in Jobs \ {s} : job'[t].owned = job[t].owned
    BY <1>1, SetsAfter
  <1>3. (entries' = entries \/ entries' = <<>>) /\ faults' \in {faults, faults + 1}
    BY DEF Ends, Stops, EntriesKept
  <1>4. OneAwaited'
    BY <1>2, AwaitedKept DEF Inv, Running
  <1>5. StraysCharged'
    BY <1>2, <1>3, StraysKept
  <1>6. LogCharged'
    BY <1>2, <1>3, LogKept
  <1> QED BY <1>4, <1>5, <1>6 DEF Inv

(* A save that decides to append is charged for the entry there and then:   *)
(* compact_every leaves room for it and for the saves on their way.         *)
LEMMA CountsKeeps ==
  ASSUME Inv, Shapes', NEW s \in Jobs, Counts(s)
  PROVE  Inv'
  <1>1. Moves(s, "append", job[s].owned) /\ "append" \in Stages
    BY DEF Counts, Stages
  <1>2. s \in Running /\ job[s].owned \in BOOLEAN
    <2>1. PICK F, C : job \in JobsIn(F, C)
      BY DEF Inv, Shapes
    <2> QED BY <2>1 DEF Counts, Running, JobsIn
  <1>3. /\ Running' = Running \cup {s}
        /\ Strays' = IF job[s].owned THEN Strays \ {s} ELSE Strays \cup {s}
        /\ Appending' = Appending \cup {s}
        /\ \A t \in Jobs \ {s} : job'[t].owned = job[t].owned
        /\ job'[s].owned = job[s].owned
    BY <1>1, <1>2, SetsAfter
  <1>4. Strays' \subseteq Strays
    BY <1>2, <1>3 DEF Strays
  <1>5. entries' = entries /\ faults' = faults
    BY DEF Counts
  <1>6. OneAwaited'
    BY <1>2, <1>3, AwaitedKept DEF Inv, Running
  <1>7. StraysCharged'
    BY <1>4, <1>5, StraysKept
  <1>8. LogCharged'
    <2>1. /\ Len(entries) \in Nat /\ CompactEvery \in Nat /\ faults \in Nat
          /\ Cardinality(Appending') \in Nat
      BY Numbers DEF Inv
    <2>2. Len(entries) + 1 < CompactEvery
      BY <2>1 DEF Counts, LogFull
    <2>3. Cardinality(Appending') <= faults + 1
      BY <1>2, <1>3, AppendingBounded
    <2> QED BY <1>5, <2>1, <2>2, <2>3 DEF LogCharged
  <1> QED BY <1>6, <1>7, <1>8 DEF Inv

(* The entry was charged when the save counted; running the statement twice *)
(* adds an entry and a fault.                                               *)
LEMMA AppendsKeeps ==
  ASSUME Inv, Shapes', NEW s \in Jobs, Appends(s)
  PROVE  Inv'
  <1>1. Moves(s, "idle", FALSE) /\ "idle" \in Stages
    BY DEF Appends, Stages
  <1>2. /\ Running' = Running \ {s}
        /\ Strays' = Strays \ {s}
        /\ Appending' = Appending \ {s}
        /\ \A t \in Jobs \ {s} : job'[t].owned = job[t].owned
    BY <1>1, SetsAfter
  <1>3. OneAwaited'
    BY <1>2, AwaitedKept DEF Inv, Running
  <1>4. StraysCharged'
    BY <1>2, StraysKept DEF Appends
  <1>5. LogCharged'
    <2>1. /\ Len(entries) \in Nat /\ Len(entries') \in Nat /\ CompactEvery \in Nat
          /\ faults \in Nat /\ faults' \in Nat
          /\ Cardinality(Appending) \in Nat /\ Appending \in SUBSET Jobs
      BY Numbers DEF Inv
    <2>2. s \in Appending
      BY DEF Appends, Appending
    <2>3. Cardinality(Appending') = Cardinality(Appending) - 1
      BY <1>2, <2>1, <2>2, CardinalityOfPart, FS_RemoveElement
    <2>4. Len(entries') <= Len(entries) + 1 + (faults' - faults)
      BY DEF Appends
    <2>5. Len(entries) + Cardinality(Appending) <= CompactEvery - 1 + faults
      BY DEF Inv, LogCharged
    <2> QED BY <2>1, <2>3, <2>4, <2>5 DEF LogCharged
  <1> QED BY <1>3, <1>4, <1>5 DEF Inv

LEMMA AbandonsKeeps ==
  ASSUME Inv, Shapes', NEW s \in Jobs, Abandons(s)
  PROVE  Inv'
  <1>1. Moves(s, job[s].at, FALSE)
    BY DEF Abandons
  <1>2. job[s].at \in Stages
    <2>1. PICK F, C : job \in JobsIn(F, C)
      BY DEF Inv, Shapes
    <2> QED BY <2>1 DEF JobsIn
  <1>3. /\ Running' = IF job[s].at = "idle" THEN Running \ {s} ELSE Running \cup {s}
        /\ Strays' = IF job[s].at = "idle" \/ FALSE THEN Strays \ {s} ELSE Strays \cup {s}
        /\ Appending' = IF job[s].at = "append" THEN Appending \cup {s}
                                               ELSE Appending \ {s}
        /\ \A t \in Jobs \ {s} : job'[t].owned = job[t].owned
        /\ job'[s].owned = FALSE
    BY <1>1, <1>2, SetsAfter
  <1>4. Running' \subseteq Running \cup {s} /\ Strays' \subseteq Strays \cup {s}
    BY <1>3
  <1>5. Appending' \subseteq Appending
    BY <1>3 DEF Appending
  <1>6. entries' = entries /\ faults' = faults + 1
    BY DEF Abandons
  <1>7. OneAwaited'
    <2>1. \A t \in Running' : job'[t].owned => t \in Running /\ job[t].owned
      BY <1>3, <1>4 DEF Running
    <2>2. Running' \subseteq Jobs
      BY <1>4 DEF Running
    <2> QED BY <2>1, <2>2, AwaitedKept DEF Inv
  <1>8. StraysCharged'
    BY <1>4, <1>6, StraysKept
  <1>9. LogCharged'
    BY <1>5, <1>6, LogKept
  <1> QED BY <1>7, <1>8, <1>9 DEF Inv

LEMMA RestartsKeeps ==
  ASSUME Inv, Shapes', Restarts
  PROVE  Inv'
  <1>1. Running' = {} /\ Strays' = {} /\ Appending' = {}
    BY DEF Restarts, Running, Strays, Appending
  <1>2. entries' = entries /\ faults' \in {faults, faults + 1}
    BY DEF Restarts
  <1>3. OneAwaited'
    BY <1>1 DEF OneAwaited
  <1>4. StraysCharged'
    BY <1>1, <1>2, StraysKept
  <1>5. LogCharged'
    BY <1>1, <1>2, LogKept
  <1> QED BY <1>3, <1>4, <1>5 DEF Inv

LEMMA QuietKeeps ==
  ASSUME Inv, Shapes', Quiet
  PROVE  Inv'
  <1>1. Running' = Running /\ Strays' = Strays /\ Appending' = Appending
    BY DEF Quiet, Running, Strays, Appending
  <1>2. entries' = entries /\ faults' = faults /\ job' = job
    BY DEF Quiet
  <1>3. OneAwaited'
    BY <1>1, <1>2 DEF Inv, OneAwaited
  <1>4. StraysCharged'
    BY <1>1, <1>2, StraysKept
  <1>5. LogCharged'
    BY <1>1, <1>2, LogKept
  <1> QED BY <1>3, <1>4, <1>5 DEF Inv

-----------------------------------------------------------------------------
LEMMA InitInv ==
  ASSUME Init
  PROVE  Inv
  <1>1. job = [s \in Jobs |-> Idle] /\ entries = <<>> /\ faults = 0
    BY DEF Init
  <1>2. Idle \in [at : Stages, owned : BOOLEAN, from : {-1}, taken : {EmptyContext}]
    BY DEF Idle, Stages
  <1>3. job \in JobsIn({-1}, {EmptyContext}) /\ entries \in Seq({})
    BY <1>1, <1>2 DEF JobsIn
  <1>4. Shapes
    BY <1>1, <1>3 DEF Shapes
  <1>5. Running = {} /\ Strays = {} /\ Appending = {}
    BY <1>1 DEF Running, Strays, Appending, Idle
  <1>6. Cardinality(Strays) = 0 /\ Cardinality(Appending) = 0 /\ Len(entries) = 0
    BY <1>1, <1>5, FS_EmptySet
  <1>7. StraysCharged /\ LogCharged
    BY <1>1, <1>6, StoreAssumption DEF StraysCharged, LogCharged, StoreAssumption
  <1>8. OneAwaited
    BY <1>5 DEF OneAwaited
  <1> QED BY <1>4, <1>7, <1>8 DEF Inv

LEMMA NextInv ==
  ASSUME Inv, [Next]_vars
  PROVE  Inv'
  <1>1. Shapes' /\ Seen
    BY NextSeen DEF Inv
  <1>2. CASE \E s \in Jobs : Starts(s) \/ Goes(s)
    BY <1>1, <1>2, StartsKeeps, GoesKeeps
  <1>3. CASE \E s \in Jobs : Ends(s) \/ Stops(s)
    BY <1>1, <1>3, LeavingKeeps
  <1>4. CASE \E s \in Jobs : Counts(s) \/ Appends(s)
    BY <1>1, <1>4, CountsKeeps, AppendsKeeps
  <1>5. CASE \E s \in Jobs : Abandons(s)
    BY <1>1, <1>5, AbandonsKeeps
  <1>6. CASE Restarts \/ Quiet
    BY <1>1, <1>6, RestartsKeeps, QuietKeeps
  <1> QED BY <1>1, <1>2, <1>3, <1>4, <1>5, <1>6 DEF Seen

LEMMA InvBounds ==
  ASSUME Inv
  PROVE  EntriesBounded
  <1>1. Shapes
    BY DEF Inv
  <1>2. Len(entries) \in Nat /\ faults \in Nat
    BY <1>1 DEF Shapes
  <1>3. Appending \in SUBSET Jobs
    BY DEF Appending
  <1>4. Cardinality(Appending) \in Nat
    BY <1>3, CardinalityOfPart
  <1>5. Len(entries) + Cardinality(Appending) <= CompactEvery - 1 + faults
    BY DEF Inv, LogCharged
  <1> QED BY <1>2, <1>4, <1>5, StoreAssumption DEF EntriesBounded, StoreAssumption

(* However many saves overlap and whenever they are cancelled, stopped or   *)
(* restarted, a reload replays at most compact_every - 1 entries and one    *)
(* for every fault (_persistence.py:41-46).                                 *)
THEOREM LogBounded == Spec => []EntriesBounded
  <1>1. Init => Inv
    BY InitInv
  <1>2. Inv /\ [Next]_vars => Inv'
    BY NextInv
  <1>3. Inv => EntriesBounded
    BY InvBounds
  <1> QED BY <1>1, <1>2, <1>3, PTL DEF Spec
-----------------------------------------------------------------------------
(* Contexts: what an entry makes of what is stored *)

(* No artifact that a commit created was deleted outside the commits.       *)
Live(c) == \A i \in Items : Committed(c.log)[i] # Absent => c.art[i] # Absent

(* The committed artifacts that were changed outside the commits.           *)
Loose(c) ==
  {i \in Items : Committed(c.log)[i] # Absent /\ c.art[i] # Committed(c.log)[i]}

LEMMA ContextTyped ==
  ASSUME NEW c \in Contexts
  PROVE  /\ c.art \in States /\ c.queue \in SUBSET Items /\ c.log \in Logs
         /\ Committed(c.log) \in States /\ Version(c.log) \in Nat
         /\ c.log.floor \in Nat /\ c.log.floor <= Version(c.log)
         /\ Version(c.log) \in c.log.floor .. Version(c.log)
<1>1. c.art \in States /\ c.queue \in SUBSET Items /\ c.log \in Logs
  BY DEF Contexts
<1>2. /\ Version(c.log) \in Nat /\ c.log.floor <= Version(c.log)
      /\ \A v \in c.log.floor .. Version(c.log) : ReplayState(c.log, v) \in States
  BY <1>1, CommitsShaped, HistoryTyped
<1>3. c.log.floor \in Nat
  BY <1>1 DEF Logs
<1>4. Version(c.log) \in c.log.floor .. Version(c.log)
  BY <1>2, <1>3
<1> QED
  BY <1>1, <1>2, <1>3, <1>4 DEF Committed

LEMMA TreeTyped ==
  ASSUME NEW c \in Contexts
  PROVE  WorkingTree(c) \in States
<1>1. c.art \in States /\ Committed(c.log) \in States
  BY ContextTyped
<1> QED
  BY <1>1 DEF WorkingTree, States

LEMMA EntryTyped ==
  ASSUME NEW c \in Contexts, NEW e \in Entries
  PROVE  /\ ApplyEntry(c, e) \in Contexts
         /\ ApplyEntry(c, e).queue = e.queue
         /\ Version(ApplyEntry(c, e).log) = Version(c.log) + Len(e.commits)
<1>1. c.art \in States /\ c.log \in Logs
  BY ContextTyped
<1>2. e.commits \in Seq(Commits) /\ e.queue \in SUBSET Items
  BY DEF Entries
<1>3. FoldLeft(ApplyCommit, c.art, e.commits) \in States
  BY <1>1, <1>2, FoldAppliesTyped
<1> DEFINE new == [c.log EXCEPT !.commits = @ \o e.commits]
<1>4. new \in Logs /\ Version(new) = Version(c.log) + Len(e.commits)
  BY <1>1, <1>2, ExtendHistory
<1> HIDE DEF new
<1>5. ApplyEntry(c, e) = [art |-> FoldLeft(ApplyCommit, c.art, e.commits), queue |-> e.queue, log |-> new]
  BY DEF ApplyEntry, new
<1> QED
  BY <1>2, <1>3, <1>4, <1>5 DEF Contexts

(* What an entry makes of what is stored, when what is stored has seen at   *)
(* least the commits before the entry's.                                    *)
LEMMA EntryApplied ==
  ASSUME NEW c \in Contexts, NEW t \in Contexts,
         NEW m \in t.log.floor .. Version(t.log), NEW w \in m .. Version(t.log),
         Grounded(t.log, m), Committed(c.log) = ReplayState(t.log, w), Live(c),
         NEW d, d = ApplyEntry(c, Entry(t, m))
  PROVE  /\ Entry(t, m) \in Entries /\ d \in Contexts /\ d.queue = t.queue
         /\ Len(Entry(t, m).commits) = Version(t.log) - m
         /\ Version(d.log) = Version(c.log) + (Version(t.log) - m)
         /\ Committed(d.log) = Committed(t.log)
         /\ Live(d)
         /\ Loose(d) \subseteq Loose(c) \ Touched(t.log, w)
<1> DEFINE e == Entry(t, m)
           cs == CommitsFrom(t.log, m)
           n == Version(t.log) - m
<1>1. t.log \in Logs /\ c.log \in Logs /\ c.art \in States /\ Committed(c.log) \in States
  BY ContextTyped
<1>2. /\ cs \in Seq(Commits) /\ Len(cs) = n
      /\ \A v \in t.log.floor .. Version(t.log) : ReplayState(t.log, v) \in States
  BY <1>1, ChainSteps
<1>3. e = [commits |-> cs, queue |-> t.queue, tree |-> WorkingTree(t)]
  BY DEF Entry
<1>4. e \in Entries
  BY <1>2, <1>3, ContextTyped, TreeTyped DEF Entries
<1>5. d \in Contexts /\ d.queue = t.queue /\ Version(d.log) = Version(c.log) + n
  BY <1>2, <1>3, <1>4, EntryTyped
<1>6. Committed(d.log) = Committed(t.log)
  <2>1. d.log = [c.log EXCEPT !.commits = @ \o cs]
    BY <1>3 DEF ApplyEntry
  <2>2. Committed(d.log) = FoldLeft(ReplayCommit, Committed(c.log), cs)
    BY <1>1, <1>2, <2>1, ExtendHistory
  <2>3. PICK z : Replays(z, Committed(c.log), cs) /\ FoldLeft(ReplayCommit, Committed(c.log), cs) = z[n]
    BY <1>1, <1>2, CommitsShaped, FoldReplays
  <2>4. z[n] = Committed(t.log)
    BY <1>1, <2>3, ReplayedAgain
  <2> QED BY <2>2, <2>3, <2>4
<1>7. ASSUME NEW i \in Items
      PROVE  \/ d.art[i] = Committed(t.log)[i]
             \/ d.art[i] = c.art[i] /\ c.art[i] # Absent /\ i \notin Touched(t.log, m)
  <2>1. PICK y : Applies(y, c.art, cs) /\ FoldLeft(ApplyCommit, c.art, cs) = y[n]
    BY <1>1, <1>2, FoldApplies
  <2>2. d.art = y[n]
    BY <1>3, <2>1 DEF ApplyEntry
  <2>3. ReplayState(t.log, w)[i] # Absent => c.art[i] # Absent
    BY DEF Live
  <2> QED BY <1>1, <2>1, <2>2, <2>3, AppliedAgain
<1>8. Touched(t.log, w) \subseteq Touched(t.log, m)
  <2>1. t.log.floor \in Nat /\ Version(t.log) \in Nat /\ m \in t.log.floor .. Version(t.log)
        /\ w \in t.log.floor .. Version(t.log)
    BY ContextTyped
  <2>2. w + 1 .. Version(t.log) \subseteq m + 1 .. Version(t.log)
    BY <2>1
  <2> QED BY <1>1, <2>1, <2>2, TouchedAt
<1>9. Live(d)
  BY <1>6, <1>7 DEF Live
<1>10. ASSUME NEW i \in Loose(d)
       PROVE  i \in Loose(c) /\ i \notin Touched(t.log, w)
  <2>1. i \in Items /\ Committed(t.log)[i] # Absent /\ d.art[i] # Committed(t.log)[i]
    BY <1>6 DEF Loose
  <2>2. d.art[i] = c.art[i] /\ i \notin Touched(t.log, w)
    BY <1>7, <1>8, <2>1
  <2>3. w \in t.log.floor .. Version(t.log)
    BY ContextTyped
  <2>4. ReplayState(t.log, w)[i] = Committed(t.log)[i]
    BY <1>1, <2>1, <2>2, <2>3, CommitsShaped, UntouchedStays
  <2> QED BY <2>1, <2>2, <2>4 DEF Loose
<1> QED
  BY <1>2, <1>3, <1>4, <1>5, <1>6, <1>9, <1>10

(* The working tree of an entry restores what its commits leave open.       *)
LEMMA TreeRestores ==
  ASSUME NEW t \in Contexts, Live(t), NEW d \in Contexts,
         Committed(d.log) = Committed(t.log), Loose(d) \subseteq Loose(t)
  PROVE  ApplyTree(d, WorkingTree(t)).art = t.art
<1> DEFINE tree == WorkingTree(t)
           a == ApplyTree(d, tree).art
<1>1. t.art \in States /\ d.art \in States
  BY ContextTyped
<1>2. \A i \in Items : tree[i] = IF t.art[i] = Committed(t.log)[i] THEN Absent ELSE t.art[i]
  BY DEF WorkingTree
<1>3. a = [i \in Items |-> CASE tree[i] # Absent -> tree[i]
                              [] tree[i] = Absent /\ Committed(d.log)[i] = Absent -> Absent
                              [] OTHER -> d.art[i]]
  <2>1. d = [art |-> d.art, queue |-> d.queue, log |-> d.log]
    BY DEF Contexts
  <2> QED BY <2>1 DEF ApplyTree
<1> HIDE DEF a, tree
<1>4. ASSUME NEW i \in Items PROVE a[i] = t.art[i]
  <2>1. CASE tree[i] # Absent
    BY <1>2, <1>3, <2>1
  <2>2. CASE tree[i] = Absent /\ Committed(t.log)[i] = Absent
    BY <1>2, <1>3, <2>2
  <2>3. CASE tree[i] = Absent /\ Committed(t.log)[i] # Absent
    <3>1. a[i] = d.art[i]
      BY <1>3, <2>3
    <3>2. t.art[i] = Committed(t.log)[i]
      BY <1>2, <2>3 DEF Live
    <3>3. i \notin Loose(d)
      BY <3>2 DEF Loose
    <3> QED BY <2>3, <3>1, <3>2, <3>3 DEF Loose
  <2> QED BY <2>1, <2>2, <2>3
<1>5. a \in [Items -> Vals \cup {Absent}]
  BY <1>1, <1>3, <1>4 DEF States
<1>6. a = t.art
  BY <1>1, <1>4, <1>5 DEF States
<1> QED
  BY <1>6 DEF a, tree

(* ... and leaves alone the rest of what it is applied to.                  *)
LEMMA TreeKeeps ==
  ASSUME NEW d \in Contexts, NEW tree \in States
  PROVE  /\ ApplyTree(d, tree) \in Contexts
         /\ ApplyTree(d, tree).queue = d.queue /\ ApplyTree(d, tree).log = d.log
         /\ Live(d) => Live(ApplyTree(d, tree))
         /\ (\A i \in Items : tree[i] # Absent => tree[i] # Committed(d.log)[i])
              => Loose(d) \subseteq Loose(ApplyTree(d, tree))
<1> DEFINE b == ApplyTree(d, tree)
           a == [i \in Items |-> CASE tree[i] # Absent -> tree[i]
                              [] tree[i] = Absent /\ Committed(d.log)[i] = Absent -> Absent
                              [] OTHER -> d.art[i]]
<1>1. d = [art |-> d.art, queue |-> d.queue, log |-> d.log]
  BY DEF Contexts
<1>2. d.art \in States /\ d.queue \in SUBSET Items /\ d.log \in Logs
  BY ContextTyped
<1>3. b = [art |-> a, queue |-> d.queue, log |-> d.log]
  BY <1>1 DEF ApplyTree
<1>4. a \in States
  BY <1>2 DEF States
<1>5. \A i \in Items : /\ tree[i] # Absent => a[i] = tree[i]
                       /\ tree[i] = Absent /\ Committed(d.log)[i] # Absent => a[i] = d.art[i]
  OBVIOUS
<1> HIDE DEF a, b
<1>6. b \in Contexts /\ b.art = a /\ b.queue = d.queue /\ b.log = d.log
  BY <1>2, <1>3, <1>4 DEF Contexts
<1>7. Live(d) => Live(b)
  BY <1>5, <1>6 DEF Live
<1>8. (\A i \in Items : tree[i] # Absent => tree[i] # Committed(d.log)[i])
        => Loose(d) \subseteq Loose(b)
  BY <1>5, <1>6 DEF Loose
<1> QED
  BY <1>6, <1>7, <1>8 DEF b

(* What a snapshot and its entries come to, but for the working tree.       *)
Stored(c, es) == FoldLeft(ApplyEntry, c, es)

(* r holds the Contexts that replaying es onto base goes through.           *)
Loads(r, base, es) ==
  /\ r \in [0 .. Len(es) -> Contexts] /\ r[0] = base
  /\ \A k \in 1 .. Len(es) : r[k] = ApplyEntry(r[k - 1], es[k])

LEMMA FoldLoads ==
  ASSUME NEW base \in Contexts, NEW es \in Seq(Entries)
  PROVE  \E r : Loads(r, base, es) /\ Stored(base, es) = r[Len(es)]
<1> DEFINE n == Len(es)
           step == [p \in Contexts \X (1 .. n) |-> ApplyEntry(p[1], es[p[2]])]
           Computes(g) == g = [s \in SUBSET (1 .. n) |->
             IF s = {} THEN base ELSE ApplyEntry(g[s \ {Max(s)}], es[Max(s)])]
           it == CHOOSE g : Computes(g)
<1>1. DOMAIN es = 1 .. n /\ n \in Nat /\ \A k \in 1 .. n : es[k] \in Entries
  OBVIOUS
<1>2. Stored(base, es) = it[1 .. n]
  BY <1>1 DEF FoldLeft, MapThenFoldSet, Stored
<1>3. step \in [Contexts \X (1 .. n) -> Contexts]
  <2>1. \A c \in Contexts, e \in Entries : ApplyEntry(c, e) \in Contexts
    BY EntryTyped
  <2> QED BY <1>1, <2>1
<1>4. \E g : Computes(g)
  <2>1. PICK g : FoldsOver(g, n, Contexts, base, step)
    <3> HIDE DEF step, n
    <3>1. n \in Nat
      BY <1>1
    <3> QED BY <3>1, <1>3, FoldExists
  <2>2. ASSUME NEW s \in SUBSET (1 .. n), s # {}
        PROVE  g[s] = ApplyEntry(g[s \ {Max(s)}], es[Max(s)])
    <3>1. s \ {Max(s)} \in SUBSET (1 .. n)
      OBVIOUS
    <3>2. Max(s) \in s
      BY Zenon, <1>1, <2>2, MaxOfSegment
    <3> HIDE DEF n
    <3>3. <<g[s \ {Max(s)}], Max(s)>> \in Contexts \X (1 .. n)
      BY <2>1, <3>1, <3>2 DEF FoldsOver
    <3> QED BY <2>1, <2>2, <3>3 DEF FoldsOver
  <2>3. Computes(g)
    BY <2>1, <2>2 DEF FoldsOver
  <2> QED BY <2>3
<1>5. Computes(it)
  BY Zenon, <1>4
<1>6. Recurs(it, n, Contexts, base, step)
  <2> SUFFICES ASSUME NEW s \in SUBSET (1 .. n)
               PROVE  IF s = {} THEN it[s] = base
                      ELSE it[s \ {Max(s)}] \in Contexts =>
                             it[s] = step[<<it[s \ {Max(s)}], Max(s)>>]
    BY DEF Recurs
  <2> HIDE DEF it
  <2>1. CASE s = {}
    BY <1>5, <2>1
  <2>2. CASE s # {}
    <3>1. it[s] = ApplyEntry(it[s \ {Max(s)}], es[Max(s)])
      BY <1>5, <2>2
    <3>2. Max(s) \in 1 .. n
      <4>1. Max(s) \in s
        BY Zenon, <1>1, <2>2, MaxOfSegment
      <4> QED BY <4>1
    <3> QED BY <2>2, <3>1, <3>2
  <2> QED BY <2>1, <2>2
<1> DEFINE r == Segments(it, n)
<1>7. Runs(r, n, Contexts, base, step) /\ r[n] = it[1 .. n]
  <2> HIDE DEF it, step, n, Computes
  <2>1. n \in Nat
    BY <1>1
  <2>2. Runs(r, n, Contexts, base, step)
    BY <2>1, <1>3, <1>6, FoldRuns
  <2> QED BY <2>1, <2>2 DEF Segments
<1> HIDE DEF r
<1>8. \A k \in 1 .. n : r[k] = ApplyEntry(r[k - 1], es[k])
  <2> TAKE k \in 1 .. n
  <2>1. k - 1 \in 0 .. n
    BY <1>1
  <2> HIDE DEF n
  <2>2. <<r[k - 1], k>> \in Contexts \X (1 .. n)
    BY <1>7, <2>1 DEF Runs
  <2> QED BY <1>7, <2>2 DEF Runs
<1> QED
  BY <1>2, <1>7, <1>8 DEF Loads, Runs

LEMMA StoredTyped ==
  ASSUME NEW c \in Contexts, NEW es \in Seq(Entries)
  PROVE  /\ Stored(c, es) \in Contexts
         /\ Version(c.log) <= Version(Stored(c, es).log)
         /\ es = <<>> => Stored(c, es) = c
<1> DEFINE n == Len(es)
<1>1. PICK r : Loads(r, c, es) /\ Stored(c, es) = r[n]
  BY FoldLoads
<1>2. n \in Nat /\ n \in 0 .. n /\ 0 \in 0 .. n /\ \A k \in 1 .. n : es[k] \in Entries
  OBVIOUS
<1>3. r \in [0 .. n -> Contexts] /\ r[0] = c
  BY <1>1 DEF Loads
<1> DEFINE Good == {k \in 0 .. n : Version(c.log) <= Version(r[k].log)}
<1>4. 0 \in Good
  <2>1. Version(c.log) \in Nat
    BY ContextTyped
  <2> QED BY <1>2, <1>3, <2>1
<1>5. \A k \in 0 + 1 .. n : k - 1 \in Good => k \in Good
  <2> SUFFICES ASSUME NEW k \in 1 .. n, k - 1 \in Good PROVE k \in Good
    BY <1>2
  <2>1. r[k] = ApplyEntry(r[k - 1], es[k]) /\ es[k] \in Entries /\ k - 1 \in 0 .. n /\ k \in 0 .. n
    BY <1>1, <1>2 DEF Loads
  <2>2. r[k - 1] \in Contexts
    BY <1>3, <2>1
  <2>3. Version(r[k].log) = Version(r[k - 1].log) + Len(es[k].commits) /\ Len(es[k].commits) \in Nat
    <3>1. Len(es[k].commits) \in Nat
      BY <2>1 DEF Entries
    <3> QED BY <2>1, <2>2, <3>1, EntryTyped
  <2>4. Version(r[k - 1].log) \in Nat /\ Version(c.log) \in Nat
        /\ Version(c.log) <= Version(r[k - 1].log)
    BY <2>2, ContextTyped
  <2>5. Version(c.log) <= Version(r[k].log)
    BY <2>3, <2>4
  <2> QED BY <2>1, <2>5
<1>6. n \in Good
  <2> HIDE DEF Good, n
  <2>1. 0 \in Nat /\ n \in Nat
    BY <1>2
  <2>2. 0 .. n \subseteq Good
    BY <1>4, <1>5, <2>1, UpTo
  <2> QED BY <1>2, <2>2
<1> QED
  BY <1>1, <1>2, <1>3, <1>6

(* One more entry is applied to what there was.                             *)
LEMMA StoredAppend ==
  ASSUME NEW c \in Contexts, NEW es \in Seq(Entries), NEW e \in Entries
  PROVE  Stored(c, Append(es, e)) = ApplyEntry(Stored(c, es), e)
<1> DEFINE n == Len(es)
           ds == Append(es, e)
<1>1. /\ n \in Nat /\ ds \in Seq(Entries) /\ Len(ds) = n + 1 /\ ds[n + 1] = e
      /\ \A k \in 1 .. n : ds[k] = es[k]
  OBVIOUS
<1> HIDE DEF ds
<1>2. PICK r : Loads(r, c, es) /\ Stored(c, es) = r[n]
  BY FoldLoads
<1>3. PICK q : Loads(q, c, ds) /\ Stored(c, ds) = q[n + 1]
  BY <1>1, FoldLoads
<1> DEFINE Good == {k \in 0 .. n : q[k] = r[k]}
<1>4. 0 \in Good
  BY <1>1, <1>2, <1>3 DEF Loads
<1>5. \A k \in 0 + 1 .. n : k - 1 \in Good => k \in Good
  <2> SUFFICES ASSUME NEW k \in 1 .. n, k - 1 \in Good PROVE k \in Good
    BY <1>1
  <2>1. k \in 1 .. n + 1 /\ k \in 0 .. n
    BY <1>1
  <2>2. r[k] = ApplyEntry(r[k - 1], es[k]) /\ q[k] = ApplyEntry(q[k - 1], ds[k])
    BY <1>1, <1>2, <1>3, <2>1 DEF Loads
  <2> QED BY <1>1, <2>1, <2>2
<1>6. q[n] = r[n]
  <2> HIDE DEF Good, n
  <2>1. 0 \in Nat /\ n \in Nat
    BY <1>1
  <2>2. 0 .. n \subseteq Good
    BY <1>4, <1>5, <2>1, UpTo
  <2>3. n \in Good
    BY <2>1, <2>2
  <2> QED BY <2>3 DEF Good
<1>7. q[n + 1] = ApplyEntry(q[n], e)
  <2>1. n + 1 \in 1 .. Len(ds) /\ (n + 1) - 1 = n
    BY <1>1
  <2>2. q[n + 1] = ApplyEntry(q[(n + 1) - 1], ds[n + 1])
    BY <1>3, <2>1 DEF Loads
  <2> QED BY <1>1, <2>1, <2>2
<1> QED
  BY <1>2, <1>3, <1>6, <1>7 DEF ds

-----------------------------------------------------------------------------
(* The jobs and their line *)

Snapshots == {<<>>} \cup {<<c>> : c \in Contexts}

Typed ==
  /\ ctx \in Contexts
  /\ marker \in [version : Int, floor : Nat]
  /\ snap \in Snapshots /\ saved \in Snapshots
  /\ entries \in Seq(Entries)
  /\ job \in JobsIn(Int, Contexts)
  /\ line \in Seq(Jobs)
  /\ gap \in BOOLEAN /\ rolled \in BOOLEAN /\ hurt \in SUBSET Hurts

(* l lists the jobs of R, each once.                                        *)
Lists(l, R) ==
  /\ l \in Seq(R)
  /\ \A m, n \in 1 .. Len(l) : l[m] = l[n] => m = n
  /\ \A s \in R : \E n \in 1 .. Len(l) : l[n] = s

Before(l, s, t) == \E n \in 1 .. Len(l) : \E m \in 1 .. n - 1 : l[m] = s /\ l[n] = t

(* Whatever is before another job in l but s was so in k; nothing is behind *)
(* s.                                                                       *)
LastOf(l, k, s) ==
  \A t, u : Before(l, t, u) => t # s /\ (u = s \/ Before(k, t, u))

LEMMA QueueUp ==
  ASSUME NEW R, NEW l, Lists(l, R), NEW s, s \notin R
  PROVE  Lists(Append(l, s), R \cup {s}) /\ LastOf(Append(l, s), l, s)
<1> DEFINE n == Len(l)
           k == Append(l, s)
<1>1. /\ n \in Nat /\ l \in Seq(R) /\ k \in Seq(R \cup {s}) /\ Len(k) = n + 1 /\ k[n + 1] = s
      /\ \A i \in 1 .. n : k[i] = l[i] /\ l[i] \in R
  BY DEF Lists
<1> HIDE DEF k
<1>2. ASSUME NEW a \in 1 .. Len(k), NEW b \in 1 .. Len(k), k[a] = k[b] PROVE a = b
  <2>1. (a \in 1 .. n \/ a = n + 1) /\ (b \in 1 .. n \/ b = n + 1)
    BY <1>1
  <2>2. CASE a \in 1 .. n /\ b \in 1 .. n
    BY <1>1, <1>2, <2>2 DEF Lists
  <2>3. CASE a = n + 1 \/ b = n + 1
    BY <1>1, <1>2, <2>1, <2>3
  <2> QED BY <2>1, <2>2, <2>3
<1>3. \A t \in R \cup {s} : \E i \in 1 .. Len(k) : k[i] = t
  <2>1. n + 1 \in 1 .. Len(k) /\ \A i \in 1 .. n : i \in 1 .. Len(k)
    BY <1>1
  <2> QED BY <1>1, <2>1 DEF Lists
<1>4. ASSUME NEW t, NEW u, Before(k, t, u)
      PROVE  t # s /\ (u = s \/ Before(l, t, u))
  <2>1. PICK b \in 1 .. Len(k) : \E a \in 1 .. b - 1 : k[a] = t /\ k[b] = u
    BY <1>4 DEF Before
  <2>2. PICK a \in 1 .. b - 1 : k[a] = t /\ k[b] = u
    BY <2>1
  <2>3. a \in 1 .. n
    BY <1>1
  <2>4. CASE b = n + 1
    BY <1>1, <2>2, <2>3, <2>4
  <2>5. CASE b # n + 1
    <3>1. b \in 1 .. n
      BY <1>1, <2>5
    <3> QED BY <1>1, <2>2, <2>3, <3>1 DEF Before
  <2> QED BY <2>4, <2>5
<1> QED
  BY <1>1, <1>2, <1>3, <1>4 DEF Lists, LastOf, k

LEMMA DropOut ==
  ASSUME NEW R, NEW l, Lists(l, R), NEW p \in 1 .. Len(l), NEW s, l[p] = s
  PROVE  /\ Lists(RemoveAt(l, p), R \ {s}) /\ LastOf(RemoveAt(l, p), l, s)
         /\ p = 1 => RemoveAt(l, p) = Tail(l)
<1> DEFINE n == Len(l)
           k == RemoveAt(l, p)
           f(i) == IF i < p THEN i ELSE i + 1
<1>1. /\ n \in Nat /\ l \in Seq(R) /\ p \in 1 .. n
      /\ \A i \in 1 .. n : l[i] \in R
  BY DEF Lists
<1>2. k \in Seq(R) /\ Len(k) = n - 1 /\ \A i \in 1 .. n - 1 : k[i] = l[f(i)]
  <2> DEFINE a == SubSeq(l, 1, p - 1)
             b == SubSeq(l, p + 1, n)
  <2>1. a \in Seq(R) /\ Len(a) = p - 1 /\ \A i \in 1 .. p - 1 : a[i] = l[i]
    BY <1>1
  <2>2. b \in Seq(R) /\ Len(b) = n - p /\ Shifted(b, l, p, 1 .. n - p)
    <3>1. p \in 0 .. Len(l)
      BY <1>1
    <3> QED BY <1>1, <3>1, SuffixFacts
  <2>3. k = a \o b
    BY DEF RemoveAt
  <2> HIDE DEF a, b, k
  <2>4. k \in Seq(R) /\ Len(k) = n - 1
    <3>1. k \in Seq(R) /\ Len(k) = Len(a) + Len(b)
      <4>1. a \in Seq(R) /\ b \in Seq(R)
        BY ONLY <2>1, <2>2
      <4> QED BY ONLY <4>1, <2>3
    <3>2. (p - 1) + (n - p) = n - 1
      BY <1>1
    <3> QED BY <2>1, <2>2, <3>1, <3>2
  <2>5. ASSUME NEW i \in 1 .. n - 1 PROVE k[i] = l[f(i)]
    <3>1. CASE i < p
      BY <1>1, <2>1, <2>2, <2>3, <3>1
    <3>2. CASE ~(i < p)
      <4>1. i - (p - 1) \in 1 .. n - p /\ (i - (p - 1)) + p = i + 1
        BY <1>1, <3>2
      <4>2. k[i] = b[i - (p - 1)]
        BY <1>1, <2>1, <2>2, <2>3, <3>2
      <4>3. b[i - (p - 1)] = l[i + 1]
        BY <2>2, <4>1 DEF Shifted
      <4> QED BY <3>2, <4>2, <4>3
    <3> QED BY <3>1, <3>2
  <2> QED BY <2>4, <2>5
<1> HIDE DEF k
<1>3. \A i \in 1 .. n - 1 : f(i) \in 1 .. n /\ f(i) # p
  BY <1>1
<1>4. \A i, j \in 1 .. n - 1 : (i < j <=> f(i) < f(j)) /\ (f(i) = f(j) => i = j)
  BY <1>1
<1>5. \A i \in 1 .. n : i # p => \E j \in 1 .. n - 1 : f(j) = i
  <2> TAKE i \in 1 .. n
  <2> HAVE i # p
  <2>1. CASE i < p
    <3>1. i \in 1 .. n - 1 /\ f(i) = i
      BY <1>1, <2>1
    <3> QED BY <3>1
  <2>2. CASE ~(i < p)
    <3>1. i - 1 \in 1 .. n - 1 /\ f(i - 1) = i
      BY <1>1, <2>2
    <3> QED BY <3>1
  <2> QED BY <2>1, <2>2
<1>6. \A i \in 1 .. n : l[i] = s => i = p
  BY <1>1 DEF Lists
<1> HIDE DEF f
<1>7. k \in Seq(R \ {s})
  <2>1. \A i \in 1 .. n - 1 : k[i] \in R \ {s}
    BY <1>1, <1>2, <1>3, <1>6
  <2> QED BY <1>1, <1>2, <2>1
<1>8. ASSUME NEW a \in 1 .. Len(k), NEW b \in 1 .. Len(k), k[a] = k[b] PROVE a = b
  <2>1. a \in 1 .. n - 1 /\ b \in 1 .. n - 1
    BY <1>2
  <2>2. l[f(a)] = l[f(b)] /\ f(a) \in 1 .. n /\ f(b) \in 1 .. n
    BY <1>2, <1>3, <1>8, <2>1
  <2>3. f(a) = f(b)
    BY <2>2 DEF Lists
  <2> QED BY <1>4, <2>1, <2>3
<1>9. \A t \in R \ {s} : \E i \in 1 .. Len(k) : k[i] = t
  <2> TAKE t \in R \ {s}
  <2>1. PICK i \in 1 .. n : l[i] = t
    BY DEF Lists
  <2> QED BY <1>2, <1>5, <2>1
<1>10. ASSUME NEW t, NEW u, Before(k, t, u)
       PROVE  t # s /\ Before(l, t, u)
  <2>1. PICK b \in 1 .. Len(k) : \E a \in 1 .. b - 1 : k[a] = t /\ k[b] = u
    BY <1>10 DEF Before
  <2>2. PICK a \in 1 .. b - 1 : k[a] = t /\ k[b] = u
    BY <2>1
  <2>3. a \in 1 .. n - 1 /\ b \in 1 .. n - 1 /\ a < b
    BY <1>1, <1>2
  <2>4. f(a) \in 1 .. n /\ f(b) \in 1 .. n /\ f(a) < f(b) /\ f(a) # p
    BY <1>3, <1>4, <2>3
  <2>5. l[f(a)] = t /\ l[f(b)] = u
    BY <1>2, <2>2, <2>3
  <2>6. f(a) \in 1 .. f(b) - 1
    BY <2>4
  <2> QED BY <1>6, <2>4, <2>5, <2>6 DEF Before
<1>11. p = 1 => k = Tail(l)
  <2> SUFFICES ASSUME p = 1 PROVE k = Tail(l)
    OBVIOUS
  <2>1. Len(Tail(l)) = n - 1 /\ Tail(l) \in Seq(R) /\ \A i \in 1 .. n - 1 : Tail(l)[i] = l[i + 1]
    BY <1>1
  <2>2. \A i \in 1 .. n - 1 : k[i] = l[i + 1]
    BY <1>2 DEF f
  <2> QED BY <1>1, <1>2, <2>1, <2>2
<1> QED
  BY <1>7, <1>8, <1>9, <1>10, <1>11 DEF Lists, LastOf, k

LineOK == Lists(line, Running)

(* Only the job s changes, and it is last in the line if it is in it.       *)
Steps(s) ==
  /\ job' \in JobsIn(Int, Contexts)
  /\ \A t \in Jobs \ {s} : job'[t] = job[t]
  /\ line' \in Seq(Jobs) /\ Lists(line', Running') /\ LastOf(line', line, s)

LEMMA JobTyped ==
  ASSUME Typed, NEW s \in Jobs
  PROVE  /\ job[s] \in [at : Stages, owned : BOOLEAN, from : Int, taken : Contexts]
         /\ job[s].at \in Stages /\ job[s].owned \in BOOLEAN
         /\ job[s].from \in Int /\ job[s].taken \in Contexts
         /\ job[s] = [at |-> job[s].at, owned |-> job[s].owned,
                      from |-> job[s].from, taken |-> job[s].taken]
  BY DEF Typed, JobsIn

LEMMA ListsTyped ==
  ASSUME NEW l, NEW R \in SUBSET Jobs, Lists(l, R)
  PROVE  l \in Seq(Jobs)
  BY DEF Lists

LEMMA EmptyTyped == EmptyContext \in Contexts /\ Idle \in [at : Stages, owned : BOOLEAN, from : Int, taken : Contexts]
<1>1. NoArtifacts \in States
  BY DEF NoArtifacts, States
<1>2. EmptyLog \in Logs
  BY <1>1 DEF EmptyLog, Logs
<1>3. EmptyContext \in Contexts
  BY <1>1, <1>2 DEF EmptyContext, Contexts
<1> QED
  BY <1>3 DEF Idle, Stages

(* A job gets a new record.                                                 *)
LEMMA JobAssigned ==
  ASSUME Typed, NEW s \in Jobs,
         NEW r \in [at : Stages, owned : BOOLEAN, from : Int, taken : Contexts],
         job' = [job EXCEPT ![s] = r]
  PROVE  /\ job' \in JobsIn(Int, Contexts) /\ job'[s] = r
         /\ \A t \in Jobs \ {s} : job'[t] = job[t]
         /\ Running' = IF r.at = "idle" THEN Running \ {s} ELSE Running \cup {s}
  BY DEF Typed, JobsIn, Running

(* It leaves its place in the line, for good or for the end of it.          *)
LEMMA LineLeft ==
  ASSUME LineOK, NEW s \in Running, NEW p \in DOMAIN line, line[p] = s
  PROVE  /\ Lists(RemoveAt(line, p), Running \ {s}) /\ LastOf(RemoveAt(line, p), line, s)
         /\ p = 1 => RemoveAt(line, p) = Tail(line)
<1>1. p \in 1 .. Len(line)
  BY DEF LineOK, Lists
<1> QED
  BY <1>1, DropOut DEF LineOK

LEMMA LineRotated ==
  ASSUME LineOK, NEW s \in Running, Served(s)
  PROVE  /\ Lists(Append(Tail(line), s), Running) /\ LastOf(Append(Tail(line), s), line, s)
         /\ Lists(Tail(line), Running \ {s}) /\ LastOf(Tail(line), line, s)
<1>1. 1 \in DOMAIN line /\ line[1] = s
  BY DEF Served, LineOK, Lists
<1>2. Lists(Tail(line), Running \ {s}) /\ LastOf(Tail(line), line, s)
  BY <1>1, LineLeft
<1> DEFINE l == Tail(line)
<1> HIDE DEF l
<1>3. Lists(Append(l, s), (Running \ {s}) \cup {s}) /\ LastOf(Append(l, s), l, s)
  <2>1. s \notin Running \ {s} /\ Lists(l, Running \ {s})
    BY <1>2 DEF l
  <2> QED BY <2>1, QueueUp
<1>4. (Running \ {s}) \cup {s} = Running
  OBVIOUS
<1>5. LastOf(Append(l, s), line, s)
  BY <1>2, <1>3 DEF LastOf, l
<1> QED
  BY <1>2, <1>3, <1>4, <1>5 DEF l

LEMMA ProceedSteps ==
  ASSUME Typed, LineOK, NEW s \in Running, Served(s),
         NEW stage \in Stages \ {"idle"}, Proceed(s, stage)
  PROVE  Steps(s) /\ job'[s] = [job[s] EXCEPT !.at = stage] /\ Running' = Running
<1> DEFINE r == [job[s] EXCEPT !.at = stage]
<1>1. s \in Jobs /\ Running \in SUBSET Jobs
  BY DEF Running
<1>2. r \in [at : Stages, owned : BOOLEAN, from : Int, taken : Contexts] /\ r.at = stage
  BY <1>1, JobTyped
<1>3. job' = [job EXCEPT ![s] = r]
  BY DEF Proceed
<1> HIDE DEF r
<1>4. /\ job' \in JobsIn(Int, Contexts) /\ job'[s] = r
      /\ \A t \in Jobs \ {s} : job'[t] = job[t]
      /\ Running' = Running \cup {s}
  BY <1>1, <1>2, <1>3, JobAssigned
<1>5. Lists(line', Running) /\ LastOf(line', line, s)
  BY LineRotated DEF Proceed
<1>6. Running' = Running /\ line' \in Seq(Jobs)
  BY <1>1, <1>4, <1>5, ListsTyped
<1> QED
  BY <1>4, <1>5, <1>6 DEF Steps, r

LEMMA ProceedWithSteps ==
  ASSUME Typed, LineOK, NEW s \in Running, Served(s),
         NEW stage \in Stages \ {"idle"}, ProceedWith(s, stage)
  PROVE  /\ Steps(s) /\ job'[s] = [job[s] EXCEPT !.at = stage, !.taken = ctx]
         /\ Running' = Running
<1> DEFINE r == [job[s] EXCEPT !.at = stage, !.taken = ctx]
<1>1. s \in Jobs /\ Running \in SUBSET Jobs
  BY DEF Running
<1>2. r \in [at : Stages, owned : BOOLEAN, from : Int, taken : Contexts] /\ r.at = stage
  BY <1>1, JobTyped DEF Typed
<1>3. job' = [job EXCEPT ![s] = r]
  BY DEF ProceedWith
<1> HIDE DEF r
<1>4. /\ job' \in JobsIn(Int, Contexts) /\ job'[s] = r
      /\ \A t \in Jobs \ {s} : job'[t] = job[t]
      /\ Running' = Running \cup {s}
  BY <1>1, <1>2, <1>3, JobAssigned
<1>5. Lists(line', Running) /\ LastOf(line', line, s)
  BY LineRotated DEF ProceedWith
<1>6. Running' = Running /\ line' \in Seq(Jobs)
  BY <1>1, <1>4, <1>5, ListsTyped
<1> QED
  BY <1>4, <1>5, <1>6 DEF Steps, r

LEMMA FinishSteps ==
  ASSUME Typed, LineOK, NEW s \in Running, Finish(s), Served(s)
  PROVE  Steps(s) /\ job'[s] = Idle /\ Running' = Running \ {s}
<1>1. s \in Jobs /\ Running \in SUBSET Jobs
  BY DEF Running
<1>2. /\ job' \in JobsIn(Int, Contexts) /\ job'[s] = Idle
      /\ \A t \in Jobs \ {s} : job'[t] = job[t]
      /\ Running' = Running \ {s}
  <2>1. Idle.at = "idle"
    BY DEF Idle
  <2> QED BY <1>1, <2>1, EmptyTyped, JobAssigned DEF Finish
<1>3. Lists(line', Running \ {s}) /\ LastOf(line', line, s)
  BY LineRotated DEF Finish
<1>4. line' \in Seq(Jobs)
  <2>1. Running \ {s} \in SUBSET Jobs
    BY <1>1
  <2> QED BY <1>3, <2>1, ListsTyped
<1> QED
  BY <1>2, <1>3, <1>4 DEF Steps

LEMMA LeaveSteps ==
  ASSUME Typed, LineOK, NEW s \in Running, Leave(s)
  PROVE  Steps(s) /\ job'[s] = Idle /\ Running' = Running \ {s}
<1>1. s \in Jobs /\ Running \in SUBSET Jobs
  BY DEF Running
<1>2. /\ job' \in JobsIn(Int, Contexts) /\ job'[s] = Idle
      /\ \A t \in Jobs \ {s} : job'[t] = job[t]
      /\ Running' = Running \ {s}
  <2>1. Idle.at = "idle"
    BY DEF Idle
  <2> QED BY <1>1, <2>1, EmptyTyped, JobAssigned DEF Leave
<1>3. Lists(line', Running \ {s}) /\ LastOf(line', line, s)
  BY LineLeft DEF Leave
<1>4. line' \in Seq(Jobs)
  <2>1. Running \ {s} \in SUBSET Jobs
    BY <1>1
  <2> QED BY <1>3, <2>1, ListsTyped
<1> QED
  BY <1>2, <1>3, <1>4 DEF Steps

(* A job that starts gets in line.                                          *)
LEMMA StartSteps ==
  ASSUME Typed, LineOK, NEW s \in Jobs, job[s].at = "idle",
         NEW r \in [at : Stages, owned : BOOLEAN, from : Int, taken : Contexts],
         r.at # "idle", job' = [job EXCEPT ![s] = r], line' = Append(line, s)
  PROVE  Steps(s) /\ job'[s] = r /\ Running' = Running \cup {s}
<1>1. /\ job' \in JobsIn(Int, Contexts) /\ job'[s] = r
      /\ \A t \in Jobs \ {s} : job'[t] = job[t]
      /\ Running' = Running \cup {s}
  BY JobAssigned
<1>2. Running \in SUBSET Jobs /\ s \notin Running
  BY DEF Running
<1>3. Lists(line', Running \cup {s}) /\ LastOf(line', line, s)
  BY <1>2, QueueUp DEF LineOK
<1>4. line' \in Seq(Jobs)
  <2>1. Running \cup {s} \in SUBSET Jobs
    BY <1>2
  <2> QED BY <1>3, <2>1, ListsTyped
<1> QED
  BY <1>1, <1>3, <1>4 DEF Steps

-----------------------------------------------------------------------------
(* The invariant of a session *)

Calm == hurt \subseteq {"repeated"}

Early == {"get", "count", "append"}

JobOK(s) ==
  /\ job[s].at \in Early =>
       /\ ~RewriteDue
       /\ job[s].from \in ctx.log.floor .. Version(ctx.log)
       /\ Grounded(ctx.log, job[s].from)
  /\ job[s].at \in {"set", "append"} =>
       /\ job[s].taken.log = ctx.log
       /\ Live(job[s].taken)
       /\ Loose(job[s].taken) \subseteq Loose(ctx)
  /\ job[s].at \in {"drop", "dropEntries"} => job[s].owned

JobsOK == \A s \in Jobs : JobOK(s)

Order ==
  \A s, t \in Jobs :
    Before(line, s, t) /\ job[s].at = "set" /\ job[t].at = "append"
      => Loose(job[s].taken) \subseteq Loose(job[t].taken)

(* Changed outside the commits, for the Context and for all who took it.    *)
LooseToAll(S) ==
  /\ S \subseteq Loose(ctx)
  /\ \A t \in Jobs : job[t].at = "append" => S \subseteq Loose(job[t].taken)

Rewritten ==
  (\E s \in Jobs : job[s].at \in {"clear", "dropEntries"}) /\ snap # <<>> =>
    snap[1].log = ctx.log /\ LooseToAll(Loose(snap[1]))

MarkOK ==
  /\ ~RewriteDue => Grounded(ctx.log, marker.version)
  /\ marker.version < 0 \/ marker.floor <= marker.version
  /\ marker.version > Version(ctx.log) => rolled

(* What a reload would put together, but for the working tree.              *)
Store == Stored(snap[1], IF gap THEN <<>> ELSE entries)

(* The store has seen the commits up to w, and nothing it lacks is marked.  *)
Reached(w) ==
  /\ w \in ctx.log.floor .. Version(ctx.log)
  /\ marker.version <= w
  /\ \A s \in Jobs : job[s].at \in Early => job[s].from <= w
  /\ w <= Version(Store.log)
  /\ hurt = {} => w = Version(Store.log)
  /\ Committed(Store.log) = ReplayState(ctx.log, w)
  /\ LooseToAll(Loose(Store) \ Touched(ctx.log, w))

StoreOK ==
  snap # <<>> =>
    /\ Live(snap[1]) /\ Live(Store)
    /\ Loose(Store) \subseteq Loose(snap[1])
    /\ marker.version <= Version(ctx.log) => marker.version <= Version(Store.log)
    /\ ~RewriteDue => \E w \in Nat : Reached(w)

SavedOK ==
  ~gap =>
    /\ snap = <<>> <=> saved = <<>>
    /\ snap # <<>> =>
         /\ Data(Loaded) = Data(saved[1])
         /\ hurt = {} => History(Loaded) = History(saved[1])
         /\ entries # <<>> =>
              \A i \in Items : Last(entries).tree[i] # Absent
                                 => Last(entries).tree[i] # Committed(Store.log)[i]

Held == Live(ctx) /\ JobsOK /\ Order /\ MarkOK /\ Rewritten /\ StoreOK /\ SavedOK

LEMMA OrderKept ==
  ASSUME Order, NEW s \in Jobs, Steps(s),
         job'[s].at = "append" =>
           \A t \in Jobs : job[t].at = "set" => Loose(job[t].taken) \subseteq Loose(job'[s].taken)
  PROVE  Order'
<1> SUFFICES ASSUME NEW t \in Jobs, NEW u \in Jobs, Before(line', t, u),
                    job'[t].at = "set", job'[u].at = "append"
             PROVE  Loose(job'[t].taken) \subseteq Loose(job'[u].taken)
  BY DEF Order
<1>1. t # s /\ (u = s \/ Before(line, t, u)) /\ job'[t] = job[t]
  BY DEF Steps, LastOf
<1>2. CASE u = s
  BY <1>1, <1>2
<1>3. CASE u # s
  <2>1. job'[u] = job[u] /\ Before(line, t, u)
    BY <1>1, <1>3 DEF Steps
  <2> QED BY <1>1, <2>1 DEF Order
<1> QED
  BY <1>2, <1>3

LEMMA MarkedNotDue ==
  ASSUME Typed, marker' = MarkOf(ctx), ctx' = ctx
  PROVE  /\ ~RewriteDue' /\ marker'.version = Version(ctx.log) /\ marker'.floor = ctx.log.floor
         /\ Version(ctx.log) \in Nat
<1>1. Version(ctx.log) \in Nat /\ ctx.log.floor \in Nat
  BY ContextTyped DEF Typed
<1>2. marker'.version = Version(ctx.log) /\ marker'.floor = ctx.log.floor
  BY DEF MarkOf
<1> QED
  BY <1>1, <1>2 DEF RewriteDue

(* While the Context stands still and the marker stands still or is set to  *)
(* it, what holds of a job that stands still is kept.                       *)
LEMMA JobsKept ==
  ASSUME Typed, JobsOK, ctx' = ctx, marker' \in {marker, MarkOf(ctx)},
         NEW s \in Jobs, \A t \in Jobs \ {s} : job'[t] = job[t], JobOK(s)'
  PROVE  JobsOK'
<1>1. ASSUME NEW t \in Jobs \ {s} PROVE JobOK(t)'
  <2>1. JobOK(t) /\ job'[t] = job[t]
    BY DEF JobsOK
  <2>2. RewriteDue' => RewriteDue
    BY MarkedNotDue DEF RewriteDue
  <2> QED BY <2>1, <2>2 DEF JobOK
<1> QED
  BY <1>1 DEF JobsOK

LEMMA MarkKept ==
  ASSUME Typed, MarkOK, ctx' = ctx,
         (marker' = marker /\ rolled' = rolled) \/ marker' = MarkOf(ctx)
  PROVE  MarkOK'
<1>1. CASE marker' = marker /\ rolled' = rolled
  BY <1>1 DEF MarkOK, RewriteDue
<1>2. CASE marker' = MarkOf(ctx)
  <2>1. /\ marker'.version = Version(ctx.log) /\ marker'.floor = ctx.log.floor
        /\ Version(ctx.log) \in Nat /\ ctx.log.floor \in Nat /\ ctx.log.floor <= Version(ctx.log)
    BY <1>2, MarkedNotDue, ContextTyped DEF Typed
  <2>2. Grounded(ctx.log, Version(ctx.log))
    <3>1. Version(ctx.log) + 1 .. Version(ctx.log) = {}
      BY <2>1
    <3> QED BY <3>1 DEF Grounded
  <2> QED BY <2>1, <2>2 DEF MarkOK
<1> QED
  BY <1>1, <1>2

(* A job moves without touching the store.                                  *)
Moved(s) ==
  /\ \A t \in Jobs \ {s} : job'[t] = job[t]
  /\ job'[s].at \in Early =>
       job'[s].from = marker.version \/ (job[s].at \in Early /\ job'[s].from = job[s].from)
  /\ job'[s].at = "append" =>
       job'[s].taken = ctx \/ (job[s].at = "append" /\ job'[s].taken = job[s].taken)
  /\ job'[s].at \in {"clear", "dropEntries"} => job[s].at = job'[s].at

LEMMA MovedKeeps ==
  ASSUME Typed, Held, NEW s \in Jobs, Moved(s), JobOK(s)', Order',
         UNCHANGED <<ctx, marker, storeVars, rolled>>, hurt \subseteq hurt'
  PROVE  Held'
<1>1. /\ ctx' = ctx /\ marker' = marker /\ rolled' = rolled
      /\ snap' = snap /\ entries' = entries /\ saved' = saved /\ gap' = gap
  BY DEF storeVars
<1>2. JobsOK'
  BY <1>1, JobsKept DEF Held, Moved
<1>3. MarkOK'
  BY <1>1, MarkKept DEF Held
<1>4. ASSUME NEW S, LooseToAll(S) PROVE LooseToAll(S)'
  <2> SUFFICES ASSUME NEW t \in Jobs, job'[t].at = "append"
               PROVE  S \subseteq Loose(job'[t].taken)
    BY <1>1, <1>4 DEF LooseToAll
  <2>1. CASE t = s
    BY <1>4, <2>1 DEF LooseToAll, Moved
  <2>2. CASE t # s
    BY <1>4, <2>2 DEF LooseToAll, Moved
  <2> QED BY <2>1, <2>2
<1>5. Rewritten'
  <2>1. (\E t \in Jobs : job'[t].at \in {"clear", "dropEntries"})
          => \E t \in Jobs : job[t].at \in {"clear", "dropEntries"}
    BY DEF Moved
  <2>2. Rewritten
    BY DEF Held
  <2>3. LooseToAll(Loose(snap[1])) => LooseToAll(Loose(snap[1]))'
    BY <1>1, <1>4
  <2> QED BY <1>1, <2>1, <2>2, <2>3 DEF Rewritten
<1>6. Store' = Store
  BY <1>1 DEF Store
<1>7. StoreOK'
  <2>1. ASSUME NEW w \in Nat, Reached(w) PROVE Reached(w)'
    <3>1. \A t \in Jobs : job'[t].at \in Early => job'[t].from <= w
      <4> TAKE t \in Jobs
      <4>1. CASE t = s
        BY <2>1, <4>1 DEF Moved, Reached
      <4>2. CASE t # s
        BY <2>1, <4>2 DEF Moved, Reached
      <4> QED BY <4>1, <4>2
    <3>2. LooseToAll(Loose(Store) \ Touched(ctx.log, w))'
      <4>1. LooseToAll(Loose(Store) \ Touched(ctx.log, w))
        BY <2>1 DEF Reached
      <4> QED BY <1>1, <1>4, <1>6, <4>1
    <3>3. hurt' = {} => hurt = {}
      OBVIOUS
    <3> HIDE DEF Moved
    <3> QED BY <1>1, <1>6, <2>1, <3>1, <3>2, <3>3 DEF Reached
  <2>2. StoreOK /\ RewriteDue' = RewriteDue
    BY <1>1 DEF Held, RewriteDue
  <2> QED BY <1>1, <1>6, <2>1, <2>2 DEF StoreOK
<1>8. SavedOK'
  <2>1. SavedOK /\ (hurt' = {} => hurt = {})
    BY DEF Held
  <2>2. Loaded' = Loaded
    BY <1>1 DEF Loaded
  <2> QED BY <1>1, <1>6, <2>1, <2>2 DEF SavedOK
<1>9. Live(ctx)'
  BY <1>1 DEF Held
<1> QED
  BY <1>2, <1>3, <1>5, <1>7, <1>8, <1>9 DEF Held

-----------------------------------------------------------------------------
(* Saves and deletions on their way to the store *)

Whole == Typed /\ LineOK /\ (Calm => Held)

LEMMA StepsTyped ==
  ASSUME Typed, NEW s \in Jobs, Steps(s), ctx' = ctx,
         marker' \in {marker, MarkOf(ctx)}, rolled' \in {rolled, FALSE},
         snap' \in Snapshots, saved' \in Snapshots, entries' \in Seq(Entries),
         gap' \in BOOLEAN, hurt' \in SUBSET Hurts
  PROVE  Typed' /\ LineOK'
<1>1. MarkOf(ctx) \in [version : Int, floor : Nat]
  BY ContextTyped DEF MarkOf, Typed
<1>2. Typed'
  BY <1>1 DEF Typed, Steps
<1> QED
  BY <1>2 DEF Steps, LineOK

LEMMA ServedRuns ==
  ASSUME NEW s \in Jobs, job[s].at # "idle"
  PROVE  s \in Running
  BY DEF Running

LEMMA StagesAre ==
  /\ {"get", "count", "set", "clear", "append", "drop", "dropEntries"} \subseteq Stages \ {"idle"}
  /\ "idle" \in Stages
  BY DEF Stages

(* The Context as it is can be captured.                                    *)
LEMMA CaptureOK ==
  ASSUME NEW s \in Jobs, Held, ctx' = ctx, marker' = marker, job'[s].taken = ctx,
         \/ job'[s].at = "set"
         \/ job'[s].at = "append" /\ job[s].at \in Early /\ job'[s].from = job[s].from
  PROVE  JobOK(s)'
<1>1. JobOK(s) /\ Live(ctx) /\ RewriteDue' = RewriteDue
  BY DEF Held, JobsOK, RewriteDue
<1> QED
  BY <1>1 DEF JobOK, Early

LEMMA CaptureInOrder ==
  ASSUME NEW s \in Jobs, Held, job'[s].taken = ctx
  PROVE  \A t \in Jobs : job[t].at = "set" => Loose(job[t].taken) \subseteq Loose(job'[s].taken)
  BY DEF Held, JobsOK, JobOK

LEMMA LandGetKeeps ==
  ASSUME Whole, NEW s \in Jobs, LandGet(s)
  PROVE  Whole'
<1>1. /\ Served(s) /\ job[s].at = "get"
      /\ UNCHANGED <<ctx, marker, storeVars, rolled, hurt>>
  BY DEF LandGet
<1>2. s \in Running /\ Typed /\ LineOK
  BY <1>1, ServedRuns DEF Whole
<1>3. /\ Steps(s) /\ job'[s].from = job[s].from
      /\ \/ job'[s].at = "set" /\ job'[s].taken = ctx
         \/ job'[s].at = "count"
  <2>1. CASE NothingStored
    <3>1. ProceedWith(s, "set")
      BY <2>1 DEF LandGet
    <3>2. Steps(s) /\ job'[s] = [job[s] EXCEPT !.at = "set", !.taken = ctx]
      BY <1>1, <1>2, <3>1, StagesAre, ProceedWithSteps
    <3> QED BY <1>2, <3>2, JobTyped
  <2>2. CASE ~NothingStored
    <3>1. Proceed(s, "count")
      BY <2>2 DEF LandGet
    <3>2. Steps(s) /\ job'[s] = [job[s] EXCEPT !.at = "count"]
      BY <1>1, <1>2, <3>1, StagesAre, ProceedSteps
    <3> QED BY <1>2, <3>2, JobTyped
  <2> QED BY <2>1, <2>2
<1>4. Typed' /\ LineOK'
  BY <1>1, <1>2, <1>3, StepsTyped DEF storeVars, Typed
<1>5. ASSUME Calm' PROVE Held'
  <2>1. Held
    BY <1>1, <1>5 DEF Whole, Calm
  <2>2. JobOK(s)'
    <3>1. CASE job'[s].at = "set" /\ job'[s].taken = ctx
      BY <1>1, <2>1, <3>1, CaptureOK
    <3>2. CASE job'[s].at = "count"
      BY <1>1, <1>3, <2>1, <3>2 DEF JobOK, Early, RewriteDue, Held, JobsOK
    <3> QED BY <1>3, <3>1, <3>2
  <2>3. Order'
    BY <1>3, <2>1, OrderKept DEF Held
  <2>4. Moved(s)
    BY <1>1, <1>3 DEF Moved, Early, Steps
  <2> QED BY <1>1, <1>2, <2>1, <2>2, <2>3, <2>4, MovedKeeps
<1> QED
  BY <1>4, <1>5 DEF Whole

LEMMA LandCountKeeps ==
  ASSUME Whole, NEW s \in Jobs, LandCount(s)
  PROVE  Whole'
<1>1. /\ Served(s) /\ job[s].at = "count"
      /\ UNCHANGED <<ctx, marker, storeVars, rolled, hurt>>
  BY DEF LandCount
<1>2. s \in Running /\ Typed /\ LineOK
  BY <1>1, ServedRuns DEF Whole
<1>3. /\ Steps(s) /\ job'[s].from = job[s].from
      /\ job'[s].at \in {"set", "append"} /\ job'[s].taken = ctx
  <2>1. PICK stage \in {"set", "append"} : ProceedWith(s, stage)
    BY DEF LandCount
  <2>2. Steps(s) /\ job'[s] = [job[s] EXCEPT !.at = stage, !.taken = ctx]
    <3>1. stage \in Stages \ {"idle"}
      BY StagesAre
    <3>2. Typed /\ LineOK /\ s \in Running /\ Served(s) /\ ProceedWith(s, stage)
      BY ONLY <1>1, <1>2, <2>1
    <3> QED BY ONLY <3>1, <3>2, ProceedWithSteps, Zenon
  <2> QED BY <1>2, <2>2, JobTyped
<1>4. Typed' /\ LineOK'
  BY <1>1, <1>2, <1>3, StepsTyped DEF storeVars, Typed
<1>5. ASSUME Calm' PROVE Held'
  <2>1. Held
    BY <1>1, <1>5 DEF Whole, Calm
  <2>2. JobOK(s)'
    BY <1>1, <1>3, <2>1, CaptureOK DEF Early
  <2>3. Order'
    BY <1>3, <2>1, OrderKept, CaptureInOrder DEF Held
  <2>4. Moved(s)
    BY <1>1, <1>3 DEF Moved, Early, Steps
  <2> QED BY <1>1, <1>2, <2>1, <2>2, <2>3, <2>4, MovedKeeps
<1> QED
  BY <1>4, <1>5 DEF Whole

LEMMA StartSaveKeeps ==
  ASSUME Whole, NEW s \in Jobs, StartSave(s)
  PROVE  Whole'
<1> DEFINE stage == IF RewriteDue THEN "set" ELSE "get"
           taken == IF RewriteDue THEN ctx ELSE EmptyContext
           r == [at |-> stage, owned |-> TRUE, from |-> marker.version, taken |-> taken]
<1>1. /\ job[s].at = "idle" /\ job' = [job EXCEPT ![s] = r] /\ line' = Append(line, s)
      /\ UNCHANGED <<ctx, marker, storeVars, rolled, hurt>>
  BY DEF StartSave
<1>2. Typed /\ LineOK
  BY DEF Whole
<1>3. /\ stage \in {"set", "get"} /\ (stage = "set" <=> RewriteDue) /\ taken \in Contexts
      /\ RewriteDue => taken = ctx
  BY <1>2, EmptyTyped DEF Typed
<1> HIDE DEF stage, taken
<1>4. r \in [at : Stages, owned : BOOLEAN, from : Int, taken : Contexts] /\ r.at # "idle"
  BY <1>2, <1>3, StagesAre DEF Typed
<1>5. Steps(s) /\ job'[s] = r
  BY <1>1, <1>2, <1>4, StartSteps
<1>6. Typed' /\ LineOK'
  BY <1>1, <1>2, <1>5, StepsTyped DEF storeVars, Typed
<1>7. ASSUME Calm' PROVE Held'
  <2>1. Held
    BY <1>1, <1>7 DEF Whole, Calm
  <2>2. JobOK(s)'
    <3>1. CASE RewriteDue
      BY <1>1, <1>3, <1>5, <2>1, <3>1, CaptureOK
    <3>2. CASE ~RewriteDue
      <4>1. marker.version \in ctx.log.floor .. Version(ctx.log)
        <5>1. Version(ctx.log) \in Nat /\ ctx.log.floor \in Nat
              /\ marker.version \in Int /\ marker.floor \in Nat
          BY <1>2, ContextTyped DEF Typed
        <5>2. ~(marker.version < 0) /\ marker.version <= Version(ctx.log)
              /\ ctx.log.floor <= marker.floor
          BY <3>2, <5>1 DEF RewriteDue
        <5>3. marker.floor <= marker.version
          BY <2>1, <5>2 DEF Held, MarkOK
        <5> QED BY <5>1, <5>2, <5>3
      <4>2. Grounded(ctx.log, marker.version)
        BY <2>1, <3>2 DEF Held, MarkOK
      <4>3. job'[s].at = "get" /\ job'[s].from = marker.version
        BY <1>3, <1>5, <3>2
      <4> QED BY <1>1, <3>2, <4>1, <4>2, <4>3 DEF JobOK, RewriteDue
    <3> QED BY <3>1, <3>2
  <2>3. Order'
    BY <1>3, <1>5, <2>1, OrderKept DEF Held
  <2>4. Moved(s)
    <3>1. job'[s].at \in {"set", "get"} /\ job'[s].from = marker.version
      BY <1>3, <1>5
    <3>2. \A t \in Jobs \ {s} : job'[t] = job[t]
      BY <1>5 DEF Steps
    <3> QED BY <3>1, <3>2 DEF Moved, Early
  <2> QED BY <1>1, <1>2, <2>1, <2>2, <2>3, <2>4, MovedKeeps
<1> QED
  BY <1>6, <1>7 DEF Whole

LEMMA StartDeleteKeeps ==
  ASSUME Whole, NEW s \in Jobs, StartDelete(s)
  PROVE  Whole'
<1> DEFINE r == [Idle EXCEPT !.at = "drop", !.owned = TRUE]
<1>1. /\ job[s].at = "idle" /\ job' = [job EXCEPT ![s] = r] /\ line' = Append(line, s)
      /\ UNCHANGED <<ctx, marker, storeVars, rolled, hurt>>
  BY DEF StartDelete
<1>2. Typed /\ LineOK
  BY DEF Whole
<1>3. /\ r \in [at : Stages, owned : BOOLEAN, from : Int, taken : Contexts]
      /\ r.at = "drop" /\ r.owned = TRUE
  BY EmptyTyped, StagesAre DEF Idle
<1> HIDE DEF r
<1>4. Steps(s) /\ job'[s] = r
  BY <1>1, <1>2, <1>3, StartSteps
<1>5. Typed' /\ LineOK'
  BY <1>1, <1>2, <1>4, StepsTyped DEF storeVars, Typed
<1>6. ASSUME Calm' PROVE Held'
  <2>1. Held
    BY <1>1, <1>6 DEF Whole, Calm
  <2>2. JobOK(s)'
    BY <1>3, <1>4 DEF JobOK, Early
  <2>3. Order'
    BY <1>3, <1>4, <2>1, OrderKept DEF Held
  <2>4. Moved(s)
    <3>1. job'[s].at = "drop"
      BY <1>3, <1>4
    <3>2. \A t \in Jobs \ {s} : job'[t] = job[t]
      BY <1>4 DEF Steps
    <3> QED BY <3>1, <3>2 DEF Moved, Early
  <2> QED BY <1>1, <1>2, <2>1, <2>2, <2>3, <2>4, MovedKeeps
<1> QED
  BY <1>5, <1>6 DEF Whole

(* An abandoned save goes on as it was.                                     *)
LEMMA AbandonKeeps ==
  ASSUME Whole, NEW s \in Jobs, Abandon(s)
  PROVE  Whole'
<1> DEFINE r == [job[s] EXCEPT !.owned = FALSE]
<1>1. /\ job[s].at \in {"get", "count", "set", "clear", "append"}
      /\ job' = [job EXCEPT ![s] = r]
      /\ UNCHANGED <<ctx, marker, storeVars, line, rolled, hurt>>
  BY DEF Abandon
<1>2. Typed /\ LineOK
  BY DEF Whole
<1>3. /\ r \in [at : Stages, owned : BOOLEAN, from : Int, taken : Contexts]
      /\ r.at = job[s].at /\ r.from = job[s].from /\ r.taken = job[s].taken
  BY <1>2, JobTyped
<1> HIDE DEF r
<1>4. /\ job' \in JobsIn(Int, Contexts) /\ job'[s] = r
      /\ \A t \in Jobs \ {s} : job'[t] = job[t]
      /\ Running' = Running \cup {s}
  BY <1>1, <1>2, <1>3, JobAssigned
<1>5. Typed' /\ LineOK'
  <2>1. Running' = Running
    BY <1>1, <1>4 DEF Running
  <2> QED BY <1>1, <1>2, <1>4, <2>1 DEF Typed, LineOK, storeVars
<1>6. ASSUME Calm' PROVE Held'
  <2>1. Held
    BY <1>1, <1>6 DEF Whole, Calm
  <2>2. JobOK(s)'
    <3>1. JobOK(s) /\ RewriteDue' = RewriteDue
      BY <1>1, <2>1 DEF Held, JobsOK, RewriteDue
    <3> QED BY <1>1, <1>3, <1>4, <3>1 DEF JobOK
  <2>3. Order'
    <3>1. \A t \in Jobs : job'[t].at = job[t].at /\ job'[t].taken = job[t].taken
      BY <1>3, <1>4
    <3> QED BY <1>1, <2>1, <3>1 DEF Held, Order
  <2>4. Moved(s)
    BY <1>1, <1>3, <1>4 DEF Moved
  <2> QED BY <1>1, <1>2, <2>1, <2>2, <2>3, <2>4, MovedKeeps
<1> QED
  BY <1>5, <1>6 DEF Whole

LEMMA StopKeeps ==
  ASSUME Whole, NEW s \in Jobs, Stop(s)
  PROVE  Whole'
<1>1. /\ job[s].owned /\ Leave(s)
      /\ UNCHANGED <<ctx, marker, storeVars, rolled>>
      /\ hurt' = hurt \cup When(job[s].at = "dropEntries" /\ entries # <<>>, "orphaned")
  BY DEF Stop, Suffer
<1>2. Typed /\ LineOK
  BY DEF Whole
<1>3. s \in Running
  <2>1. PICK n \in DOMAIN line : line[n] = s
    BY <1>1 DEF Leave
  <2>2. line \in Seq(Running)
    BY <1>2 DEF LineOK, Lists
  <2> QED BY <2>1, <2>2
<1>4. Steps(s) /\ job'[s].at = "idle"
  BY <1>1, <1>2, <1>3, LeaveSteps DEF Idle
<1>5. Typed' /\ LineOK'
  <2>1. hurt' \in SUBSET Hurts
    BY <1>1, <1>2 DEF Typed, When, Hurts
  <2> QED BY <1>1, <1>2, <1>4, <2>1, StepsTyped DEF storeVars, Typed
<1>6. ASSUME Calm' PROVE Held'
  <2>1. Held
    BY <1>1, <1>6 DEF Whole, Calm
  <2>2. JobOK(s)'
    BY <1>4 DEF JobOK, Early
  <2>3. Order'
    BY <1>4, <2>1, OrderKept DEF Held
  <2>4. Moved(s)
    BY <1>4 DEF Moved, Early, Steps
  <2> QED BY <1>1, <1>2, <2>1, <2>2, <2>3, <2>4, MovedKeeps
<1> QED
  BY <1>5, <1>6 DEF Whole

-----------------------------------------------------------------------------
(* A call takes effect *)

LEMMA SnapTyped ==
  ASSUME NEW q \in Snapshots
  PROVE  q # <<>> => q[1] \in Contexts /\ q = <<q[1]>>
  BY DEF Snapshots

LEMMA LooseToFewer ==
  ASSUME NEW S, LooseToAll(S), NEW T, T \subseteq S, ctx' = ctx, NEW s \in Jobs,
         \A t \in Jobs \ {s} : job'[t] = job[t], job'[s].at # "append"
  PROVE  LooseToAll(T)'
  BY DEF LooseToAll

(* A store that is what the Context was, with its commits as they are.      *)
LEMMA FreshStore ==
  ASSUME Typed, marker'.version \in Int, ctx' = ctx, JobsOK', NEW c \in Contexts,
         snap' = <<c>>, Store' = c, c.log = ctx.log, Live(c), LooseToAll(Loose(c))'
  PROVE  StoreOK'
<1> DEFINE w == Version(ctx.log)
<1>1. /\ w \in Nat /\ w \in ctx.log.floor .. w /\ Committed(c.log) = ReplayState(ctx.log, w)
      /\ Version(c.log) = w
  BY ContextTyped DEF Typed, Committed
<1>2. snap'[1] = c
  OBVIOUS
<1>3. ASSUME ~RewriteDue' PROVE Reached(w)'
  <2>1. marker'.version <= w
    <3>1. ~(marker'.version > w)
      BY <1>3 DEF RewriteDue
    <3> QED BY <1>1, <3>1
  <2>2. \A t \in Jobs : job'[t].at \in Early => job'[t].from <= w
    BY DEF JobsOK, JobOK
  <2>3. LooseToAll(Loose(c) \ Touched(ctx.log, w))'
    BY DEF LooseToAll
  <2> HIDE DEF w
  <2> QED BY <1>1, <2>1, <2>2, <2>3 DEF Reached, w
<1> QED
  BY <1>1, <1>2, <1>3 DEF StoreOK

(* The snapshot of a rewrite takes effect.                                  *)
LEMMA SetLands ==
  ASSUME Typed, LineOK, Held, NEW s \in Running, Served(s), job[s].at = "set",
         WriteSnapshot(job[s].taken), Steps(s), job'[s].at \in {"clear", "idle"},
         UNCHANGED <<ctx, marker, rolled, hurt>>
  PROVE  Held'
<1>0. PICK c : c = job[s].taken
  OBVIOUS
<1>1. /\ snap' = <<c>> /\ gap' = (entries # <<>>) /\ entries' = entries
      /\ saved' = IF entries = <<>> THEN <<c>> ELSE saved
  BY <1>0 DEF WriteSnapshot
<1>2. s \in Jobs /\ c \in Contexts
  BY <1>0, JobTyped DEF Running
<1>3. c.log = ctx.log /\ Live(c) /\ Loose(c) \subseteq Loose(ctx)
  BY <1>0, <1>2 DEF Held, JobsOK, JobOK
<1>4. LooseToAll(Loose(c))'
  <2> SUFFICES ASSUME NEW t \in Jobs, job'[t].at = "append"
               PROVE  Loose(c) \subseteq Loose(job'[t].taken)
    BY <1>3 DEF LooseToAll
  <2>1. t # s /\ job'[t] = job[t]
    BY DEF Steps
  <2>2. t \in Running
    BY <2>1 DEF Running
  <2>3. PICK n \in 1 .. Len(line) : line[n] = t
    BY <2>2 DEF LineOK, Lists
  <2>4. line[1] = s /\ Len(line) \in Nat
    BY DEF Served, LineOK, Lists
  <2>5. n # 1
    BY <2>1, <2>3, <2>4
  <2>6. 1 \in 1 .. n - 1
    BY <2>3, <2>4, <2>5
  <2>7. Before(line, s, t)
    BY <2>3, <2>4, <2>6 DEF Before
  <2> QED BY <1>0, <1>2, <2>1, <2>7 DEF Held, Order
<1>5. JobsOK'
  <2>1. JobOK(s)'
    BY DEF JobOK, Early
  <2> QED BY <1>2, <2>1, JobsKept DEF Held, Steps
<1>6. MarkOK'
  BY MarkKept DEF Held
<1>7. Order'
  BY <1>2, OrderKept DEF Held
<1>8. Rewritten'
  BY <1>1, <1>3, <1>4 DEF Rewritten
<1>9. Store' = c
  <2>1. (IF gap' THEN <<>> ELSE entries') = <<>>
    BY <1>1
  <2>2. <<>> \in Seq(Entries)
    OBVIOUS
  <2> QED BY <1>1, <1>2, <2>1, <2>2, StoredTyped DEF Store
<1>10. StoreOK'
  BY <1>1, <1>2, <1>3, <1>4, <1>5, <1>9, FreshStore DEF Typed
<1>11. SavedOK'
  <2> SUFFICES ASSUME ~gap' PROVE SavedOK'
    BY DEF SavedOK
  <2>1. entries' = <<>> /\ saved' = <<c>> /\ snap' = <<c>>
    BY <1>1
  <2>2. Loaded' = c
    <3>1. <<>> \in Seq(Entries)
      OBVIOUS
    <3> QED BY <1>2, <2>1, <3>1, StoredTyped DEF Loaded, LoadFrom, Stored
  <2> QED BY <2>1, <2>2 DEF SavedOK
<1>12. Live(ctx)'
  BY DEF Held
<1> QED
  BY <1>5, <1>6, <1>7, <1>8, <1>10, <1>11, <1>12 DEF Held

(* The entries are cleared: the snapshot is what there is.                  *)
LEMMA ClearLands ==
  ASSUME Typed, LineOK, Held, NEW s \in Jobs, job[s].at \in {"clear", "dropEntries"},
         ClearEntries, Steps(s), job'[s].at = "idle", ctx' = ctx,
         (marker' = marker /\ rolled' = rolled) \/ Mark, hurt \subseteq hurt'
  PROVE  Held'
<1>0. PICK c : c = snap[1]
  OBVIOUS
<1>1. entries' = <<>> /\ gap' = FALSE /\ saved' = snap /\ snap' = snap
  BY DEF ClearEntries
<1>2. marker' \in {marker, MarkOf(ctx)} /\ marker'.version \in Int
  BY ContextTyped DEF Mark, MarkOf, Typed
<1>3. JobsOK'
  <2>1. JobOK(s)'
    BY DEF JobOK, Early
  <2> QED BY <1>2, <2>1, JobsKept DEF Held, Steps
<1>4. MarkOK'
  BY MarkKept DEF Held, Mark
<1>5. Order'
  BY OrderKept DEF Held
<1>6. snap # <<>> => snap[1].log = ctx.log /\ LooseToAll(Loose(snap[1]))
  BY DEF Held, Rewritten
<1>7. snap # <<>> => LooseToAll(Loose(c))'
  BY <1>0, <1>6, LooseToFewer DEF Steps
<1>8. Rewritten'
  BY <1>0, <1>1, <1>6, <1>7 DEF Rewritten
<1>9. snap # <<>> => snap[1] \in Contexts /\ snap = <<snap[1]>>
  BY SnapTyped DEF Typed
<1>10. snap # <<>> => Store' = snap[1] /\ Loaded' = snap[1]
  <2>1. <<>> \in Seq(Entries)
    OBVIOUS
  <2> QED BY <1>1, <1>9, <2>1, StoredTyped DEF Store, Loaded, LoadFrom, Stored
<1>11. StoreOK'
  <2>1. CASE snap = <<>>
    BY <1>1, <2>1 DEF StoreOK
  <2>2. CASE snap # <<>>
    <3>1. c \in Contexts /\ snap' = <<c>> /\ Store' = c /\ c.log = ctx.log /\ LooseToAll(Loose(c))'
      BY <1>1, <1>6, <1>7, <1>9, <1>10, <2>2, <1>0
    <3>2. Live(c)
      BY <2>2, <1>0 DEF Held, StoreOK
    <3> QED BY <1>2, <1>3, <3>1, <3>2, FreshStore
  <2> QED BY <2>1, <2>2
<1>12. SavedOK'
  BY <1>1, <1>9, <1>10 DEF SavedOK
<1>13. Live(ctx)'
  BY DEF Held
<1> QED
  BY <1>3, <1>4, <1>5, <1>8, <1>11, <1>12, <1>13 DEF Held

(* The snapshot of a deleted session is gone.                               *)
LEMMA DropLands ==
  ASSUME Typed, LineOK, Held, NEW s \in Jobs, job[s].at = "drop", DropSnapshot,
         Steps(s), job'[s].at = "idle" \/ (job'[s].at = "dropEntries" /\ job'[s].owned = job[s].owned),
         UNCHANGED <<ctx, marker, rolled>>
  PROVE  Held'
<1>1. snap' = <<>> /\ saved' = <<>>
  BY DEF DropSnapshot
<1>2. JobsOK'
  <2>1. JobOK(s)'
    BY DEF JobOK, Early, Held, JobsOK
  <2> QED BY <2>1, JobsKept DEF Held, Steps
<1>3. MarkOK'
  BY MarkKept DEF Held
<1>4. Order'
  BY OrderKept DEF Held
<1>5. Rewritten' /\ StoreOK' /\ SavedOK' /\ Live(ctx)'
  BY <1>1 DEF Rewritten, StoreOK, SavedOK, Held
<1> QED
  BY <1>2, <1>3, <1>4, <1>5 DEF Held

(* An entry written once or twice is applied once or twice.                 *)
LEMMA EntriesWritten ==
  ASSUME NEW c \in Contexts, NEW es \in Seq(Entries), NEW e \in Entries
  PROVE  /\ es \o <<e>> \in Seq(Entries) /\ es \o <<e>> # <<>> /\ Last(es \o <<e>>) = e
         /\ Stored(c, es \o <<e>>) = ApplyEntry(Stored(c, es), e)
         /\ es \o <<e, e>> \in Seq(Entries) /\ es \o <<e, e>> # <<>> /\ Last(es \o <<e, e>>) = e
         /\ Stored(c, es \o <<e, e>>) = ApplyEntry(ApplyEntry(Stored(c, es), e), e)
<1>1. PICK once : once = Append(es, e)
  OBVIOUS
<1>2. once = es \o <<e>> /\ once \in Seq(Entries) /\ once # <<>> /\ Last(once) = e
  BY <1>1 DEF Last
<1>3. Stored(c, once) = ApplyEntry(Stored(c, es), e)
  BY <1>1, StoredAppend
<1>4. PICK twice : twice = Append(once, e)
  OBVIOUS
<1>5. twice = es \o <<e, e>> /\ twice \in Seq(Entries) /\ twice # <<>> /\ Last(twice) = e
  BY <1>1, <1>2, <1>4 DEF Last
<1>6. Stored(c, twice) = ApplyEntry(Stored(c, once), e)
  BY <1>2, <1>4, StoredAppend
<1> QED
  BY <1>2, <1>3, <1>5, <1>6

(* ... and twice leads to where once does, but for the length of the chain. *)
LEMMA EntryApplies ==
  ASSUME NEW b \in Contexts, NEW t \in Contexts,
         NEW m \in t.log.floor .. Version(t.log), NEW w \in m .. Version(t.log),
         Grounded(t.log, m), Committed(b.log) = ReplayState(t.log, w), Live(b),
         NEW times \in {1, 2}, NEW e, e = Entry(t, m),
         NEW d, d = IF times = 1 THEN ApplyEntry(b, e) ELSE ApplyEntry(ApplyEntry(b, e), e)
  PROVE  /\ e \in Entries /\ d \in Contexts /\ d.queue = t.queue
         /\ Len(e.commits) = Version(t.log) - m
         /\ Version(d.log) = Version(b.log) + (IF times = 1 THEN Version(t.log) - m
                                                 ELSE (Version(t.log) - m) + (Version(t.log) - m))
         /\ Committed(d.log) = Committed(t.log)
         /\ Live(d)
         /\ Loose(d) \subseteq Loose(b) \ Touched(t.log, w)
<1>1. PICK d1 : d1 = ApplyEntry(b, e)
  OBVIOUS
<1>2. /\ e \in Entries /\ d1 \in Contexts /\ d1.queue = t.queue
      /\ Len(e.commits) = Version(t.log) - m
      /\ Version(d1.log) = Version(b.log) + (Version(t.log) - m)
      /\ Committed(d1.log) = Committed(t.log)
      /\ Live(d1)
      /\ Loose(d1) \subseteq Loose(b) \ Touched(t.log, w)
  BY ONLY <1>1, e = Entry(t, m), EntryApplied, b \in Contexts, t \in Contexts,
          m \in t.log.floor .. Version(t.log), w \in m .. Version(t.log),
          Grounded(t.log, m), Committed(b.log) = ReplayState(t.log, w), Live(b)
<1>3. CASE times = 1
  BY <1>1, <1>2, <1>3
<1>4. CASE times = 2
  <2>1. PICK W : W = Version(t.log)
    OBVIOUS
  <2>2. Version(t.log) \in Nat /\ t.log.floor \in Nat /\ W \in m .. Version(t.log)
    BY <2>1, ContextTyped
  <2>3. Committed(d1.log) = ReplayState(t.log, W)
    BY <1>2, <2>1 DEF Committed
  <2>4. d = ApplyEntry(d1, Entry(t, m))
    BY <1>1, <1>4
  <2>5. /\ d \in Contexts /\ d.queue = t.queue
        /\ Version(d.log) = Version(d1.log) + (Version(t.log) - m)
        /\ Committed(d.log) = Committed(t.log)
        /\ Live(d)
        /\ Loose(d) \subseteq Loose(d1) \ Touched(t.log, W)
    <3>1. d1 \in Contexts /\ Live(d1)
      BY <1>2
    <3> QED BY ONLY <3>1, <2>2, <2>3, <2>4, EntryApplied, t \in Contexts,
            m \in t.log.floor .. Version(t.log), Grounded(t.log, m)
  <2>6. Version(b.log) \in Nat /\ m \in Int
    BY <2>2, ContextTyped
  <2>7. Version(d.log) = Version(b.log) + ((Version(t.log) - m) + (Version(t.log) - m))
    BY <1>2, <2>2, <2>5, <2>6
  <2> QED BY <1>2, <1>4, <2>5, <2>7
<1> QED
  BY <1>3, <1>4

(* An entry takes effect, and the job that wrote it leaves.                 *)
LEMMA AppendLands ==
  ASSUME Typed, LineOK, Held, NEW s \in Jobs, job[s].at = "append", NEW times \in {1, 2},
         WriteEntry(s, times), Steps(s), job'[s].at = "idle", ctx' = ctx,
         (marker' = marker /\ rolled' = rolled) \/ Mark, Calm'
  PROVE  Held'
<1>0. PICK c, m, e, b : /\ c = job[s].taken /\ m = job[s].from /\ e = Entry(c, m)
                        /\ b = snap[1]
  OBVIOUS
<1>1. /\ entries' = entries \o [n \in 1 .. times |-> e]
      /\ saved' = (IF snap = <<>> THEN saved ELSE <<c>>)
      /\ gap' = (gap \/ snap = <<>>) /\ snap' = snap
      /\ hurt' = hurt \cup
           (When(e.commits # <<>> /\ (times > 1 \/ m < Version(Reopened.log)), "repeated")
              \cup When(gap /\ \A t \in Jobs : job[t].at # "clear", "torn")
              \cup When(snap = <<>>, "orphaned"))
  BY <1>0 DEF WriteEntry, Suffer
<1>2. /\ snap # <<>> /\ gap' = gap /\ saved' = <<c>>
      /\ gap => \E t \in Jobs : job[t].at = "clear"
      /\ hurt' = {} => hurt = {} /\ (e.commits = <<>> \/ (times = 1 /\ ~(m < Version(Reopened.log))))
  <2>1. When(snap = <<>>, "orphaned") \subseteq {"repeated"}
    BY <1>1 DEF Calm
  <2>2. snap # <<>>
    BY <2>1 DEF When
  <2>3. When(gap /\ \A t \in Jobs : job[t].at # "clear", "torn") \subseteq {"repeated"}
    BY <1>1 DEF Calm
  <2>4. gap => \E t \in Jobs : job[t].at = "clear"
    BY <2>3 DEF When
  <2>5. ASSUME hurt' = {}
        PROVE  hurt = {} /\ (e.commits = <<>> \/ (times = 1 /\ ~(m < Version(Reopened.log))))
    <3>1. hurt = {} /\ When(e.commits # <<>> /\ (times > 1 \/ m < Version(Reopened.log)), "repeated") = {}
      BY <1>1, <2>5
    <3>2. ~(e.commits # <<>> /\ (times > 1 \/ m < Version(Reopened.log)))
      BY <3>1 DEF When
    <3> QED BY <3>1, <3>2
  <2>6. gap \in BOOLEAN
    BY DEF Typed
  <2>7. gap' = gap /\ saved' = <<c>>
    BY <1>1, <2>2, <2>6
  <2> QED BY <2>2, <2>4, <2>5, <2>7
<1>3. /\ c \in Contexts /\ b \in Contexts /\ snap = <<b>> /\ snap' = <<b>>
      /\ Version(ctx.log) \in Nat /\ ctx.log.floor \in Nat
      /\ Version(ctx.log) \in ctx.log.floor .. Version(ctx.log)
      /\ marker.version \in Int
  <2>1. snap \in Snapshots /\ ctx \in Contexts /\ marker.version \in Int
    BY DEF Typed
  <2> QED BY <1>0, <1>1, <1>2, <2>1, JobTyped, SnapTyped, ContextTyped
<1>4. /\ ~RewriteDue /\ m \in ctx.log.floor .. Version(ctx.log) /\ Grounded(ctx.log, m)
      /\ c.log = ctx.log /\ Live(c) /\ Loose(c) \subseteq Loose(ctx)
  BY <1>0 DEF Held, JobsOK, JobOK, Early
<1>5. marker' \in {marker, MarkOf(ctx)} /\ marker'.version \in Int
      /\ marker'.version <= Version(ctx.log)
  <2>1. marker.version <= Version(ctx.log)
    BY <1>3, <1>4 DEF RewriteDue
  <2> QED BY <1>3, <2>1 DEF Mark, MarkOf
<1>6. JobsOK'
  <2>1. JobOK(s)'
    BY DEF JobOK, Early
  <2> QED BY <1>5, <2>1, JobsKept DEF Held, Steps
<1>7. MarkOK'
  BY MarkKept DEF Held, Mark
<1>8. Order'
  BY OrderKept DEF Held
<1>9. (\E t \in Jobs : job[t].at \in {"clear", "dropEntries"})
        => b.log = ctx.log /\ LooseToAll(Loose(b)) /\ LooseToAll(Loose(b))'
  <2>1. (\E t \in Jobs : job[t].at \in {"clear", "dropEntries"})
          => b.log = ctx.log /\ LooseToAll(Loose(b))
    BY <1>0, <1>2 DEF Held, Rewritten
  <2> QED BY <2>1, LooseToFewer DEF Steps
<1>10. Rewritten'
  <2>1. (\E t \in Jobs : job'[t].at \in {"clear", "dropEntries"})
          => \E t \in Jobs : job[t].at \in {"clear", "dropEntries"}
    BY DEF Steps
  <2> QED BY <1>3, <1>9, <2>1 DEF Rewritten
<1>11. Live(ctx)'
  BY DEF Held
<1>12. entries \in Seq(Entries) /\ <<>> \in Seq(Entries)
  BY DEF Typed
<1>13. CASE gap
  <2>1. b.log = ctx.log /\ LooseToAll(Loose(b))'
    BY <1>2, <1>9, <1>13
  <2>2. Live(b)
    BY <1>0, <1>2 DEF Held, StoreOK
  <2>3. Store' = b
    BY <1>2, <1>3, <1>12, <1>13, StoredTyped DEF Store
  <2>4. StoreOK'
    BY <1>3, <1>5, <1>6, <2>1, <2>2, <2>3, FreshStore
  <2>5. SavedOK'
    BY <1>2, <1>13 DEF SavedOK
  <2> QED BY <1>6, <1>7, <1>8, <1>10, <1>11, <2>4, <2>5 DEF Held
<1>14. CASE ~gap
  <2>1. PICK old : old = Store
    OBVIOUS
  <2>2. old = Stored(b, entries) /\ old \in Contexts
    BY <1>0, <1>12, <1>14, <1>3, <2>1, StoredTyped DEF Store
  <2>3. /\ Live(b) /\ Live(old) /\ Loose(old) \subseteq Loose(b)
        /\ \E w \in Nat : Reached(w)
    BY <1>0, <1>2, <1>4, <2>1 DEF Held, StoreOK
  <2>4. PICK w \in Nat : Reached(w)
    BY <2>3
  <2>5. /\ m \in Int /\ w \in m .. Version(c.log) /\ m \in c.log.floor .. Version(c.log)
        /\ Grounded(c.log, m) /\ Committed(old.log) = ReplayState(c.log, w)
        /\ w <= Version(old.log) /\ (hurt = {} => w = Version(old.log))
    <3>1. m <= w
      BY <1>0, <2>4 DEF Reached, Early
    <3> QED BY <1>3, <1>4, <2>1, <2>4, <3>1 DEF Reached
  <2>6. PICK d : d = IF times = 1 THEN ApplyEntry(old, e) ELSE ApplyEntry(ApplyEntry(old, e), e)
    OBVIOUS
  <2>7. /\ e \in Entries /\ d \in Contexts /\ d.queue = c.queue
        /\ Len(e.commits) = Version(c.log) - m
        /\ Version(d.log) = Version(old.log) + (IF times = 1 THEN Version(c.log) - m
                                                  ELSE (Version(c.log) - m) + (Version(c.log) - m))
        /\ Committed(d.log) = Committed(c.log)
        /\ Live(d)
        /\ Loose(d) \subseteq Loose(old) \ Touched(c.log, w)
    <3>1. c \in Contexts /\ e = Entry(c, m)
      BY <1>0, <1>3
    <3> QED BY ONLY <3>1, <2>2, <2>3, <2>5, <2>6, EntryApplies, times \in {1, 2}
  <2>8. /\ entries' \in Seq(Entries) /\ entries' # <<>> /\ Last(entries') = e
        /\ Stored(b, entries') = d
    <3>1. e \in Entries /\ b \in Contexts /\ Stored(b, entries) = old
      BY <1>3, <2>2, <2>7
    <3>2. CASE times = 1
      <4>1. entries' = entries \o <<e>>
        <5>1. [n \in 1 .. times |-> e] = <<e>>
          BY <3>2
        <5> QED BY <1>1, <5>1
      <4>2. d = ApplyEntry(old, e)
        BY <2>6, <3>2
      <4> QED BY ONLY <1>12, <3>1, <4>1, <4>2, EntriesWritten
    <3>3. CASE times = 2
      <4>1. entries' = entries \o <<e, e>>
        <5>1. [n \in 1 .. times |-> e] = <<e, e>>
          BY <3>3
        <5> QED BY <1>1, <5>1
      <4>2. d = ApplyEntry(ApplyEntry(old, e), e)
        BY <2>6, <3>3
      <4> QED BY ONLY <1>12, <3>1, <4>1, <4>2, EntriesWritten
    <3> QED BY <3>2, <3>3
  <2>9. Store' = d
    BY <1>2, <1>3, <1>14, <2>8 DEF Store
  <2>10. PICK W : W = Version(ctx.log)
    OBVIOUS
  <2>11. /\ W \in Nat /\ W <= Version(d.log) /\ Version(old.log) \in Nat /\ Version(d.log) \in Nat
    BY <1>3, <1>4, <2>2, <2>5, <2>7, <2>10, ContextTyped
  <2>12. hurt' = {} => W = Version(d.log)
    <3> SUFFICES ASSUME hurt' = {} PROVE W = Version(d.log)
      OBVIOUS
    <3>1. w = Version(old.log)
      BY <1>2, <2>5
    <3>2. CASE e.commits = <<>>
      <4>1. Version(c.log) - m = 0
        BY <2>7, <3>2
      <4> QED BY <1>3, <1>4, <2>5, <2>7, <2>10, <2>11, <3>1, <4>1
    <3>3. CASE times = 1 /\ ~(m < Version(Reopened.log))
      <4>1. Version(Reopened.log) = Version(old.log)
        <5>1. Loaded.log = old.log
          <6>2. ApplyTree(old, Last(entries).tree).log = old.log
            BY DEF ApplyTree
          <6> QED BY <1>0, <2>2, <6>2 DEF Loaded, LoadFrom, Stored
        <5> QED BY <1>2, <5>1 DEF Reopened
      <4>2. m = w
        BY <2>5, <2>11, <3>1, <3>3, <4>1
      <4> QED BY <1>3, <1>4, <2>5, <2>7, <2>10, <2>11, <3>1, <3>3, <4>2
    <3> QED BY <1>2, <3>2, <3>3
  <2>13. LooseToAll(Loose(d))' /\ Loose(d) \subseteq Loose(c) /\ Loose(d) \subseteq Loose(b)
    <3>1. PICK S : S = Loose(old) \ Touched(ctx.log, w)
      OBVIOUS
    <3>2. LooseToAll(S) /\ Loose(d) \subseteq S
      BY <1>4, <2>1, <2>4, <2>7, <3>1 DEF Reached
    <3>3. S \subseteq Loose(c)
      BY <1>0, <3>2 DEF LooseToAll
    <3>4. LooseToAll(Loose(d))'
      BY <3>2, LooseToFewer DEF Steps
    <3> QED BY <2>3, <3>1, <3>2, <3>3, <3>4
  <2>14. StoreOK'
    <3>1. Reached(W)'
      <4>1. \A t \in Jobs : job'[t].at \in Early => job'[t].from <= W
        BY <1>6, <2>10 DEF JobsOK, JobOK
      <4>2. (W \in ctx.log.floor .. Version(ctx.log))' /\ Committed(d.log) = ReplayState(ctx.log, W)
        BY <1>3, <1>4, <2>7, <2>10 DEF Committed
      <4>3. LooseToAll(Loose(d) \ Touched(ctx.log, W))'
        BY <2>13 DEF LooseToAll
      <4> QED BY <1>5, <2>9, <2>10, <2>11, <2>12, <4>1, <4>2, <4>3 DEF Reached
    <3>2. marker'.version <= Version(d.log)
      BY <1>5, <2>10, <2>11
    <3> QED BY <1>3, <2>3, <2>7, <2>9, <2>11, <2>13, <3>1, <3>2 DEF StoreOK
  <2>15. SavedOK'
    <3>1. Loaded' = ApplyTree(d, WorkingTree(c))
      <4>1. e.tree = WorkingTree(c)
        BY <1>0 DEF Entry
      <4>2. Stored(b, entries') = d /\ snap'[1] = b
        BY <1>3, <2>8
      <4> QED BY <2>8, <4>1, <4>2 DEF Loaded, LoadFrom, Stored
    <3>2. Loaded'.art = c.art /\ Loaded'.queue = c.queue /\ Loaded'.log = d.log
      <4>1. ApplyTree(d, WorkingTree(c)).art = c.art
        BY <1>3, <1>4, <2>7, <2>13, TreeRestores
      <4>2. WorkingTree(c) \in States
        BY <1>3, TreeTyped
      <4> QED BY <2>7, <3>1, <4>1, <4>2, TreeKeeps
    <3>3. Data(Loaded') = Data(c)
      BY <3>2 DEF Data
    <3>4. hurt' = {} => History(Loaded') = History(c)
      BY <1>4, <2>7, <2>10, <2>12, <3>2 DEF History
    <3>5. \A i \in Items : e.tree[i] # Absent => e.tree[i] # Committed(d.log)[i]
      <4>1. \A i \in Items : e.tree[i] = IF c.art[i] = Committed(c.log)[i] THEN Absent ELSE c.art[i]
        BY <1>0 DEF Entry, WorkingTree
      <4> QED BY <2>7, <4>1
    <3>6. snap' # <<>> /\ saved' # <<>> /\ saved'[1] = c
      BY <1>2, <1>3
    <3> QED BY <2>8, <2>9, <3>3, <3>4, <3>5, <3>6 DEF SavedOK
  <2> QED BY <1>6, <1>7, <1>8, <1>10, <1>11, <2>14, <2>15 DEF Held
<1> QED
  BY <1>13, <1>14

LEMMA SnapshotTyped ==
  ASSUME Typed, NEW s \in Jobs, WriteSnapshot(job[s].taken)
  PROVE  snap' \in Snapshots /\ saved' \in Snapshots /\ entries' \in Seq(Entries) /\ gap' \in BOOLEAN
<1>1. PICK c : c = job[s].taken
  OBVIOUS
<1>2. c \in Contexts
  BY <1>1, JobTyped
<1>3. <<c>> \in Snapshots
  BY <1>2 DEF Snapshots
<1> QED
  BY <1>1, <1>3 DEF WriteSnapshot, Typed

LEMMA ClearedTyped ==
  ASSUME Typed, ClearEntries
  PROVE  snap' \in Snapshots /\ saved' \in Snapshots /\ entries' \in Seq(Entries) /\ gap' \in BOOLEAN
<1>1. snap' = snap /\ saved' = snap /\ entries' = <<>> /\ gap' = FALSE /\ snap \in Snapshots
  BY DEF ClearEntries, Typed
<1>2. <<>> \in Seq(Entries)
  OBVIOUS
<1> QED
  BY <1>1, <1>2

LEMMA DroppedTyped ==
  ASSUME Typed, DropSnapshot
  PROVE  snap' \in Snapshots /\ saved' \in Snapshots /\ entries' \in Seq(Entries) /\ gap' \in BOOLEAN
<1>1. <<>> \in Snapshots
  BY DEF Snapshots
<1>2. /\ snap' = <<>> /\ saved' = <<>> /\ gap' = (entries # <<>>) /\ entries' = entries
      /\ entries \in Seq(Entries)
  BY DEF DropSnapshot, Typed
<1>3. (entries # <<>>) \in BOOLEAN
  OBVIOUS
<1> QED
  BY <1>1, <1>2, <1>3

LEMMA WrittenTyped ==
  ASSUME Typed, NEW s \in Jobs, NEW times \in {1, 2}, WriteEntry(s, times)
  PROVE  /\ snap' \in Snapshots /\ saved' \in Snapshots /\ entries' \in Seq(Entries)
         /\ gap' \in BOOLEAN /\ hurt' \in SUBSET Hurts
<1>1. PICK c, e : c = job[s].taken /\ e = Entry(c, job[s].from)
  OBVIOUS
<1>2. c \in Contexts
  BY <1>1, JobTyped
<1>3. e \in Entries
  <2>1. /\ c.log.commits \in Seq(Commits) /\ c.log.floor \in Nat
        /\ c.queue \in SUBSET Items /\ WorkingTree(c) \in States /\ job[s].from \in Int
    BY <1>2, TreeTyped, JobTyped DEF Contexts, Logs
  <2>2. CommitsFrom(c.log, job[s].from) \in Seq(Commits)
    <3>1. PICK a, n, q : /\ a = (IF job[s].from > c.log.floor THEN job[s].from - c.log.floor ELSE 0) + 1
                         /\ q = c.log.commits /\ n = Len(q)
      OBVIOUS
    <3>2. a \in Nat \ {0} /\ q \in Seq(Commits) /\ n = Len(q)
      BY <2>1, <3>1
    <3>3. SubSeq(q, a, n) \in Seq(Commits)
      <4>1. CASE a > n
        BY <3>2, <4>1
      <4>2. CASE a <= n
        <5>1. \A k \in a .. n : q[k] \in Commits
          BY <3>2, <4>2
        <5> QED BY <3>2, <4>2, <5>1
      <4> QED BY <3>2, <4>1, <4>2
    <3> QED BY <3>1, <3>3 DEF CommitsFrom
  <2> QED BY <1>1, <2>1, <2>2 DEF Entry, Entries
<1>4. /\ entries' = entries \o [n \in 1 .. times |-> e]
      /\ saved' = (IF snap = <<>> THEN saved ELSE <<c>>)
      /\ gap' = (gap \/ snap = <<>>) /\ snap' = snap
      /\ hurt' \subseteq hurt \cup {"repeated", "torn", "orphaned"}
  BY <1>1 DEF WriteEntry, Suffer, When
<1>5. entries' \in Seq(Entries)
  <2>1. entries \in Seq(Entries)
    BY DEF Typed
  <2>2. CASE times = 1
    <3>1. [n \in 1 .. times |-> e] = <<e>>
      BY <2>2
    <3> QED BY ONLY <1>3, <1>4, <2>1, <3>1
  <2>3. CASE times = 2
    <3>1. [n \in 1 .. times |-> e] = <<e, e>>
      BY <2>3
    <3> QED BY ONLY <1>3, <1>4, <2>1, <3>1
  <2> QED BY <2>2, <2>3
<1>6. saved' \in Snapshots
  BY <1>2, <1>4 DEF Typed, Snapshots
<1> QED
  BY <1>4, <1>5, <1>6 DEF Typed, Hurts

LEMMA LandSetKeeps ==
  ASSUME Whole, NEW s \in Jobs, LandSet(s)
  PROVE  Whole'
<1>1. /\ Served(s) /\ job[s].at = "set" /\ WriteSnapshot(job[s].taken) /\ Proceed(s, "clear")
      /\ UNCHANGED <<ctx, marker, rolled, hurt>>
  BY DEF LandSet
<1>2. s \in Running /\ Typed /\ LineOK
  BY <1>1, ServedRuns DEF Whole
<1>3. Steps(s) /\ job'[s].at = "clear"
  <2>1. Steps(s) /\ job'[s] = [job[s] EXCEPT !.at = "clear"]
    BY <1>1, <1>2, StagesAre, ProceedSteps
  <2> QED BY <1>2, <2>1, JobTyped
<1>4. Typed' /\ LineOK'
  BY <1>1, <1>2, <1>3, SnapshotTyped, StepsTyped DEF Typed
<1>5. ASSUME Calm' PROVE Held'
  <2>1. Held
    BY <1>1, <1>5 DEF Whole, Calm
  <2> QED BY <1>1, <1>2, <1>3, <2>1, SetLands
<1> QED
  BY <1>4, <1>5 DEF Whole

LEMMA LandClearKeeps ==
  ASSUME Whole, NEW s \in Jobs, LandClear(s)
  PROVE  Whole'
<1>1. /\ Served(s) /\ job[s].at = "clear" /\ ClearEntries /\ Finish(s) /\ Mark
      /\ UNCHANGED <<ctx, hurt>>
  BY DEF LandClear
<1>2. s \in Running /\ Typed /\ LineOK
  BY <1>1, ServedRuns DEF Whole
<1>3. Steps(s) /\ job'[s].at = "idle"
  BY <1>1, <1>2, FinishSteps DEF Idle
<1>4. Typed' /\ LineOK'
  BY <1>1, <1>2, <1>3, ClearedTyped, StepsTyped DEF Typed, Mark
<1>5. ASSUME Calm' PROVE Held'
  <2>1. Held
    BY <1>1, <1>5 DEF Whole, Calm
  <2> QED BY <1>1, <1>2, <1>3, <2>1, ClearLands
<1> QED
  BY <1>4, <1>5 DEF Whole

LEMMA LandAppendKeeps ==
  ASSUME Whole, NEW s \in Jobs, LandAppend(s)
  PROVE  Whole'
<1>1. /\ Served(s) /\ job[s].at = "append" /\ Finish(s) /\ Mark /\ UNCHANGED ctx
      /\ \E times \in {1, 2} : WriteEntry(s, times)
  BY DEF LandAppend
<1>2. s \in Running /\ Typed /\ LineOK
  BY <1>1, ServedRuns DEF Whole
<1>3. Steps(s) /\ job'[s].at = "idle"
  BY <1>1, <1>2, FinishSteps DEF Idle
<1>4. PICK times \in {1, 2} : WriteEntry(s, times)
  BY <1>1
<1>5. Typed' /\ LineOK'
  BY <1>1, <1>2, <1>3, <1>4, WrittenTyped, StepsTyped DEF Mark
<1>6. ASSUME Calm' PROVE Held'
  <2>1. Held
    BY <1>2, <1>4, <1>6 DEF Whole, Calm, WriteEntry, Suffer
  <2> QED BY <1>1, <1>2, <1>3, <1>4, <1>6, <2>1, AppendLands
<1> QED
  BY <1>5, <1>6 DEF Whole

LEMMA LandDropKeeps ==
  ASSUME Whole, NEW s \in Jobs, LandDrop(s)
  PROVE  Whole'
<1>1. /\ Served(s) /\ job[s].at = "drop" /\ DropSnapshot /\ Proceed(s, "dropEntries")
      /\ UNCHANGED <<ctx, marker, rolled, hurt>>
  BY DEF LandDrop
<1>2. s \in Running /\ Typed /\ LineOK
  BY <1>1, ServedRuns DEF Whole
<1>3. Steps(s) /\ job'[s].at = "dropEntries" /\ job'[s].owned = job[s].owned
  <2>1. Steps(s) /\ job'[s] = [job[s] EXCEPT !.at = "dropEntries"]
    BY <1>1, <1>2, StagesAre, ProceedSteps
  <2> QED BY <1>2, <2>1, JobTyped
<1>4. Typed' /\ LineOK'
  BY <1>1, <1>2, <1>3, DroppedTyped, StepsTyped DEF Typed
<1>5. ASSUME Calm' PROVE Held'
  <2>1. Held
    BY <1>1, <1>5 DEF Whole, Calm
  <2> QED BY <1>1, <1>2, <1>3, <2>1, DropLands
<1> QED
  BY <1>4, <1>5 DEF Whole

LEMMA LandDropEntriesKeeps ==
  ASSUME Whole, NEW s \in Jobs, LandDropEntries(s)
  PROVE  Whole'
<1>1. /\ Served(s) /\ job[s].at = "dropEntries" /\ ClearEntries /\ Finish(s)
      /\ UNCHANGED <<ctx, marker, rolled, hurt>>
  BY DEF LandDropEntries
<1>2. s \in Running /\ Typed /\ LineOK
  BY <1>1, ServedRuns DEF Whole
<1>3. Steps(s) /\ job'[s].at = "idle"
  BY <1>1, <1>2, FinishSteps DEF Idle
<1>4. Typed' /\ LineOK'
  BY <1>1, <1>2, <1>3, ClearedTyped, StepsTyped DEF Typed
<1>5. ASSUME Calm' PROVE Held'
  <2>1. Held
    BY <1>1, <1>5 DEF Whole, Calm
  <2> QED BY <1>1, <1>2, <1>3, <2>1, ClearLands
<1> QED
  BY <1>4, <1>5 DEF Whole

LEMMA StopTooLateKeeps ==
  ASSUME Whole, NEW s \in Jobs, StopTooLate(s)
  PROVE  Whole'
<1>1. /\ job[s].owned /\ Served(s) /\ Leave(s) /\ UNCHANGED <<ctx, marker, rolled>>
      /\ \/ job[s].at = "set" /\ WriteSnapshot(job[s].taken) /\ UNCHANGED hurt
         \/ job[s].at = "append" /\ WriteEntry(s, 1)
         \/ job[s].at \in {"clear", "dropEntries"} /\ ClearEntries /\ UNCHANGED hurt
         \/ /\ job[s].at = "drop" /\ DropSnapshot
            /\ hurt' = hurt \cup When(entries # <<>>, "orphaned")
  BY DEF StopTooLate, Suffer
<1>2. s \in Running /\ Typed /\ LineOK
  BY <1>1, ServedRuns DEF Whole
<1>3. Steps(s) /\ job'[s].at = "idle"
  BY <1>1, <1>2, LeaveSteps DEF Idle
<1>4. Calm' => Held
  BY <1>1 DEF Whole, Calm, WriteEntry, Suffer
<1>5. CASE job[s].at = "set" /\ WriteSnapshot(job[s].taken) /\ UNCHANGED hurt
  <2>1. Typed' /\ LineOK'
    BY <1>1, <1>2, <1>3, <1>5, SnapshotTyped, StepsTyped DEF Typed
  <2>2. Calm' => Held'
    BY <1>1, <1>2, <1>3, <1>4, <1>5, SetLands
  <2> QED BY <2>1, <2>2 DEF Whole
<1>6. CASE job[s].at = "append" /\ WriteEntry(s, 1)
  <2>1. Typed' /\ LineOK'
    BY <1>1, <1>2, <1>3, <1>6, WrittenTyped, StepsTyped
  <2>2. Calm' => Held'
    BY <1>1, <1>2, <1>3, <1>4, <1>6, AppendLands
  <2> QED BY <2>1, <2>2 DEF Whole
<1>7. CASE job[s].at \in {"clear", "dropEntries"} /\ ClearEntries /\ UNCHANGED hurt
  <2>1. Typed' /\ LineOK'
    BY <1>1, <1>2, <1>3, <1>7, ClearedTyped, StepsTyped DEF Typed
  <2>2. Calm' => Held'
    BY <1>1, <1>2, <1>3, <1>4, <1>7, ClearLands
  <2> QED BY <2>1, <2>2 DEF Whole
<1>8. CASE job[s].at = "drop" /\ DropSnapshot /\ hurt' = hurt \cup When(entries # <<>>, "orphaned")
  <2>1. hurt' \in SUBSET Hurts
    BY <1>2, <1>8 DEF Typed, When, Hurts
  <2>2. Typed' /\ LineOK'
    BY <1>1, <1>2, <1>3, <1>8, <2>1, DroppedTyped, StepsTyped
  <2>3. Calm' => Held'
    BY <1>1, <1>2, <1>3, <1>4, <1>8, DropLands
  <2> QED BY <2>2, <2>3 DEF Whole
<1> QED
  BY <1>1, <1>5, <1>6, <1>7, <1>8

-----------------------------------------------------------------------------
(* The application *)

(* The Context changes outside the commits.                                 *)
LEMMA ContextMoves ==
  ASSUME Typed, Held, ctx'.log = ctx.log, Live(ctx)', Loose(ctx) \subseteq Loose(ctx'),
         UNCHANGED <<marker, storeVars, jobVars, rolled>>, hurt \subseteq hurt'
  PROVE  Held'
<1>1. /\ marker' = marker /\ rolled' = rolled /\ job' = job /\ line' = line
      /\ snap' = snap /\ entries' = entries /\ saved' = saved /\ gap' = gap
      /\ RewriteDue' = RewriteDue
  BY DEF storeVars, jobVars, RewriteDue
<1>2. JobsOK'
  <2> SUFFICES ASSUME NEW s \in Jobs PROVE JobOK(s)'
    BY DEF JobsOK
  <2>1. JobOK(s)
    BY DEF Held, JobsOK
  <2> QED BY <1>1, <2>1 DEF JobOK
<1>3. Order'
  BY <1>1 DEF Held, Order
<1>4. MarkOK'
  BY <1>1 DEF Held, MarkOK
<1>5. ASSUME NEW S, LooseToAll(S) PROVE LooseToAll(S)'
  BY <1>1, <1>5 DEF LooseToAll
<1>6. Rewritten'
  <2>1. PICK S : S = Loose(snap[1])
    OBVIOUS
  <2>2. LooseToAll(S) => LooseToAll(S)'
    BY <1>5
  <2> QED BY <1>1, <2>1, <2>2 DEF Held, Rewritten
<1>7. Store' = Store
  BY <1>1 DEF Store
<1>8. StoreOK'
  <2>1. ASSUME NEW w \in Nat, Reached(w) PROVE Reached(w)'
    <3>1. PICK S : S = Loose(Store) \ Touched(ctx.log, w)
      OBVIOUS
    <3>2. LooseToAll(S)'
      BY <1>5, <2>1, <3>1 DEF Reached
    <3> QED BY <1>1, <1>7, <2>1, <3>1, <3>2 DEF Reached
  <2> QED BY <1>1, <1>7, <2>1 DEF Held, StoreOK
<1>9. SavedOK'
  <2>1. Loaded' = Loaded /\ (hurt' = {} => hurt = {})
    BY <1>1 DEF Loaded
  <2> QED BY <1>1, <1>7, <2>1 DEF Held, SavedOK
<1> QED
  BY <1>2, <1>3, <1>4, <1>6, <1>8, <1>9 DEF Held

LEMMA TouchKeeps ==
  ASSUME Whole, NEW i \in Items, NEW v \in Vals \cup {Absent}, Touch(i, v)
  PROVE  Whole'
<1> DEFINE committed == Committed(ctx.log)[i]
           art == [ctx.art EXCEPT ![i] = v]
<1>1. /\ ctx' = SetArtifacts(ctx, art)
      /\ hurt' = hurt \cup (When(committed # Absent /\ v = Absent, "undeleted")
                              \cup When(v # Absent /\ v = committed, "reverted"))
      /\ UNCHANGED <<marker, storeVars, jobVars, rolled>>
  BY DEF Touch, Suffer
<1>2. Typed /\ LineOK
  BY DEF Whole
<1>3. art \in States
  BY <1>2 DEF Typed, Contexts, States
<1>4. ctx' \in Contexts /\ ctx'.log = ctx.log /\ ctx'.art = art
  BY <1>1, <1>2, <1>3 DEF SetArtifacts, Typed, Contexts
<1>5. hurt' \in SUBSET Hurts
  BY <1>1, <1>2 DEF Typed, When, Hurts
<1>6. Typed' /\ LineOK'
  BY <1>1, <1>2, <1>4, <1>5 DEF Typed, LineOK, storeVars, jobVars, Running
<1>7. ASSUME Calm' PROVE Held'
  <2>1. Held
    BY <1>1, <1>7 DEF Whole, Calm
  <2>2. ~(committed # Absent /\ v = Absent)
    <3>1. When(committed # Absent /\ v = Absent, "undeleted") \subseteq {"repeated"}
      BY <1>1, <1>7 DEF Calm
    <3> QED BY <3>1 DEF When
  <2>3. ~(v # Absent /\ v = committed)
    <3>1. When(v # Absent /\ v = committed, "reverted") \subseteq {"repeated"}
      BY <1>1, <1>7 DEF Calm
    <3> QED BY <3>1 DEF When
  <2>4. \A j \in Items : art[j] = IF j = i THEN v ELSE ctx.art[j]
    BY <1>2 DEF Typed, Contexts, States
  <2>5. Live(ctx)'
    BY <1>4, <2>1, <2>2, <2>4 DEF Held, Live
  <2>6. Loose(ctx) \subseteq Loose(ctx')
    BY <1>4, <2>2, <2>3, <2>4 DEF Loose
  <2>7. hurt \subseteq hurt'
    BY <1>1
  <2> QED BY <1>1, <1>2, <1>4, <2>1, <2>5, <2>6, <2>7, ContextMoves
<1> QED
  BY <1>6, <1>7 DEF Whole

LEMMA ConsumeEventsKeeps ==
  ASSUME Whole, ConsumeEvents
  PROVE  Whole'
<1>1. /\ ctx' = [ctx EXCEPT !.queue = {}]
      /\ UNCHANGED <<marker, storeVars, jobVars, rolled, hurt>>
  BY DEF ConsumeEvents
<1>2. Typed /\ LineOK
  BY DEF Whole
<1>3. ctx' \in Contexts /\ ctx'.log = ctx.log /\ ctx'.art = ctx.art
  BY <1>1, <1>2 DEF Typed, Contexts
<1>4. Typed' /\ LineOK'
  BY <1>1, <1>2, <1>3 DEF Typed, LineOK, storeVars, jobVars, Running
<1>5. ASSUME Calm' PROVE Held'
  <2>1. Held
    BY <1>1, <1>5 DEF Whole, Calm
  <2>2. Live(ctx)' /\ Loose(ctx) \subseteq Loose(ctx')
    BY <1>3, <2>1 DEF Held, Live, Loose
  <2> QED BY <1>1, <1>2, <1>3, <2>1, <2>2, ContextMoves
<1> QED
  BY <1>4, <1>5 DEF Whole

(* Unless a rewrite is due, the marker is a version of the chain.           *)
LEMMA MarkInChain ==
  ASSUME Typed, Held, ~RewriteDue
  PROVE  /\ marker.version \in ctx.log.floor .. Version(ctx.log)
         /\ ctx.log.floor <= marker.floor /\ marker.floor <= marker.version
         /\ marker.version \in Nat /\ marker.floor \in Nat
<1>1. Version(ctx.log) \in Nat /\ ctx.log.floor \in Nat
      /\ marker.version \in Int /\ marker.floor \in Nat
  BY ContextTyped DEF Typed
<1>2. ~(marker.version < 0) /\ marker.version <= Version(ctx.log)
      /\ ctx.log.floor <= marker.floor
  BY <1>1 DEF RewriteDue
<1>3. marker.floor <= marker.version
  BY <1>2 DEF Held, MarkOK
<1> QED
  BY <1>1, <1>2, <1>3

LEMMA CommitKeeps ==
  ASSUME Whole, NEW c \in Commits, Commit(c)
  PROVE  Whole'
<1> DEFINE art == ApplyCommit(ctx.art, c)
           new == AppendCommit(ctx.log, c)
           outside == \E i \in DOMAIN c.ops : c.ops[i].kind = "update" /\ Committed(ctx.log)[i] = Absent
           hidden == rolled /\ Version(ctx'.log) >= marker.version
<1>1. /\ ctx' = [SetArtifacts(ctx, art) EXCEPT !.log = AppendCommit(@, c)]
      /\ ~Awaiting
      /\ hurt' = hurt \cup (When(outside, "outside") \cup When(hidden, "hidden")
                              \cup When(Captured # {}, "late"))
      /\ UNCHANGED <<marker, storeVars, jobVars, rolled>>
  BY DEF Commit, Suffer
<1>2. Typed /\ LineOK
  BY DEF Whole
<1>3. /\ ctx.art \in States /\ ctx.log \in Logs /\ Version(ctx.log) \in Nat /\ ctx.log.floor \in Nat
      /\ Committed(ctx.log) \in States /\ ctx.log.floor <= Version(ctx.log)
  BY <1>2, ContextTyped DEF Typed
<1>4. \A i \in Items :
        /\ i \in DOMAIN c.ops /\ (c.ops[i].kind = "update" => ctx.art[i] # Absent)
              => art[i] = c.ops[i].val
        /\ i \notin DOMAIN c.ops => art[i] = ctx.art[i]
  BY <1>3, ApplyOne
<1>5. art \in States
  BY <1>3 DEF ApplyCommit, States, Commits, Ops
<1>6. /\ new \in Logs /\ new.floor = ctx.log.floor /\ Version(new) = Version(ctx.log) + 1
      /\ \A v \in ctx.log.floor .. Version(ctx.log) : ReplayState(new, v) = ReplayState(ctx.log, v)
      /\ Committed(new) = ReplayCommit(Committed(ctx.log), c)
  BY <1>3, LongerChain
<1>7. ctx' \in Contexts /\ ctx'.log = new /\ ctx'.art = art
  BY <1>1, <1>2, <1>5, <1>6 DEF SetArtifacts, Typed, Contexts
<1>8. hurt' \in SUBSET Hurts
  BY <1>1, <1>2 DEF Typed, When, Hurts
<1>9. Typed' /\ LineOK'
  BY <1>1, <1>2, <1>7, <1>8 DEF Typed, LineOK, storeVars, jobVars, Running
<1> HIDE DEF art, new, outside, hidden
<1>10. ASSUME Calm' PROVE Held'
  <2>1. Held
    BY <1>1, <1>10 DEF Whole, Calm
  <2>2. ~outside
    <3>1. When(outside, "outside") \subseteq {"repeated"}
      BY <1>1, <1>10 DEF Calm
    <3> QED BY <3>1 DEF When
  <2>3. ~hidden
    <3>1. When(hidden, "hidden") \subseteq {"repeated"}
      BY <1>1, <1>10 DEF Calm
    <3> QED BY <3>1 DEF When
  <2>4. Captured = {}
    <3>1. When(Captured # {}, "late") \subseteq {"repeated"}
      BY <1>1, <1>10 DEF Calm
    <3> QED BY <3>1 DEF When
  <2>5. \A s \in Jobs : job[s].at \notin {"set", "clear", "append", "drop", "dropEntries"}
    <3> TAKE s \in Jobs
    <3>1. job[s].at \notin {"set", "clear", "append"}
      BY <2>4 DEF Captured
    <3>2. job[s].at # "idle" => ~job[s].owned
      BY <1>1 DEF Awaiting, Running
    <3>3. job[s].at \in {"drop", "dropEntries"} => job[s].owned
      BY <2>1 DEF Held, JobsOK, JobOK
    <3> QED BY <3>1, <3>2, <3>3
  <2>6. /\ marker' = marker /\ rolled' = rolled /\ job' = job /\ line' = line
        /\ snap' = snap /\ entries' = entries /\ saved' = saved /\ gap' = gap
    BY <1>1 DEF storeVars, jobVars
  <2>7. marker.version \in Int /\ marker.floor \in Nat
    BY <1>2 DEF Typed
  <2>8. marker.version > Version(ctx.log) => rolled /\ marker.version > Version(ctx.log) + 1
    <3> SUFFICES ASSUME marker.version > Version(ctx.log)
                 PROVE  rolled /\ marker.version > Version(ctx.log) + 1
      OBVIOUS
    <3>1. rolled
      BY <2>1 DEF Held, MarkOK
    <3>2. ~(Version(ctx.log) + 1 >= marker.version)
      BY <1>6, <1>7, <2>3, <3>1 DEF hidden
    <3> QED BY <1>3, <2>7, <3>1, <3>2
  <2>9. RewriteDue' = RewriteDue
    BY <1>3, <1>6, <1>7, <2>6, <2>7, <2>8 DEF RewriteDue
  <2>10. \A i \in DOMAIN c.ops : c.ops[i].kind = "update" => Committed(ctx.log)[i] # Absent
    BY <2>2 DEF outside
  <2>11. ASSUME NEW m \in ctx.log.floor .. Version(ctx.log), Grounded(ctx.log, m)
         PROVE  m \in new.floor .. Version(new) /\ Grounded(new, m)
    <3>1. m \in new.floor .. Version(new)
      BY <1>3, <1>6
    <3>2. Grounded(new, m)
      BY <1>3, <2>10, <2>11, LongerGrounded DEF new
    <3> QED BY <3>1, <3>2
  <2>12. JobsOK'
    <3> SUFFICES ASSUME NEW s \in Jobs PROVE JobOK(s)'
      BY DEF JobsOK
    <3>1. JobOK(s)
      BY <2>1 DEF Held, JobsOK
    <3>2. job[s].at \in Early => Grounded(new, job[s].from) /\ job[s].from \in new.floor .. Version(new)
      BY <2>11, <3>1 DEF JobOK
    <3> QED BY <1>7, <2>5, <2>6, <2>9, <3>1, <3>2 DEF JobOK
  <2>13. Order' /\ Rewritten'
    BY <2>5, <2>6 DEF Order, Rewritten
  <2>14. MarkOK'
    <3>1. ~RewriteDue => Grounded(new, marker.version)
      BY <1>2, <2>1, <2>11, MarkInChain DEF Held, MarkOK
    <3>2. marker.version > Version(new) => rolled
      BY <1>3, <1>6, <2>7, <2>8
    <3>3. marker.version < 0 \/ marker.floor <= marker.version
      BY <2>1 DEF Held, MarkOK
    <3> QED BY <1>7, <2>6, <2>9, <3>1, <3>2, <3>3 DEF MarkOK
  <2>15. \A i \in Items :
           /\ i \in DOMAIN c.ops => Committed(new)[i] = c.ops[i].val
           /\ i \notin DOMAIN c.ops => Committed(new)[i] = Committed(ctx.log)[i]
    BY <1>3, <1>6, ReplayOne
  <2>16. Live(ctx)'
    <3> SUFFICES ASSUME NEW i \in Items, Committed(new)[i] # Absent PROVE art[i] # Absent
      BY <1>7 DEF Live
    <3>1. Committed(ctx.log)[i] # Absent => ctx.art[i] # Absent
      BY <2>1 DEF Held, Live
    <3>2. CASE i \in DOMAIN c.ops
      BY <1>4, <2>10, <2>15, <3>1, <3>2
    <3>3. CASE i \notin DOMAIN c.ops
      BY <1>4, <2>15, <3>1, <3>3
    <3> QED BY <3>2, <3>3
  <2>17. Store' = Store /\ Loaded' = Loaded
    BY <2>6 DEF Store, Loaded
  <2>18. ASSUME NEW w \in Nat, Reached(w) PROVE Reached(w)'
    <3>1. w \in ctx.log.floor .. Version(ctx.log)
      BY <2>18 DEF Reached
    <3>2. w \in new.floor .. Version(new) /\ ReplayState(new, w) = ReplayState(ctx.log, w)
      BY <1>3, <1>6, <3>1
    <3>3. PICK S, T : S = Loose(Store) \ Touched(ctx.log, w) /\ T = Loose(Store) \ Touched(new, w)
      OBVIOUS
    <3>4. T \subseteq S /\ \A i \in T : i \notin DOMAIN c.ops
      <4>1. Touched(ctx.log, w) \cup DOMAIN c.ops \subseteq Touched(new, w)
        BY <1>3, <3>1, LongerTouches DEF new
      <4> QED BY <3>3, <4>1
    <3>5. S \subseteq Loose(ctx)
      BY <2>18, <3>3 DEF Reached, LooseToAll
    <3>6. T \subseteq Loose(ctx')
      <4> SUFFICES ASSUME NEW i \in T
                   PROVE  i \in Items /\ Committed(new)[i] # Absent /\ art[i] # Committed(new)[i]
        BY <1>7 DEF Loose
      <4>1. i \in Items /\ Committed(ctx.log)[i] # Absent /\ ctx.art[i] # Committed(ctx.log)[i]
        BY <3>4, <3>5 DEF Loose
      <4> QED BY <1>4, <2>15, <3>4, <4>1
    <3>7. LooseToAll(T)'
      BY <2>5, <2>6, <3>6 DEF LooseToAll
    <3>8. hurt' = {} => hurt = {}
      BY <1>1
    <3> QED BY <1>7, <2>6, <2>17, <2>18, <3>2, <3>3, <3>7, <3>8 DEF Reached
  <2>19. StoreOK'
    <3> SUFFICES ASSUME snap # <<>> PROVE StoreOK'
      BY <2>6 DEF StoreOK
    <3>1. /\ Live(snap[1]) /\ Live(Store) /\ Loose(Store) \subseteq Loose(snap[1])
          /\ marker.version <= Version(ctx.log) => marker.version <= Version(Store.log)
          /\ ~RewriteDue => \E w \in Nat : Reached(w)
      BY <2>1 DEF Held, StoreOK
    <3>2. marker.version <= Version(new) => marker.version <= Version(Store.log)
      BY <1>3, <1>6, <2>7, <2>8, <3>1
    <3> QED BY <1>7, <2>6, <2>9, <2>17, <2>18, <3>1, <3>2 DEF StoreOK
  <2>20. SavedOK'
    <3>1. hurt' = {} => hurt = {}
      BY <1>1
    <3> QED BY <2>1, <2>6, <2>17, <3>1 DEF Held, SavedOK
  <2> QED BY <2>12, <2>13, <2>14, <2>16, <2>19, <2>20 DEF Held
<1> QED
  BY <1>9, <1>10 DEF Whole

(* While nothing is under way, most of what holds concerns no job.          *)
LEMMA NothingRuns ==
  ASSUME \A s \in Jobs : job'[s].at = "idle"
  PROVE  JobsOK' /\ Order' /\ Rewritten'
<1>1. JobsOK'
  BY DEF JobsOK, JobOK, Early
<1>2. Order'
  BY DEF Order
<1>3. Rewritten'
  BY DEF Rewritten
<1> QED
  BY <1>1, <1>2, <1>3

LEMMA CheckoutKeeps ==
  ASSUME Whole, NEW v \in Int, Checkout(v)
  PROVE  Whole'
<1> DEFINE art == CheckoutState(ctx.art, ctx.log, v)
           new == Truncate(ctx.log, v)
           hidden == marker.version <= v /\ v < Version(Reopened.log)
           reverted == /\ snap # <<>>
                       /\ \E i \in Touched(ctx.log, v) : WorkingTree(snap[1])[i] # Absent
<1>1. /\ v \in ctx.log.floor .. Version(ctx.log)
      /\ ctx' = [art |-> art, queue |-> {}, log |-> new]
      /\ rolled' = (rolled \/ v < marker.version)
      /\ hurt' = hurt \cup (When(Running # {}, "late") \cup When(hidden, "hidden")
                              \cup When(reverted, "reverted"))
      /\ UNCHANGED <<marker, storeVars, jobVars>>
  BY DEF Checkout, Suffer
<1>2. Typed /\ LineOK
  BY DEF Whole
<1>3. /\ ctx.art \in States /\ ctx.log \in Logs /\ Version(ctx.log) \in Nat /\ ctx.log.floor \in Nat
      /\ Committed(ctx.log) \in States
  BY <1>2, ContextTyped DEF Typed
<1>4. /\ new \in Logs /\ new.floor = ctx.log.floor /\ Version(new) = v
      /\ \A u \in ctx.log.floor .. v : ReplayState(new, u) = ReplayState(ctx.log, u)
  BY <1>1, <1>3, ShorterChain
<1>5. Committed(new) = ReplayState(ctx.log, v) /\ Committed(new) \in States
  <2>1. v \in ctx.log.floor .. v /\ v \in Nat
    BY <1>1, <1>3
  <2>2. Committed(new) = ReplayState(ctx.log, v)
    BY <1>4, <2>1 DEF Committed
  <2>3. HasOps(Commits) /\ ctx.log \in LogsOf(Commits)
    BY <1>3, CommitsShaped
  <2> QED BY <1>1, <2>2, <2>3, HistoryTyped
<1>6. /\ art \in States
      /\ \A i \in Items : art[i] = IF i \notin Touched(ctx.log, v) /\ ctx.art[i] # Absent
                                     THEN ctx.art[i] ELSE Committed(new)[i]
  BY <1>3, <1>5 DEF CheckoutState, States
<1>7. ctx' \in Contexts /\ ctx'.log = new /\ ctx'.art = art
  BY <1>1, <1>4, <1>6 DEF Contexts
<1>8. hurt' \in SUBSET Hurts
  BY <1>1, <1>2 DEF Typed, When, Hurts
<1>9. Typed' /\ LineOK'
  <2>1. rolled' \in BOOLEAN
    BY <1>1
  <2> QED BY <1>1, <1>2, <1>7, <1>8, <2>1 DEF Typed, LineOK, storeVars, jobVars, Running
<1> HIDE DEF art, new, hidden, reverted
<1>10. ASSUME Calm' PROVE Held'
  <2>1. Held
    BY <1>1, <1>10 DEF Whole, Calm
  <2>2. ~hidden
    <3>1. When(hidden, "hidden") \subseteq {"repeated"}
      BY <1>1, <1>10 DEF Calm
    <3> QED BY <3>1 DEF When
  <2>3. ~reverted
    <3>1. When(reverted, "reverted") \subseteq {"repeated"}
      BY <1>1, <1>10 DEF Calm
    <3> QED BY <3>1 DEF When
  <2>4. Running = {}
    <3>1. When(Running # {}, "late") \subseteq {"repeated"}
      BY <1>1, <1>10 DEF Calm
    <3> QED BY <3>1 DEF When
  <2>5. /\ marker' = marker /\ job' = job
        /\ snap' = snap /\ entries' = entries /\ saved' = saved /\ gap' = gap
    BY <1>1 DEF storeVars, jobVars
  <2>6. \A s \in Jobs : job'[s].at = "idle"
    BY <2>4, <2>5 DEF Running
  <2>7. JobsOK' /\ Order' /\ Rewritten'
    BY <2>6, NothingRuns
  <2>8. marker.version \in Int /\ marker.floor \in Nat
    BY <1>2 DEF Typed
  <2>9. ~RewriteDue' => ~RewriteDue /\ marker.version \in ctx.log.floor .. v
    <3> SUFFICES ASSUME ~RewriteDue' PROVE ~RewriteDue /\ marker.version \in ctx.log.floor .. v
      OBVIOUS
    <3>1. ~(marker.version < 0) /\ marker.version <= v /\ ctx.log.floor <= marker.floor
      BY <1>1, <1>3, <1>4, <1>7, <2>5, <2>8 DEF RewriteDue
    <3>2. ~RewriteDue
      BY <1>1, <1>3, <2>8, <3>1 DEF RewriteDue
    <3> QED BY <1>1, <1>2, <1>3, <2>1, <3>1, <3>2, MarkInChain
  <2>10. MarkOK'
    <3>1. ~RewriteDue' => Grounded(new, marker.version)
      <4> SUFFICES ASSUME ~RewriteDue' PROVE Grounded(new, marker.version)
        OBVIOUS
      <4>1. Grounded(ctx.log, marker.version)
        BY <2>1, <2>9 DEF Held, MarkOK
      <4> QED BY <1>1, <1>3, <2>9, <4>1, ShorterGrounded DEF new
    <3>2. marker.version > v => rolled'
      BY <1>1, <1>3, <2>8
    <3>3. marker.version < 0 \/ marker.floor <= marker.version
      BY <2>1 DEF Held, MarkOK
    <3> QED BY <1>4, <1>7, <2>5, <3>1, <3>2, <3>3 DEF MarkOK
  <2>11. Live(ctx)'
    BY <1>6, <1>7 DEF Live
  <2>12. Store' = Store /\ Loaded' = Loaded
    BY <2>5 DEF Store, Loaded
  <2>13. StoreOK'
    <3> SUFFICES ASSUME snap # <<>> PROVE StoreOK'
      BY <2>5 DEF StoreOK
    <3>1. PICK b : b = snap[1]
      OBVIOUS
    <3>2. /\ Live(b) /\ Live(Store) /\ Loose(Store) \subseteq Loose(b)
          /\ marker.version <= Version(ctx.log) => marker.version <= Version(Store.log)
          /\ ~RewriteDue => \E w \in Nat : Reached(w)
      BY <2>1, <3>1 DEF Held, StoreOK
    <3>3. marker.version <= v => marker.version <= Version(Store.log)
      BY <1>1, <1>3, <2>8, <3>2
    <3>4. b \in Contexts /\ entries \in Seq(Entries) /\ <<>> \in Seq(Entries)
      BY <1>2, <3>1, SnapTyped DEF Typed
    <3>5. Version(Store.log) <= Version(Reopened.log) /\ Version(Store.log) \in Nat
          /\ Version(Reopened.log) \in Nat
      <4>1. /\ Stored(b, entries) \in Contexts /\ Version(b.log) <= Version(Stored(b, entries).log)
            /\ Stored(b, <<>>) = b
        BY <3>4, StoredTyped
      <4>2. Reopened.log = Stored(b, entries).log
        BY <3>1 DEF Reopened, Loaded, LoadFrom, Stored, ApplyTree
      <4>3. Version(b.log) \in Nat /\ Version(Stored(b, entries).log) \in Nat
        BY <3>4, <4>1, ContextTyped
      <4>4. Store = b \/ Store = Stored(b, entries)
        BY <3>1, <4>1 DEF Store
      <4> QED BY <4>1, <4>2, <4>3, <4>4
    <3>6. ASSUME ~RewriteDue' PROVE \E w \in Nat : Reached(w)'
      <4>1. PICK w \in Nat : Reached(w)
        BY <2>9, <3>2, <3>6
      <4>2. w \in ctx.log.floor .. v /\ marker.version <= w
        <5>1. Version(Reopened.log) <= v
          BY <1>1, <1>3, <2>2, <2>9, <3>5, <3>6 DEF hidden
        <5> QED BY <1>1, <1>3, <3>5, <4>1, <5>1 DEF Reached
      <4>3. w \in new.floor .. Version(new) /\ ReplayState(new, w) = ReplayState(ctx.log, w)
        BY <1>4, <4>2
      <4>4. PICK S, T : S = Loose(Store) \ Touched(ctx.log, w) /\ T = Loose(Store) \ Touched(new, w)
        OBVIOUS
      <4>5. T \subseteq Loose(ctx')
        <5> SUFFICES ASSUME NEW i \in T
                     PROVE  i \in Items /\ Committed(new)[i] # Absent /\ art[i] # Committed(new)[i]
          BY <1>7 DEF Loose
        <5>1. i \in Items /\ Committed(b.log)[i] # Absent /\ b.art[i] # Committed(b.log)[i]
          BY <3>2, <4>4 DEF Loose
        <5>2. b.art[i] # Absent
          BY <3>2, <5>1 DEF Live
        <5>3. WorkingTree(b)[i] # Absent
          BY <5>1, <5>2 DEF WorkingTree
        <5>4. i \notin Touched(ctx.log, v)
          BY <2>3, <3>1, <5>3 DEF reverted
        <5>5. Touched(ctx.log, w) \subseteq Touched(new, w) \cup Touched(ctx.log, v)
          BY <1>1, <1>3, <4>2, ShorterTouches DEF new
        <5>6. i \in S
          BY <4>4, <5>4, <5>5
        <5>7. Committed(ctx.log)[i] # Absent /\ ctx.art[i] # Committed(ctx.log)[i]
          BY <4>1, <4>4, <5>6 DEF Reached, LooseToAll, Loose
        <5>8. ctx.art[i] # Absent
          BY <2>1, <5>1, <5>7 DEF Held, Live
        <5>9. Committed(new)[i] = Committed(ctx.log)[i]
          <6>1. HasOps(Commits) /\ ctx.log \in LogsOf(Commits)
            BY <1>3, CommitsShaped
          <6>2. ReplayState(ctx.log, v)[i] = Committed(ctx.log)[i]
            BY <1>1, <5>1, <5>4, <6>1, UntouchedStays
          <6> QED BY <1>5, <6>2
        <5> QED BY <1>6, <5>1, <5>4, <5>7, <5>8, <5>9
      <4>6. LooseToAll(T)'
        BY <2>6, <4>5 DEF LooseToAll
      <4>7. hurt' = {} => hurt = {}
        BY <1>1
      <4>8. \A s \in Jobs : job'[s].at \notin Early
        BY <2>6 DEF Early
      <4> QED BY <1>7, <2>5, <2>12, <4>1, <4>2, <4>3, <4>4, <4>6, <4>7, <4>8 DEF Reached
    <3> QED BY <1>4, <1>7, <2>5, <2>12, <3>1, <3>2, <3>3, <3>6 DEF StoreOK
  <2>14. SavedOK'
    <3>1. hurt' = {} => hurt = {}
      BY <1>1
    <3> QED BY <2>1, <2>5, <2>12, <3>1 DEF Held, SavedOK
  <2> QED BY <2>7, <2>10, <2>11, <2>13, <2>14 DEF Held
<1> QED
  BY <1>9, <1>10 DEF Whole

LEMMA CompactKeeps ==
  ASSUME Whole, NEW keep \in Int, Compact(keep)
  PROVE  Whole'
<1> DEFINE cutoff == Version(ctx.log) - keep
           new == CompactTo(ctx.log, cutoff)
<1>1. /\ keep \in Nat /\ cutoff > ctx.log.floor
      /\ ctx' = [ctx EXCEPT !.log = CompactTo(@, Version(@) - keep)]
      /\ hurt' = hurt \cup When(Running # {}, "late")
      /\ UNCHANGED <<marker, storeVars, jobVars, rolled>>
  BY DEF Compact, Suffer
<1>2. Typed /\ LineOK
  BY DEF Whole
<1>3. /\ ctx.log \in Logs /\ Version(ctx.log) \in Nat /\ ctx.log.floor \in Nat
  BY <1>2, ContextTyped DEF Typed
<1>4. cutoff \in ctx.log.floor .. Version(ctx.log) /\ cutoff \in Nat
      /\ Version(ctx.log) \in cutoff .. Version(ctx.log)
  BY <1>1, <1>3
<1>5. /\ new \in Logs /\ new.floor = cutoff /\ Version(new) = Version(ctx.log)
      /\ \A u \in cutoff .. Version(ctx.log) : ReplayState(new, u) = ReplayState(ctx.log, u)
  BY <1>3, <1>4, YoungerChain
<1>6. Committed(new) = Committed(ctx.log)
  BY <1>4, <1>5 DEF Committed
<1>7. ctx' \in Contexts /\ ctx'.log = new /\ ctx'.art = ctx.art
  BY <1>1, <1>2, <1>5 DEF Typed, Contexts
<1>8. hurt' \in SUBSET Hurts
  BY <1>1, <1>2 DEF Typed, When, Hurts
<1>9. Typed' /\ LineOK'
  BY <1>1, <1>2, <1>7, <1>8 DEF Typed, LineOK, storeVars, jobVars, Running
<1>10. ASSUME NEW m \in cutoff .. Version(ctx.log)
       PROVE  (Grounded(ctx.log, m) => Grounded(new, m)) /\ Touched(new, m) = Touched(ctx.log, m)
  BY <1>3, <1>4, YoungerGrounded
<1> HIDE DEF cutoff, new
<1>11. ASSUME Calm' PROVE Held'
  <2>1. Held
    BY <1>1, <1>11 DEF Whole, Calm
  <2>2. Running = {}
    <3>1. When(Running # {}, "late") \subseteq {"repeated"}
      BY <1>1, <1>11 DEF Calm
    <3> QED BY <3>1 DEF When
  <2>3. /\ marker' = marker /\ rolled' = rolled /\ job' = job
        /\ snap' = snap /\ entries' = entries /\ saved' = saved /\ gap' = gap
    BY <1>1 DEF storeVars, jobVars
  <2>4. \A s \in Jobs : job'[s].at = "idle"
    BY <2>2, <2>3 DEF Running
  <2>5. JobsOK' /\ Order' /\ Rewritten'
    BY <2>4, NothingRuns
  <2>6. marker.version \in Int /\ marker.floor \in Nat
    BY <1>2 DEF Typed
  <2>7. ~RewriteDue' => ~RewriteDue /\ marker.version \in cutoff .. Version(ctx.log)
    <3> SUFFICES ASSUME ~RewriteDue' PROVE ~RewriteDue /\ marker.version \in cutoff .. Version(ctx.log)
      OBVIOUS
    <3>1. ~(marker.version < 0) /\ marker.version <= Version(ctx.log) /\ cutoff <= marker.floor
      BY <1>3, <1>4, <1>5, <1>7, <2>3, <2>6 DEF RewriteDue
    <3>2. ~RewriteDue
      BY <1>1, <1>3, <1>4, <2>6, <3>1 DEF RewriteDue
    <3>3. marker.floor <= marker.version
      BY <1>2, <2>1, <3>2, MarkInChain
    <3> QED BY <1>3, <1>4, <2>6, <3>1, <3>2, <3>3
  <2>8. MarkOK'
    <3>1. ~RewriteDue' => Grounded(new, marker.version)
      BY <1>10, <2>1, <2>7 DEF Held, MarkOK
    <3> QED BY <1>5, <1>7, <2>1, <2>3, <3>1 DEF Held, MarkOK
  <2>9. Live(ctx)'
    BY <1>6, <1>7, <2>1 DEF Held, Live
  <2>10. Store' = Store /\ Loaded' = Loaded
    BY <2>3 DEF Store, Loaded
  <2>11. StoreOK'
    <3> SUFFICES ASSUME snap # <<>> PROVE StoreOK'
      BY <2>3 DEF StoreOK
    <3>1. /\ Live(snap[1]) /\ Live(Store) /\ Loose(Store) \subseteq Loose(snap[1])
          /\ marker.version <= Version(ctx.log) => marker.version <= Version(Store.log)
          /\ ~RewriteDue => \E w \in Nat : Reached(w)
      BY <2>1 DEF Held, StoreOK
    <3>2. ASSUME ~RewriteDue' PROVE \E w \in Nat : Reached(w)'
      <4>1. PICK w \in Nat : Reached(w)
        BY <2>7, <3>1, <3>2
      <4>2. w \in cutoff .. Version(ctx.log)
        BY <1>3, <1>4, <2>7, <3>2, <4>1 DEF Reached
      <4>3. /\ w \in new.floor .. Version(new) /\ ReplayState(new, w) = ReplayState(ctx.log, w)
            /\ Touched(new, w) = Touched(ctx.log, w)
        BY <1>5, <1>10, <4>2
      <4>4. PICK S : S = Loose(Store) \ Touched(ctx.log, w)
        OBVIOUS
      <4>5. S \subseteq Loose(ctx')
        BY <1>6, <1>7, <4>1, <4>4 DEF Reached, LooseToAll, Loose
      <4>6. LooseToAll(S)'
        BY <2>4, <4>5 DEF LooseToAll
      <4>7. hurt' = {} => hurt = {}
        BY <1>1
      <4>8. \A s \in Jobs : job'[s].at \notin Early
        BY <2>4 DEF Early
      <4> QED BY <1>7, <2>3, <2>10, <4>1, <4>3, <4>4, <4>6, <4>7, <4>8 DEF Reached
    <3> QED BY <1>5, <1>7, <2>3, <2>10, <3>1, <3>2 DEF StoreOK
  <2>12. SavedOK'
    <3>1. hurt' = {} => hurt = {}
      BY <1>1
    <3> QED BY <2>1, <2>3, <2>10, <3>1 DEF Held, SavedOK
  <2> QED BY <2>5, <2>8, <2>9, <2>11, <2>12 DEF Held
<1> QED
  BY <1>9, <1>11 DEF Whole

-----------------------------------------------------------------------------
(* Restart, and the invariant as a whole *)

LEMMA EmptyIsCalm ==
  /\ EmptyContext \in Contexts
  /\ Version(EmptyContext.log) = 0 /\ EmptyContext.log.floor = 0
  /\ Live(EmptyContext)
<1>1. EmptyContext \in Contexts /\ EmptyLog \in Logs
  BY EmptyTyped DEF EmptyContext, Contexts
<1>2. Version(EmptyLog) = 0 /\ EmptyLog.floor = 0 /\ EmptyLog.baseline = NoArtifacts
  BY DEF EmptyLog, Version
<1>3. Committed(EmptyLog) = NoArtifacts
  <2>1. HasOps(Commits) /\ EmptyLog \in LogsOf(Commits)
    BY <1>1, CommitsShaped
  <2>2. ReplayState(EmptyLog, EmptyLog.floor) = EmptyLog.baseline
    BY <2>1, HistoryTyped
  <2> QED BY <1>2, <2>2 DEF Committed
<1> QED
  BY <1>1, <1>2, <1>3 DEF EmptyContext, Live, NoArtifacts

(* What a reopened session is, when nothing was torn.                       *)
LEMMA ReopenedFacts ==
  ASSUME Typed
  PROVE  /\ Reopened \in Contexts
         /\ Held /\ ~gap /\ snap # <<>> =>
              Reopened.log = Store.log /\ Live(Reopened) /\ Loose(Store) \subseteq Loose(Reopened)
<1>1. CASE snap = <<>>
  BY <1>1, EmptyIsCalm DEF Reopened
<1>2. CASE snap # <<>>
  <2>1. PICK b, d : b = snap[1] /\ d = Stored(b, entries)
    OBVIOUS
  <2>2. b \in Contexts /\ entries \in Seq(Entries)
    BY <1>2, <2>1, SnapTyped DEF Typed
  <2>3. d \in Contexts
    BY <2>1, <2>2, StoredTyped
  <2>4. CASE entries = <<>>
    <3>1. Reopened = d /\ Store = d
      BY <1>2, <2>1, <2>4 DEF Reopened, Loaded, LoadFrom, Store, Stored
    <3> QED BY <1>2, <2>3, <3>1 DEF Held, StoreOK
  <2>5. CASE entries # <<>>
    <3>1. PICK tree : tree = Last(entries).tree
      OBVIOUS
    <3>2. tree \in States
      <4>1. Last(entries) \in Entries
        BY <2>2, <2>5 DEF Last
      <4> QED BY <3>1, <4>1 DEF Entries
    <3>3. Reopened = ApplyTree(d, tree)
      BY <1>2, <2>1, <2>5, <3>1 DEF Reopened, Loaded, LoadFrom, Stored
    <3>4. /\ Reopened \in Contexts /\ Reopened.log = d.log
          /\ Live(d) => Live(Reopened)
          /\ (\A i \in Items : tree[i] # Absent => tree[i] # Committed(d.log)[i])
               => Loose(d) \subseteq Loose(Reopened)
      BY <2>3, <3>2, <3>3, TreeKeeps
    <3>5. ASSUME Held, ~gap
          PROVE  Reopened.log = Store.log /\ Live(Reopened) /\ Loose(Store) \subseteq Loose(Reopened)
      <4>1. Store = d
        BY <2>1, <3>5 DEF Store
      <4>2. Live(d)
        BY <1>2, <3>5, <4>1 DEF Held, StoreOK
      <4>3. \A i \in Items : tree[i] # Absent => tree[i] # Committed(d.log)[i]
        BY <1>2, <2>5, <3>1, <3>5, <4>1 DEF Held, SavedOK
      <4> QED BY <3>4, <4>1, <4>2, <4>3
    <3> QED BY <3>4, <3>5
  <2> QED BY <2>4, <2>5
<1> QED
  BY <1>1, <1>2

LEMMA CrashKeeps ==
  ASSUME Whole, Crash
  PROVE  Whole'
<1>1. /\ job' = [s \in Jobs |-> Idle] /\ line' = <<>> /\ ctx' = Reopened
      /\ marker' = (IF snap = <<>> THEN NoMark ELSE MarkOf(Reopened))
      /\ rolled' = FALSE
      /\ hurt' = hurt \cup When(gap /\ snap # <<>>, "torn")
      /\ snap' = snap /\ entries' = entries /\ saved' = saved /\ gap' = gap
  BY DEF Crash, Suffer, storeVars
<1>2. Typed /\ LineOK
  BY DEF Whole
<1>3. /\ ctx' \in Contexts /\ Version(ctx'.log) \in Nat /\ ctx'.log.floor \in Nat
      /\ ctx'.log.floor <= Version(ctx'.log)
  BY <1>1, <1>2, ReopenedFacts, ContextTyped
<1>4. marker' \in [version : Int, floor : Nat]
  BY <1>1, <1>3 DEF NoMark, MarkOf
<1>5. \A s \in Jobs : job'[s].at = "idle"
  BY <1>1 DEF Idle
<1>6. Typed' /\ LineOK'
  <2>1. job' \in JobsIn(Int, Contexts)
    BY <1>1, EmptyTyped DEF JobsIn
  <2>2. hurt' \in SUBSET Hurts
    BY <1>1, <1>2 DEF Typed, When, Hurts
  <2>3. <<>> \in Seq(Jobs) /\ Running' = {}
    BY <1>5 DEF Running
  <2>4. Lists(<<>>, {})
    BY DEF Lists
  <2> QED BY <1>1, <1>2, <1>3, <1>4, <2>1, <2>2, <2>3, <2>4 DEF Typed, LineOK
<1>7. ASSUME Calm' PROVE Held'
  <2>1. Held
    BY <1>1, <1>7 DEF Whole, Calm
  <2>2. ~(gap /\ snap # <<>>)
    <3>1. When(gap /\ snap # <<>>, "torn") \subseteq {"repeated"}
      BY <1>1, <1>7 DEF Calm
    <3> QED BY <3>1 DEF When
  <2>3. JobsOK' /\ Order' /\ Rewritten'
    BY <1>5, NothingRuns
  <2>4. Store' = Store /\ Loaded' = Loaded
    BY <1>1 DEF Store, Loaded
  <2>5. SavedOK'
    <3>1. hurt' = {} => hurt = {}
      BY <1>1
    <3> QED BY <1>1, <2>1, <2>4, <3>1 DEF Held, SavedOK
  <2>6. CASE snap = <<>>
    <3>1. ctx' = EmptyContext /\ marker'.version = -1 /\ marker'.floor = 0
      BY <1>1, <2>6 DEF Reopened, NoMark
    <3>2. Live(ctx)'
      BY <3>1, EmptyIsCalm
    <3>3. MarkOK'
      BY <3>1, EmptyIsCalm DEF MarkOK, RewriteDue
    <3>4. StoreOK'
      BY <1>1, <2>6 DEF StoreOK
    <3> QED BY <2>3, <2>5, <3>2, <3>3, <3>4 DEF Held
  <2>7. CASE snap # <<>>
    <3>1. /\ ctx'.log = Store.log /\ Live(ctx') /\ Loose(Store) \subseteq Loose(ctx')
      BY <1>1, <1>2, <2>1, <2>2, <2>7, ReopenedFacts
    <3>2. marker'.version = Version(ctx'.log) /\ marker'.floor = ctx'.log.floor
      BY <1>1, <2>7 DEF MarkOf
    <3>3. PICK W : W = Version(ctx'.log)
      OBVIOUS
    <3>4. W \in Nat /\ W \in ctx'.log.floor .. Version(ctx'.log)
      BY <1>3, <3>3
    <3>5. MarkOK'
      <4>1. W + 1 .. W = {}
        BY <3>4
      <4>2. Grounded(ctx'.log, W)
        BY <3>3, <4>1 DEF Grounded
      <4> QED BY <1>3, <3>2, <3>3, <4>2 DEF MarkOK
    <3>6. /\ Live(snap[1]) /\ Live(Store) /\ Loose(Store) \subseteq Loose(snap[1])
      BY <2>1, <2>7 DEF Held, StoreOK
    <3>7. Reached(W)'
      <4>1. \A s \in Jobs : job'[s].at \notin Early
        BY <1>5 DEF Early
      <4>2. LooseToAll(Loose(Store) \ Touched(ctx.log, W))'
        BY <1>5, <2>4, <3>1 DEF LooseToAll
      <4>3. Committed(Store.log) = ReplayState(ctx'.log, W)
        BY <3>1, <3>3 DEF Committed
      <4> QED BY <2>4, <3>1, <3>2, <3>3, <3>4, <4>1, <4>2, <4>3 DEF Reached
    <3>8. StoreOK'
      BY <1>1, <1>3, <2>4, <3>1, <3>2, <3>3, <3>4, <3>6, <3>7 DEF StoreOK
    <3>9. Live(ctx)'
      BY <3>1
    <3> QED BY <2>3, <2>5, <3>5, <3>8, <3>9 DEF Held
  <2> QED BY <2>6, <2>7
<1> QED
  BY <1>6, <1>7 DEF Whole

LEMMA UnchangedKeeps ==
  ASSUME Whole, UNCHANGED vars
  PROVE  Whole'
<1>1. /\ UNCHANGED <<ctx, marker, snap, entries, saved, gap, job, line, rolled, hurt>>
  BY DEF vars, storeVars, jobVars
<1>2. Typed' /\ LineOK'
  BY <1>1 DEF Whole, Typed, LineOK, Running
<1>3. ASSUME Calm' PROVE Held'
  <2>1. Held
    BY <1>1, <1>3 DEF Whole, Calm
  <2> QED BY <1>1, <1>2, <2>1, ContextMoves DEF Whole, storeVars, jobVars, Held, Live
<1> QED
  BY <1>2, <1>3 DEF Whole

LEMMA InitWhole == Init => Whole
<1> SUFFICES ASSUME Init PROVE Whole
  OBVIOUS
<1>1. /\ ctx = EmptyContext /\ marker = NoMark /\ snap = <<>> /\ entries = <<>>
      /\ job = [s \in Jobs |-> Idle] /\ line = <<>> /\ saved = <<>> /\ gap = FALSE
      /\ rolled = FALSE /\ hurt = {}
  BY DEF Init
<1>2. \A s \in Jobs : job[s].at = "idle"
  BY <1>1 DEF Idle
<1>3. Typed /\ LineOK
  <2>1. job \in JobsIn(Int, Contexts)
    BY <1>1, EmptyTyped DEF JobsIn
  <2>2. marker \in [version : Int, floor : Nat]
    BY <1>1 DEF NoMark
  <2>3. <<>> \in Seq(Jobs) /\ <<>> \in Seq(Entries) /\ Running = {} /\ Lists(<<>>, {})
    BY <1>2 DEF Running, Lists
  <2>4. <<>> \in Snapshots
    BY DEF Snapshots
  <2> QED BY <1>1, <2>1, <2>2, <2>3, <2>4, EmptyTyped DEF Typed, LineOK
<1>4. Held
  <2>1. JobsOK /\ Order /\ Rewritten
    BY <1>2 DEF JobsOK, JobOK, Early, Order, Rewritten
  <2>2. MarkOK
    BY <1>1, EmptyIsCalm DEF MarkOK, RewriteDue, NoMark
  <2>3. StoreOK /\ SavedOK
    BY <1>1 DEF StoreOK, SavedOK
  <2> QED BY <1>1, <2>1, <2>2, <2>3, EmptyIsCalm DEF Held
<1> QED
  BY <1>3, <1>4 DEF Whole

LEMMA NextKeepsWhole ==
  ASSUME Whole, [Next]_vars
  PROVE  Whole'
<1>1. ASSUME NEW i \in Items, NEW v \in Vals \cup {Absent}, Touch(i, v) PROVE Whole'
  BY <1>1, TouchKeeps
<1>2. ASSUME NEW c \in Commits, Commit(c) PROVE Whole'
  BY <1>2, CommitKeeps
<1>3. ASSUME ConsumeEvents PROVE Whole'
  BY <1>3, ConsumeEventsKeeps
<1>4. ASSUME NEW v \in 0 .. MaxCommits, Checkout(v) PROVE Whole'
  BY <1>4, CheckoutKeeps
<1>5. ASSUME NEW keep \in 0 .. MaxCommits, Compact(keep) PROVE Whole'
  BY <1>5, CompactKeeps
<1>6. ASSUME Application PROVE Whole'
  BY <1>1, <1>2, <1>3, <1>4, <1>5, <1>6 DEF Application
<1>7. ASSUME NEW s \in Jobs, Save(s) PROVE Whole'
  BY <1>7, LandGetKeeps, LandCountKeeps, LandSetKeeps, LandClearKeeps, LandAppendKeeps DEF Save
<1>8. ASSUME NEW s \in Jobs, Delete(s) PROVE Whole'
  BY <1>8, LandDropKeeps, LandDropEntriesKeeps DEF Delete
<1>9. ASSUME NEW s \in Jobs,
             StartSave(s) \/ StartDelete(s) \/ Abandon(s) \/ Stop(s) \/ StopTooLate(s)
      PROVE  Whole'
  BY <1>9, StartSaveKeeps, StartDeleteKeeps, AbandonKeeps, StopKeeps, StopTooLateKeeps
<1> QED
  BY <1>6, <1>7, <1>8, <1>9, CrashKeeps, UnchangedKeeps DEF Next

(* No commit at or below the marker is missing from the store.              *)
LEMMA WholeIsSaved ==
  ASSUME Whole
  PROVE  SessionIsSaved
<1>1. ReloadIsLastSave
  BY DEF ReloadIsLastSave, SavedIsLoaded, Whole, Calm, Held, SavedOK
<1>2. HistoryIsLastSave
  BY DEF HistoryIsLastSave, SavedIsLoaded, Whole, Calm, Held, SavedOK
<1>3. MarkedIsStored
  <2> SUFFICES ASSUME hurt = {}, snap # <<>>, ~(marker.version > Version(ctx.log))
               PROVE  marker.version <= Version(Loaded.log)
    BY DEF MarkedIsStored
  <2>1. Typed /\ Held
    BY DEF Whole, Calm
  <2>2. PICK b : b = snap[1]
    OBVIOUS
  <2>3. b \in Contexts /\ entries \in Seq(Entries) /\ <<>> \in Seq(Entries)
        /\ marker.version \in Int /\ Version(ctx.log) \in Nat
    BY <2>1, <2>2, SnapTyped, ContextTyped DEF Typed
  <2>4. /\ Stored(b, entries) \in Contexts /\ Version(b.log) <= Version(Stored(b, entries).log)
        /\ Stored(b, <<>>) = b
    BY <2>3, StoredTyped
  <2>5. Loaded.log = Stored(b, entries).log
    BY <2>2 DEF Loaded, LoadFrom, Stored, ApplyTree
  <2>6. Version(b.log) \in Nat /\ Version(Stored(b, entries).log) \in Nat
    BY <2>3, <2>4, ContextTyped
  <2>7. Store = b \/ Store = Stored(b, entries)
    BY <2>2, <2>4 DEF Store
  <2>8. marker.version <= Version(Store.log)
    BY <2>1, <2>3 DEF Held, StoreOK
  <2> QED BY <2>3, <2>4, <2>5, <2>6, <2>7, <2>8
<1> QED
  BY <1>1, <1>2, <1>3 DEF SessionIsSaved

(***************************************************************************)
(* Unless a rewrite stands half done or one of Hurts came about, what a    *)
(* restart loads from the snapshot and the append log is the artifacts,    *)
(* the pending events and the history of the last write that completed,    *)
(* and no commit at or below the marker is missing from the store: the     *)
(* incremental saves of _persistence.py:27-147, overlapping, abandoned and *)
(* stopped as they may be, lose nothing.  The data also survives entries   *)
(* that a broken connection or an overlapping save wrote twice.            *)
(***************************************************************************)
THEOREM SessionSaved == Spec => []SessionIsSaved
<1>1. Init => Whole
  BY InitWhole
<1>2. Whole /\ [Next]_vars => Whole'
  BY NextKeepsWhole
<1>3. Whole => SessionIsSaved
  BY WholeIsSaved
<1> QED
  BY <1>1, <1>2, <1>3, PTL DEF Spec

-----------------------------------------------------------------------------
(* A stopped rewrite is repeated *)

Due == RewriteDue \/ LogFull

Clearing(s) == \E t \in Jobs \ {s} : job[t].at = "clear"

(* Entries without a snapshot belong to a deletion, or are there when the   *)
(* session is opened.                                                       *)
LeftByDeletion ==
  snap = <<>> /\ entries # <<>> =>
    (\E s \in Jobs : job[s].at = "dropEntries") \/ marker.version < 0

(* What becomes of a rewrite in need of repetition, before its snapshot ... *)
SetRepeats(s) ==
  job[s].at = "set" /\ job[s].owned /\ faults <= 1 =>
    \/ Due \/ Clearing(s)
    \/ entries = <<>> /\ (snap = <<>> \/ \A t \in Jobs \ {s} : job[t].at = "idle")

(* ... and before it clears the entries.                                    *)
ClearRepeats(s) ==
  job[s].at = "clear" /\ job[s].owned /\ faults <= 1 /\ gap => Due \/ Clearing(s)

Repeats ==
  /\ LeftByDeletion
  /\ gap => entries # <<>>
  /\ \A s \in Jobs : SetRepeats(s) /\ ClearRepeats(s)
  /\ StoppedRewriteIsRepeated

(* With all that was proved so far.                                         *)
Sound == Inv /\ Whole /\ (hurt = {} => Repeats)

LEMMA SoundFacts ==
  ASSUME Sound
  PROVE  /\ Typed /\ faults \in Nat /\ CompactEvery \in Nat
         /\ Len(entries) \in Nat /\ entries \in Seq(Entries)
         /\ \A s, t \in Jobs : (/\ job[s].at # "idle" /\ job[s].owned
                                /\ job[t].at # "idle" /\ job[t].owned) => s = t
         /\ hurt = {} => Held /\ Repeats
<1>1. Typed /\ faults \in Nat /\ (hurt = {} => Held /\ Repeats)
  BY DEF Sound, Whole, Calm, Inv, Shapes
<1>2. \A s, t \in Jobs : (/\ job[s].at # "idle" /\ job[s].owned
                          /\ job[t].at # "idle" /\ job[t].owned) => s = t
  BY DEF Sound, Inv, OneAwaited, Running
<1>3. entries \in Seq(Entries)
  BY <1>1 DEF Typed
<1>4. Len(entries) \in Nat
  BY <1>3
<1> QED
  BY <1>1, <1>2, <1>3, <1>4, StoreAssumption DEF StoreAssumption

(* One fault leaves room for one abandoned save.                            *)
LEMMA OneStray ==
  ASSUME Sound, faults <= 1, NEW s \in Jobs, job[s].at # "idle", ~job[s].owned,
         NEW t \in Jobs, job[t].at # "idle", ~job[t].owned
  PROVE  s = t
<1> SUFFICES ASSUME s # t PROVE FALSE
  OBVIOUS
<1>1. {s, t} \subseteq Strays /\ Strays \in SUBSET Jobs /\ faults \in Nat
  BY SoundFacts DEF Strays, Running
<1>2. {s, t} \in SUBSET Jobs
  OBVIOUS
<1>3. Cardinality({s, t}) <= Cardinality(Strays)
  BY <1>1, <1>2, CardinalityGrows
<1>4. IsFiniteSet({s}) /\ Cardinality({s}) = 1
  BY FS_Singleton
<1>5. Cardinality({s} \cup {t}) = 2
  <2>1. t \notin {s}
    OBVIOUS
  <2>2. Cardinality({s} \cup {t}) = Cardinality({s}) + 1
    BY <1>4, <2>1, FS_AddElement
  <2> QED BY <1>4, <2>2
<1>6. {s, t} = {s} \cup {t}
  OBVIOUS
<1>7. Cardinality(Strays) <= 1
  BY <1>1, CardinalityOfPart DEF Sound, Inv, StraysCharged
<1> QED
  BY <1>1, <1>3, <1>5, <1>6, <1>7, CardinalityOfPart

(* The repetition of a rewrite stays due while neither the Context nor the  *)
(* marker nor the entries change.                                           *)
LEMMA DueStays ==
  ASSUME ctx' = ctx, marker' = marker, entries' = entries
  PROVE  Due' = Due /\ RewriteDue' = RewriteDue /\ LogFull' = LogFull
BY DEF Due, RewriteDue, LogFull

(* One job moves on, and the store stays as it is.                          *)
LEMMA MovingRepeats ==
  ASSUME Sound, hurt = {}, NEW s \in Jobs, \A t \in Jobs \ {s} : job'[t] = job[t],
         UNCHANGED <<ctx, marker, snap, entries, gap, hurt>>,
         faults' \in {faults, faults + 1},
         job[s].at \in {"clear", "dropEntries"} => job'[s].at = job[s].at,
         job[s].at = "idle" => \A t \in Jobs : job[t].at # "idle" => ~job[t].owned,
         SetRepeats(s)', ClearRepeats(s)'
  PROVE  Repeats'
<1>1. /\ Typed /\ faults \in Nat /\ faults' \in Nat /\ Repeats /\ Due' = Due
      /\ (faults' <= 1 => faults <= 1) /\ (faults' <= 2 => faults <= 2)
      /\ RewriteDue' = RewriteDue /\ LogFull' = LogFull
  BY SoundFacts, DueStays
<1>2. LeftByDeletion'
  BY <1>1 DEF Repeats, LeftByDeletion
<1>3. ASSUME NEW t \in Jobs \ {s} PROVE SetRepeats(t)' /\ ClearRepeats(t)'
  <2>1. SetRepeats(t) /\ ClearRepeats(t) /\ job'[t] = job[t]
    BY <1>1 DEF Repeats
  <2>2. Clearing(t) => Clearing(t)'
    BY DEF Clearing
  <2>3. job[s].at = "idle" => ~(job[t].at \in {"set", "clear"} /\ job[t].owned)
    OBVIOUS
  <2>4. SetRepeats(t)'
    BY <1>1, <2>1, <2>2, <2>3 DEF SetRepeats
  <2> QED BY <1>1, <2>1, <2>2, <2>4 DEF ClearRepeats
<1>4. StoppedRewriteIsRepeated'
  BY <1>1 DEF Repeats, StoppedRewriteIsRepeated, NothingStored
<1> QED
  BY <1>1, <1>2, <1>3, <1>4 DEF Repeats

LEMMA StartSaveRepeats ==
  ASSUME Sound, NEW s \in Jobs, StartSave(s), hurt = {}
  PROVE  Repeats'
<1> DEFINE r == [at    |-> IF RewriteDue THEN "set" ELSE "get",
                 owned |-> TRUE,
                 from  |-> marker.version,
                 taken |-> IF RewriteDue THEN ctx ELSE EmptyContext]
<1>1. /\ job[s].at = "idle" /\ ~Awaiting /\ job' = [job EXCEPT ![s] = r]
      /\ UNCHANGED <<ctx, marker, snap, entries, gap, hurt, faults>>
  BY DEF StartSave, storeVars
<1>2. Typed
  BY SoundFacts
<1>3. job'[s] = r /\ \A t \in Jobs \ {s} : job'[t] = job[t]
  BY <1>1, <1>2 DEF Typed, JobsIn
<1>4. SetRepeats(s)' /\ ClearRepeats(s)'
  BY <1>1, <1>3, DueStays DEF SetRepeats, ClearRepeats, Due
<1>5. \A t \in Jobs : job[t].at # "idle" => ~job[t].owned
  BY <1>1 DEF Awaiting, Running
<1> HIDE DEF r
<1> QED
  BY <1>1, <1>3, <1>4, <1>5, MovingRepeats

LEMMA StartDeleteRepeats ==
  ASSUME Sound, NEW s \in Jobs, StartDelete(s), hurt = {}
  PROVE  Repeats'
<1> DEFINE r == [Idle EXCEPT !.at = "drop", !.owned = TRUE]
<1>1. /\ job[s].at = "idle" /\ ~Awaiting /\ job' = [job EXCEPT ![s] = r]
      /\ UNCHANGED <<ctx, marker, snap, entries, gap, hurt, faults>>
  BY DEF StartDelete, storeVars
<1>2. Typed /\ r.at = "drop"
  BY SoundFacts DEF Idle
<1>3. job'[s] = r /\ \A t \in Jobs \ {s} : job'[t] = job[t]
  BY <1>1, <1>2 DEF Typed, JobsIn
<1>4. SetRepeats(s)' /\ ClearRepeats(s)'
  BY <1>2, <1>3 DEF SetRepeats, ClearRepeats
<1>5. \A t \in Jobs : job[t].at # "idle" => ~job[t].owned
  BY <1>1 DEF Awaiting, Running
<1> HIDE DEF r
<1> QED
  BY <1>1, <1>3, <1>4, <1>5, MovingRepeats

LEMMA LandGetRepeats ==
  ASSUME Sound, NEW s \in Jobs, LandGet(s), hurt = {}
  PROVE  Repeats'
<1>1. /\ Served(s) /\ job[s].at = "get"
      /\ UNCHANGED <<ctx, marker, snap, entries, gap, hurt, faults>>
  BY DEF LandGet, storeVars
<1>2. Typed /\ LineOK /\ Held /\ Repeats /\ s \in Running
  BY <1>1, SoundFacts, ServedRuns DEF Sound, Whole
<1>3. /\ Steps(s) /\ job'[s].owned = job[s].owned
      /\ \/ job'[s].at = "set" /\ NothingStored
         \/ job'[s].at = "count"
  <2>1. CASE NothingStored
    <3>1. ProceedWith(s, "set")
      BY <2>1 DEF LandGet
    <3>2. Steps(s) /\ job'[s] = [job[s] EXCEPT !.at = "set", !.taken = ctx]
      BY <1>1, <1>2, <3>1, StagesAre, ProceedWithSteps
    <3> QED BY <1>2, <2>1, <3>2, JobTyped
  <2>2. CASE ~NothingStored
    <3>1. Proceed(s, "count")
      BY <2>2 DEF LandGet
    <3>2. Steps(s) /\ job'[s] = [job[s] EXCEPT !.at = "count"]
      BY <1>1, <1>2, <3>1, StagesAre, ProceedSteps
    <3> QED BY <1>2, <3>2, JobTyped
  <2> QED BY <2>1, <2>2
<1>4. SetRepeats(s)'
  <2> SUFFICES ASSUME job'[s].at = "set", job'[s].owned PROVE entries = <<>> /\ snap = <<>>
    BY <1>1 DEF SetRepeats
  <2>1. snap = <<>> /\ job[s].owned
    BY <1>3 DEF NothingStored
  <2>2. ~(marker.version < 0)
    BY <1>1, <1>2 DEF Held, JobsOK, JobOK, Early, RewriteDue
  <2>3. \A t \in Jobs : job[t].at # "dropEntries"
    BY <1>1, <1>2, <2>1, SoundFacts DEF Held, JobsOK, JobOK
  <2> QED BY <1>2, <2>1, <2>2, <2>3 DEF Repeats, LeftByDeletion
<1>5. ClearRepeats(s)'
  BY <1>3 DEF ClearRepeats
<1> QED
  BY <1>1, <1>3, <1>4, <1>5, MovingRepeats DEF Steps

LEMMA LandCountRepeats ==
  ASSUME Sound, NEW s \in Jobs, LandCount(s), hurt = {}
  PROVE  Repeats'
<1>1. /\ Served(s) /\ job[s].at = "count" /\ ProceedWith(s, IF LogFull THEN "set" ELSE "append")
      /\ UNCHANGED <<ctx, marker, snap, entries, gap, hurt, faults>>
  BY DEF LandCount, storeVars
<1>2. Typed /\ LineOK /\ s \in Running
  BY <1>1, SoundFacts, ServedRuns DEF Sound, Whole
<1>3. /\ Steps(s) /\ job'[s].at = (IF LogFull THEN "set" ELSE "append")
  <2>1. PICK stage \in {"set", "append"} : stage = IF LogFull THEN "set" ELSE "append"
    OBVIOUS
  <2>2. Steps(s) /\ job'[s] = [job[s] EXCEPT !.at = stage, !.taken = ctx]
    BY <1>1, <1>2, <2>1, StagesAre, ProceedWithSteps
  <2> QED BY <1>2, <2>1, <2>2, JobTyped
<1>4. SetRepeats(s)' /\ ClearRepeats(s)'
  BY <1>1, <1>3, DueStays DEF SetRepeats, ClearRepeats, Due
<1> QED
  BY <1>1, <1>3, <1>4, MovingRepeats DEF Steps

LEMMA AbandonRepeats ==
  ASSUME Sound, NEW s \in Jobs, Abandon(s), hurt = {}
  PROVE  Repeats'
<1> DEFINE r == [job[s] EXCEPT !.owned = FALSE]
<1>1. /\ job[s].at \in {"get", "count", "set", "clear", "append"}
      /\ job' = [job EXCEPT ![s] = r] /\ faults' = faults + 1
      /\ UNCHANGED <<ctx, marker, snap, entries, gap, hurt>>
  BY DEF Abandon, Fault, storeVars
<1>2. Typed
  BY SoundFacts
<1>3. r.at = job[s].at /\ r.owned = FALSE
  BY <1>2, JobTyped
<1>4. job'[s] = r /\ \A t \in Jobs \ {s} : job'[t] = job[t]
  BY <1>1, <1>2 DEF Typed, JobsIn
<1> HIDE DEF r
<1>5. SetRepeats(s)' /\ ClearRepeats(s)'
  BY <1>3, <1>4 DEF SetRepeats, ClearRepeats
<1> QED
  BY <1>1, <1>3, <1>4, <1>5, MovingRepeats

(* A rewrite's snapshot takes effect, and it goes on to clear the entries   *)
(* or is stopped.                                                           *)
LEMMA SnapshotRepeats ==
  ASSUME Sound, hurt = {}, NEW s \in Jobs, job[s].at = "set", WriteSnapshot(job[s].taken),
         \A t \in Jobs \ {s} : job'[t] = job[t], UNCHANGED <<ctx, marker, hurt>>,
         \/ job'[s].at = "clear" /\ job'[s].owned = job[s].owned /\ faults' = faults
         \/ job'[s].at = "idle" /\ job[s].owned /\ faults' = faults + 1
  PROVE  Repeats'
<1>1. snap' # <<>> /\ gap' = (entries # <<>>) /\ entries' = entries
  BY DEF WriteSnapshot
<1>2. /\ faults \in Nat /\ (faults' <= 1 => faults <= 1) /\ Repeats
      /\ Due' = Due /\ RewriteDue' = RewriteDue /\ LogFull' = LogFull
  BY <1>1, SoundFacts, DueStays
<1>3. faults <= 1 /\ job[s].owned /\ gap' => Due' \/ Clearing(s)
  BY <1>1, <1>2 DEF Repeats, SetRepeats
<1>4. Clearing(s) => Clearing(s)'
  BY DEF Clearing
<1>5. ASSUME NEW t \in Jobs \ {s} PROVE SetRepeats(t)' /\ ClearRepeats(t)'
  <2>1. SetRepeats(t) /\ ClearRepeats(t) /\ job'[t] = job[t]
    BY <1>2 DEF Repeats
  <2>2. CASE job'[s].at = "clear"
    <3>1. Clearing(t)'
      BY <2>2 DEF Clearing
    <3> QED BY <3>1 DEF SetRepeats, ClearRepeats
  <2>3. CASE job'[s].at = "idle" /\ job[s].owned
    <3>1. ~(job[t].at \in {"set", "clear"} /\ job[t].owned)
      BY <2>3, SoundFacts
    <3> QED BY <2>1, <3>1 DEF SetRepeats, ClearRepeats
  <2> QED BY <2>2, <2>3
<1>6. SetRepeats(s)' /\ ClearRepeats(s)'
  BY <1>2, <1>3, <1>4 DEF SetRepeats, ClearRepeats
<1>7. StoppedRewriteIsRepeated'
  <2>1. CASE job'[s].at = "clear"
    BY <2>1 DEF StoppedRewriteIsRepeated
  <2>2. CASE job'[s].at = "idle" /\ job[s].owned /\ faults' = faults + 1
    <3>1. faults' <= 2 => faults <= 1
      BY <1>2, <2>2
    <3>2. Clearing(s) => \E t \in Jobs : job'[t].at = "clear"
      BY DEF Clearing
    <3> QED BY <1>2, <1>3, <2>2, <3>1, <3>2 DEF StoppedRewriteIsRepeated, Due
  <2> QED BY <2>1, <2>2
<1> QED
  BY <1>1, <1>5, <1>6, <1>7 DEF Repeats, LeftByDeletion

(* The entries are cleared.                                                 *)
LEMMA ClearRepeated ==
  ASSUME Sound, hurt = {}, NEW s \in Jobs, job[s].at \in {"clear", "dropEntries"}, ClearEntries,
         \A t \in Jobs \ {s} : job'[t] = job[t], job'[s].at = "idle",
         faults' \in {faults, faults + 1}
  PROVE  Repeats'
<1>1. entries' = <<>> /\ gap' = FALSE
  BY DEF ClearEntries
<1>2. faults \in Nat /\ (faults' <= 1 => faults <= 1)
  BY SoundFacts
<1>3. ASSUME NEW t \in Jobs PROVE SetRepeats(t)' /\ ClearRepeats(t)'
  <2> SUFFICES ASSUME t # s, job[t].at = "set", job[t].owned, faults <= 1, NEW u \in Jobs \ {t}
               PROVE  job'[u].at = "idle"
    BY <1>1, <1>2 DEF SetRepeats, ClearRepeats
  <2>1. ~job[s].owned
    BY SoundFacts
  <2>2. CASE u = s
    BY <2>2
  <2>3. CASE u # s
    <3> SUFFICES ASSUME job[u].at # "idle" PROVE FALSE
      BY <2>3
    <3>1. ~job[u].owned
      BY SoundFacts
    <3> QED BY <2>1, <2>3, <3>1, OneStray
  <2> QED BY <2>2, <2>3
<1> QED
  BY <1>1, <1>3 DEF Repeats, LeftByDeletion, StoppedRewriteIsRepeated

(* An entry is written.                                                     *)
LEMMA AppendRepeats ==
  ASSUME Sound, hurt' = {}, NEW s \in Jobs, job[s].at = "append",
         NEW times \in {1, 2}, WriteEntry(s, times),
         \A t \in Jobs \ {s} : job'[t] = job[t], job'[s].at = "idle",
         faults' \in {faults, faults + 1}
  PROVE  Repeats'
<1> DEFINE e == Entry(job[s].taken, job[s].from)
<1>1. /\ entries' = entries \o [n \in 1 .. times |-> e]
      /\ gap' = (gap \/ snap = <<>>) /\ snap' = snap
      /\ hurt \subseteq hurt'
      /\ When(gap /\ \A t \in Jobs : job[t].at # "clear", "torn") \subseteq hurt'
      /\ When(snap = <<>>, "orphaned") \subseteq hurt'
  BY DEF WriteEntry, Suffer
<1>2. snap # <<>> /\ (gap => \E t \in Jobs : job[t].at = "clear")
  BY <1>1 DEF When
<1>3. hurt = {} /\ gap \in BOOLEAN
  BY <1>1, SoundFacts DEF Typed
<1>4. /\ Typed /\ Held /\ Repeats /\ faults \in Nat /\ (faults' <= 1 => faults <= 1)
      /\ entries \in Seq(Entries) /\ Len(entries) \in Nat
  BY <1>3, SoundFacts
<1>5. entries' # <<>> /\ Len(entries') = Len(entries) + times
  <2>1. PICK more : more = [n \in 1 .. times |-> e]
    OBVIOUS
  <2>2. Len(more) = times /\ more \in Seq({e})
    BY <2>1
  <2>3. Len(entries \o more) = Len(entries) + times
    BY <1>4, <2>2
  <2> QED BY <1>1, <1>4, <2>1, <2>3
<1> HIDE DEF e
<1>6. Due => Due'
  <2>1. ~RewriteDue
    BY <1>4 DEF Held, JobsOK, JobOK, Early
  <2>2. LogFull => LogFull'
    BY <1>4, <1>5, SoundFacts DEF LogFull
  <2> QED BY <2>1, <2>2 DEF Due
<1>7. gap' = gap
  BY <1>1, <1>2, <1>3
<1>8. ASSUME NEW t \in Jobs PROVE SetRepeats(t)' /\ ClearRepeats(t)'
  <2>1. CASE t = s
    BY <2>1 DEF SetRepeats, ClearRepeats
  <2>2. CASE t # s
    <3>1. SetRepeats(t) /\ ClearRepeats(t) /\ job'[t] = job[t]
      BY <1>4, <2>2 DEF Repeats
    <3>2. Clearing(t) => Clearing(t)'
      BY DEF Clearing
    <3>3. ~(\A u \in Jobs \ {t} : job[u].at = "idle")
      BY <2>2
    <3>4. SetRepeats(t)'
      BY <1>2, <1>4, <1>6, <3>1, <3>2, <3>3 DEF SetRepeats
    <3>5. ClearRepeats(t)'
      BY <1>4, <1>6, <1>7, <3>1, <3>2 DEF ClearRepeats
    <3> QED BY <3>4, <3>5
  <2> QED BY <2>1, <2>2
<1>9. StoppedRewriteIsRepeated'
  BY <1>2, <1>7 DEF StoppedRewriteIsRepeated
<1> QED
  BY <1>1, <1>2, <1>5, <1>8, <1>9 DEF Repeats, LeftByDeletion

(* A session is deleted, which nothing else waits for.                      *)
LEMMA DropRepeats ==
  ASSUME Sound, hurt' = {}, hurt = {}, NEW s \in Jobs, job[s].at = "drop", DropSnapshot,
         \A t \in Jobs \ {s} : job'[t] = job[t],
         job'[s].at = "dropEntries" \/ (job'[s].at = "idle" /\ entries = <<>>)
  PROVE  Repeats'
<1>1. snap' = <<>> /\ gap' = (entries # <<>>) /\ entries' = entries
  BY DEF DropSnapshot
<1>2. job[s].owned
  BY SoundFacts DEF Held, JobsOK, JobOK
<1>3. \A t \in Jobs : job'[t].at \in {"set", "clear"} => ~job'[t].owned
  BY <1>2, SoundFacts
<1>4. LeftByDeletion'
  BY <1>1 DEF LeftByDeletion
<1> QED
  BY <1>1, <1>3, <1>4
     DEF Repeats, SetRepeats, ClearRepeats, StoppedRewriteIsRepeated, NothingStored

(* The Context changes.                                                     *)
LEMMA ContextRepeats ==
  ASSUME Sound, hurt' = {}, hurt = {}, UNCHANGED <<marker, storeVars, jobVars, faults>>,
         RewriteDue => RewriteDue'
  PROVE  Repeats'
<1>1. /\ marker' = marker /\ snap' = snap /\ entries' = entries /\ gap' = gap
      /\ job' = job /\ faults' = faults
  BY DEF storeVars, jobVars
<1>2. Repeats /\ (Due => Due') /\ LogFull' = LogFull
  BY <1>1, SoundFacts DEF Due, LogFull
<1>3. ASSUME NEW t \in Jobs PROVE SetRepeats(t)' /\ ClearRepeats(t)'
  <2>1. SetRepeats(t) /\ ClearRepeats(t)
    BY <1>2 DEF Repeats
  <2> QED BY <1>1, <1>2, <2>1 DEF SetRepeats, ClearRepeats, Clearing
<1>4. LeftByDeletion'
  BY <1>1, <1>2 DEF Repeats, LeftByDeletion
<1>5. StoppedRewriteIsRepeated'
  BY <1>1, <1>2 DEF Repeats, StoppedRewriteIsRepeated, NothingStored
<1> QED
  BY <1>1, <1>2, <1>3, <1>4, <1>5 DEF Repeats

LEMMA StopRepeats ==
  ASSUME Sound, NEW s \in Jobs, Stop(s), hurt' = {}
  PROVE  Repeats'
<1>1. /\ job[s].owned /\ Leave(s) /\ faults' = faults + 1
      /\ UNCHANGED <<ctx, marker, snap, entries, gap>>
      /\ hurt' = hurt \cup When(job[s].at = "dropEntries" /\ entries # <<>>, "orphaned")
  BY DEF Stop, Suffer, Fault, storeVars
<1>2. hurt = {} /\ ~(job[s].at = "dropEntries" /\ entries # <<>>)
  BY <1>1 DEF When
<1>3. /\ Typed /\ LineOK /\ Repeats /\ faults \in Nat
      /\ Due' = Due /\ RewriteDue' = RewriteDue /\ LogFull' = LogFull
  BY <1>1, <1>2, SoundFacts, DueStays DEF Sound, Whole
<1>4. s \in Running
  <2>1. PICK n \in DOMAIN line : line[n] = s
    BY <1>1 DEF Leave
  <2>2. line \in Seq(Running)
    BY <1>3 DEF LineOK, Lists
  <2> QED BY <2>1, <2>2
<1>5. job'[s].at = "idle" /\ \A t \in Jobs \ {s} : job'[t] = job[t]
  BY <1>1, <1>3, <1>4, LeaveSteps DEF Idle, Steps
<1>6. SetRepeats(s)' /\ ClearRepeats(s)'
  BY <1>5 DEF SetRepeats, ClearRepeats
<1>7. CASE job[s].at \notin {"clear", "dropEntries"}
  BY <1>1, <1>2, <1>4, <1>5, <1>6, <1>7, MovingRepeats DEF Running
<1>8. CASE job[s].at \in {"clear", "dropEntries"}
  <2>1. \A t \in Jobs \ {s} : job'[t].at \in {"set", "clear"} => ~job'[t].owned
    BY <1>1, <1>5, <1>8, SoundFacts
  <2>2. \A t \in Jobs : SetRepeats(t)' /\ ClearRepeats(t)'
    BY <1>6, <2>1 DEF SetRepeats, ClearRepeats
  <2>3. LeftByDeletion'
    <3> SUFFICES ASSUME snap = <<>>, entries # <<>>, ~(marker.version < 0)
                 PROVE  \E t \in Jobs : job'[t].at = "dropEntries"
      BY <1>1 DEF LeftByDeletion
    <3>1. PICK t \in Jobs : job[t].at = "dropEntries"
      BY <1>3 DEF Repeats, LeftByDeletion
    <3>2. t # s
      BY <1>2, <3>1
    <3> QED BY <1>5, <3>1, <3>2
  <2>4. StoppedRewriteIsRepeated'
    <3> SUFFICES ASSUME faults <= 1, gap PROVE (\E t \in Jobs : job'[t].at = "clear") \/ Due
      BY <1>1, <1>3 DEF StoppedRewriteIsRepeated, Due
    <3>1. job[s].at = "clear"
      BY <1>2, <1>3, <1>8 DEF Repeats
    <3>2. Due \/ Clearing(s)
      BY <1>1, <1>3, <3>1 DEF Repeats, ClearRepeats
    <3> QED BY <1>5, <3>2 DEF Clearing
  <2>5. gap' => entries' # <<>>
    BY <1>1, <1>3 DEF Repeats
  <2> QED BY <2>2, <2>3, <2>4, <2>5 DEF Repeats
<1> QED
  BY <1>7, <1>8

LEMMA SaveRepeats ==
  ASSUME Sound, NEW s \in Jobs, Save(s), hurt' = {}
  PROVE  Repeats'
<1>1. Typed /\ LineOK
  BY DEF Sound, Whole
<1>2. CASE LandGet(s)
  BY <1>2, LandGetRepeats DEF LandGet
<1>3. CASE LandCount(s)
  BY <1>3, LandCountRepeats DEF LandCount
<1>4. CASE LandSet(s)
  <2>1. /\ Served(s) /\ job[s].at = "set" /\ WriteSnapshot(job[s].taken) /\ Proceed(s, "clear")
        /\ UNCHANGED <<ctx, marker, hurt, faults>>
    BY <1>4 DEF LandSet
  <2>2. s \in Running
    BY <2>1, ServedRuns
  <2>3. Steps(s) /\ job'[s].at = "clear" /\ job'[s].owned = job[s].owned
    <3>1. Steps(s) /\ job'[s] = [job[s] EXCEPT !.at = "clear"]
      BY <1>1, <2>1, <2>2, StagesAre, ProceedSteps
    <3> QED BY <1>1, <3>1, JobTyped
  <2> QED BY <2>1, <2>3, SnapshotRepeats DEF Steps
<1>5. CASE LandClear(s)
  <2>1. /\ Served(s) /\ job[s].at = "clear" /\ ClearEntries /\ Finish(s) /\ UNCHANGED <<hurt, faults>>
    BY <1>5 DEF LandClear
  <2>2. Steps(s) /\ job'[s].at = "idle"
    BY <1>1, <2>1, ServedRuns, FinishSteps DEF Idle
  <2> QED BY <2>1, <2>2, ClearRepeated DEF Steps
<1>6. CASE LandAppend(s)
  <2>1. /\ Served(s) /\ job[s].at = "append" /\ Finish(s)
        /\ faults' \in {faults, faults + 1}
        /\ \E times \in {1, 2} : WriteEntry(s, times)
    BY <1>6 DEF LandAppend, Fault
  <2>2. Steps(s) /\ job'[s].at = "idle"
    BY <1>1, <2>1, ServedRuns, FinishSteps DEF Idle
  <2> QED BY <2>1, <2>2, AppendRepeats DEF Steps
<1> QED
  BY <1>2, <1>3, <1>4, <1>5, <1>6 DEF Save

LEMMA DeleteRepeats ==
  ASSUME Sound, NEW s \in Jobs, Delete(s), hurt' = {}
  PROVE  Repeats'
<1>1. Typed /\ LineOK
  BY DEF Sound, Whole
<1>2. CASE LandDrop(s)
  <2>1. /\ Served(s) /\ job[s].at = "drop" /\ DropSnapshot /\ Proceed(s, "dropEntries")
        /\ UNCHANGED hurt
    BY <1>2 DEF LandDrop
  <2>2. Steps(s) /\ job'[s].at = "dropEntries"
    <3>1. Steps(s) /\ job'[s] = [job[s] EXCEPT !.at = "dropEntries"]
      BY <1>1, <2>1, StagesAre, ServedRuns, ProceedSteps
    <3> QED BY <1>1, <3>1, JobTyped
  <2> QED BY <2>1, <2>2, DropRepeats DEF Steps
<1>3. CASE LandDropEntries(s)
  <2>1. /\ Served(s) /\ job[s].at = "dropEntries" /\ ClearEntries /\ Finish(s)
        /\ UNCHANGED <<hurt, faults>>
    BY <1>3 DEF LandDropEntries
  <2>2. Steps(s) /\ job'[s].at = "idle"
    BY <1>1, <2>1, ServedRuns, FinishSteps DEF Idle
  <2> QED BY <2>1, <2>2, ClearRepeated DEF Steps
<1> QED
  BY <1>2, <1>3 DEF Delete

LEMMA StopTooLateRepeats ==
  ASSUME Sound, NEW s \in Jobs, StopTooLate(s), hurt' = {}
  PROVE  Repeats'
<1>1. /\ job[s].owned /\ Served(s) /\ Leave(s) /\ UNCHANGED <<ctx, marker>> /\ faults' = faults + 1
      /\ \/ job[s].at = "set" /\ WriteSnapshot(job[s].taken) /\ UNCHANGED hurt
         \/ job[s].at = "append" /\ WriteEntry(s, 1)
         \/ job[s].at \in {"clear", "dropEntries"} /\ ClearEntries /\ UNCHANGED hurt
         \/ /\ job[s].at = "drop" /\ DropSnapshot
            /\ hurt' = hurt \cup When(entries # <<>>, "orphaned")
  BY DEF StopTooLate, Suffer, Fault
<1>2. Typed /\ LineOK
  BY DEF Sound, Whole
<1>3. s \in Running
  BY <1>1, ServedRuns
<1>4. job'[s].at = "idle" /\ \A t \in Jobs \ {s} : job'[t] = job[t]
  BY <1>1, <1>2, <1>3, LeaveSteps DEF Idle, Steps
<1>5. CASE job[s].at = "set" /\ WriteSnapshot(job[s].taken) /\ UNCHANGED hurt
  BY <1>1, <1>4, <1>5, SnapshotRepeats
<1>6. CASE job[s].at = "append" /\ WriteEntry(s, 1)
  BY <1>1, <1>4, <1>6, AppendRepeats
<1>7. CASE job[s].at \in {"clear", "dropEntries"} /\ ClearEntries /\ UNCHANGED hurt
  BY <1>1, <1>4, <1>7, ClearRepeated
<1>8. CASE job[s].at = "drop" /\ DropSnapshot /\ hurt' = hurt \cup When(entries # <<>>, "orphaned")
  <2>1. hurt = {} /\ entries = <<>>
    BY <1>8 DEF When
  <2> QED BY <1>4, <1>8, <2>1, DropRepeats
<1> QED
  BY <1>1, <1>5, <1>6, <1>7, <1>8

LEMMA ApplicationRepeats ==
  ASSUME Sound, Application, hurt' = {}
  PROVE  Repeats'
<1>1. /\ UNCHANGED <<marker, storeVars, jobVars, faults>> /\ hurt \subseteq hurt'
  BY DEF Application, Touch, Commit, ConsumeEvents, Checkout, Compact, Suffer
<1>2. hurt = {}
  BY <1>1
<1>3. /\ Typed /\ Held /\ marker' = marker
      /\ ctx \in Contexts /\ ctx.log \in Logs
      /\ Version(ctx.log) \in Nat /\ ctx.log.floor \in Nat
      /\ marker.version \in Int /\ marker.floor \in Nat
  BY <1>1, <1>2, SoundFacts, ContextTyped DEF Typed
<1>4. ctx'.log = ctx.log => (RewriteDue => RewriteDue')
  BY <1>3 DEF RewriteDue
<1>5. ASSUME NEW i \in Items, NEW v \in Vals \cup {Absent}, Touch(i, v)
      PROVE  RewriteDue => RewriteDue'
  <2>1. ctx'.log = ctx.log
    BY <1>3, <1>5 DEF Touch, SetArtifacts, Contexts
  <2> QED BY <1>4, <2>1
<1>6. ASSUME ConsumeEvents PROVE RewriteDue => RewriteDue'
  <2>1. ctx'.log = ctx.log
    BY <1>3, <1>6 DEF ConsumeEvents, Contexts
  <2> QED BY <1>4, <2>1
<1>7. ASSUME NEW c \in Commits, Commit(c) PROVE RewriteDue => RewriteDue'
  <2>1. PICK new : new = AppendCommit(ctx.log, c)
    OBVIOUS
  <2>2. ctx'.log = new
    BY <1>3, <1>7, <2>1 DEF Commit, SetArtifacts, Contexts
  <2>3. new.floor = ctx.log.floor /\ Version(new) = Version(ctx.log) + 1
    BY <1>3, <2>1, LongerChain
  <2>4. ~(rolled /\ Version(new) >= marker.version)
    <3>1. When(rolled /\ Version(ctx'.log) >= marker.version, "hidden") \subseteq hurt'
      BY <1>7 DEF Commit, Suffer
    <3> QED BY <2>2, <3>1 DEF When
  <2>5. marker.version > Version(ctx.log) => rolled
    BY <1>3 DEF Held, MarkOK
  <2> QED BY <1>3, <2>2, <2>3, <2>4, <2>5 DEF RewriteDue
<1>8. ASSUME NEW v \in 0 .. MaxCommits, Checkout(v) PROVE RewriteDue => RewriteDue'
  <2>1. PICK new : new = Truncate(ctx.log, v)
    OBVIOUS
  <2>2. ctx'.log = new /\ v \in ctx.log.floor .. Version(ctx.log)
    BY <1>8, <2>1 DEF Checkout
  <2>3. new.floor = ctx.log.floor /\ Version(new) = v
    BY <1>3, <2>1, <2>2, ShorterChain
  <2> QED BY <1>3, <2>2, <2>3 DEF RewriteDue
<1>9. ASSUME NEW keep \in 0 .. MaxCommits, Compact(keep) PROVE RewriteDue => RewriteDue'
  <2>1. PICK cutoff : cutoff = Version(ctx.log) - keep
    OBVIOUS
  <2>2. PICK new : new = CompactTo(ctx.log, cutoff)
    OBVIOUS
  <2>3. ctx'.log = new /\ cutoff > ctx.log.floor /\ keep \in Nat
    BY <1>3, <1>9, <2>1, <2>2 DEF Compact, Contexts
  <2>4. cutoff \in ctx.log.floor .. Version(ctx.log)
    BY <1>3, <2>1, <2>3
  <2>5. new.floor = cutoff /\ Version(new) = Version(ctx.log)
    BY <1>3, <2>2, <2>4, YoungerChain
  <2> QED BY <1>3, <2>3, <2>4, <2>5 DEF RewriteDue
<1>10. RewriteDue => RewriteDue'
  BY <1>5, <1>6, <1>7, <1>8, <1>9 DEF Application
<1> QED
  BY <1>1, <1>2, <1>10, ContextRepeats

LEMMA CrashRepeats ==
  ASSUME Sound, Crash, hurt' = {}
  PROVE  Repeats'
<1>1. /\ job' = [s \in Jobs |-> Idle]
      /\ marker' = (IF snap = <<>> THEN NoMark ELSE MarkOf(Reopened))
      /\ hurt' = hurt \cup When(gap /\ snap # <<>>, "torn")
      /\ snap' = snap /\ entries' = entries /\ gap' = gap
  BY DEF Crash, Suffer, storeVars
<1>2. hurt = {} /\ ~(gap /\ snap # <<>>)
  BY <1>1 DEF When
<1>3. Repeats
  BY <1>2, SoundFacts
<1>4. \A s \in Jobs : job'[s].at = "idle"
  BY <1>1 DEF Idle
<1>5. LeftByDeletion'
  BY <1>1 DEF LeftByDeletion, NoMark
<1> QED
  BY <1>1, <1>2, <1>3, <1>4, <1>5
     DEF Repeats, SetRepeats, ClearRepeats, StoppedRewriteIsRepeated, NothingStored

LEMMA NextRepeats ==
  ASSUME Sound, [Next]_vars, hurt' = {}
  PROVE  Repeats'
<1>1. ASSUME NEW s \in Jobs, StartSave(s) \/ StartDelete(s) \/ Abandon(s) PROVE Repeats'
  <2>1. hurt = {}
    BY <1>1 DEF StartSave, StartDelete, Abandon
  <2> QED BY <1>1, <2>1, StartSaveRepeats, StartDeleteRepeats, AbandonRepeats
<1>2. ASSUME UNCHANGED vars PROVE Repeats'
  <2>1. UNCHANGED <<ctx, marker, storeVars, jobVars, faults, hurt>>
    BY <1>2 DEF vars
  <2> QED BY <2>1, ContextRepeats DEF RewriteDue
<1> QED
  BY <1>1, <1>2, StopRepeats, StopTooLateRepeats, SaveRepeats, DeleteRepeats,
     ApplicationRepeats, CrashRepeats DEF Next

LEMMA InitSound == Init => Sound
<1> SUFFICES ASSUME Init PROVE Sound
  OBVIOUS
<1>1. snap = <<>> /\ entries = <<>> /\ gap = FALSE /\ job = [s \in Jobs |-> Idle]
  BY DEF Init
<1>2. \A s \in Jobs : job[s].at = "idle"
  BY <1>1 DEF Idle
<1>3. Repeats
  BY <1>1, <1>2 DEF Repeats, LeftByDeletion, SetRepeats, ClearRepeats, StoppedRewriteIsRepeated
<1> QED
  BY <1>3, InitInv, InitWhole DEF Sound

(***************************************************************************)
(* A snapshot rewrite that stopped between its two calls (save of the      *)
(* snapshot, then clear_entries, _persistence.py:41-48) leaves a store in  *)
(* which the next save finds a rewrite due again, as long as no more than  *)
(* two faults have happened.  More than one abandoned save can overtake    *)
(* the rewrite, clear the log in its stead and begin it anew, and TLC      *)
(* finds such a schedule when six saves and six faults are allowed.        *)
(***************************************************************************)
THEOREM RewriteRepeated == Spec => []StoppedRewriteIsRepeated
<1>1. Init => Sound
  BY InitSound
<1>2. Sound /\ [Next]_vars => Sound'
  <2> SUFFICES ASSUME Sound, [Next]_vars PROVE Sound'
    OBVIOUS
  <2>1. Inv' /\ Whole'
    BY NextInv, NextKeepsWhole DEF Sound
  <2>2. hurt' = {} => Repeats'
    BY NextRepeats
  <2> QED BY <2>1, <2>2 DEF Sound
<1>3. Sound => StoppedRewriteIsRepeated
  BY DEF Sound, Repeats, StoppedRewriteIsRepeated
<1> QED
  BY <1>1, <1>2, <1>3, PTL DEF Spec
=============================================================================
