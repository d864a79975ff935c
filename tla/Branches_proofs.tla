--------------------------- MODULE Branches_proofs ---------------------------
(* What TLAPS proves of Contexts, for every number of Contexts, items and   *)
(* values and no bound on what happens to them.                             *)
(*   I.  The outbox of two branches converges, whichever is the target.     *)
(*   II. Live data, producer index, stale set and history agree with the    *)
(*       commit chain.  The invariant is LogInv: what Fit asks of every     *)
(*       Context, the agent under way in it included.                       *)
(* Both rest on what replaying makes of a chain of commits that grows, is   *)
(* rolled back or is compacted, which comes first, with the proofs that     *)
(* AppendStore_proofs has too: a fold is computed by a run of states, one   *)
(* per commit (FoldReplays), and two runs that differed would first differ  *)
(* somewhere.                                                               *)
EXTENDS Branches, WellFoundedInduction, TLAPS

-----------------------------------------------------------------------------
(* Least elements *)

Smaller == {xy \in Nat \X Nat : xy[1] < xy[2]}

(* The natural numbers have no infinite descent, so what is not empty among *)
(* them has a least element, which Min picks.                               *)
LEMMA LeastNatural ==
  ASSUME NEW S, S \subseteq Nat, S # {}
  PROVE  Min(S) \in S /\ \A y \in S : Min(S) <= y
<1>1. IsWellFoundedOn(Smaller, Nat)
  BY NatLessThanWellFounded DEF OpToRel, Smaller
<1>2. \E x \in S : \A y \in S : ~ (<<y, x>> \in Smaller)
  BY Zenon, <1>1, WFMin
<1>3. ASSUME NEW x \in S, NEW y \in S, ~ (<<y, x>> \in Smaller)
      PROVE  x <= y
  BY <1>3 DEF Smaller
<1>4. \E x \in S : \A y \in S : x <= y
  BY Zenon, <1>2, <1>3
<1> QED
  BY Zenon, <1>4 DEF Min

(* A set of indices has a greatest one, which Max picks.                    *)
LEMMA MaxOfSegment ==
  ASSUME NEW n \in Nat, NEW s \in SUBSET (1 .. n), s # {}
  PROVE  Max(s) \in s /\ \A y \in s : Max(s) >= y
<1> DEFINE T == {n - x : x \in s}
<1>1. T \subseteq Nat /\ T # {}
  <2>1. \A x \in s : n - x \in Nat
    OBVIOUS
  <2> QED BY <2>1
<1>2. PICK m \in T : \A y \in T : m <= y
  BY Zenon, <1>1, LeastNatural
<1>3. PICK x \in s : m = n - x
  OBVIOUS
<1>4. \A y \in s : x >= y
  <2> TAKE y \in s
  <2>1. m <= n - y
    BY <1>2
  <2> QED BY <1>3, <2>1
<1> QED
  BY Zenon, <1>4 DEF Max

-----------------------------------------------------------------------------
(* Folds *)

(* g computes, for each set of indices up to n, what folding over it yields *)
(* that takes the greatest index away and makes a step with it: the         *)
(* recursion of Folds.tla as FoldLeft uses it.                              *)
FoldsOver(g, n, V, base, step) ==
  /\ g \in [SUBSET (1 .. n) -> V]
  /\ \A s \in SUBSET (1 .. n) :
       g[s] = IF s = {} THEN base ELSE step[<<g[s \ {Max(s)}], Max(s)>>]

(* What g says of the initial segments of the indices.                      *)
Segments(g, n) == [k \in 0 .. n |-> g[1 .. k]]

(* What is known of a g that is defined by that recursion, where nothing is *)
(* known yet of the values it takes.                                        *)
Recurs(g, n, V, base, step) ==
  \A s \in SUBSET (1 .. n) :
    IF s = {} THEN g[s] = base
    ELSE g[s \ {Max(s)}] \in V => g[s] = step[<<g[s \ {Max(s)}], Max(s)>>]

(* r begins with `base` and makes one step per index.                       *)
Runs(r, n, V, base, step) ==
  /\ r \in [0 .. n -> V] /\ r[0] = base
  /\ \A k \in 1 .. n : r[k] = step[<<r[k - 1], k>>]

(* What FoldLeft computes from `base` and `step` is computed by a function  *)
(* on the sets of indices: Folds.tla takes the last index away, one by one. *)
(* There is such a function whatever the step is, shown without an          *)
(* induction over operators: if there were none for some length, there      *)
(* would be a least such length.                                            *)
LEMMA FoldExists ==
  ASSUME NEW n \in Nat, NEW V, NEW base \in V, NEW step \in [V \X (1 .. n) -> V]
  PROVE  \E g : FoldsOver(g, n, V, base, step)
<1> DEFINE Computes(g, k) == FoldsOver(g, k, V, base, step)
           Fails == {k \in 0 .. n : \A g : ~Computes(g, k)}
<1>1. 0 \notin Fails
  <2> DEFINE g == [s \in SUBSET (1 .. 0) |-> base]
  <2>1. 1 .. 0 = {} /\ 0 \in 0 .. n
    OBVIOUS
  <2>2. Computes(g, 0)
    BY <2>1 DEF FoldsOver
  <2> QED BY <2>2
<1>2. ASSUME NEW k \in 0 .. n, k + 1 \in 0 .. n, k \notin Fails
      PROVE  k + 1 \notin Fails
  <2>1. PICK g : Computes(g, k)
    BY <1>2
  <2> DEFINE h == [s \in SUBSET (1 .. k + 1) |->
                     IF k + 1 \in s THEN step[<<g[s \ {k + 1}], k + 1>>] ELSE g[s]]
  <2>2. \A s \in SUBSET (1 .. k + 1) :
          /\ s \ {k + 1} \in SUBSET (1 .. k)
          /\ k + 1 \in s => Max(s) = k + 1
          /\ k + 1 \notin s => s \in SUBSET (1 .. k) /\ s \ {Max(s)} \in SUBSET (1 .. k)
    <3> TAKE s \in SUBSET (1 .. k + 1)
    <3>1. k \in Nat /\ \A x \in s : x \in Nat /\ x <= k + 1
      OBVIOUS
    <3>2. \A x \in s \ {k + 1} : x \in 1 .. k
      BY <3>1
    <3>3. ASSUME k + 1 \in s PROVE Max(s) = k + 1
      <4>1. \A y \in s : k + 1 >= y
        BY <3>1
      <4>2. Max(s) \in s /\ \A y \in s : Max(s) >= y
        BY Zenon, <3>3, <4>1 DEF Max
      <4>3. Max(s) <= k + 1 /\ Max(s) >= k + 1 /\ Max(s) \in Nat /\ k + 1 \in Nat
        BY <3>1, <3>3, <4>2
      <4> QED BY <4>3
    <3> QED BY <3>2, <3>3
  <2>3. k + 1 \in 1 .. n /\ k \in Nat
    BY <1>2
  <2>4. h \in [SUBSET (1 .. k + 1) -> V]
    <3>1. \A s \in SUBSET (1 .. k + 1) : g[s \ {k + 1}] \in V /\ (k + 1 \notin s => g[s] \in V)
      BY <2>1, <2>2 DEF FoldsOver
    <3> QED BY <2>3, <3>1
  <2>5. ASSUME NEW s \in SUBSET (1 .. k + 1)
        PROVE  h[s] = IF s = {} THEN base ELSE step[<<h[s \ {Max(s)}], Max(s)>>]
    <3>1. CASE k + 1 \in s
      <4>1. s # {} /\ Max(s) = k + 1
        BY <2>2, <3>1
      <4>2. h[s \ {k + 1}] = g[s \ {k + 1}]
        BY <2>2
      <4> QED BY <3>1, <4>1, <4>2
    <3>2. CASE k + 1 \notin s
      <4>1. h[s] = g[s] /\ s \in SUBSET (1 .. k)
        BY <2>2, <3>2
      <4>2. h[s \ {Max(s)}] = g[s \ {Max(s)}]
        BY <2>2, <3>2
      <4> HIDE DEF h
      <4> QED BY <2>1, <4>1, <4>2 DEF FoldsOver
    <3> QED BY <3>1, <3>2
  <2> HIDE DEF h
  <2>6. Computes(h, k + 1)
    BY <2>4, <2>5 DEF FoldsOver
  <2> QED BY <2>6
<1>3. Fails = {}
  <2> HIDE DEF Fails
  <2> SUFFICES ASSUME Fails # {} PROVE FALSE
    OBVIOUS
  <2>1. Fails \subseteq 0 .. n /\ Fails \subseteq Nat
    BY DEF Fails
  <2>2. PICK k \in Fails : \A y \in Fails : k <= y
    BY Zenon, <2>1, LeastNatural
  <2>3. k # 0 /\ k \in 0 .. n
    BY <1>1, <2>1
  <2>4. k - 1 \in 0 .. n /\ (k - 1) + 1 = k
    BY <2>3
  <2>5. k - 1 \in Fails
    BY <1>2, <2>3, <2>4
  <2> QED BY <2>2, <2>3, <2>5
<1>4. \E g : Computes(g, n)
  <2> HIDE DEF Computes
  <2>1. n \in 0 .. n
    OBVIOUS
  <2> QED BY <1>3, <2>1
<1> QED
  BY <1>4

(* What such a function says of the initial segments: a run, which begins   *)
(* with `base` and makes one step per index.                                *)
LEMMA FoldRuns ==
  ASSUME NEW n \in Nat, NEW V, NEW base \in V, NEW step \in [V \X (1 .. n) -> V], NEW g,
         Recurs(g, n, V, base, step)
  PROVE  Runs(Segments(g, n), n, V, base, step)
<1> DEFINE r == [k \in 0 .. n |-> g[1 .. k]]
           Fails == {k \in 0 .. n : g[1 .. k] \notin V}
<1>1. g[1 .. 0] = base
  <2>1. 1 .. 0 = {} /\ {} \in SUBSET (1 .. n)
    OBVIOUS
  <2> QED BY <2>1 DEF Recurs
<1>2. ASSUME NEW k \in 1 .. n, g[1 .. (k - 1)] \in V
      PROVE  g[1 .. k] = step[<<g[1 .. (k - 1)], k>>]
  <2>1. /\ 1 .. k \in SUBSET (1 .. n) /\ 1 .. k # {}
        /\ (1 .. k) \ {k} = 1 .. (k - 1)
        /\ k \in 1 .. k /\ \A y \in 1 .. k : k >= y
    OBVIOUS
  <2>2. Max(1 .. k) \in 1 .. k /\ \A y \in 1 .. k : Max(1 .. k) >= y
    BY Zenon, <2>1 DEF Max
  <2>3. Max(1 .. k) = k
    BY <2>1, <2>2
  <2> QED BY <1>2, <2>1, <2>3 DEF Recurs
<1>3. Fails = {}
  <2> HIDE DEF Fails
  <2> SUFFICES ASSUME Fails # {} PROVE FALSE
    OBVIOUS
  <2>1. Fails \subseteq 0 .. n /\ Fails \subseteq Nat
    BY DEF Fails
  <2>2. PICK k \in Fails : \A y \in Fails : k <= y
    BY Zenon, <2>1, LeastNatural
  <2>3. k \in 0 .. n /\ g[1 .. k] \notin V
    BY DEF Fails
  <2>4. k \in 1 .. n /\ k - 1 \in 0 .. n /\ k - 1 < k
    BY <1>1, <2>3
  <2>5. g[1 .. (k - 1)] \in V
    BY <2>2, <2>4 DEF Fails
  <2>6. step[<<g[1 .. (k - 1)], k>>] \in V
    BY <2>4, <2>5
  <2> QED BY <1>2, <2>3, <2>4, <2>5, <2>6
<1>4. \A k \in 0 .. n : g[1 .. k] \in V
  BY <1>3
<1>5. r \in [0 .. n -> V] /\ r[0] = base
  BY <1>1, <1>4
<1>6. \A k \in 1 .. n : r[k] = step[<<r[k - 1], k>>]
  BY <1>2, <1>4
<1> QED
  BY <1>5, <1>6 DEF Runs, Segments

-----------------------------------------------------------------------------
(* Parts of sequences *)

(* f is g from index d on, as far as I goes.                                *)
Shifted(f, g, d, I) == \A k \in I : f[k] = g[k + d]

LEMMA SuffixFacts ==
  ASSUME NEW S, NEW q \in Seq(S), NEW a \in 0 .. Len(q), NEW p, p = SubSeq(q, a + 1, Len(q))
  PROVE  p \in Seq(S) /\ Len(p) = Len(q) - a /\ Shifted(p, q, a, 1 .. Len(q) - a)
<1>1. p \in Seq(S) /\ Len(p) = Len(q) - a
  OBVIOUS
<1>2. \A k \in 1 .. Len(q) - a : p[k] = q[k + a]
  OBVIOUS
<1> QED
  BY <1>1, <1>2 DEF Shifted

-----------------------------------------------------------------------------
(* Chains *)

(* The operations a commit can record, those of a merge included.           *)
OpRecs ==
  [kind : {"create", "update", "adopt"}, val : Vals] \cup {[kind |-> "delete", val |-> Absent]}

(* C is a set of commits, whatever else they record besides operations.     *)
HasOps(C) == \A c \in C : c.ops \in UNION {[S -> OpRecs] : S \in SUBSET Items}

LogsOf(C) == [floor : Nat, baseline : States, commits : Seq(C)]

-----------------------------------------------------------------------------
(* Replaying *)

(* r holds the states that replaying cs from base goes through.             *)
Replays(r, base, cs) ==
  /\ r \in [0 .. Len(cs) -> States] /\ r[0] = base
  /\ \A k \in 1 .. Len(cs) : r[k] = ReplayCommit(r[k - 1], cs[k])

LEMMA OpsTyped ==
  ASSUME NEW C, HasOps(C), NEW c \in C
  PROVE  /\ DOMAIN c.ops \subseteq Items
         /\ \A i \in DOMAIN c.ops : c.ops[i] \in OpRecs /\ c.ops[i].val \in Vals \cup {Absent}
<1>1. PICK S \in SUBSET Items : c.ops \in [S -> OpRecs]
  BY DEF HasOps
<1>2. \A op \in OpRecs : op.val \in Vals \cup {Absent}
  BY DEF OpRecs
<1> QED
  BY <1>1, <1>2

LEMMA ReplayTyped ==
  ASSUME NEW C, HasOps(C), NEW state \in States, NEW c \in C
  PROVE  ReplayCommit(state, c) \in States
<1>1. \A i \in Items : state[i] \in Vals \cup {Absent}
  BY DEF States
<1> QED
  BY <1>1, OpsTyped DEF ReplayCommit, States

(* FoldLeft makes such a run. *)
LEMMA FoldReplays ==
  ASSUME NEW C, HasOps(C), NEW base \in States, NEW cs \in Seq(C)
  PROVE  \E r : Replays(r, base, cs) /\ FoldLeft(ReplayCommit, base, cs) = r[Len(cs)]
<1> DEFINE n == Len(cs)
           step == [p \in States \X (1 .. n) |-> ReplayCommit(p[1], cs[p[2]])]
           Computes(g) == g = [s \in SUBSET (1 .. n) |->
             IF s = {} THEN base ELSE ReplayCommit(g[s \ {Max(s)}], cs[Max(s)])]
           it == CHOOSE g : Computes(g)
<1>1. DOMAIN cs = 1 .. n /\ n \in Nat /\ \A k \in 1 .. n : cs[k] \in C
  OBVIOUS
<1>2. FoldLeft(ReplayCommit, base, cs) = it[1 .. n]
  BY <1>1 DEF FoldLeft, MapThenFoldSet
<1>3. step \in [States \X (1 .. n) -> States]
  BY <1>1, ReplayTyped
<1>4. \E g : Computes(g)
  <2>1. PICK g : FoldsOver(g, n, States, base, step)
    <3> HIDE DEF step, n
    <3>1. n \in Nat
      BY <1>1
    <3> QED BY <3>1, <1>3, FoldExists
  <2>2. ASSUME NEW s \in SUBSET (1 .. n), s # {}
        PROVE  g[s] = ReplayCommit(g[s \ {Max(s)}], cs[Max(s)])
    <3>1. s \ {Max(s)} \in SUBSET (1 .. n)
      OBVIOUS
    <3>2. Max(s) \in s
      BY Zenon, <1>1, <2>2, MaxOfSegment
    <3> HIDE DEF n
    <3>3. <<g[s \ {Max(s)}], Max(s)>> \in States \X (1 .. n)
      BY <2>1, <3>1, <3>2 DEF FoldsOver
    <3> QED BY <2>1, <2>2, <3>3 DEF FoldsOver
  <2>3. Computes(g)
    BY <2>1, <2>2 DEF FoldsOver
  <2> QED BY <2>3
<1>5. Computes(it)
  BY Zenon, <1>4
<1>6. Recurs(it, n, States, base, step)
  <2> SUFFICES ASSUME NEW s \in SUBSET (1 .. n)
               PROVE  IF s = {} THEN it[s] = base
                      ELSE it[s \ {Max(s)}] \in States =>
                             it[s] = step[<<it[s \ {Max(s)}], Max(s)>>]
    BY DEF Recurs
  <2> HIDE DEF it
  <2>1. CASE s = {}
    BY <1>5, <2>1
  <2>2. CASE s # {}
    <3>1. it[s] = ReplayCommit(it[s \ {Max(s)}], cs[Max(s)])
      BY <1>5, <2>2
    <3>2. Max(s) \in 1 .. n
      <4>1. Max(s) \in s
        BY Zenon, <1>1, <2>2, MaxOfSegment
      <4> QED BY <4>1
    <3> QED BY <2>2, <3>1, <3>2
  <2> QED BY <2>1, <2>2
<1> DEFINE r == Segments(it, n)
<1>7. Runs(r, n, States, base, step) /\ r[n] = it[1 .. n]
  <2> HIDE DEF it, step, n, Computes
  <2>1. n \in Nat
    BY <1>1
  <2>2. Runs(r, n, States, base, step)
    BY <2>1, <1>3, <1>6, FoldRuns
  <2> QED BY <2>1, <2>2 DEF Segments
<1> HIDE DEF r
<1>8. \A k \in 1 .. n : r[k] = ReplayCommit(r[k - 1], cs[k])
  <2> TAKE k \in 1 .. n
  <2>1. k - 1 \in 0 .. n
    BY <1>1
  <2> HIDE DEF n
  <2>2. <<r[k - 1], k>> \in States \X (1 .. n)
    BY <1>7, <2>1 DEF Runs
  <2> QED BY <1>7, <2>2 DEF Runs
<1> QED
  BY <1>2, <1>7, <1>8 DEF Replays, Runs

(* Two runs over commits that are the same from index d on, the second of   *)
(* which begins with the state the first has there, are the same.           *)
LEMMA ReplaysAgree ==
  ASSUME NEW C, HasOps(C), NEW d \in Nat, NEW m \in Nat,
         NEW cs \in Seq(C), NEW ds \in Seq(C), d + m <= Len(cs), m <= Len(ds),
         Shifted(ds, cs, d, 1 .. m),
         NEW r, NEW base, Replays(r, base, cs), NEW q, Replays(q, r[d], ds)
  PROVE  Shifted(q, r, d, 0 .. m)
<1> DEFINE Fails == {k \in 0 .. m : q[k] # r[k + d]}
<1>1. q[0] = r[0 + d]
  BY DEF Replays
<1>2. ASSUME NEW k \in 1 .. m, q[k - 1] = r[(k - 1) + d]
      PROVE  q[k] = r[k + d]
  <2>1. k \in 1 .. Len(ds) /\ k + d \in 1 .. Len(cs) /\ (k - 1) + d = (k + d) - 1
    OBVIOUS
  <2>2. q[k] = ReplayCommit(q[k - 1], ds[k])
    BY <2>1 DEF Replays
  <2>3. r[k + d] = ReplayCommit(r[(k + d) - 1], cs[k + d])
    BY <2>1 DEF Replays
  <2> QED BY <1>2, <2>1, <2>2, <2>3 DEF Shifted
<1>3. Fails = {}
  <2> HIDE DEF Fails
  <2> SUFFICES ASSUME Fails # {} PROVE FALSE
    OBVIOUS
  <2>1. Fails \subseteq 0 .. m /\ Fails \subseteq Nat
    BY DEF Fails
  <2>2. PICK k \in Fails : \A y \in Fails : k <= y
    BY Zenon, <2>1, LeastNatural
  <2>3. k \in 0 .. m /\ q[k] # r[k + d]
    BY DEF Fails
  <2>4. k \in 1 .. m /\ k - 1 \in 0 .. m /\ k - 1 < k
    BY <1>1, <2>3
  <2>5. q[k - 1] = r[(k - 1) + d]
    BY <2>2, <2>4 DEF Fails
  <2> QED BY <1>2, <2>3, <2>4, <2>5
<1> QED
  BY <1>3 DEF Shifted

(* The states of the versions a chain retains are those of one run.         *)
Recalls(r, log) ==
  /\ Replays(r, log.baseline, log.commits)
  /\ \A v \in log.floor .. Version(log) : ReplayState(log, v) = r[v - log.floor]

LEMMA VersionStates ==
  ASSUME NEW C, HasOps(C), NEW log \in LogsOf(C)
  PROVE  \E r : Recalls(r, log)
<1> DEFINE cs == log.commits
<1>1. /\ log.floor \in Nat /\ log.baseline \in States /\ cs \in Seq(C)
      /\ Len(cs) \in Nat
  BY DEF LogsOf
<1>2. PICK r : Replays(r, log.baseline, cs)
  BY <1>1, FoldReplays
<1>3. ASSUME NEW v \in log.floor .. Version(log)
      PROVE  ReplayState(log, v) = r[v - log.floor]
  <2> DEFINE m == v - log.floor
             ds == CommitsUpto(log, v)
  <2>1. m \in 0 .. Len(cs) /\ m \in Nat
    BY <1>1 DEF Version
  <2>2. ds \in Seq(C) /\ Len(ds) = m /\ \A k \in 1 .. m : ds[k] = cs[k]
    BY <1>1, <2>1 DEF CommitsUpto
  <2>3. PICK q : Replays(q, log.baseline, ds) /\ ReplayState(log, v) = q[Len(ds)]
    BY <1>1, <2>2, FoldReplays DEF ReplayState
  <2>4. r[0] = log.baseline
    BY <1>2 DEF Replays
  <2> HIDE DEF ds, m, cs
  <2>5. Shifted(ds, cs, 0, 1 .. m)
    BY <2>1, <2>2 DEF Shifted
  <2>6. 0 \in Nat /\ 0 + m <= Len(cs) /\ m <= Len(ds)
    BY <1>1, <2>1, <2>2
  <2>7. Shifted(q, r, 0, 0 .. m)
    <3>1. Replays(q, r[0], ds)
      BY <2>3, <2>4
    <3>2. m \in Nat /\ ds \in Seq(C) /\ cs \in Seq(C) /\ Replays(r, log.baseline, cs)
      BY <1>1, <1>2, <2>1, <2>2
    <3> QED BY <3>1, <3>2, <2>5, <2>6, ReplaysAgree
  <2>8. m \in 0 .. m /\ m + 0 = m
    BY <2>1
  <2>9. q[m] = r[m]
    BY <2>7, <2>8 DEF Shifted
  <2> QED BY <2>2, <2>3, <2>9 DEF m
<1> QED
  BY <1>2, <1>3 DEF Recalls

LEMMA HistoryTyped ==
  ASSUME NEW C, HasOps(C), NEW log \in LogsOf(C)
  PROVE  /\ Version(log) \in Nat /\ log.floor <= Version(log)
         /\ \A v \in log.floor .. Version(log) : ReplayState(log, v) \in States
         /\ ReplayState(log, log.floor) = log.baseline
<1>1. PICK r : Recalls(r, log)
  BY VersionStates
<1>2. log.floor \in Nat /\ Len(log.commits) \in Nat /\ Version(log) = log.floor + Len(log.commits)
  BY DEF LogsOf, Version
<1>3. \A v \in log.floor .. Version(log) : v - log.floor \in 0 .. Len(log.commits)
  BY <1>2
<1> QED
  BY <1>1, <1>2, <1>3 DEF Recalls, Replays

(* What two chains say of the versions they share, the commits of which     *)
(* they share.                                                              *)
LEMMA SharedHistory ==
  ASSUME NEW C, HasOps(C), NEW log \in LogsOf(C), NEW new \in LogsOf(C), NEW d \in Nat, NEW m \in Nat,
         new.floor = log.floor + d, new.baseline = ReplayState(log, new.floor),
         d + m <= Len(log.commits), m <= Len(new.commits),
         Shifted(new.commits, log.commits, d, 1 .. m)
  PROVE  \A v \in new.floor .. new.floor + m : ReplayState(new, v) = ReplayState(log, v)
<1>1. PICK r : Recalls(r, log)
  BY VersionStates
<1>2. PICK q : Recalls(q, new)
  BY VersionStates
<1>3. /\ log.floor \in Nat /\ log.commits \in Seq(C) /\ Len(log.commits) \in Nat
      /\ new.floor \in Nat /\ new.commits \in Seq(C) /\ Len(new.commits) \in Nat
  BY DEF LogsOf
<1>4. new.floor \in log.floor .. Version(log)
  BY <1>3 DEF Version
<1>5. new.baseline = r[d]
  <2>1. new.floor - log.floor = d
    BY <1>3
  <2> QED BY <1>1, <1>4, <2>1 DEF Recalls
<1>6. Shifted(q, r, d, 0 .. m)
  <2>1. Replays(r, log.baseline, log.commits) /\ Replays(q, r[d], new.commits)
    BY <1>1, <1>2, <1>5 DEF Recalls
  <2> QED BY <1>3, <2>1, ReplaysAgree
<1> TAKE v \in new.floor .. new.floor + m
<1> DEFINE k == v - new.floor
<1>7. /\ k \in 0 .. m /\ v - log.floor = k + d
      /\ v \in new.floor .. Version(new) /\ v \in log.floor .. Version(log)
  <2> DEFINE a == log.floor
             b == new.floor
             x == Len(log.commits)
             y == Len(new.commits)
  <2>1. /\ Version(new) = b + y /\ Version(log) = a + x /\ b = a + d
        /\ a \in Nat /\ b \in Nat /\ x \in Nat /\ y \in Nat /\ d + m <= x /\ m <= y
        /\ v \in Int /\ b <= v /\ v <= b + m
    BY <1>3 DEF Version
  <2> HIDE DEF a, b, x, y
  <2>2. v - b \in 0 .. m /\ v - a = (v - b) + d /\ v \in b .. b + y /\ v \in a .. a + x
    BY <2>1
  <2> QED BY <2>1, <2>2 DEF a, b
<1>8. ReplayState(new, v) = q[k] /\ ReplayState(log, v) = r[k + d]
  BY <1>1, <1>2, <1>7 DEF Recalls
<1>9. q[k] = r[k + d]
  BY <1>6, <1>7 DEF Shifted
<1> QED
  BY <1>8, <1>9

(* A commit adds a version and changes none.                                *)
LEMMA AppendHistory ==
  ASSUME NEW C, HasOps(C), NEW log \in LogsOf(C), NEW c \in C, NEW new, new = AppendCommit(log, c)
  PROVE  /\ new \in LogsOf(C) /\ new.floor = log.floor /\ Version(new) = Version(log) + 1
         /\ \A v \in log.floor .. Version(log) : ReplayState(new, v) = ReplayState(log, v)
         /\ Committed(new) = ReplayCommit(Committed(log), c)
<1> DEFINE n == Len(log.commits)
<1>1. /\ log.floor \in Nat /\ log.baseline \in States /\ log.commits \in Seq(C)
      /\ n \in Nat
      /\ log = [floor |-> log.floor, baseline |-> log.baseline, commits |-> log.commits]
  BY DEF LogsOf
<1>2. new = [floor |-> log.floor, baseline |-> log.baseline, commits |-> Append(log.commits, c)]
  BY <1>1 DEF AppendCommit
<1>3. new \in LogsOf(C)
  BY <1>1, <1>2 DEF LogsOf
<1>4. /\ new.floor = log.floor /\ new.baseline = log.baseline
      /\ Len(new.commits) = n + 1 /\ new.commits[n + 1] = c
      /\ \A k \in 1 .. n : new.commits[k] = log.commits[k]
  BY <1>1, <1>2
<1>5. Version(new) = Version(log) + 1 /\ Version(log) = log.floor + n
  BY <1>1, <1>4 DEF Version
<1>6. \A v \in log.floor .. Version(log) : ReplayState(new, v) = ReplayState(log, v)
  <2>1. Shifted(new.commits, log.commits, 0, 1 .. n)
    BY <1>1, <1>4 DEF Shifted
  <2>2. /\ 0 \in Nat /\ n \in Nat /\ new.floor = log.floor + 0
        /\ 0 + n <= Len(log.commits) /\ n <= Len(new.commits)
    BY <1>1, <1>4
  <2>3. new.baseline = ReplayState(log, new.floor)
    BY <1>4, HistoryTyped
  <2> HIDE DEF n
  <2>4. \A v \in new.floor .. new.floor + n : ReplayState(new, v) = ReplayState(log, v)
    BY <1>3, <2>1, <2>2, <2>3, SharedHistory
  <2> QED BY <1>4, <1>5, <2>4
<1>7. Committed(new) = ReplayCommit(Committed(log), c)
  <2>1. PICK q : Recalls(q, new)
    BY <1>3, VersionStates
  <2>2. q[n + 1] = ReplayCommit(q[n], c)
    <3>1. n + 1 \in 1 .. Len(new.commits) /\ (n + 1) - 1 = n
      BY <1>1, <1>4
    <3>2. q[n + 1] = ReplayCommit(q[(n + 1) - 1], new.commits[n + 1])
      BY <2>1, <3>1 DEF Recalls, Replays
    <3> QED BY <1>4, <3>1, <3>2
  <2>3. /\ Version(new) \in new.floor .. Version(new) /\ Version(new) - new.floor = n + 1
        /\ Version(log) \in new.floor .. Version(new) /\ Version(log) - new.floor = n
        /\ Version(log) \in log.floor .. Version(log)
    BY <1>1, <1>4, <1>5
  <2>4. ReplayState(new, Version(new)) = q[n + 1] /\ ReplayState(new, Version(log)) = q[n]
    BY <2>1, <2>3 DEF Recalls
  <2> QED BY <1>6, <2>2, <2>3, <2>4 DEF Committed
<1> QED
  BY <1>3, <1>4, <1>5, <1>6, <1>7

(* A rollback drops versions from the top.                                  *)
LEMMA TruncateHistory ==
  ASSUME NEW C, HasOps(C), NEW log \in LogsOf(C), NEW v \in log.floor .. Version(log), NEW new, new = Truncate(log, v)
  PROVE  /\ new \in LogsOf(C) /\ new.floor = log.floor /\ Version(new) = v
         /\ \A u \in log.floor .. v : ReplayState(new, u) = ReplayState(log, u)
<1> DEFINE m == v - log.floor
<1>1. /\ log.floor \in Nat /\ log.baseline \in States /\ log.commits \in Seq(C)
      /\ Len(log.commits) \in Nat /\ m \in Nat /\ m <= Len(log.commits)
      /\ log = [floor |-> log.floor, baseline |-> log.baseline, commits |-> log.commits]
  BY DEF LogsOf, Version
<1>2. new = [floor |-> log.floor, baseline |-> log.baseline, commits |-> SubSeq(log.commits, 1, m)]
  BY <1>1 DEF Truncate, CommitsUpto
<1>3. new \in LogsOf(C)
  BY <1>1, <1>2 DEF LogsOf
<1>4. /\ new.floor = log.floor /\ new.baseline = log.baseline /\ Len(new.commits) = m
      /\ \A k \in 1 .. m : new.commits[k] = log.commits[k]
  BY <1>1, <1>2
<1>5. Version(new) = v
  BY <1>1, <1>4 DEF Version
<1>6. Shifted(new.commits, log.commits, 0, 1 .. m)
  BY <1>1, <1>4 DEF Shifted
<1>7. /\ 0 \in Nat /\ new.floor = log.floor + 0
      /\ 0 + m <= Len(log.commits) /\ m <= Len(new.commits) /\ new.floor + m = v
  BY <1>1, <1>4
<1>8. new.baseline = ReplayState(log, new.floor)
  BY <1>4, HistoryTyped
<1> HIDE DEF m
<1>9. \A u \in new.floor .. new.floor + m : ReplayState(new, u) = ReplayState(log, u)
  BY <1>1, <1>3, <1>6, <1>7, <1>8, SharedHistory
<1> QED
  BY <1>3, <1>4, <1>5, <1>7, <1>9

(* A compaction drops versions from the bottom.                             *)
LEMMA CompactHistory ==
  ASSUME NEW C, HasOps(C), NEW log \in LogsOf(C), NEW cutoff \in log.floor .. Version(log),
         NEW new, new = CompactTo(log, cutoff)
  PROVE  /\ new \in LogsOf(C) /\ new.floor = cutoff /\ Version(new) = Version(log)
         /\ \A v \in cutoff .. Version(log) : ReplayState(new, v) = ReplayState(log, v)
<1> DEFINE d == cutoff - log.floor
           m == Len(log.commits) - d
<1>1. /\ log.floor \in Nat /\ log.baseline \in States /\ log.commits \in Seq(C)
      /\ Len(log.commits) \in Nat /\ d \in Nat /\ m \in Nat /\ d + m = Len(log.commits)
      /\ cutoff \in Nat /\ cutoff = log.floor + d
  BY DEF LogsOf, Version
<1>2. (IF cutoff > log.floor THEN cutoff - log.floor ELSE 0) + 1 = d + 1
  BY <1>1
<1>3. new = [floor |-> cutoff, baseline |-> ReplayState(log, cutoff),
             commits |-> SubSeq(log.commits, d + 1, Len(log.commits))]
  BY <1>2 DEF CompactTo, CommitsFrom
<1>4. ReplayState(log, cutoff) \in States
  BY HistoryTyped
<1>a. new.floor = cutoff /\ new.baseline = ReplayState(log, cutoff)
  BY <1>3
<1>5. /\ new.commits \in Seq(C) /\ Len(new.commits) = m
      /\ \A k \in 1 .. m : new.commits[k] = log.commits[k + d]
  <2> HIDE DEF d, m
  <2>1. new.commits = SubSeq(log.commits, d + 1, Len(log.commits)) /\ d \in 0 .. Len(log.commits)
    BY <1>1, <1>3
  <2>2. new.commits \in Seq(C) /\ Len(new.commits) = Len(log.commits) - d
        /\ Shifted(new.commits, log.commits, d, 1 .. Len(log.commits) - d)
    BY <1>1, <2>1, SuffixFacts
  <2>3. Len(log.commits) - d = m
    BY <1>1
  <2> QED BY <2>2, <2>3 DEF Shifted
<1>6. new \in LogsOf(C)
  BY <1>1, <1>3, <1>4, <1>5, <1>a DEF LogsOf
<1>7. Version(new) = Version(log) /\ cutoff + m = Version(log)
  BY <1>1, <1>5, <1>a DEF Version
<1>8. Shifted(new.commits, log.commits, d, 1 .. m)
  BY <1>1, <1>5 DEF Shifted
<1>9. d + m <= Len(log.commits) /\ m <= Len(new.commits)
  <2>1. d + m \in Nat /\ d + m = Len(log.commits) /\ m \in Nat /\ m = Len(new.commits)
    BY <1>1, <1>5
  <2>2. \A x, y \in Nat : x = y => x <= y
    OBVIOUS
  <2> HIDE DEF d, m
  <2> QED BY ONLY <2>1, <2>2
<1> HIDE DEF d, m
<1>10. \A v \in new.floor .. new.floor + m : ReplayState(new, v) = ReplayState(log, v)
  <2>1. /\ d \in Nat /\ m \in Nat /\ new.floor = log.floor + d
        /\ new.baseline = ReplayState(log, new.floor)
    BY <1>1, <1>a
  <2> QED BY <2>1, <1>6, <1>8, <1>9, SharedHistory
<1> QED
  BY <1>a, <1>6, <1>7, <1>10

(* What no commit after v names is at the newest version what it was at v.  *)
LEMMA UntouchedStays ==
  ASSUME NEW C, HasOps(C), NEW log \in LogsOf(C), NEW v \in log.floor .. Version(log),
         NEW i \in Items, i \notin Touched(log, v)
  PROVE  ReplayState(log, v)[i] = Committed(log)[i]
<1> DEFINE m == v - log.floor
           n == Len(log.commits)
<1>1. PICK r : Recalls(r, log)
  BY VersionStates
<1>2. /\ log.floor \in Nat /\ log.commits \in Seq(C) /\ n \in Nat /\ m \in 0 .. n
      /\ Version(log) = log.floor + n /\ v \in Nat /\ n = Len(log.commits)
      /\ v - log.floor = m
      /\ (IF v > log.floor THEN v - log.floor ELSE 0) + 1 = m + 1
  BY DEF LogsOf, Version
<1> HIDE DEF m, n
<1>3. ASSUME NEW k \in m + 1 .. n  PROVE r[k][i] = r[k - 1][i]
  <2>1. PICK late : late = CommitsFrom(log, v)
    OBVIOUS
  <2>2. late = SubSeq(log.commits, m + 1, n)
    BY <1>2, <2>1 DEF CommitsFrom
  <2>3. k - m \in DOMAIN late /\ late[k - m] = log.commits[k]
    <3> DEFINE b == n - m
               j == k - m
    <3>1. m \in Nat /\ b \in Nat /\ n = m + b /\ j \in 1 .. b /\ j + m = k /\ m + b <= n
      BY <1>2
    <3> HIDE DEF m, b, j
    <3>2. Len(late) = b /\ late \in Seq(C) /\ \A l \in 1 .. b : late[l] = log.commits[l + m]
      <4>1. late = SubSeq(log.commits, m + 1, Len(log.commits)) /\ m \in 0 .. Len(log.commits)
        BY <1>2, <2>2
      <4>2. late \in Seq(C) /\ Len(late) = Len(log.commits) - m
            /\ Shifted(late, log.commits, m, 1 .. Len(log.commits) - m)
        BY <4>1, <1>2, SuffixFacts
      <4>3. Len(log.commits) - m = b
        BY <1>2, <3>1
      <4> QED BY <4>2, <4>3 DEF Shifted
    <3>3. j \in DOMAIN late /\ late[j] = log.commits[k]
      BY <3>1, <3>2
    <3> QED BY <3>3 DEF j
  <2>4. log.commits[k] \in ToSet(late)
    BY <2>3 DEF ToSet
  <2>5. ~(i \in DOMAIN log.commits[k].ops /\ log.commits[k].ops[i].kind # "adopt")
    BY <2>1, <2>4 DEF Touched
  <2>6. r[k] = ReplayCommit(r[k - 1], log.commits[k])
    BY <1>1, <1>2 DEF Recalls, Replays
  <2> QED BY <2>5, <2>6 DEF ReplayCommit
<1> DEFINE Fails == {k \in m .. n : r[k][i] # r[m][i]}
<1>4. Fails = {}
  <2> HIDE DEF Fails
  <2> SUFFICES ASSUME Fails # {} PROVE FALSE
    OBVIOUS
  <2>1. Fails \subseteq m .. n /\ Fails \subseteq Nat
    BY <1>2 DEF Fails
  <2>2. PICK k \in Fails : \A y \in Fails : k <= y
    BY Zenon, <2>1, LeastNatural
  <2>3. k \in m .. n /\ r[k][i] # r[m][i]
    BY DEF Fails
  <2>4. k \in m + 1 .. n /\ k - 1 \in m .. n /\ k - 1 < k
    BY <1>2, <2>3
  <2>5. r[k - 1][i] = r[m][i]
    BY <2>2, <2>4 DEF Fails
  <2> QED BY <1>3, <2>3, <2>4, <2>5
<1>5. r[n][i] = r[m][i]
  BY <1>2, <1>4
<1>6. /\ v \in log.floor .. Version(log) /\ Version(log) \in log.floor .. Version(log)
      /\ Version(log) - log.floor = n
  BY <1>2
<1> QED
  <2>1. ReplayState(log, v) = r[m] /\ ReplayState(log, Version(log)) = r[n]
    BY <1>1, <1>2, <1>6 DEF Recalls
  <2> QED BY <1>5, <2>1 DEF Committed

-----------------------------------------------------------------------------

-----------------------------------------------------------------------------
(* I. What was sent *)

IsContext(c) ==
  c = [art |-> c.art, log |-> c.log, reading |-> c.reading, deps |-> c.deps,
       stale |-> c.stale, base |-> c.base]

Numbered(c) == \A i \in Items : c.art[i] # Absent => c.art[i].ver \in Nat

(* The items whose intent was performed say so.                             *)
Holds(c, performed) ==
  \A i \in performed : i \in Items /\ c.art[i] # Absent /\ c.art[i].val = Dispatched

Good(c, performed) == IsContext(c) /\ Numbered(c) /\ Holds(c, performed)

Inv ==
  /\ ctx = [n \in Names |-> ctx[n]]
  /\ sent = [n \in Names |-> sent[n]]
  /\ exists \subseteq Names
  /\ \A n \in Names : Good(ctx[n], sent[n])

-----------------------------------------------------------------------------
(* What the operations on a Context make of its artifacts *)

LEMMA DispatchedIsThere ==
  /\ Dispatched # Absent /\ Pending # Absent /\ Failed # Absent
  /\ Pending # Dispatched /\ Pending # Failed /\ Dispatched # Failed
  /\ \A v \in Nat : [val |-> Dispatched, ver |-> v] # Absent
  <1>1. \A v \in Nat : [val |-> Dispatched, ver |-> v] \in [val : Vals, ver : Nat]
    BY BranchesAssumption DEF BranchesAssumption
  <1> QED BY <1>1, BranchesAssumption, AbsentAssumption, ArtifactAssumption
     DEF BranchesAssumption, AbsentAssumption, ArtifactAssumption

LEMMA WithOpsArt ==
  ASSUME NEW c, IsContext(c), NEW ops, NEW d, d = WithOps(c, ops)
  PROVE  /\ IsContext(d)
         /\ \A i \in Items : d.art[i] = IF i \in DOMAIN ops THEN AfterOp(c.art[i], ops[i])
                                        ELSE c.art[i]
  BY DEF WithOps, IsContext

LEMMA LoggedArt ==
  ASSUME NEW c, IsContext(c), NEW commit, NEW d, d = Logged(c, commit)
  PROVE  IsContext(d) /\ d.art = c.art
  BY DEF Logged, IndexCommit, IsContext

LEMMA ReindexedArt ==
  ASSUME NEW c, IsContext(c), NEW d, d = Recomputed(Reindexed(c))
  PROVE  IsContext(d) /\ d.art = c.art
  BY DEF Recomputed, Reindexed, IsContext

LEMMA RecomputedArt ==
  ASSUME NEW c, IsContext(c), NEW d, d = Recomputed(c)
  PROVE  IsContext(d) /\ d.art = c.art
  BY DEF Recomputed, IsContext

LEMMA AfterOpNumbered ==
  ASSUME NEW a, a # Absent => a.ver \in Nat, NEW op, AfterOp(a, op) # Absent
  PROVE  AfterOp(a, op).ver \in Nat
  BY DEF AfterOp, Fresh

LEMMA WithOpsNumbered ==
  ASSUME NEW c, IsContext(c), Numbered(c), NEW ops
  PROVE  Numbered(WithOps(c, ops))
  BY WithOpsArt, AfterOpNumbered DEF Numbered

(* An operation on one item, which is no performed one or stays one.        *)
LEMMA OneOpGood ==
  ASSUME NEW c, NEW old, Good(c, old), NEW i \in Items, NEW op,
         NEW ops, DOMAIN ops = {i}, ops[i] = op, NEW new,
         new \subseteq old \cup {i},
         i \in new => AfterOp(c.art[i], op) # Absent /\ AfterOp(c.art[i], op).val = Dispatched
  PROVE  Good(WithOps(c, ops), new)
  <1> DEFINE d == WithOps(c, ops)
  <1>1. IsContext(d) /\ Numbered(d)
    BY WithOpsArt, WithOpsNumbered DEF Good
  <1>2. \A j \in Items : d.art[j] = IF j = i THEN AfterOp(c.art[i], op) ELSE c.art[j]
    <2>1. \A j \in Items : d.art[j] = IF j \in DOMAIN ops THEN AfterOp(c.art[j], ops[j])
                                      ELSE c.art[j]
      BY WithOpsArt DEF Good
    <2> QED BY <2>1
  <1> HIDE DEF d
  <1>3. Holds(d, new)
    BY <1>2 DEF Holds, Good
  <1> QED BY <1>1, <1>3 DEF Good, d

LEMMA LoggedGood ==
  ASSUME NEW c, NEW performed, Good(c, performed), NEW commit
  PROVE  Good(Logged(c, commit), performed)
  BY LoggedArt DEF Good, Numbered, Holds

LEMMA PatchedGood ==
  ASSUME NEW c, NEW old, Good(c, old), NEW i \in Items, NEW op,
         NEW ops, DOMAIN ops = {i}, ops[i] = op, NEW reads, NEW new,
         new \subseteq old \cup {i},
         i \in new => AfterOp(c.art[i], op) # Absent /\ AfterOp(c.art[i], op).val = Dispatched
  PROVE  Good(Patched(c, ops, reads), new)
  BY OneOpGood, LoggedGood DEF Patched

LEMMA CopiedGood ==
  ASSUME NEW c, NEW performed, Good(c, performed)
  PROVE  Good(Copied(c), performed)
  BY ReindexedArt DEF Copied, Good, Numbered, Holds

LEMMA CompactedGood ==
  ASSUME NEW c, NEW performed, Good(c, performed), NEW keep
  PROVE  Good(Compacted(c, keep), performed)
  <1> DEFINE d == [c EXCEPT !.log = CompactTo(@, Version(@) - keep)]
  <1>1. IsContext(d) /\ d.art = c.art
    BY DEF IsContext, Good
  <1>2. Compacted(c, keep) = Recomputed(Reindexed(d))
    BY DEF Compacted
  <1> HIDE DEF d
  <1> QED BY <1>1, <1>2, ReindexedArt DEF Good, Numbered, Holds

LEMMA ForkedGood ==
  ASSUME NEW c, NEW performed, Good(c, performed)
  PROVE  Good(Forked(c), performed)
  <1>1. Good(Copied(c), performed)
    BY CopiedGood
  <1> DEFINE d == Copied(c)
  <1>2. Forked(c) = [d EXCEPT !.base = <<Data(c)>>]
    BY DEF Forked
  <1> HIDE DEF d
  <1>3. Good(d, performed)
    BY <1>1 DEF d
  <1> QED BY <1>2, <1>3 DEF Good, IsContext, Numbered, Holds

(* A rollback: what it does not rebuild keeps its artifact.                 *)
LEMMA RolledBackGood ==
  ASSUME NEW c, NEW old, Good(c, old), NEW v, NEW new,
         new \subseteq old \ (Touched(c.log, v) \cup (Items \ Live(c)))
  PROVE  Good(RolledBack(c, v), new)
  <1> DEFINE then == CheckoutState(Data(c), c.log, v)
             kept == Live(c) \ Touched(c.log, v)
             art  == [i \in Items |-> IF i \in kept THEN c.art[i]
                                      ELSE IF then[i] = Absent THEN Absent ELSE Fresh(then[i])]
             d    == [c EXCEPT !.art = art, !.log = Truncate(@, v)]
  <1>1. RolledBack(c, v) = Recomputed(Reindexed(d))
    BY DEF RolledBack
  <1>2. IsContext(d) /\ d.art = art
    <2> HIDE DEF art
    <2>1. d = [c EXCEPT !.art = art, !.log = Truncate(c.log, v)]
      BY DEF Good, IsContext
    <2> HIDE DEF d
    <2> QED BY <2>1 DEF Good, IsContext
  <1> HIDE DEF then
  <1>3. \A i \in Items : art[i] # Absent => art[i].ver \in Nat
    BY DEF Good, Numbered, Fresh
  <1>4. \A i \in new : i \in Items /\ art[i] = c.art[i] /\ i \in old
    BY DEF Good, Holds
  <1> HIDE DEF d, art
  <1> QED BY <1>1, <1>2, <1>3, <1>4, ReindexedArt DEF Good, Numbered, Holds

-----------------------------------------------------------------------------
(* Merges *)

LEMMA DataAt ==
  ASSUME NEW c, NEW i \in Items
  PROVE  Data(c)[i] = IF c.art[i] # Absent THEN c.art[i].val ELSE Absent
  BY DEF Data, Live

LEMMA SigFacts ==
  /\ Sig(Pending) = Pending /\ Sig(Dispatched) = Pending /\ Sig(Failed) = Pending
  /\ \A v : Sig(v) = Pending <=> v \in {Pending, Dispatched, Failed}
  /\ \A v : v \notin {Pending, Dispatched, Failed} => Sig(v) = v
  BY DispatchedIsThere DEF Sig

(* What a merge makes of an item, by the two intents and the base's.        *)
Judged(verdict, vt, vo, sb) ==
  /\ OnlySentBy(vo, vt) => verdict = "sent"
  /\ Sig(vt) = Sig(vo) /\ ~OnlySentBy(vo, vt) => verdict = "same"
  /\ Sig(vt) # Sig(vo) /\ Sig(vo) = sb => verdict = "keep"
  /\ Sig(vt) # Sig(vo) /\ Sig(vo) # sb /\ Sig(vt) = sb => verdict = "adopt"
  /\ Sig(vt) # Sig(vo) /\ Sig(vo) # sb /\ Sig(vt) # sb => verdict = "conflict"

LEMMA OneIntent ==
  ASSUME NEW vt, NEW vo
  PROVE  /\ OnlySentBy(vo, vt) <=> vt \in {Pending, Failed} /\ vo = Dispatched
         /\ OnlySentBy(vo, vt) => Sig(vt) = Sig(vo)
  BY SigFacts, DispatchedIsThere DEF OnlySentBy, IsAction

LEMMA VerdictIs ==
  ASSUME NEW t, NEW o, NEW i
  PROVE  Judged(Verdict(t, o, i), Data(ctx[t])[i], Data(ctx[o])[i], Sig(MergeBase(t, o)[i]))
  <1>1. PICK vt : vt = Data(ctx[t])[i]
    OBVIOUS
  <1>2. PICK vo : vo = Data(ctx[o])[i]
    OBVIOUS
  <1>3. PICK sb : sb = Sig(MergeBase(t, o)[i])
    OBVIOUS
  <1>4. OnlySentBy(vo, vt) => Sig(vt) = Sig(vo)
    BY OneIntent
  <1>5. Verdict(t, o, i) =
          CASE OnlySentBy(vo, vt) -> "sent"
            [] Sig(vt) = Sig(vo) /\ ~OnlySentBy(vo, vt) -> "same"
            [] Sig(vt) # Sig(vo) /\ Sig(vo) = sb -> "keep"
            [] Sig(vt) # Sig(vo) /\ Sig(vo) # sb -> IF Sig(vt) = sb THEN "adopt" ELSE "conflict"
    BY <1>1, <1>2, <1>3 DEF Verdict
  <1>6. Judged(Verdict(t, o, i), vt, vo, sb)
    BY ONLY <1>4, <1>5 DEF Judged
  <1> QED BY <1>1, <1>2, <1>3, <1>6

(* The three-way merge of an item one side has performed.                   *)
LEMMA MergedPerformed ==
  ASSUME NEW t, NEW o, NEW i \in Items,
         \/ Data(ctx[t])[i] = Dispatched
         \/ Data(ctx[o])[i] = Dispatched,
         IsAction(MergedData(t, o)[i])
  PROVE  MergedData(t, o)[i] = Dispatched
  <1>1. PICK vt : vt = Data(ctx[t])[i]
    OBVIOUS
  <1>2. PICK vo : vo = Data(ctx[o])[i]
    OBVIOUS
  <1>3. PICK verdict : verdict = Verdict(t, o, i)
    OBVIOUS
  <1>4. MergedData(t, o)[i] = IF verdict \in {"sent", "adopt"} THEN vo ELSE vt
    BY <1>1, <1>2, <1>3 DEF MergedData, Adopted
  <1>5. \E sb : Judged(verdict, vt, vo, sb)
    BY <1>1, <1>2, <1>3, VerdictIs
  <1>6. vt = Dispatched \/ vo = Dispatched
    BY <1>1, <1>2
  <1>7. OnlySentBy(vo, vt) <=> vt \in {Pending, Failed} /\ vo = Dispatched
    BY OneIntent
  <1>8. CASE Sig(vt) = Sig(vo)
    BY <1>4, <1>5, <1>6, <1>7, <1>8, SigFacts DEF Judged
  <1>9. CASE Sig(vt) # Sig(vo)
    <2>1. IsAction(IF verdict \in {"sent", "adopt"} THEN vo ELSE vt)
      BY <1>4
    <2>2. IF verdict \in {"sent", "adopt"} THEN vo = Dispatched ELSE vt = Dispatched
      BY <1>6, <1>9, <2>1, SigFacts DEF IsAction
    <2> QED BY <1>4, <2>2
  <1> QED BY <1>8, <1>9

(* Which branch is the target makes no difference to an item, unless one    *)
(* side failed to send what the other has pending.                          *)
LEMMA VerdictSymmetric ==
  ASSUME NEW t, NEW o, NEW i \in Items, MergeBase(t, o) = MergeBase(o, t)
  PROVE  /\ Verdict(t, o, i) = "conflict" <=> Verdict(o, t, i) = "conflict"
         /\ Verdict(t, o, i) # "conflict" =>
              IF {Data(ctx[t])[i], Data(ctx[o])[i]} = {Pending, Failed}
                THEN MergedData(t, o)[i] = Data(ctx[t])[i]
                ELSE MergedData(t, o)[i] = MergedData(o, t)[i]
  <1>1. PICK vt : vt = Data(ctx[t])[i]
    OBVIOUS
  <1>2. PICK vo : vo = Data(ctx[o])[i]
    OBVIOUS
  <1>3. PICK sb : sb = Sig(MergeBase(t, o)[i])
    OBVIOUS
  <1>4. PICK here : here = Verdict(t, o, i)
    OBVIOUS
  <1>5. PICK there : there = Verdict(o, t, i)
    OBVIOUS
  <1>6. Judged(here, vt, vo, sb) /\ Judged(there, vo, vt, sb)
    BY <1>1, <1>2, <1>3, <1>4, <1>5, VerdictIs
  <1>7. /\ MergedData(t, o)[i] = IF here \in {"sent", "adopt"} THEN vo ELSE vt
        /\ MergedData(o, t)[i] = IF there \in {"sent", "adopt"} THEN vt ELSE vo
    BY <1>1, <1>2, <1>4, <1>5 DEF MergedData, Adopted
  <1>8. /\ OnlySentBy(vo, vt) <=> vt \in {Pending, Failed} /\ vo = Dispatched
        /\ OnlySentBy(vt, vo) <=> vo \in {Pending, Failed} /\ vt = Dispatched
    BY OneIntent
  <1>9. CASE Sig(vt) = Sig(vo)
    <2>1. vt = vo \/ (vt \in {Pending, Dispatched, Failed} /\ vo \in {Pending, Dispatched, Failed})
      BY <1>9, SigFacts
    <2>2. /\ here = IF vt \in {Pending, Failed} /\ vo = Dispatched THEN "sent" ELSE "same"
          /\ there = IF vo \in {Pending, Failed} /\ vt = Dispatched THEN "sent" ELSE "same"
      BY <1>6, <1>8, <1>9 DEF Judged
    <2>3. {vt, vo} = {Pending, Failed} =>
            /\ vt # Dispatched /\ vo # Dispatched
      BY DispatchedIsThere
    <2>4. {vt, vo} # {Pending, Failed} =>
            (IF here \in {"sent", "adopt"} THEN vo ELSE vt)
              = (IF there \in {"sent", "adopt"} THEN vt ELSE vo)
      <3>1. CASE vt = vo
        BY <3>1
      <3>2. CASE vt = Dispatched /\ vo \in {Pending, Failed}
        BY <2>2, <3>2, DispatchedIsThere
      <3>3. CASE vo = Dispatched /\ vt \in {Pending, Failed}
        BY <2>2, <3>3, DispatchedIsThere
      <3>4. CASE {vt, vo} = {Pending, Failed}
        BY <3>4
      <3> QED BY <2>1, <3>1, <3>2, <3>3, <3>4
    <2> QED BY <1>1, <1>2, <1>4, <1>5, <1>7, <2>2, <2>3, <2>4
  <1>10. CASE Sig(vt) # Sig(vo)
    <2>1. {vt, vo} # {Pending, Failed}
      BY <1>10, SigFacts
    <2>2. /\ here = "conflict" <=> there = "conflict"
          /\ here # "conflict" => \/ here = "keep" /\ there = "adopt"
                                  \/ here = "adopt" /\ there = "keep"
      BY <1>6, <1>10 DEF Judged
    <2> QED BY <1>1, <1>2, <1>4, <1>5, <1>7, <2>1, <2>2
  <1> QED BY <1>9, <1>10

-----------------------------------------------------------------------------
(* The steps *)

(* One Context changes at a time.                                           *)
LEMMA OneChanges ==
  ASSUME Inv, NEW n \in Names, NEW c, NEW performed, Good(c, performed),
         ctx' = [ctx EXCEPT ![n] = c], sent' = [sent EXCEPT ![n] = performed],
         exists' \subseteq Names
  PROVE  Inv'
  <1>1. \A m \in Names : ctx'[m] = IF m = n THEN c ELSE ctx[m]
    BY DEF Inv
  <1>2. \A m \in Names : sent'[m] = IF m = n THEN performed ELSE sent[m]
    BY DEF Inv
  <1>3. ctx' = [m \in Names |-> ctx'[m]] /\ sent' = [m \in Names |-> sent'[m]]
    BY DEF Inv
  <1>4. \A m \in Names : Good(ctx'[m], sent'[m])
    BY <1>1, <1>2 DEF Inv
  <1> QED BY <1>3, <1>4 DEF Inv

LEMMA SameContext ==
  ASSUME Inv, NEW n \in Names, NEW c, Good(c, sent[n]),
         ctx' = [ctx EXCEPT ![n] = c], sent' = sent, exists' = exists
  PROVE  Inv'
  <1>1. sent' = [sent EXCEPT ![n] = sent[n]]
    BY DEF Inv
  <1> QED BY <1>1, OneChanges DEF Inv

LEMMA RewrittenOnly ==
  ASSUME Inv, NEW n \in Names, NEW i \in Items, Rewritten(n, i)
  PROVE  /\ sent' = [sent EXCEPT ![n] = sent'[n]]
         /\ sent'[n] \subseteq sent[n] /\ i \notin sent'[n]
  <1>1. sent = [m \in Names |-> sent[m]]
    BY DEF Inv
  <1> QED BY <1>1 DEF Rewritten

LEMMA CommitInv ==
  ASSUME Inv, NEW n \in exists, NEW i \in Items, NEW op \in Ops,
         Commit(n, i, op)
  PROVE  Inv'
  <1>1. n \in Names /\ Good(ctx[n], sent[n])
    BY DEF Inv
  <1> DEFINE ops == [k \in {i} |-> op]
  <1>2. PICK reads : ctx' = [ctx EXCEPT ![n] = Patched(ctx[n], ops, reads)]
    BY <1>1 DEF Commit
  <1> DEFINE performed == sent'[n]
  <1>3. /\ sent' = [sent EXCEPT ![n] = performed]
        /\ performed \subseteq sent[n] /\ i \notin performed
    BY <1>1, RewrittenOnly DEF Commit
  <1> HIDE DEF performed
  <1>4. Good(Patched(ctx[n], ops, reads), performed)
    <2>1. DOMAIN ops = {i} /\ ops[i] = op
      OBVIOUS
    <2> HIDE DEF ops
    <2> QED BY <1>1, <1>3, <2>1, PatchedGood
  <1> QED BY <1>1, <1>2, <1>3, <1>4, OneChanges DEF Commit, Inv

LEMMA TouchInv ==
  ASSUME Inv, NEW n \in exists, NEW i \in Items, NEW v \in Proposals \cup {Absent},
         Touch(n, i, v)
  PROVE  Inv'
  <1> DEFINE op == [kind |-> IF v = Absent THEN "delete" ELSE "create", val |-> v]
             ops == [k \in {i} |-> op]
  <1>1. n \in Names /\ Good(ctx[n], sent[n])
    BY DEF Inv
  <1>2. ctx' = [ctx EXCEPT ![n] = WithOps(ctx[n], ops)]
    BY <1>1 DEF Touch
  <1> DEFINE performed == sent'[n]
  <1>3. /\ sent' = [sent EXCEPT ![n] = performed]
        /\ performed \subseteq sent[n] /\ i \notin performed
    BY <1>1, RewrittenOnly DEF Touch
  <1> HIDE DEF op
  <1> HIDE DEF performed
  <1>4. Good(WithOps(ctx[n], ops), performed)
    <2>1. DOMAIN ops = {i} /\ ops[i] = op
      OBVIOUS
    <2> HIDE DEF ops
    <2> QED BY <1>1, <1>3, <2>1, OneOpGood
  <1> QED BY <1>1, <1>2, <1>3, <1>4, OneChanges DEF Touch, Inv

LEMMA MarkedInv ==
  ASSUME Inv, NEW n \in exists, NEW i \in Items,
         Dispatch(n, i) \/ DispatchFails(n, i) \/ Retry(n, i)
  PROVE  Inv'
  <1>1. n \in Names /\ Good(ctx[n], sent[n])
    BY DEF Inv
  <1>2. PICK v : /\ Marked(n, i, v)
                 /\ \/ v = Dispatched /\ sent' = [sent EXCEPT ![n] = sent[n] \cup {i}]
                    \/ v = Failed /\ ctx[n].art[i].val = Pending /\ sent' = sent
                    \/ v = Pending /\ Rewritten(n, i)
                 /\ ctx[n].art[i] # Absent
    BY <1>1 DEF Dispatch, DispatchFails, Retry, Live
  <1> DEFINE op == [kind |-> "update", val |-> v]
             ops == [k \in {i} |-> op]
             a  == ctx[n].art[i]
             performed == sent'[n]
  <1>3. ctx' = [ctx EXCEPT ![n] = WithOps(ctx[n], ops)] /\ exists' = exists
    BY <1>2 DEF Marked
  <1>4. AfterOp(a, op) = IF a.val = v THEN a ELSE [val |-> v, ver |-> a.ver + 1]
    BY <1>2 DEF AfterOp
  <1>5. a.ver \in Nat
    BY <1>1, <1>2 DEF Good, Numbered
  <1>6. v = Dispatched => AfterOp(a, op) # Absent /\ AfterOp(a, op).val = Dispatched
    BY <1>2, <1>4, <1>5, DispatchedIsThere
  <1>7. sent = [m \in Names |-> sent[m]]
    BY DEF Inv
  <1>8. /\ sent' = [sent EXCEPT ![n] = performed]
        /\ performed \subseteq sent[n] \cup {i}
        /\ i \in performed => v = Dispatched
    <2>1. CASE v = Dispatched /\ sent' = [sent EXCEPT ![n] = sent[n] \cup {i}]
      BY <1>1, <1>7, <2>1
    <2>2. CASE v = Failed /\ ctx[n].art[i].val = Pending /\ sent' = sent
      <3>1. i \notin sent[n]
        BY <1>1, <2>2, DispatchedIsThere DEF Good, Holds
      <3> QED BY <1>1, <1>7, <2>2, <3>1
    <2>3. CASE v = Pending /\ Rewritten(n, i)
      BY <1>1, <2>3, RewrittenOnly
    <2> QED BY <1>2, <2>1, <2>2, <2>3
  <1> HIDE DEF op, performed
  <1>9. Good(WithOps(ctx[n], ops), performed)
    <2>1. DOMAIN ops = {i} /\ ops[i] = op
      OBVIOUS
    <2> HIDE DEF ops
    <2> QED BY <1>1, <1>6, <1>8, <2>1, OneOpGood
  <1> QED BY <1>1, <1>3, <1>8, <1>9, OneChanges DEF Inv

LEMMA CheckoutInv ==
  ASSUME Inv, NEW n \in exists, NEW v, Checkout(n, v)
  PROVE  Inv'
  <1> DEFINE rebuilt == Touched(ctx[n].log, v) \cup (Items \ Live(ctx[n]))
  <1>1. n \in Names /\ Good(ctx[n], sent[n])
    BY DEF Inv
  <1>2. /\ ctx' = [ctx EXCEPT ![n] = RolledBack(ctx[n], v)]
        /\ sent' = [sent EXCEPT ![n] = sent[n] \ rebuilt] /\ exists' = exists
    BY <1>1 DEF Checkout
  <1>3. Good(RolledBack(ctx[n], v), sent[n] \ rebuilt)
    BY <1>1, RolledBackGood
  <1> QED BY <1>1, <1>2, <1>3, OneChanges DEF Inv

LEMMA ForkInv ==
  ASSUME Inv, NEW n \in exists, NEW m \in Names, Fork(n, m)
  PROVE  Inv'
  <1>1. Good(Forked(ctx[n]), sent[n])
    BY ForkedGood DEF Inv
  <1>2. /\ ctx' = [ctx EXCEPT ![m] = Forked(ctx[n])]
        /\ sent' = [sent EXCEPT ![m] = sent[n]] /\ exists' = exists \cup {m}
    BY DEF Fork
  <1> QED BY <1>1, <1>2, OneChanges DEF Inv

(* A three-way merge: every item it keeps or adopts as performed was        *)
(* performed on one side, and then says so.                                 *)
LEMMA MergeInv ==
  ASSUME Inv, NEW t \in exists, NEW o \in exists, Merge(t, o)
  PROVE  Inv'
  <1> DEFINE ops == MergeOps(t, o)
             moved == [ctx[t] EXCEPT !.art = MergedArt(t, o)]
             commit == CommitOf(moved, ops, {}, {})
             performed == {i \in Items :
               /\ IsAction(MergedData(t, o)[i])
               /\ \E n \in {t, o} : i \in sent[n] /\ IsAction(Data(ctx[n])[i])}
             new == Recomputed(Logged(moved, commit))
  <1>1. t \in Names /\ o \in Names /\ Good(ctx[t], sent[t]) /\ Good(ctx[o], sent[o])
    BY DEF Inv
  <1>2. /\ ctx' = [ctx EXCEPT ![t] = new] /\ sent' = [sent EXCEPT ![t] = performed]
        /\ exists' = exists /\ Conflicts(t, o) = {}
    BY <1>1 DEF Merge, TakenOver
  <1>3. IsContext(moved) /\ moved.art = MergedArt(t, o)
    BY <1>1 DEF Good, IsContext
  <1>4. \A i \in Items : MergedArt(t, o)[i] # Absent => MergedArt(t, o)[i].ver \in Nat
    BY <1>1 DEF MergedArt, Good, Numbered, Fresh, Live
  <1>5. ASSUME NEW i \in performed
        PROVE  MergedArt(t, o)[i] # Absent /\ MergedArt(t, o)[i].val = Dispatched
    <2>1. \/ Data(ctx[t])[i] = Dispatched
          \/ Data(ctx[o])[i] = Dispatched
      BY <1>1, DataAt DEF Good, Holds
    <2>2. MergedData(t, o)[i] = Dispatched
      BY <1>2, <2>1, MergedPerformed
    <2>3. CASE i \notin Adopted(t, o)
      <3>1. Data(ctx[t])[i] = Dispatched /\ MergedArt(t, o)[i] = ctx[t].art[i]
        BY <2>2, <2>3 DEF MergedData, MergedArt
      <3> QED BY <3>1, DataAt, DispatchedIsThere
    <2>4. CASE i \in Adopted(t, o)
      <3>1. Data(ctx[o])[i] = Dispatched
        BY <2>2, <2>4 DEF MergedData
      <3>2. MergedArt(t, o)[i] = IF ctx[t].art[i] # Absent
                                 THEN [val |-> Dispatched, ver |-> ctx[t].art[i].ver + 1]
                                 ELSE [val |-> Dispatched, ver |-> 0]
        BY <2>4, <3>1, DispatchedIsThere DEF MergedArt, Live, Fresh
      <3>3. ctx[t].art[i] # Absent => ctx[t].art[i].ver \in Nat
        BY <1>1 DEF Good, Numbered
      <3> QED BY <3>2, <3>3, DispatchedIsThere
    <2> QED BY <2>3, <2>4
  <1> HIDE DEF moved
  <1>6. Good(moved, performed)
    BY <1>3, <1>4, <1>5 DEF Good, Numbered, Holds
  <1> HIDE DEF commit, performed
  <1>7. Good(Logged(moved, commit), performed)
    BY <1>6, LoggedGood
  <1>8. Good(new, performed)
    BY <1>7, RecomputedArt DEF Good, Numbered, Holds
  <1> QED BY <1>1, <1>2, <1>8, OneChanges DEF Inv

(* A merge by version: what it takes over brings its history along.         *)
LEMMA MergeFromInv ==
  ASSUME Inv, NEW t \in exists, NEW o \in exists, MergeFrom(t, o)
  PROVE  Inv'
  <1> DEFINE newer == {i \in Live(ctx[o]) : i \in Live(ctx[t]) => ctx[o].art[i].ver > ctx[t].art[i].ver}
             ops   == [i \in newer |-> AdoptOp(t, ctx[o].art[i].val, i)]
             moved == WithOps(ctx[t], ops)
             commit == CommitOf(moved, ops, {}, {})
             performed == (sent[t] \ newer) \cup (newer \cap sent[o])
  <1>1. t \in Names /\ o \in Names /\ Good(ctx[t], sent[t]) /\ Good(ctx[o], sent[o])
    BY DEF Inv
  <1>2. /\ ctx' = [ctx EXCEPT ![t] = Logged(moved, commit)]
        /\ sent' = [sent EXCEPT ![t] = performed] /\ exists' = exists
    BY <1>1 DEF MergeFrom, TakenOver
  <1>3. /\ IsContext(moved) /\ Numbered(moved)
        /\ \A i \in Items : moved.art[i] = IF i \in DOMAIN ops THEN AfterOp(ctx[t].art[i], ops[i])
                                           ELSE ctx[t].art[i]
    <2> HIDE DEF ops
    <2> QED BY <1>1, WithOpsArt, WithOpsNumbered DEF Good
  <1>4. ASSUME NEW i \in performed
        PROVE  i \in Items /\ moved.art[i] # Absent /\ moved.art[i].val = Dispatched
    <2> HIDE DEF moved
    <2>1. CASE i \in sent[t] \ newer
      <3>1. i \in Items /\ ctx[t].art[i] # Absent /\ ctx[t].art[i].val = Dispatched
        BY <1>1, <2>1 DEF Good, Holds
      <3>2. i \notin DOMAIN ops
        BY <2>1
      <3>3. moved.art[i] = ctx[t].art[i]
        <4> HIDE DEF ops
        <4> QED BY <1>3, <3>1, <3>2
      <3> QED BY <3>1, <3>3
    <2>2. CASE i \in newer \cap sent[o]
      <3> DEFINE a == ctx[t].art[i]
                 op == AdoptOp(t, Dispatched, i)
      <3>1. i \in Items /\ ctx[o].art[i].val = Dispatched
        BY <1>1, <2>2 DEF Good, Holds
      <3>2. moved.art[i] = AfterOp(a, op)
        BY <1>3, <2>2, <3>1
      <3>3. op.val = Dispatched /\ op.kind = IF a # Absent THEN "update" ELSE "adopt"
        BY <3>1, DispatchedIsThere DEF AdoptOp, Live
      <3>4. a # Absent => a.ver \in Nat
        BY <1>1, <3>1 DEF Good, Numbered
      <3> HIDE DEF op, a
      <3>5. AfterOp(a, op) = IF a = Absent THEN [val |-> Dispatched, ver |-> 0]
                             ELSE IF a.val = Dispatched THEN a
                             ELSE [val |-> Dispatched, ver |-> a.ver + 1]
        BY <3>3 DEF AfterOp, Fresh
      <3> QED BY <3>1, <3>2, <3>4, <3>5, DispatchedIsThere
    <2>3. i \in sent[t] \ newer \/ i \in newer \cap sent[o]
      BY <1>4
    <2> QED BY <2>1, <2>2, <2>3
  <1> HIDE DEF moved, performed
  <1>5. Good(moved, performed)
    BY <1>3, <1>4 DEF Good, Holds
  <1> HIDE DEF commit
  <1>6. Good(Logged(moved, commit), performed)
    BY <1>5, LoggedGood
  <1> QED BY <1>1, <1>2, <1>6, OneChanges DEF Inv

-----------------------------------------------------------------------------
(* I. Theorems *)

LEMMA InvInit == Init => Inv
  <1> SUFFICES ASSUME Init PROVE Inv
    OBVIOUS
  <1>1. Good(EmptyContext, {})
    BY DEF Good, IsContext, Numbered, Holds, EmptyContext
  <1>2. \A S, v : Good(Seeded(S, v), {})
    <2> TAKE S, v
    <2>1. PICK c : c = Seeded(S, v)
      OBVIOUS
    <2>2. IsContext(c) /\ c.art = [i \in Items |-> IF i \in S THEN Fresh(v) ELSE Absent]
      BY <2>1 DEF Seeded, EmptyContext, IsContext
    <2>3. \A i \in Items : c.art[i] # Absent => c.art[i].ver \in Nat
      BY ONLY <2>2 DEF Fresh
    <2> QED BY <2>1, <2>2, <2>3 DEF Good, Numbered, Holds
  <1>3. \A i, j \in Items : \A u, v : Good(Derived(i, u, j, v), {})
    <2> TAKE i, j \in Items
    <2> TAKE u, v
    <2> DEFINE first  == [k \in {i} |-> [kind |-> "create", val |-> u]]
               second == [k \in {j} |-> [kind |-> "create", val |-> v]]
               source == Patched(EmptyContext, first, {})
               reads  == ReadsOf(source, {i})
    <2>1. Derived(i, u, j, v) = Patched(source, second, reads)
      BY DEF Derived
    <2>2. DOMAIN first = {i} /\ DOMAIN second = {j} /\ first[i] = first[i] /\ second[j] = second[j]
      OBVIOUS
    <2> HIDE DEF first, second
    <2>3. Good(source, {})
      BY <1>1, <2>2, PatchedGood
    <2> HIDE DEF source, reads
    <2>4. Good(Patched(source, second, reads), {})
      BY <2>2, <2>3, PatchedGood
    <2> QED BY <2>1, <2>4
  <1>4. PICK root \in Names : /\ exists = {root}
                              /\ \E c : /\ Good(c, {})
                                        /\ ctx = [m \in Names |-> IF m = root THEN c ELSE EmptyContext]
    BY <1>2, <1>3 DEF Init, Begin
  <1>5. sent = [n \in Names |-> {}]
    BY DEF Init
  <1> QED BY <1>1, <1>4, <1>5 DEF Inv

LEMMA InvNext == Inv /\ [Next]_vars => Inv'
  <1> SUFFICES ASSUME Inv, [Next]_vars PROVE Inv'
    OBVIOUS
  <1>0. exists \subseteq Names /\ \A n \in exists : Good(ctx[n], sent[n])
    BY DEF Inv
  <1>1. ASSUME NEW n \in exists, NEW S, StartAgent(n, S) PROVE Inv'
    BY <1>1 DEF StartAgent, history, Inv
  <1>2. ASSUME NEW n \in exists, NEW i \in Items, NEW op \in Ops, Commit(n, i, op)
        PROVE  Inv'
    BY <1>2, CommitInv
  <1>3. ASSUME NEW n \in exists, NEW i \in Items, NEW v \in Proposals \cup {Absent},
               Touch(n, i, v)
        PROVE  Inv'
    BY <1>3, TouchInv
  <1>4. ASSUME NEW n \in exists, NEW i \in Items,
               Dispatch(n, i) \/ DispatchFails(n, i) \/ Retry(n, i)
        PROVE  Inv'
    BY <1>4, MarkedInv
  <1>5. ASSUME NEW n \in exists, NEW v, Checkout(n, v) PROVE Inv'
    BY <1>5, CheckoutInv
  <1>6. ASSUME NEW n \in exists, NEW keep, Compact(n, keep) PROVE Inv'
    <2>1. Good(Compacted(ctx[n], keep), sent[n])
      BY <1>0, CompactedGood
    <2> QED BY <1>0, <1>6, <2>1, SameContext DEF Compact, history
  <1>7. ASSUME NEW n \in exists, Reload(n) PROVE Inv'
    <2>1. Good(Copied(ctx[n]), sent[n])
      BY <1>0, CopiedGood
    <2> QED BY <1>0, <1>7, <2>1, SameContext DEF Reload, history
  <1>8. ASSUME NEW n \in exists, NEW m \in Names, Fork(n, m) PROVE Inv'
    BY <1>8, ForkInv
  <1>9. ASSUME NEW n \in exists, NEW o \in exists, Merge(n, o) \/ MergeFrom(n, o) PROVE Inv'
    BY <1>9, MergeInv, MergeFromInv
  <1>10. CASE UNCHANGED vars
    BY <1>10 DEF vars, history, Inv
  <1> QED BY <1>1, <1>2, <1>3, <1>4, <1>5, <1>6, <1>7, <1>8, <1>9, <1>10 DEF Next

(* branching.py: an action performed in one branch is "sent" to the other   *)
(* by a merge in either direction, and neither forks, rollbacks,            *)
(* compactions nor reloads make it pending or failed.                       *)
THEOREM SentStaysSent == Spec => []NothingSentIsPending
  <1>1. Inv => NothingSentIsPending
    BY DataAt, DispatchedIsThere DEF Inv, Good, Holds, NothingSentIsPending
  <1> QED BY <1>1, InvInit, InvNext, PTL DEF Spec

(* branching.py: with one base, merging a into b and b into a raise alike   *)
(* or end alike, but for the record of an intent that one side failed to    *)
(* send and the other still has pending: there the target's own stays.      *)
THEOREM EitherMayBeTarget == Spec => []MergeIsSymmetric
  <1>1. MergeIsSymmetric
    BY VerdictSymmetric DEF MergeIsSymmetric, Conflicts
  <1> QED BY <1>1, PTL

-----------------------------------------------------------------------------
(* II. The commit chain and what is derived from it: what a Context is *)

OpMaps == UNION {[S -> OpRecs] : S \in SUBSET Items}

CommitRecs ==
  [ops : OpMaps, reads : SUBSET Reads, writes : SUBSET Items, behind : SUBSET Items]

Indexes == [Items -> SUBSET Items]

Bases == {<<>>} \cup {<<s>> : s \in States}

ContextRecs ==
  [art : [Items -> Artifacts], log : LogsOf(CommitRecs), reading : Indexes, deps : Indexes,
   stale : SUBSET Items, base : Bases]

LEMMA CommitsHaveOps == HasOps(CommitRecs)
BY DEF HasOps, CommitRecs, OpMaps

LEMMA NoArtifact ==
  ASSUME NEW a \in Artifacts
  PROVE  /\ a # Absent <=> a \in [val : Vals, ver : Nat]
         /\ a # Absent => a.val \in Vals /\ a.ver \in Nat /\ a.val # Absent
                          /\ a = [val |-> a.val, ver |-> a.ver]
BY ArtifactAssumption, AbsentAssumption DEF Artifacts, ArtifactAssumption, AbsentAssumption

LEMMA FreshTyped ==
  ASSUME NEW v \in Vals
  PROVE  Fresh(v) \in Artifacts /\ Fresh(v) # Absent /\ Fresh(v).val = v /\ Fresh(v).ver = 0
<1>1. Fresh(v) \in [val : Vals, ver : Nat]
  BY DEF Fresh
<1> QED
  BY <1>1, ArtifactAssumption DEF Artifacts, Fresh, ArtifactAssumption

LEMMA AbsentTyped == Absent \in Artifacts
BY DEF Artifacts

(* A record with other artifacts. *)
LEMMA ArtTyped ==
  ASSUME NEW c \in ContextRecs, NEW art \in [Items -> Artifacts], NEW d, d = [c EXCEPT !.art = art]
  PROVE  d \in ContextRecs /\ d = [art |-> art, log |-> c.log, reading |-> c.reading,
                                   deps |-> c.deps, stale |-> c.stale, base |-> c.base]
BY DEF ContextRecs

LEMMA DataTyped ==
  ASSUME NEW c \in ContextRecs
  PROVE  /\ Data(c) \in States
         /\ \A i \in Items : /\ c.art[i] \in Artifacts
                             /\ Data(c)[i] = Absent <=> c.art[i] = Absent
                             /\ c.art[i] # Absent => Data(c)[i] = c.art[i].val
<1>1. \A i \in Items : c.art[i] \in Artifacts
  BY DEF ContextRecs
<1>2. \A i \in Items : Data(c)[i] = IF c.art[i] # Absent THEN c.art[i].val ELSE Absent
  BY DEF Data, Live
<1>3. \A i \in Items : c.art[i] # Absent => c.art[i].val \in Vals /\ c.art[i].val # Absent
  BY <1>1, NoArtifact
<1>4. Data(c) \in [Items -> Vals \cup {Absent}]
  BY <1>2, <1>3 DEF Data
<1> QED
  BY <1>1, <1>2, <1>3, <1>4 DEF States

(* An operation on an artifact. *)
LEMMA AfterOpTyped ==
  ASSUME NEW a \in Artifacts, NEW op \in OpRecs
  PROVE  /\ AfterOp(a, op) \in Artifacts
         /\ op.kind \in {"create", "update", "adopt", "delete"}
         /\ op.kind = "delete" => op.val = Absent /\ AfterOp(a, op) = Absent
         /\ op.kind # "delete" => op.val \in Vals
         /\ op.kind = "update" /\ a = Absent => AfterOp(a, op) = Absent
         /\ op.kind # "delete" /\ ~(op.kind = "update" /\ a = Absent) =>
              AfterOp(a, op) # Absent /\ AfterOp(a, op).val = op.val
         /\ a # Absent /\ AfterOp(a, op) # Absent =>
              \/ AfterOp(a, op) = a
              \/ AfterOp(a, op).ver = a.ver + 1 /\ AfterOp(a, op).val # a.val
<1>1. /\ op.kind = "delete" => op.val = Absent
      /\ op.kind # "delete" => op.kind \in {"create", "update", "adopt"} /\ op.val \in Vals
  BY DEF OpRecs
<1>2. CASE op.kind = "delete"
  BY <1>1, <1>2, AbsentTyped DEF AfterOp
<1>3. CASE op.kind = "update" /\ a = Absent
  BY <1>1, <1>3, AbsentTyped DEF AfterOp
<1>4. CASE op.kind # "delete" /\ a # Absent
  <2>1. AfterOp(a, op) = IF a.val = op.val THEN a ELSE [val |-> op.val, ver |-> a.ver + 1]
    BY <1>4 DEF AfterOp
  <2>2. a.ver \in Nat /\ a.val \in Vals
    BY <1>4, NoArtifact
  <2>3. [val |-> op.val, ver |-> a.ver + 1] \in [val : Vals, ver : Nat]
    BY <1>1, <1>4, <2>2
  <2>4. [val |-> op.val, ver |-> a.ver + 1] \in Artifacts /\ [val |-> op.val, ver |-> a.ver + 1] # Absent
    BY <2>3, ArtifactAssumption DEF Artifacts, ArtifactAssumption
  <2> QED BY <1>1, <1>4, <2>1, <2>4
<1>5. CASE op.kind # "delete" /\ op.kind # "update" /\ a = Absent
  <2>1. AfterOp(a, op) = Fresh(op.val)
    BY <1>5 DEF AfterOp
  <2> QED BY <1>1, <1>5, <2>1, FreshTyped
<1> QED
  BY <1>1, <1>2, <1>3, <1>4, <1>5

LEMMA WithOpsTyped ==
  ASSUME NEW c \in ContextRecs, NEW ops \in OpMaps, NEW d, d = WithOps(c, ops)
  PROVE  /\ d \in ContextRecs
         /\ DOMAIN ops \subseteq Items /\ \A i \in DOMAIN ops : ops[i] \in OpRecs
         /\ \A i \in Items : d.art[i] = IF i \in DOMAIN ops THEN AfterOp(c.art[i], ops[i])
                                        ELSE c.art[i]
         /\ d.log = c.log /\ d.reading = c.reading /\ d.deps = c.deps /\ d.base = c.base
<1>1. PICK S \in SUBSET Items : ops \in [S -> OpRecs]
  BY DEF OpMaps
<1>2. DOMAIN ops \subseteq Items /\ \A i \in DOMAIN ops : ops[i] \in OpRecs
  BY <1>1
<1> DEFINE art == [i \in Items |-> IF i \in DOMAIN ops THEN AfterOp(c.art[i], ops[i]) ELSE c.art[i]]
<1>3. art \in [Items -> Artifacts]
  <2>1. \A i \in Items : c.art[i] \in Artifacts
    BY DEF ContextRecs
  <2>2. \A i \in DOMAIN ops : AfterOp(c.art[i], ops[i]) \in Artifacts
    BY <1>2, <2>1, AfterOpTyped
  <2> QED BY <2>1, <2>2
<1>4. PICK st : st \subseteq Items /\ d = [[c EXCEPT !.art = art] EXCEPT !.stale = st]
  BY DEF WithOps, Live
<1> HIDE DEF art
<1>5. d = [art |-> art, log |-> c.log, reading |-> c.reading,
           deps |-> c.deps, stale |-> st, base |-> c.base]
  BY <1>3, <1>4, ArtTyped DEF ContextRecs
<1>6. d \in ContextRecs
  BY <1>3, <1>4, <1>5 DEF ContextRecs
<1> QED
  BY <1>2, <1>5, <1>6 DEF art

-----------------------------------------------------------------------------
(* The producer index *)

IndexRecs == [reading : Indexes, deps : Indexes]

(* Of the commits cs[1], ..., cs[n]: those that wrote i, and what the last  *)
(* of them read.                                                            *)
Writers(cs, n, i) == {k \in 1 .. n : i \in cs[k].writes}

LastRead(cs, n, i) ==
  IF Writers(cs, n, i) = {} THEN {} ELSE Sources(cs[Max(Writers(cs, n, i))])

(* The index `reading`, `deps` is that of these commits.                    *)
IndexOf(reading, deps, cs, n) ==
  /\ \A i \in Items : reading[i] = LastRead(cs, n, i)
  /\ \A s \in Items : deps[s] = {w \in Items : s \in reading[w]}

(* What commit c makes of an index.                                         *)
Advances(reading, deps, reading2, deps2, c) ==
  /\ \A i \in Items : reading2[i] = IF i \in c.writes THEN Sources(c) ELSE reading[i]
  /\ \A s \in Items : deps2[s] = (deps[s] \ {w \in c.writes : s \in reading[w]})
                                    \cup {w \in c.writes : s \in Sources(c)}

LEMMA SourcesTyped == ASSUME NEW c \in CommitRecs PROVE Sources(c) \subseteq Items
<1>1. \A r \in c.reads : r.item \in Items
  BY DEF CommitRecs, Reads
<1> QED
  BY <1>1 DEF Sources

LEMMA IndexTyped ==
  ASSUME NEW ix \in IndexRecs, NEW c \in CommitRecs
  PROVE  /\ IndexCommit(ix, c) \in IndexRecs
         /\ Advances(ix.reading, ix.deps, IndexCommit(ix, c).reading, IndexCommit(ix, c).deps, c)
<1> DEFINE reading == [i \in Items |-> IF i \in c.writes THEN Sources(c) ELSE ix.reading[i]]
           deps == [s \in Items |-> (ix.deps[s] \ {w \in c.writes : s \in ix.reading[w]})
                                      \cup {w \in c.writes : s \in Sources(c)}]
<1>1. ix = [reading |-> ix.reading, deps |-> ix.deps]
      /\ ix.reading \in Indexes /\ ix.deps \in Indexes
  BY DEF IndexRecs
<1>2. IndexCommit(ix, c) = [reading |-> reading, deps |-> deps]
  <2>1. IndexCommit(ix, c) = [ix EXCEPT !.reading = reading, !.deps = deps]
    BY DEF IndexCommit
  <2> HIDE DEF reading, deps
  <2> QED BY <1>1, <2>1
<1>3. c.writes \subseteq Items
  BY DEF CommitRecs
<1>4. reading \in Indexes
  BY <1>1, SourcesTyped DEF Indexes
<1>5. deps \in Indexes
  <2>1. \A s \in Items : ix.deps[s] \subseteq Items
    BY <1>1 DEF Indexes
  <2>2. \A s \in Items : (ix.deps[s] \ {w \in c.writes : s \in ix.reading[w]})
                           \cup {w \in c.writes : s \in Sources(c)} \subseteq Items
    BY <1>3, <2>1
  <2> QED BY <2>2 DEF Indexes
<1>6. IndexCommit(ix, c) \in IndexRecs
  <2> HIDE DEF reading, deps
  <2> QED BY <1>2, <1>4, <1>5 DEF IndexRecs
<1> QED
  BY <1>2, <1>6 DEF Advances

(* The last writer, one commit later.                                       *)
LEMMA LastReadNext ==
  ASSUME NEW cs \in Seq(CommitRecs), NEW n \in Nat, n + 1 <= Len(cs), NEW i \in Items
  PROVE  /\ LastRead(cs, n + 1, i) = IF i \in cs[n + 1].writes THEN Sources(cs[n + 1])
                                     ELSE LastRead(cs, n, i)
         /\ i \in cs[n + 1].writes => Writers(cs, n + 1, i) # {} /\ Max(Writers(cs, n + 1, i)) = n + 1
         /\ i \notin cs[n + 1].writes => Writers(cs, n + 1, i) = Writers(cs, n, i)
<1>1. CASE i \in cs[n + 1].writes
  <2>1. /\ n + 1 \in Writers(cs, n + 1, i) /\ Writers(cs, n + 1, i) \in SUBSET (1 .. n + 1)
        /\ n + 1 \in Nat
    BY <1>1 DEF Writers
  <2>2. Writers(cs, n + 1, i) # {}
    BY <2>1
  <2>3. /\ Max(Writers(cs, n + 1, i)) \in Writers(cs, n + 1, i)
        /\ Max(Writers(cs, n + 1, i)) >= n + 1
    BY <2>1, <2>2, MaxOfSegment
  <2>4. Max(Writers(cs, n + 1, i)) = n + 1
    <3>1. Max(Writers(cs, n + 1, i)) \in 1 .. n + 1
      BY <2>1, <2>3
    <3> QED BY <2>3, <3>1
  <2> QED BY <1>1, <2>2, <2>4 DEF LastRead
<1>2. CASE i \notin cs[n + 1].writes
  <2>1. Writers(cs, n + 1, i) = Writers(cs, n, i)
    BY <1>2 DEF Writers
  <2> QED BY <1>2, <2>1 DEF LastRead
<1> QED
  BY <1>1, <1>2

(* log_commit keeps the index exact.                                        *)
LEMMA IndexStep ==
  ASSUME NEW cs \in Seq(CommitRecs), NEW n \in Nat, n + 1 <= Len(cs), NEW reading, NEW deps,
         IndexOf(reading, deps, cs, n), NEW c, c = cs[n + 1],
         NEW reading2, NEW deps2, Advances(reading, deps, reading2, deps2, c)
  PROVE  IndexOf(reading2, deps2, cs, n + 1)
<1>0. c \in CommitRecs /\ c.writes \subseteq Items
  <2>1. c \in CommitRecs
    BY DEF IndexOf
  <2> QED BY <2>1 DEF CommitRecs
<1>1. \A i \in Items : reading2[i] = LastRead(cs, n + 1, i)
  BY LastReadNext DEF IndexOf, Advances
<1>2. ASSUME NEW s \in Items  PROVE deps2[s] = {w \in Items : s \in reading2[w]}
  <2>1. deps[s] = {w \in Items : s \in reading[w]}
    BY DEF IndexOf
  <2>2. \A w \in Items : s \in reading2[w] <=>
          IF w \in c.writes THEN s \in Sources(c) ELSE s \in reading[w]
    BY DEF Advances
  <2>3. \A w : w \in deps2[s] <=> w \in Items /\ s \in reading2[w]
    BY <1>0, <2>1, <2>2 DEF Advances
  <2> QED BY <2>3
<1> QED
  BY <1>1, <1>2 DEF IndexOf

(* Reindexing, which folds over the chain, makes an exact index.            *)
LEMMA FoldIndexes ==
  ASSUME NEW cs \in Seq(CommitRecs), NEW base,
         base = [reading |-> NoReading, deps |-> NoReading], NEW ix,
         ix = FoldLeft(IndexCommit, base, cs)
  PROVE  ix \in IndexRecs /\ IndexOf(ix.reading, ix.deps, cs, Len(cs))
<1> DEFINE n == Len(cs)
           step == [p \in IndexRecs \X (1 .. n) |-> IndexCommit(p[1], cs[p[2]])]
           Computes(g) == g = [s \in SUBSET (1 .. n) |->
             IF s = {} THEN base ELSE IndexCommit(g[s \ {Max(s)}], cs[Max(s)])]
           it == CHOOSE g : Computes(g)
<1>0. base \in IndexRecs
  BY DEF IndexRecs, NoReading, Indexes
<1>1. DOMAIN cs = 1 .. n /\ n \in Nat /\ \A k \in 1 .. n : cs[k] \in CommitRecs
  OBVIOUS
<1>2. FoldLeft(IndexCommit, base, cs) = it[1 .. n]
  BY <1>1 DEF FoldLeft, MapThenFoldSet
<1>3. step \in [IndexRecs \X (1 .. n) -> IndexRecs]
  BY <1>1, IndexTyped
<1>4. \E g : Computes(g)
  <2>1. PICK g : FoldsOver(g, n, IndexRecs, base, step)
    <3> HIDE DEF step, n
    <3>1. n \in Nat
      BY <1>1
    <3> QED BY <1>0, <3>1, <1>3, FoldExists
  <2>2. ASSUME NEW s \in SUBSET (1 .. n), s # {}
        PROVE  g[s] = IndexCommit(g[s \ {Max(s)}], cs[Max(s)])
    <3>1. s \ {Max(s)} \in SUBSET (1 .. n)
      OBVIOUS
    <3>2. Max(s) \in s
      BY Zenon, <1>1, <2>2, MaxOfSegment
    <3> HIDE DEF n
    <3>3. <<g[s \ {Max(s)}], Max(s)>> \in IndexRecs \X (1 .. n)
      BY <2>1, <3>1, <3>2 DEF FoldsOver
    <3> QED BY <2>1, <2>2, <3>3 DEF FoldsOver
  <2>3. Computes(g)
    BY <2>1, <2>2 DEF FoldsOver
  <2> QED BY <2>3
<1>5. Computes(it)
  BY Zenon, <1>4
<1>6. Recurs(it, n, IndexRecs, base, step)
  <2> SUFFICES ASSUME NEW s \in SUBSET (1 .. n)
               PROVE  IF s = {} THEN it[s] = base
                      ELSE it[s \ {Max(s)}] \in IndexRecs =>
                             it[s] = step[<<it[s \ {Max(s)}], Max(s)>>]
    BY DEF Recurs
  <2> HIDE DEF it
  <2>1. CASE s = {}
    BY <1>5, <2>1
  <2>2. CASE s # {}
    <3>1. it[s] = IndexCommit(it[s \ {Max(s)}], cs[Max(s)])
      BY <1>5, <2>2
    <3>2. Max(s) \in 1 .. n
      <4>1. Max(s) \in s
        BY Zenon, <1>1, <2>2, MaxOfSegment
      <4> QED BY <4>1
    <3> QED BY <2>2, <3>1, <3>2
  <2> QED BY <2>1, <2>2
<1> DEFINE r == Segments(it, n)
<1>7. Runs(r, n, IndexRecs, base, step) /\ r[n] = it[1 .. n]
  <2> HIDE DEF it, step, n, Computes
  <2>1. n \in Nat
    BY <1>1
  <2>2. Runs(r, n, IndexRecs, base, step)
    BY <1>0, <2>1, <1>3, <1>6, FoldRuns
  <2> QED BY <2>1, <2>2 DEF Segments
<1> HIDE DEF r
<1>8. ASSUME NEW k \in 1 .. n  PROVE r[k - 1] \in IndexRecs /\ r[k] = IndexCommit(r[k - 1], cs[k])
  <2>1. k - 1 \in 0 .. n
    BY <1>1
  <2> HIDE DEF n
  <2>2. <<r[k - 1], k>> \in IndexRecs \X (1 .. n)
    BY <1>7, <2>1 DEF Runs
  <2> QED BY <1>7, <2>2 DEF Runs
<1> HIDE DEF it, step
<1> DEFINE Exact(k) == IndexOf(r[k].reading, r[k].deps, cs, k)
           Fails == {k \in 0 .. n : ~Exact(k)}
<1>9. Exact(0)
  <2>1. r[0].reading = NoReading /\ r[0].deps = NoReading
    BY <1>7 DEF Runs
  <2>2. \A i \in Items : LastRead(cs, 0, i) = {}
    BY DEF LastRead, Writers
  <2> QED BY <2>1, <2>2 DEF IndexOf, NoReading
<1>10. ASSUME NEW k \in 1 .. n, Exact(k - 1)  PROVE Exact(k)
  <2> DEFINE x == r[k - 1]
             y == r[k]
             c == cs[k]
  <2>1. x \in IndexRecs /\ y = IndexCommit(x, c) /\ c \in CommitRecs
    BY <1>1, <1>8
  <2>2. k - 1 \in Nat /\ (k - 1) + 1 = k /\ k <= Len(cs)
    BY <1>1
  <2>3. Advances(x.reading, x.deps, y.reading, y.deps, c)
    <3> HIDE DEF x, y, c
    <3> QED BY <2>1, IndexTyped
  <2>4. IndexOf(x.reading, x.deps, cs, k - 1) /\ c = cs[(k - 1) + 1]
    BY <1>10, <2>2
  <2> HIDE DEF x, y, c
  <2>5. IndexOf(y.reading, y.deps, cs, (k - 1) + 1)
    BY <2>2, <2>3, <2>4, IndexStep
  <2> QED BY <2>2, <2>5 DEF y
<1>11. Fails = {}
  <2> HIDE DEF Fails, Exact
  <2> SUFFICES ASSUME Fails # {} PROVE FALSE
    OBVIOUS
  <2>1. Fails \subseteq 0 .. n /\ Fails \subseteq Nat
    BY DEF Fails
  <2>2. PICK k \in Fails : \A y \in Fails : k <= y
    BY Zenon, <2>1, LeastNatural
  <2>3. k \in 0 .. n /\ ~Exact(k)
    BY DEF Fails
  <2>4. k \in 1 .. n /\ k - 1 \in 0 .. n /\ k - 1 < k
    BY <1>1, <1>9, <2>3
  <2>5. Exact(k - 1)
    BY <2>2, <2>4 DEF Fails
  <2> QED BY <1>10, <2>3, <2>4, <2>5
<1>12. Exact(n) /\ r[n] \in IndexRecs
  <2>1. n \in 0 .. n
    BY <1>1
  <2> HIDE DEF Exact, n
  <2> QED BY <1>7, <1>11, <2>1 DEF Runs
<1> QED
  BY <1>2, <1>7, <1>12

(* The index of a Context is that of its chain.                             *)
Exact(c) == IndexOf(c.reading, c.deps, c.log.commits, Len(c.log.commits))

LEMMA IndexAgrees ==
  ASSUME NEW cs \in Seq(CommitRecs), NEW ds \in Seq(CommitRecs), NEW n \in Nat,
         n <= Len(cs), n <= Len(ds), Shifted(ds, cs, 0, 1 .. n),
         NEW reading, NEW deps, IndexOf(reading, deps, cs, n)
  PROVE  IndexOf(reading, deps, ds, n)
<1>1. \A k \in 1 .. n : ds[k] = cs[k]
  <2> TAKE k \in 1 .. n
  <2>1. k + 0 = k
    OBVIOUS
  <2> QED BY <2>1 DEF Shifted
<1>2. ASSUME NEW i \in Items  PROVE LastRead(ds, n, i) = LastRead(cs, n, i)
  <2>1. Writers(ds, n, i) = Writers(cs, n, i) /\ Writers(cs, n, i) \in SUBSET (1 .. n)
    BY <1>1 DEF Writers
  <2>2. CASE Writers(cs, n, i) = {}
    BY <2>1, <2>2 DEF LastRead
  <2>3. CASE Writers(cs, n, i) # {}
    <3>1. Max(Writers(cs, n, i)) \in Writers(cs, n, i)
      BY <2>1, <2>3, MaxOfSegment
    <3>2. Max(Writers(cs, n, i)) \in 1 .. n
      BY <2>1, <3>1
    <3> QED BY <1>1, <2>1, <2>3, <3>2 DEF LastRead
  <2> QED BY <2>2, <2>3
<1> QED
  BY <1>2 DEF IndexOf

LEMMA LogTyped ==
  ASSUME NEW c \in ContextRecs
  PROVE  /\ c.log \in LogsOf(CommitRecs) /\ HasOps(CommitRecs)
         /\ c.log.commits \in Seq(CommitRecs) /\ Len(c.log.commits) \in Nat
         /\ c.log.floor \in Nat /\ c.log.baseline \in States
         /\ c = [art |-> c.art, log |-> c.log, reading |-> c.reading,
                 deps |-> c.deps, stale |-> c.stale, base |-> c.base]
BY CommitsHaveOps DEF ContextRecs, LogsOf

LEMMA LoggedTyped ==
  ASSUME NEW c \in ContextRecs, Exact(c), NEW commit \in CommitRecs, NEW d, d = Logged(c, commit)
  PROVE  /\ d \in ContextRecs /\ Exact(d)
         /\ d.art = c.art /\ d.log = AppendCommit(c.log, commit) /\ d.base = c.base
         /\ d.stale = c.stale \ commit.writes
<1> DEFINE log == AppendCommit(c.log, commit)
           stale == c.stale \ commit.writes
           reading == [i \in Items |-> IF i \in commit.writes THEN Sources(commit) ELSE c.reading[i]]
           deps == [s \in Items |-> (c.deps[s] \ {w \in commit.writes : s \in c.reading[w]})
                                      \cup {w \in commit.writes : s \in Sources(commit)}]
           e == [c EXCEPT !.log = log, !.stale = stale]
           n == Len(c.log.commits)
<1>1. e = [art |-> c.art, log |-> log, reading |-> c.reading,
           deps |-> c.deps, stale |-> stale, base |-> c.base]
  <2>1. PICK new : new = log
    OBVIOUS
  <2>2. PICK old : old = stale
    OBVIOUS
  <2>3. c = [art |-> c.art, log |-> c.log, reading |-> c.reading,
             deps |-> c.deps, stale |-> c.stale, base |-> c.base]
    BY LogTyped
  <2>4. e = [c EXCEPT !.log = new, !.stale = old]
    BY <2>1, <2>2
  <2>5. e = [art |-> c.art, log |-> new, reading |-> c.reading,
             deps |-> c.deps, stale |-> old, base |-> c.base]
    <3> HIDE DEF e, log, stale
    <3> QED BY <2>3, <2>4
  <2> QED BY <2>1, <2>2, <2>5
<1>2. d = [e EXCEPT !.reading = reading, !.deps = deps]
  <2>1. d = IndexCommit(e, commit)
    BY DEF Logged
  <2>2. e.reading = c.reading /\ e.deps = c.deps
    BY <1>1
  <2> HIDE DEF e
  <2> QED BY <2>1, <2>2 DEF IndexCommit
<1>3. d = [art |-> c.art, log |-> log, reading |-> reading,
           deps |-> deps, stale |-> stale, base |-> c.base]
  <2> HIDE DEF e, reading, deps, log, stale
  <2> QED BY <1>1, <1>2
<1>4. log \in LogsOf(CommitRecs) /\ log.commits = Append(c.log.commits, commit)
  <2>1. c.log = [floor |-> c.log.floor, baseline |-> c.log.baseline, commits |-> c.log.commits]
    BY LogTyped DEF LogsOf
  <2>2. log.commits = Append(c.log.commits, commit)
    BY <2>1 DEF AppendCommit
  <2>3. log \in LogsOf(CommitRecs)
    BY LogTyped, AppendHistory
  <2> QED BY <2>2, <2>3
<1>5. Advances(c.reading, c.deps, reading, deps, commit)
  BY DEF Advances
<1>6. reading \in Indexes /\ deps \in Indexes
  <2>1. commit.writes \subseteq Items /\ Sources(commit) \subseteq Items
    BY SourcesTyped DEF CommitRecs
  <2>2. \A i \in Items : c.reading[i] \subseteq Items /\ c.deps[i] \subseteq Items
    BY DEF ContextRecs, Indexes
  <2>3. \A i \in Items : (IF i \in commit.writes THEN Sources(commit) ELSE c.reading[i]) \subseteq Items
    BY <2>1, <2>2
  <2>4. \A s \in Items : (c.deps[s] \ {w \in commit.writes : s \in c.reading[w]})
                           \cup {w \in commit.writes : s \in Sources(commit)} \subseteq Items
    BY <2>1, <2>2
  <2> QED BY <2>3, <2>4 DEF Indexes
<1> HIDE DEF log, reading, deps
<1>7. d \in ContextRecs
  BY <1>3, <1>4, <1>6 DEF ContextRecs
<1>8. Exact(d)
  <2> DEFINE cs == log.commits
  <2>1. /\ cs \in Seq(CommitRecs) /\ Len(cs) = n + 1 /\ cs[n + 1] = commit /\ n \in Nat
        /\ \A k \in 1 .. n : cs[k] = c.log.commits[k]
    BY <1>4, LogTyped
  <2>2. Shifted(cs, c.log.commits, 0, 1 .. n)
    BY <2>1 DEF Shifted
  <2>3. /\ c.log.commits \in Seq(CommitRecs) /\ n <= Len(c.log.commits)
        /\ n <= Len(cs) /\ n + 1 <= Len(cs)
    BY <2>1, LogTyped
  <2>4. IndexOf(c.reading, c.deps, c.log.commits, n)
    BY DEF Exact
  <2> HIDE DEF cs, n
  <2>5. IndexOf(c.reading, c.deps, cs, n)
    BY <2>1, <2>2, <2>3, <2>4, IndexAgrees
  <2>6. IndexOf(reading, deps, cs, n + 1)
    BY <1>5, <2>1, <2>3, <2>5, IndexStep
  <2>7. d.reading = reading /\ d.deps = deps /\ d.log.commits = cs
    BY <1>3 DEF cs
  <2> QED BY <2>1, <2>6, <2>7 DEF Exact
<1> QED
  BY <1>3, <1>7, <1>8 DEF log

LEMMA ReindexedTyped ==
  ASSUME NEW c \in ContextRecs, NEW d, d = Reindexed(c)
  PROVE  /\ d \in ContextRecs /\ Exact(d)
         /\ d.art = c.art /\ d.log = c.log /\ d.base = c.base /\ d.stale = c.stale
<1>1. PICK ix : /\ ix = FoldLeft(IndexCommit, [reading |-> NoReading, deps |-> NoReading], c.log.commits)
                /\ d = [c EXCEPT !.reading = ix.reading, !.deps = ix.deps]
  BY DEF Reindexed
<1>2. ix \in IndexRecs /\ IndexOf(ix.reading, ix.deps, c.log.commits, Len(c.log.commits))
  BY <1>1, LogTyped, FoldIndexes
<1>3. d = [art |-> c.art, log |-> c.log, reading |-> ix.reading,
           deps |-> ix.deps, stale |-> c.stale, base |-> c.base]
  BY <1>1, LogTyped
<1>4. d \in ContextRecs
  BY <1>2, <1>3 DEF ContextRecs, IndexRecs
<1> QED
  BY <1>2, <1>3, <1>4 DEF Exact

LEMMA RecomputedTyped ==
  ASSUME NEW c \in ContextRecs, NEW d, d = Recomputed(c)
  PROVE  /\ d \in ContextRecs /\ (Exact(c) => Exact(d))
         /\ d.art = c.art /\ d.log = c.log /\ d.base = c.base
         /\ d.reading = c.reading /\ d.deps = c.deps
         /\ d.stale = StaleNow(c)
<1>1. StaleNow(c) \subseteq Items
  BY DEF StaleNow, Live
<1>2. d = [art |-> c.art, log |-> c.log, reading |-> c.reading,
           deps |-> c.deps, stale |-> StaleNow(c), base |-> c.base]
  BY LogTyped DEF Recomputed
<1>3. d \in ContextRecs
  BY <1>1, <1>2 DEF ContextRecs
<1> QED
  BY <1>2, <1>3 DEF Exact

(* The version counters of what R does not name were not started over: what *)
(* was read of them is still there, changed only if its version moved.      *)
Honest(c, reads, R) ==
  \A r \in reads : r.item \notin R =>
    /\ r.item \in Live(c) /\ c.art[r.item].ver >= r.ver
    /\ c.art[r.item].ver = r.ver => c.art[r.item].val = r.was

(* From c and R to d and R2 counters only moved on, but for those of R2.    *)
Grows(c, d, R, R2) ==
  /\ R \subseteq R2
  /\ \A i \in Live(c) \ R2 :
       /\ i \in Live(d) /\ d.art[i].ver >= c.art[i].ver
       /\ d.art[i].ver = c.art[i].ver => d.art[i].val = c.art[i].val

HonestCommits(c, R) == \A k \in DOMAIN c.log.commits : Honest(c, c.log.commits[k].reads, R)

(* What a commit wrote is there unless it was taken away.                   *)
WrittenLive(c, R) ==
  \A k \in DOMAIN c.log.commits : c.log.commits[k].writes \subseteq Live(c) \cup R

(* What the last commit to write i read.                                    *)
Outdates(c, R, i) ==
  \A r \in Producer(c.log, i).reads : Outdated(c, r) => r.item \in Producer(c.log, i).behind \cup R

StaleComplete(c, R) ==
  \A i \in Items \ (c.stale \cup R) : HasProducer(c.log, i) => Outdates(c, R, i)

StaleCaused(c, R) ==
  \A i \in c.stale : /\ HasProducer(c.log, i)
                     /\ \E r \in Producer(c.log, i).reads : Outdated(c, r) \/ r.item \in R

Tracked(c, R) ==
  /\ Exact(c) /\ HonestCommits(c, R) /\ WrittenLive(c, R)
  /\ StaleComplete(c, R) /\ StaleCaused(c, R)

-----------------------------------------------------------------------------
(* Producers *)

LEMMA ProducerTyped ==
  ASSUME NEW c \in ContextRecs, NEW i, HasProducer(c.log, i)
  PROVE  \E k \in DOMAIN c.log.commits :
           /\ Producer(c.log, i) = c.log.commits[k] /\ i \in c.log.commits[k].writes
           /\ Producer(c.log, i) \in CommitRecs
<1>1. c.log.commits \in Seq(CommitRecs) /\ Len(c.log.commits) \in Nat
      /\ DOMAIN c.log.commits = 1 .. Len(c.log.commits)
  BY LogTyped
<1>2. WritesTo(c.log, i) \in SUBSET (1 .. Len(c.log.commits)) /\ WritesTo(c.log, i) # {}
  BY <1>1 DEF WritesTo, HasProducer
<1>3. Max(WritesTo(c.log, i)) \in WritesTo(c.log, i)
  BY <1>1, <1>2, MaxOfSegment
<1>4. Max(WritesTo(c.log, i)) \in DOMAIN c.log.commits
      /\ i \in c.log.commits[Max(WritesTo(c.log, i))].writes
  BY <1>3 DEF WritesTo
<1> QED
  BY <1>1, <1>4 DEF Producer

LEMMA ReadsTyped ==
  ASSUME NEW commit \in CommitRecs, NEW r \in commit.reads
  PROVE  r \in Reads /\ r.item \in Items /\ r.ver \in Nat /\ r.item \in Sources(commit)
<1>1. r \in Reads
  BY DEF CommitRecs
<1> QED
  BY <1>1 DEF Reads, Sources

(* The index read as the log has it.                                        *)
LEMMA ExactProducer ==
  ASSUME NEW c \in ContextRecs, Exact(c)
  PROVE  \A s \in Items : c.deps[s] = {w \in Items : /\ HasProducer(c.log, w)
                                                     /\ s \in Sources(Producer(c.log, w))}
<1> SUFFICES ASSUME NEW s \in Items
             PROVE  c.deps[s] = {w \in Items : /\ HasProducer(c.log, w)
                                               /\ s \in Sources(Producer(c.log, w))}
  OBVIOUS
<1> DEFINE cs == c.log.commits
<1>1. DOMAIN cs = 1 .. Len(cs)
  BY LogTyped
<1>2. \A w : Writers(cs, Len(cs), w) = WritesTo(c.log, w)
  BY <1>1 DEF Writers, WritesTo
<1>3. \A w \in Items : c.reading[w] = IF HasProducer(c.log, w) THEN Sources(Producer(c.log, w)) ELSE {}
  BY <1>2 DEF Exact, IndexOf, LastRead, HasProducer, Producer
<1>4. c.deps[s] = {w \in Items : s \in c.reading[w]}
  BY DEF Exact, IndexOf
<1> QED
  BY <1>3, <1>4

LEMMA LiveData ==
  ASSUME NEW c \in ContextRecs, NEW i \in Live(c)
  PROVE  i \in Items /\ c.art[i] # Absent /\ c.art[i] \in Artifacts
         /\ c.art[i].ver \in Nat /\ c.art[i].val \in Vals
         /\ c.art[i] = [val |-> c.art[i].val, ver |-> c.art[i].ver]
         /\ Data(c)[i] = c.art[i].val
<1>1. i \in Items /\ c.art[i] # Absent
  BY DEF Live
<1>2. c.art[i] \in Artifacts
  BY <1>1 DEF ContextRecs
<1> QED
  BY <1>1, <1>2, NoArtifact, DataTyped

-----------------------------------------------------------------------------
(* Steps of one Context *)

LEMMA HonestGrows ==
  ASSUME NEW c \in ContextRecs, NEW d \in ContextRecs, NEW reads \in SUBSET Reads,
         NEW R, NEW R2, Honest(c, reads, R), Grows(c, d, R, R2)
  PROVE  Honest(d, reads, R2)
<1> SUFFICES ASSUME NEW r \in reads, r.item \notin R2
             PROVE  /\ r.item \in Live(d) /\ d.art[r.item].ver >= r.ver
                    /\ d.art[r.item].ver = r.ver => d.art[r.item].val = r.was
  BY DEF Honest
<1>1. r.item \notin R
  BY DEF Grows
<1>2. /\ r.item \in Live(c) /\ c.art[r.item].ver >= r.ver
      /\ c.art[r.item].ver = r.ver => c.art[r.item].val = r.was
  BY <1>1 DEF Honest
<1>3. /\ r.item \in Live(d) /\ d.art[r.item].ver >= c.art[r.item].ver
      /\ d.art[r.item].ver = c.art[r.item].ver => d.art[r.item].val = c.art[r.item].val
  BY <1>2 DEF Grows
<1>4. r.ver \in Nat /\ c.art[r.item].ver \in Nat /\ d.art[r.item].ver \in Nat
  BY <1>2, <1>3, LiveData DEF Reads
<1> QED
  BY <1>2, <1>3, <1>4

(* A log with fewer commits: those of c from some place on, or up to one.   *)
Within(log, old) ==
  \A k \in DOMAIN log.commits : \E j \in DOMAIN old.commits : log.commits[k] = old.commits[j]

LEMMA CommitsGrow ==
  ASSUME NEW c \in ContextRecs, NEW d \in ContextRecs, NEW R, NEW R2,
         Grows(c, d, R, R2), Within(d.log, c.log),
         HonestCommits(c, R), WrittenLive(c, R)
  PROVE  HonestCommits(d, R2) /\ WrittenLive(d, R2)
<1>1. ASSUME NEW k \in DOMAIN d.log.commits
      PROVE  /\ Honest(d, d.log.commits[k].reads, R2)
             /\ d.log.commits[k].writes \subseteq Live(d) \cup R2
  <2>1. PICK j \in DOMAIN c.log.commits : d.log.commits[k] = c.log.commits[j]
    BY DEF Within
  <2>2. c.log.commits[j] \in CommitRecs
    BY LogTyped
  <2>3. c.log.commits[j].reads \in SUBSET Reads
    BY <2>2 DEF CommitRecs
  <2>4. Honest(c, c.log.commits[j].reads, R) /\ c.log.commits[j].writes \subseteq Live(c) \cup R
    BY DEF HonestCommits, WrittenLive
  <2>5. Honest(d, c.log.commits[j].reads, R2)
    BY <2>3, <2>4, HonestGrows
  <2>6. Live(c) \cup R \subseteq Live(d) \cup R2
    BY DEF Grows
  <2> QED BY <2>1, <2>4, <2>5, <2>6
<1> QED
  BY <1>1 DEF HonestCommits, WrittenLive

(* After the bulk operations index and stale set are computed anew.         *)
LEMMA RecomputedTracked ==
  ASSUME NEW c \in ContextRecs, NEW R, Exact(c), HonestCommits(c, R), WrittenLive(c, R),
         NEW d, d = Recomputed(c)
  PROVE  d \in ContextRecs /\ Tracked(d, R)
<1>1. /\ d \in ContextRecs /\ Exact(d) /\ d.art = c.art /\ d.log = c.log
      /\ d.stale = StaleNow(c)
  BY RecomputedTyped
<1>2. Live(d) = Live(c) /\ \A r : Outdated(d, r) <=> Outdated(c, r)
  BY <1>1 DEF Live, Outdated
<1>3. HonestCommits(d, R) /\ WrittenLive(d, R)
  BY <1>1, <1>2 DEF HonestCommits, WrittenLive, Honest
<1>4. ASSUME NEW i \in Items \ (d.stale \cup R), HasProducer(d.log, i)
      PROVE  Outdates(d, R, i)
  <2>1. i \in Live(d)
    <3>1. PICK k \in DOMAIN d.log.commits : i \in d.log.commits[k].writes
      BY <1>1, <1>4, ProducerTyped
    <3> QED BY <1>3, <1>4, <3>1 DEF WrittenLive
  <2>2. \A r \in Producer(d.log, i).reads : ~Outdated(d, r)
    BY <1>1, <1>2, <1>4, <2>1 DEF StaleNow
  <2> QED BY <2>2 DEF Outdates
<1>5. StaleCaused(d, R)
  BY <1>1, <1>2 DEF StaleCaused, StaleNow
<1> QED
  BY <1>1, <1>3, <1>4, <1>5 DEF Tracked, StaleComplete

(* What operations on the artifacts leave in the stale set.                 *)
LEMMA WithOpsStale ==
  ASSUME NEW c \in ContextRecs, NEW ops \in OpMaps, NEW d, d = WithOps(c, ops)
  PROVE  \A i \in Items : i \in d.stale <=>
           /\ i \in Live(d)
           /\ \/ i \in c.stale
              \/ /\ i \in Live(c)
                 /\ \E j \in Live(c) \cap Live(d) :
                      /\ d.art[j] # c.art[j] /\ i \in c.deps[j]
                      /\ \E r \in Producer(d.log, i).reads : r.item = j /\ Outdated(d, r)
<1> DEFINE art == [i \in Items |-> IF i \in DOMAIN ops THEN AfterOp(c.art[i], ops[i]) ELSE c.art[i]]
<1>1. PICK new : new = art
  OBVIOUS
<1> DEFINE next == [c EXCEPT !.art = new]
           both == Live(c) \cap Live(next)
           bumped == {i \in both : new[i] # c.art[i]}
           stale == (c.stale \cup (both \cap UNION {Dependents(next, i) : i \in bumped})) \cap Live(next)
<1>2. next = [art |-> new, log |-> c.log, reading |-> c.reading,
              deps |-> c.deps, stale |-> c.stale, base |-> c.base]
  <2>1. c = [art |-> c.art, log |-> c.log, reading |-> c.reading,
             deps |-> c.deps, stale |-> c.stale, base |-> c.base]
    BY LogTyped
  <2> QED BY <2>1
<1>3. d = [next EXCEPT !.stale = stale]
  <2>1. next.stale = c.stale
    BY <1>2
  <2> QED BY <1>1, <2>1 DEF WithOps
<1>4. d.stale = stale /\ d.art = new /\ d.log = c.log
  <2>1. PICK s : s = stale
    OBVIOUS
  <2>2. d = [next EXCEPT !.stale = s]
    BY <1>3, <2>1
  <2>3. d = [art |-> new, log |-> c.log, reading |-> c.reading,
             deps |-> c.deps, stale |-> s, base |-> c.base]
    <3> HIDE DEF next, stale
    <3> QED BY <1>2, <2>2
  <2> QED BY <2>1, <2>3
<1>5. next.art = new /\ next.log = c.log /\ next.deps = c.deps
  BY <1>2
<1> HIDE DEF next
<1>6. Live(next) = Live(d) /\ \A r : Outdated(next, r) <=> Outdated(d, r)
  BY <1>4, <1>5 DEF Live, Outdated
<1>7. \A j : Dependents(next, j) =
               {i \in c.deps[j] \cap Live(d) :
                  \E r \in Producer(d.log, i).reads : r.item = j /\ Outdated(d, r)}
  BY <1>4, <1>5, <1>6 DEF Dependents
<1>8. both = Live(c) \cap Live(d) /\ bumped = {j \in both : d.art[j] # c.art[j]}
  BY <1>4, <1>6
<1>9. stale = (c.stale \cup (both \cap UNION {Dependents(next, i) : i \in bumped})) \cap Live(d)
  BY <1>6
<1> HIDE DEF stale, both, bumped
<1> QED
  BY <1>4, <1>7, <1>8, <1>9

(* Artifacts changed by operations, and version counters with them.         *)
Loses(c, d, R, R2) == R \subseteq R2 /\ Live(c) \ Live(d) \subseteq R2

LEMMA WithOpsGrows ==
  ASSUME NEW c \in ContextRecs, NEW ops \in OpMaps, NEW d, d = WithOps(c, ops),
         NEW R, NEW R2, Loses(c, d, R, R2)
  PROVE  Grows(c, d, R, R2)
<1> SUFFICES ASSUME NEW i \in Live(c) \ R2
             PROVE  /\ i \in Live(d) /\ d.art[i].ver >= c.art[i].ver
                    /\ d.art[i].ver = c.art[i].ver => d.art[i].val = c.art[i].val
  BY DEF Grows, Loses
<1>1. i \in Live(d) /\ i \in Items
  BY DEF Live, Loses
<1>2. /\ d \in ContextRecs
      /\ d.art[i] = IF i \in DOMAIN ops THEN AfterOp(c.art[i], ops[i]) ELSE c.art[i]
      /\ i \in DOMAIN ops => ops[i] \in OpRecs
  BY <1>1, WithOpsTyped
<1>3. c.art[i] \in Artifacts /\ c.art[i] # Absent /\ c.art[i].ver \in Nat
      /\ d.art[i] # Absent
  BY <1>1, <1>2, LiveData
<1>4. d.art[i] = c.art[i] \/ d.art[i].ver = c.art[i].ver + 1
  <2>1. CASE i \in DOMAIN ops
    BY <1>2, <1>3, <2>1, AfterOpTyped
  <2>2. CASE i \notin DOMAIN ops
    BY <1>2, <2>2
  <2> QED BY <2>1, <2>2
<1> QED
  BY <1>1, <1>3, <1>4

LEMMA WithOpsTracked ==
  ASSUME NEW c \in ContextRecs, NEW R, Tracked(c, R),
         NEW ops \in OpMaps, NEW d, d = WithOps(c, ops),
         NEW R2, Loses(c, d, R, R2)
  PROVE  d \in ContextRecs /\ Tracked(d, R2)
<1>1. /\ d \in ContextRecs /\ d.log = c.log /\ d.reading = c.reading /\ d.deps = c.deps
  BY WithOpsTyped
<1>2. Grows(c, d, R, R2)
  BY WithOpsGrows
<1>3. Exact(d)
  BY <1>1 DEF Tracked, Exact
<1>4. HonestCommits(d, R2) /\ WrittenLive(d, R2)
  <2>1. Within(d.log, c.log)
    BY <1>1 DEF Within
  <2> QED BY <1>1, <1>2, <2>1, CommitsGrow DEF Tracked
<1>5. \A i \in Items : i \in d.stale <=>
           /\ i \in Live(d)
           /\ \/ i \in c.stale
              \/ /\ i \in Live(c)
                 /\ \E j \in Live(c) \cap Live(d) :
                      /\ d.art[j] # c.art[j] /\ i \in c.deps[j]
                      /\ \E r \in Producer(d.log, i).reads : r.item = j /\ Outdated(d, r)
  BY WithOpsStale
<1>6. \A s \in Items : c.deps[s] = {w \in Items : /\ HasProducer(c.log, w)
                                                  /\ s \in Sources(Producer(c.log, w))}
  BY ExactProducer DEF Tracked
<1>7. ASSUME NEW i \in Items \ (d.stale \cup R2), HasProducer(d.log, i)
      PROVE  Outdates(d, R2, i)
  <2>1. PICK k \in DOMAIN c.log.commits :
          /\ Producer(c.log, i) = c.log.commits[k] /\ i \in c.log.commits[k].writes
          /\ Producer(c.log, i) \in CommitRecs
    BY <1>1, <1>7, ProducerTyped
  <2>2. i \in Live(c) /\ i \in Live(d) /\ i \notin R /\ i \notin c.stale
    BY <1>5, <1>7, <2>1 DEF Tracked, WrittenLive, Loses
  <2>3. Outdates(c, R, i)
    BY <1>1, <1>7, <2>2 DEF Tracked, StaleComplete
  <2>4. ASSUME NEW r \in Producer(d.log, i).reads, Outdated(d, r),
               r.item \notin Producer(d.log, i).behind \cup R2
        PROVE  FALSE
    <3>1. r \in Producer(c.log, i).reads /\ r.item \in Items /\ r.ver \in Nat
          /\ r.item \in Sources(Producer(c.log, i))
      BY <1>1, <2>1, <2>4, ReadsTyped
    <3>2. ~Outdated(c, r) /\ r.item \notin R
      BY <1>1, <2>3, <2>4, <3>1 DEF Outdates, Loses
    <3>3. r.item \in Live(c)
      BY <2>1, <3>1, <3>2 DEF Tracked, HonestCommits, Honest
    <3>4. r.item \in Live(d) /\ d.art[r.item] # c.art[r.item]
      BY <2>4, <3>2, <3>3 DEF Outdated, Loses
    <3>5. i \in c.deps[r.item]
      BY <1>1, <1>6, <1>7, <3>1
    <3>6. i \in d.stale
      BY <1>5, <1>7, <2>2, <2>4, <3>3, <3>4, <3>5
    <3> QED BY <1>7, <3>6
  <2> QED BY <2>4 DEF Outdates
<1>8. ASSUME NEW i \in d.stale
      PROVE  /\ HasProducer(d.log, i)
             /\ \E r \in Producer(d.log, i).reads : Outdated(d, r) \/ r.item \in R2
  <2>0. i \in Items
    BY <1>1 DEF ContextRecs
  <2>1. CASE i \in c.stale
    <3>1. HasProducer(c.log, i)
      BY <2>1 DEF Tracked, StaleCaused
    <3>2. PICK r \in Producer(c.log, i).reads : Outdated(c, r) \/ r.item \in R
      BY <2>1 DEF Tracked, StaleCaused
    <3>3. Producer(c.log, i) \in CommitRecs
      BY <3>1, ProducerTyped
    <3>4. r.item \in Items /\ r.ver \in Nat
      BY <3>3, ReadsTyped
    <3>5. CASE r.item \in R2
      BY <1>1, <3>1, <3>5
    <3>6. CASE r.item \notin R2
      <4>1. r.item \in Live(c) /\ c.art[r.item].ver > r.ver
        BY <1>2, <3>2, <3>6 DEF Outdated, Grows
      <4>2. r.item \in Live(d) /\ d.art[r.item].ver >= c.art[r.item].ver
        BY <1>2, <3>6, <4>1 DEF Grows
      <4>3. d.art[r.item].ver \in Nat /\ c.art[r.item].ver \in Nat
        BY <1>1, <4>1, <4>2, LiveData
      <4>4. d.art[r.item].ver > r.ver
        BY <3>4, <4>1, <4>2, <4>3
      <4> QED BY <1>1, <3>1, <4>2, <4>4 DEF Outdated
    <3> QED BY <3>5, <3>6
  <2>2. CASE i \notin c.stale
    <3>1. PICK j \in Live(c) \cap Live(d) :
            /\ i \in c.deps[j]
            /\ \E r \in Producer(d.log, i).reads : r.item = j /\ Outdated(d, r)
      BY <1>5, <2>0, <2>2
    <3>2. HasProducer(c.log, i)
      BY <1>6, <3>1 DEF Live
    <3> QED BY <1>1, <3>1, <3>2
  <2> QED BY <2>1, <2>2
<1> QED
  BY <1>1, <1>3, <1>4, <1>7, <1>8 DEF Tracked, StaleComplete, StaleCaused

LEMMA LoggedProducer ==
  ASSUME NEW c \in ContextRecs, NEW commit \in CommitRecs, NEW log, log = AppendCommit(c.log, commit),
         NEW i \in Items
  PROVE  /\ i \in commit.writes => HasProducer(log, i) /\ Producer(log, i) = commit
         /\ i \notin commit.writes => /\ HasProducer(log, i) <=> HasProducer(c.log, i)
                                      /\ HasProducer(c.log, i) => Producer(log, i) = Producer(c.log, i)
<1> DEFINE n == Len(c.log.commits)
<1>1. log.commits = Append(c.log.commits, commit)
  <2>1. c.log = [floor |-> c.log.floor, baseline |-> c.log.baseline, commits |-> c.log.commits]
    BY LogTyped DEF LogsOf
  <2> QED BY <2>1 DEF AppendCommit
<1>2. PICK cs : cs = log.commits
  OBVIOUS
<1>3. /\ cs \in Seq(CommitRecs) /\ Len(cs) = n + 1 /\ cs[n + 1] = commit /\ n \in Nat
      /\ \A k \in 1 .. n : cs[k] = c.log.commits[k]
      /\ DOMAIN cs = 1 .. n + 1 /\ DOMAIN c.log.commits = 1 .. n
  BY <1>1, <1>2, LogTyped
<1>4. Writers(cs, n + 1, i) = WritesTo(log, i) /\ Writers(cs, n, i) = WritesTo(c.log, i)
  <2>1. \A k \in 1 .. n : cs[k] = c.log.commits[k]
    BY <1>3
  <2>2. Writers(cs, n + 1, i) = WritesTo(log, i)
    BY <1>2, <1>3 DEF Writers, WritesTo
  <2>3. Writers(cs, n, i) = WritesTo(c.log, i)
    BY <1>3, <2>1 DEF Writers, WritesTo
  <2> QED BY <2>2, <2>3
<1>5. /\ i \in commit.writes => Writers(cs, n + 1, i) # {} /\ Max(Writers(cs, n + 1, i)) = n + 1
      /\ i \notin commit.writes => Writers(cs, n + 1, i) = Writers(cs, n, i)
  <2>1. n + 1 <= Len(cs) /\ n \in Nat
    BY <1>3
  <2> HIDE DEF n
  <2> QED BY <1>3, <2>1, LastReadNext
<1>6. CASE i \in commit.writes
  <2>1. WritesTo(log, i) # {} /\ Max(WritesTo(log, i)) = n + 1
    BY <1>4, <1>5, <1>6
  <2> QED BY <1>2, <1>3, <1>6, <2>1 DEF HasProducer, Producer
<1>7. CASE i \notin commit.writes
  <2>1. WritesTo(log, i) = WritesTo(c.log, i)
    BY <1>4, <1>5, <1>7
  <2>2. ASSUME HasProducer(c.log, i)  PROVE Producer(log, i) = Producer(c.log, i)
    <3>1. WritesTo(c.log, i) \in SUBSET (1 .. n) /\ WritesTo(c.log, i) # {}
      BY <1>3, <2>2 DEF WritesTo, HasProducer
    <3>2. Max(WritesTo(c.log, i)) \in 1 .. n
      BY <1>3, <3>1, MaxOfSegment
    <3>3. cs[Max(WritesTo(c.log, i))] = c.log.commits[Max(WritesTo(c.log, i))]
      BY <1>3, <3>2
    <3> QED BY <1>2, <2>1, <3>3 DEF Producer
  <2> QED BY <1>7, <2>1, <2>2 DEF HasProducer
<1> QED
  BY <1>6, <1>7

(* d is c with one more commit, the others as they were.                    *)
Longer(c, commit, d, R) ==
  /\ d \in ContextRecs /\ Exact(d) /\ d.art = c.art /\ d.base = c.base
  /\ d.log = AppendCommit(c.log, commit) /\ d.stale = c.stale \ commit.writes
  /\ HonestCommits(d, R) /\ WrittenLive(d, R)

LEMMA LoggedCommits ==
  ASSUME NEW c \in ContextRecs, NEW R, Exact(c), HonestCommits(c, R), WrittenLive(c, R),
         NEW commit \in CommitRecs,
         Honest(c, commit.reads, R), commit.writes \subseteq Live(c) \cup R,
         NEW d, d = Logged(c, commit)
  PROVE  Longer(c, commit, d, R)
<1>1. /\ d \in ContextRecs /\ Exact(d) /\ d.art = c.art /\ d.base = c.base
      /\ d.log = AppendCommit(c.log, commit) /\ d.stale = c.stale \ commit.writes
  BY LoggedTyped
<1>2. Live(d) = Live(c) /\ \A r : Outdated(d, r) <=> Outdated(c, r)
  BY <1>1 DEF Live, Outdated
<1>3. ASSUME NEW k \in DOMAIN d.log.commits
      PROVE  /\ Honest(d, d.log.commits[k].reads, R)
             /\ d.log.commits[k].writes \subseteq Live(d) \cup R
  <2>1. \A reads : Honest(d, reads, R) <=> Honest(c, reads, R)
    BY <1>1, <1>2 DEF Honest
  <2>2. d.log.commits = Append(c.log.commits, commit)
    <3>1. c.log = [floor |-> c.log.floor, baseline |-> c.log.baseline, commits |-> c.log.commits]
      BY LogTyped DEF LogsOf
    <3> QED BY <1>1, <3>1 DEF AppendCommit
  <2>3. /\ c.log.commits \in Seq(CommitRecs) /\ Len(c.log.commits) \in Nat
        /\ DOMAIN c.log.commits = 1 .. Len(c.log.commits)
    BY LogTyped
  <2>4. k \in 1 .. Len(c.log.commits) + 1
    BY <2>2, <2>3
  <2>5. CASE k \in DOMAIN c.log.commits
    <3>1. d.log.commits[k] = c.log.commits[k]
      BY <2>2, <2>3, <2>5
    <3> QED BY <1>2, <2>1, <2>5, <3>1 DEF HonestCommits, WrittenLive
  <2>6. CASE k = Len(c.log.commits) + 1
    <3>1. d.log.commits[k] = commit
      BY <2>2, <2>3, <2>6
    <3> QED BY <1>2, <2>1, <3>1
  <2> QED BY <2>3, <2>4, <2>5, <2>6
<1> QED
  BY <1>1, <1>3 DEF HonestCommits, WrittenLive, Longer

(* A commit is logged: what it wrote is fresh, but for the sources that had *)
(* moved already.                                                           *)
LEMMA LoggedTracked ==
  ASSUME NEW c \in ContextRecs, NEW R, Tracked(c, R), NEW commit \in CommitRecs,
         Honest(c, commit.reads, R), commit.writes \subseteq Live(c) \cup R,
         commit.behind = {r.item : r \in {x \in commit.reads : Outdated(c, x)}},
         NEW d, d = Logged(c, commit)
  PROVE  d \in ContextRecs /\ Tracked(d, R)
<1>1. /\ d \in ContextRecs /\ Exact(d) /\ d.art = c.art
      /\ d.log = AppendCommit(c.log, commit) /\ d.stale = c.stale \ commit.writes
  BY LoggedTyped DEF Tracked
<1>2. Live(d) = Live(c) /\ \A r : Outdated(d, r) <=> Outdated(c, r)
  BY <1>1 DEF Live, Outdated
<1>3. \A i \in Items :
        /\ i \in commit.writes => HasProducer(d.log, i) /\ Producer(d.log, i) = commit
        /\ i \notin commit.writes => /\ HasProducer(d.log, i) <=> HasProducer(c.log, i)
                                     /\ HasProducer(c.log, i) => Producer(d.log, i) = Producer(c.log, i)
  BY <1>1, LoggedProducer
<1>4. HonestCommits(d, R) /\ WrittenLive(d, R)
  BY LoggedCommits DEF Tracked, Longer
<1>5. ASSUME NEW i \in Items \ (d.stale \cup R), HasProducer(d.log, i)
      PROVE  Outdates(d, R, i)
  <2>1. CASE i \in commit.writes
    <3>1. Producer(d.log, i) = commit
      BY <1>3, <2>1
    <3>2. \A r \in commit.reads : Outdated(c, r) => r.item \in commit.behind
      OBVIOUS
    <3> QED BY <1>2, <3>1, <3>2 DEF Outdates
  <2>2. CASE i \notin commit.writes
    <3>1. i \in Items \ (c.stale \cup R) /\ HasProducer(c.log, i)
          /\ Producer(d.log, i) = Producer(c.log, i)
      BY <1>1, <1>3, <1>5, <2>2
    <3> QED BY <1>2, <3>1 DEF Tracked, StaleComplete, Outdates
  <2> QED BY <2>1, <2>2
<1>6. ASSUME NEW i \in d.stale
      PROVE  /\ HasProducer(d.log, i)
             /\ \E r \in Producer(d.log, i).reads : Outdated(d, r) \/ r.item \in R
  <2>1. i \in Items /\ i \in c.stale /\ i \notin commit.writes
    BY <1>1 DEF ContextRecs
  <2>2. HasProducer(c.log, i) /\ \E r \in Producer(c.log, i).reads : Outdated(c, r) \/ r.item \in R
    BY <2>1 DEF Tracked, StaleCaused
  <2> QED BY <1>2, <1>3, <2>1, <2>2
<1> QED
  BY <1>1, <1>4, <1>5, <1>6 DEF Tracked, StaleComplete, StaleCaused

(* The commits a Context may log.                                           *)
Records(commit, c, ops, reads, writes) ==
  /\ commit \in CommitRecs /\ commit.ops = ops /\ commit.reads = reads /\ commit.writes = writes
  /\ commit.behind = {r.item : r \in {x \in commit.reads : Outdated(c, x)}}

LEMMA CommitOfTyped ==
  ASSUME NEW c \in ContextRecs, NEW ops \in OpMaps, NEW reads \in SUBSET Reads,
         NEW writes \in SUBSET Items, NEW commit, commit = CommitOf(c, ops, reads, writes)
  PROVE  Records(commit, c, ops, reads, writes)
<1> DEFINE behind == {r.item : r \in {x \in reads : Outdated(c, x)}}
<1>1. \A r \in reads : r.item \in Items
  BY DEF Reads
<1>2. behind \in SUBSET Items
  BY <1>1
<1>3. commit = [ops |-> ops, reads |-> reads, writes |-> writes, behind |-> behind]
  BY DEF CommitOf
<1> QED
  BY <1>2, <1>3 DEF CommitRecs, Records

(* A patch on one item.                                                     *)
Writes(c, d, i, op) ==
  \A j \in Items : d.art[j] = IF j = i THEN AfterOp(c.art[i], op) ELSE c.art[j]

CommitsOnly(c, d, i, op) ==
  \E commit \in CommitRecs : /\ commit.ops = [k \in {i} |-> op]
                             /\ d.log = AppendCommit(c.log, commit)

LEMMA PatchedTracked ==
  ASSUME NEW c \in ContextRecs, NEW R, Tracked(c, R), NEW i \in Items, NEW op \in Ops,
         NEW reads \in SUBSET Reads, Honest(c, reads, R),
         NEW R2, R2 = (IF op.kind = "delete" THEN R \cup {i} ELSE R),
         NEW ops, ops = [k \in {i} |-> op], NEW d, d = Patched(c, ops, reads)
  PROVE  /\ d \in ContextRecs /\ Tracked(d, R2) /\ Grows(c, d, R, R2) /\ d.base = c.base
         /\ Writes(c, d, i, op) /\ CommitsOnly(c, d, i, op)
<1> DEFINE applied == WithOps(c, ops)
           writes == WritesOf(c, ops)
<1>1. ops \in OpMaps /\ op \in OpRecs /\ DOMAIN ops = {i} /\ ops[i] = op
  <2>1. op \in OpRecs
    BY DEF Ops, OpRecs
  <2> QED BY <2>1 DEF OpMaps
<1>2. /\ applied \in ContextRecs /\ applied.log = c.log /\ applied.base = c.base
      /\ \A j \in Items : applied.art[j] = IF j = i THEN AfterOp(c.art[i], op) ELSE c.art[j]
  <2>1. \A j \in Items : applied.art[j] = IF j \in DOMAIN ops THEN AfterOp(c.art[j], ops[j]) ELSE c.art[j]
    BY <1>1, WithOpsTyped
  <2>2. applied \in ContextRecs /\ applied.log = c.log /\ applied.base = c.base
    BY <1>1, WithOpsTyped
  <2> HIDE DEF applied
  <2> QED BY <1>1, <2>1, <2>2
<1>3. c.art[i] \in Artifacts
  BY DEF ContextRecs
<1>4. writes \in SUBSET Items /\ writes \subseteq Live(applied) \cup R2
  <2>1. writes = {j \in {i} : op.kind = "update" => j \in Live(c)}
    BY DEF WritesOf
  <2>2. i \in writes => i \in Live(applied) \cup R2
    <3>1. op.kind # "delete" /\ (op.kind = "update" => i \in Live(c)) => AfterOp(c.art[i], op) # Absent
      BY <1>1, <1>3, AfterOpTyped DEF Live
    <3> HIDE DEF applied
    <3> QED BY <1>2, <2>1, <3>1 DEF Live
  <2> QED BY <2>1, <2>2
<1>5. Loses(c, applied, R, R2)
  <2>1. op.kind # "delete" /\ i \in Live(c) => AfterOp(c.art[i], op) # Absent
    BY <1>1, <1>3, AfterOpTyped DEF Live
  <2>2. Live(c) \ Live(applied) \subseteq {i}
    <3> HIDE DEF applied
    <3> QED BY <1>2 DEF Live
  <2>3. op.kind # "delete" /\ i \in Live(c) => i \in Live(applied)
    <3> HIDE DEF applied
    <3> QED BY <1>2, <2>1 DEF Live
  <2> HIDE DEF applied
  <2> QED BY <2>2, <2>3 DEF Loses
<1>6. PICK commit : commit = CommitOf(applied, ops, reads, writes)
  OBVIOUS
<1>7. d = Logged(applied, commit)
  BY <1>6 DEF Patched
<1> HIDE DEF applied, writes
<1>8. Tracked(applied, R2) /\ Grows(c, applied, R, R2)
  BY <1>1, <1>5, WithOpsTracked, WithOpsGrows DEF applied
<1>9. /\ commit \in CommitRecs /\ commit.ops = ops /\ commit.reads = reads
      /\ commit.writes = writes
      /\ commit.behind = {r.item : r \in {x \in commit.reads : Outdated(applied, x)}}
  <2>1. Records(commit, applied, ops, reads, writes)
    BY <1>1, <1>2, <1>4, <1>6, CommitOfTyped
  <2> QED BY <2>1 DEF Records
<1>10. Honest(applied, commit.reads, R2)
  BY <1>2, <1>8, <1>9, HonestGrows
<1>11. d \in ContextRecs /\ Tracked(d, R2)
  BY <1>2, <1>4, <1>7, <1>8, <1>9, <1>10, LoggedTracked
<1>12. d.art = applied.art /\ d.log = AppendCommit(c.log, commit) /\ d.base = c.base
  BY <1>2, <1>7, <1>8, <1>9, LoggedTyped DEF Tracked
<1>13. Grows(c, d, R, R2)
  BY <1>8, <1>12 DEF Grows, Live
<1> QED
  BY <1>2, <1>9, <1>11, <1>12, <1>13 DEF Writes, CommitsOnly

(* The live data that no one touched outside the commits.                   *)
Matches(c, L) == \A i \in Items \ L : Data(c)[i] = Committed(c.log)[i]

(* Index and stale set computed anew.                                       *)
LEMMA RefreshTracked ==
  ASSUME NEW c \in ContextRecs, NEW R, HonestCommits(c, R), WrittenLive(c, R),
         NEW d, d = Recomputed(Reindexed(c))
  PROVE  d \in ContextRecs /\ Tracked(d, R) /\ d.art = c.art /\ d.log = c.log /\ d.base = c.base
<1>1. PICK e : e = Reindexed(c)
  OBVIOUS
<1>2. e \in ContextRecs /\ Exact(e) /\ e.art = c.art /\ e.log = c.log /\ e.base = c.base
  BY <1>1, ReindexedTyped
<1>3. HonestCommits(e, R) /\ WrittenLive(e, R)
  BY <1>2 DEF HonestCommits, WrittenLive, Honest, Live
<1>4. d = Recomputed(e)
  BY <1>1
<1>5. d \in ContextRecs /\ Tracked(d, R)
  BY <1>2, <1>3, <1>4, RecomputedTracked
<1>6. d.art = e.art /\ d.log = e.log /\ d.base = e.base
  BY <1>2, <1>4, RecomputedTyped
<1> QED
  BY <1>2, <1>5, <1>6

LEMMA CopiedTracked ==
  ASSUME NEW c \in ContextRecs, NEW R, Tracked(c, R), NEW d, d = Copied(c)
  PROVE  d \in ContextRecs /\ Tracked(d, R) /\ d.art = c.art /\ d.log = c.log /\ d.base = c.base
BY RefreshTracked DEF Copied, Tracked

LEMMA ForkedTracked ==
  ASSUME NEW c \in ContextRecs, NEW R, Tracked(c, R), NEW d, d = Forked(c)
  PROVE  /\ d \in ContextRecs /\ Tracked(d, R) /\ d.art = c.art /\ d.log = c.log
         /\ d.base = <<Data(c)>>
<1>1. PICK e : e = Copied(c)
  OBVIOUS
<1>2. e \in ContextRecs /\ Tracked(e, R) /\ e.art = c.art /\ e.log = c.log
  BY <1>1, CopiedTracked
<1>3. PICK base : base = <<Data(c)>>
  OBVIOUS
<1>4. d = [e EXCEPT !.base = base]
  BY <1>1, <1>3 DEF Forked
<1>5. d = [art |-> e.art, log |-> e.log, reading |-> e.reading,
           deps |-> e.deps, stale |-> e.stale, base |-> base]
  <2>1. e = [art |-> e.art, log |-> e.log, reading |-> e.reading,
             deps |-> e.deps, stale |-> e.stale, base |-> e.base]
    BY <1>2, LogTyped
  <2> QED BY <1>4, <2>1
<1>6. base \in Bases
  BY <1>3, DataTyped DEF Bases
<1>7. d \in ContextRecs
  BY <1>2, <1>5, <1>6 DEF ContextRecs
<1>8. Live(d) = Live(e) /\ \A r : Outdated(d, r) <=> Outdated(e, r)
  BY <1>5 DEF Live, Outdated
<1>9. Tracked(d, R)
  BY <1>2, <1>5, <1>8
     DEF Tracked, Exact, HonestCommits, Honest, WrittenLive, StaleComplete, StaleCaused, Outdates
<1> QED
  BY <1>2, <1>3, <1>5, <1>7, <1>9

-----------------------------------------------------------------------------
(* Cut chains *)

LEMMA TruncateWithin ==
  ASSUME NEW c \in ContextRecs, NEW v \in c.log.floor .. Version(c.log),
         NEW log, log = Truncate(c.log, v)
  PROVE  Within(log, c.log)
<1>1. /\ c.log = [floor |-> c.log.floor, baseline |-> c.log.baseline, commits |-> c.log.commits]
      /\ c.log.commits \in Seq(CommitRecs) /\ Len(c.log.commits) \in Nat /\ c.log.floor \in Nat
  BY LogTyped DEF LogsOf
<1>2. PICK m : m = v - c.log.floor
  OBVIOUS
<1>3. m \in 0 .. Len(c.log.commits) /\ log.commits = SubSeq(c.log.commits, 1, m)
  BY <1>1, <1>2 DEF Truncate, CommitsUpto, Version
<1>4. DOMAIN log.commits = 1 .. m /\ \A k \in 1 .. m : log.commits[k] = c.log.commits[k]
  BY <1>1, <1>3
<1>5. \A k \in 1 .. m : k \in DOMAIN c.log.commits
  BY <1>1, <1>3
<1> QED
  BY <1>4, <1>5 DEF Within

LEMMA CompactWithin ==
  ASSUME NEW c \in ContextRecs, NEW cutoff \in c.log.floor .. Version(c.log),
         NEW log, log = CompactTo(c.log, cutoff)
  PROVE  Within(log, c.log)
<1>1. /\ c.log.commits \in Seq(CommitRecs) /\ Len(c.log.commits) \in Nat /\ c.log.floor \in Nat
      /\ DOMAIN c.log.commits = 1 .. Len(c.log.commits)
  BY LogTyped
<1>2. PICK a : a = cutoff - c.log.floor
  OBVIOUS
<1>3. a \in 0 .. Len(c.log.commits) /\ log.commits = SubSeq(c.log.commits, a + 1, Len(c.log.commits))
  <2>1. (IF cutoff > c.log.floor THEN cutoff - c.log.floor ELSE 0) = a
    BY <1>1, <1>2
  <2>2. a \in 0 .. Len(c.log.commits)
    BY <1>1, <1>2 DEF Version
  <2> QED BY <2>1, <2>2 DEF CompactTo, CommitsFrom
<1>4. /\ log.commits \in Seq(CommitRecs) /\ Len(log.commits) = Len(c.log.commits) - a
      /\ Shifted(log.commits, c.log.commits, a, 1 .. Len(c.log.commits) - a)
  BY <1>1, <1>3, SuffixFacts
<1> SUFFICES ASSUME NEW k \in DOMAIN log.commits
             PROVE  \E j \in DOMAIN c.log.commits : log.commits[k] = c.log.commits[j]
  BY DEF Within
<1>5. k \in 1 .. Len(c.log.commits) - a
  BY <1>4
<1>6. k + a \in DOMAIN c.log.commits
  BY <1>1, <1>3, <1>5
<1>7. log.commits[k] = c.log.commits[k + a]
  BY <1>4, <1>5 DEF Shifted
<1> QED
  BY <1>6, <1>7

LEMMA CompactedTracked ==
  ASSUME NEW c \in ContextRecs, NEW R, Tracked(c, R), NEW keep \in Nat, CanCompact(c, keep),
         NEW d, d = Compacted(c, keep)
  PROVE  /\ d \in ContextRecs /\ Tracked(d, R) /\ d.art = c.art /\ d.base = c.base
         /\ Version(c.log) - keep \in c.log.floor .. Version(c.log)
         /\ d.log = CompactTo(c.log, Version(c.log) - keep)
<1>1. PICK cutoff : cutoff = Version(c.log) - keep
  OBVIOUS
<1>2. cutoff \in c.log.floor .. Version(c.log)
  BY <1>1, LogTyped DEF CanCompact, Version
<1>3. PICK log : log = CompactTo(c.log, cutoff)
  OBVIOUS
<1>4. PICK e : e = [c EXCEPT !.log = log]
  OBVIOUS
<1>5. e = [art |-> c.art, log |-> log, reading |-> c.reading,
           deps |-> c.deps, stale |-> c.stale, base |-> c.base]
  <2>1. c = [art |-> c.art, log |-> c.log, reading |-> c.reading,
             deps |-> c.deps, stale |-> c.stale, base |-> c.base]
    BY LogTyped
  <2> QED BY <1>4, <2>1
<1>6. log \in LogsOf(CommitRecs)
  BY <1>2, <1>3, LogTyped, CompactHistory
<1>7. e \in ContextRecs
  BY <1>5, <1>6 DEF ContextRecs
<1>8. Grows(c, e, R, R)
  <2>1. \A i \in Live(c) : c.art[i].ver \in Nat
    BY LiveData
  <2> QED BY <1>5, <2>1 DEF Grows, Live
<1>9. HonestCommits(e, R) /\ WrittenLive(e, R)
  <2>1. Within(e.log, c.log)
    BY <1>2, <1>3, <1>5, CompactWithin
  <2> QED BY <1>7, <1>8, <2>1, CommitsGrow DEF Tracked
<1>10. d = Recomputed(Reindexed(e))
  BY <1>1, <1>3, <1>4 DEF Compacted
<1>11. d \in ContextRecs /\ Tracked(d, R) /\ d.art = e.art /\ d.log = e.log /\ d.base = e.base
  BY <1>7, <1>9, <1>10, RefreshTracked
<1> QED
  BY <1>1, <1>2, <1>3, <1>5, <1>11

(* What a rollback to v rebuilds.                                           *)
Rebuilt(c, v) == Touched(c.log, v) \cup (Items \ Live(c))

Restores(c, d, v) ==
  /\ \A i \in Items \ Rebuilt(c, v) : i \in Live(c) /\ d.art[i] = c.art[i]
  /\ \A i \in Rebuilt(c, v) : Data(d)[i] = ReplayState(c.log, v)[i]

LEMMA RolledBackTracked ==
  ASSUME NEW c \in ContextRecs, NEW R, Tracked(c, R), NEW v \in c.log.floor .. Version(c.log),
         NEW d, d = RolledBack(c, v), NEW R2, R2 = R \cup Rebuilt(c, v)
  PROVE  /\ d \in ContextRecs /\ Tracked(d, R2) /\ d.log = Truncate(c.log, v) /\ Restores(c, d, v)
<1> DEFINE then == CheckoutState(Data(c), c.log, v)
           kept == Live(c) \ Touched(c.log, v)
           art  == [i \in Items |-> IF i \in kept THEN c.art[i]
                                    ELSE IF then[i] = Absent THEN Absent ELSE Fresh(then[i])]
<1>0. Rebuilt(c, v) \subseteq Items /\ kept = Items \ Rebuilt(c, v)
  BY DEF Rebuilt, Touched, Live
<1>1. \A i \in Rebuilt(c, v) : then[i] = ReplayState(c.log, v)[i]
  <2>1. \A i \in Items : Data(c)[i] # Absent => i \in Live(c)
    BY DEF Data
  <2> QED BY <1>0, <2>1 DEF CheckoutState, Rebuilt
<1>2. \A i \in Rebuilt(c, v) : then[i] \in Vals \cup {Absent}
  <2>1. ReplayState(c.log, v) \in States
    BY LogTyped, HistoryTyped
  <2> HIDE DEF then
  <2> QED BY <1>0, <1>1, <2>1 DEF States
<1>3. PICK new : new = art
  OBVIOUS
<1>4. PICK log : log = Truncate(c.log, v)
  OBVIOUS
<1>5. PICK e : e = [c EXCEPT !.art = new, !.log = log]
  OBVIOUS
<1>6. d = Recomputed(Reindexed(e))
  BY <1>3, <1>4, <1>5 DEF RolledBack
<1> HIDE DEF then
<1>7. /\ \A i \in Items \ Rebuilt(c, v) : i \in Live(c) /\ new[i] = c.art[i]
      /\ \A i \in Rebuilt(c, v) : new[i] = IF then[i] = Absent THEN Absent ELSE Fresh(then[i])
  BY <1>0, <1>3
<1>8. new \in [Items -> Artifacts]
  <2>1. \A i \in Items : c.art[i] \in Artifacts
    BY DEF ContextRecs
  <2>2. \A i \in Items : new[i] \in Artifacts
    BY <1>2, <1>7, <2>1, FreshTyped, AbsentTyped
  <2>3. new = [i \in Items |-> new[i]]
    BY <1>3
  <2> QED BY <2>2, <2>3
<1>9. e = [art |-> new, log |-> log, reading |-> c.reading,
           deps |-> c.deps, stale |-> c.stale, base |-> c.base]
  <2>1. c = [art |-> c.art, log |-> c.log, reading |-> c.reading,
             deps |-> c.deps, stale |-> c.stale, base |-> c.base]
    BY LogTyped
  <2> QED BY <1>5, <2>1
<1>10. log \in LogsOf(CommitRecs)
  BY <1>4, LogTyped, TruncateHistory
<1>11. e \in ContextRecs
  BY <1>8, <1>9, <1>10 DEF ContextRecs
<1>12. Grows(c, e, R, R2)
  <2>1. \A i \in Live(c) : c.art[i].ver \in Nat /\ i \in Items
    BY LiveData
  <2> QED BY <1>7, <1>9, <2>1 DEF Grows, Live
<1>13. HonestCommits(e, R2) /\ WrittenLive(e, R2)
  <2>1. Within(e.log, c.log)
    BY <1>4, <1>9, TruncateWithin
  <2> QED BY <1>11, <1>12, <2>1, CommitsGrow DEF Tracked
<1>14. d \in ContextRecs /\ Tracked(d, R2) /\ d.art = e.art /\ d.log = e.log /\ d.base = e.base
  <2> QED BY <1>6, <1>11, <1>13, RefreshTracked
<1>15. ASSUME NEW i \in Rebuilt(c, v)  PROVE Data(d)[i] = ReplayState(c.log, v)[i]
  <2>1. i \in Items /\ d.art[i] = IF then[i] = Absent THEN Absent ELSE Fresh(then[i])
    BY <1>0, <1>7, <1>9, <1>14
  <2>2. CASE then[i] = Absent
    BY <1>1, <1>14, <2>1, <2>2, DataTyped
  <2>3. CASE then[i] # Absent
    <3>1. then[i] \in Vals
      BY <1>2, <2>3
    <3>2. d.art[i] # Absent /\ d.art[i].val = then[i]
      BY <2>1, <2>3, <3>1, FreshTyped
    <3> QED BY <1>1, <1>14, <2>1, <3>2, DataTyped
  <2> QED BY <2>2, <2>3
<1> QED
  BY <1>4, <1>7, <1>9, <1>14, <1>15 DEF Restores

-----------------------------------------------------------------------------
(* Live data and the chain *)

LEMMA SameMatches ==
  ASSUME NEW c, NEW L, Matches(c, L), NEW d, d.art = c.art, Committed(d.log) = Committed(c.log)
  PROVE  Matches(d, L)
<1>1. Data(d) = Data(c)
  BY DEF Data, Live
<1> QED
  BY <1>1 DEF Matches

(* A change outside the commits: of the items K.                            *)
LEMMA TouchedMatches ==
  ASSUME NEW c \in ContextRecs, NEW L, Matches(c, L), NEW d \in ContextRecs, d.log = c.log,
         NEW K, \A i \in Items \ K : d.art[i] = c.art[i]
  PROVE  Matches(d, L \cup K)
<1> SUFFICES ASSUME NEW i \in Items, i \notin L, i \notin K
             PROVE  Data(d)[i] = Committed(d.log)[i]
  BY DEF Matches
<1>1. d.art[i] = c.art[i]
  OBVIOUS
<1>2. Data(d)[i] = Data(c)[i]
  BY <1>1 DEF Data, Live
<1>3. Data(c)[i] = Committed(c.log)[i]
  BY DEF Matches
<1> QED
  BY <1>2, <1>3

(* A commit: the data of an item it names is what it says, and that of the  *)
(* others as it was.                                                        *)
Follows(c, d, ops, L, L2) ==
  \A i \in Items \ L2 :
    IF i \in DOMAIN ops THEN ops[i].kind # "adopt" /\ Data(d)[i] = ops[i].val
    ELSE i \notin L /\ d.art[i] = c.art[i]

LEMMA LoggedMatches ==
  ASSUME NEW c \in ContextRecs, NEW L, Matches(c, L),
         NEW d \in ContextRecs, NEW commit \in CommitRecs, d.log = AppendCommit(c.log, commit),
         NEW L2, Follows(c, d, commit.ops, L, L2)
  PROVE  Matches(d, L2)
<1> SUFFICES ASSUME NEW i \in Items, i \notin L2
             PROVE  Data(d)[i] = Committed(d.log)[i]
  BY DEF Matches
<1>1. Committed(d.log) = ReplayCommit(Committed(c.log), commit)
  BY LogTyped, AppendHistory
<1>2. CASE i \in DOMAIN commit.ops
  BY <1>1, <1>2 DEF Follows, ReplayCommit
<1>3. CASE i \notin DOMAIN commit.ops
  <2>1. i \notin L /\ d.art[i] = c.art[i]
    BY <1>3 DEF Follows
  <2>2. Data(d)[i] = Data(c)[i]
    BY <2>1 DEF Data, Live
  <2>3. Data(c)[i] = Committed(c.log)[i]
    BY <2>1 DEF Matches
  <2> QED BY <1>1, <1>3, <2>2, <2>3 DEF ReplayCommit
<1> QED
  BY <1>2, <1>3

LEMMA PatchedMatches ==
  ASSUME NEW c \in ContextRecs, NEW L, Matches(c, L), NEW i \in Items, NEW op \in Ops,
         NEW d \in ContextRecs, Writes(c, d, i, op), CommitsOnly(c, d, i, op),
         NEW L2, L2 = (IF op.kind = "update" /\ i \notin Live(c) THEN L \cup {i} ELSE L \ {i})
  PROVE  Matches(d, L2)
<1>1. op \in OpRecs /\ op.kind # "adopt" /\ c.art[i] \in Artifacts /\ d.art[i] \in Artifacts
  BY DEF Ops, OpRecs, ContextRecs
<1>2. ASSUME i \notin L2  PROVE Data(d)[i] = op.val
  <2>1. ~(op.kind = "update" /\ c.art[i] = Absent)
    BY <1>2 DEF Live
  <2>2. d.art[i] = AfterOp(c.art[i], op)
    BY DEF Writes
  <2>3. CASE op.kind = "delete"
    BY <1>1, <2>2, <2>3, AfterOpTyped, DataTyped
  <2>4. CASE op.kind # "delete"
    <3>1. AfterOp(c.art[i], op) # Absent /\ AfterOp(c.art[i], op).val = op.val
      BY <1>1, <2>1, <2>4, AfterOpTyped
    <3> QED BY <2>2, <3>1, DataTyped
  <2> QED BY <2>3, <2>4
<1>3. PICK commit \in CommitRecs : /\ DOMAIN commit.ops = {i} /\ commit.ops[i] = op
                                   /\ d.log = AppendCommit(c.log, commit)
  BY DEF CommitsOnly
<1>4. Follows(c, d, commit.ops, L, L2)
  BY <1>1, <1>2, <1>3 DEF Follows, Writes
<1> QED
  BY <1>3, <1>4, LoggedMatches

LEMMA RolledBackMatches ==
  ASSUME NEW c \in ContextRecs, NEW L, Matches(c, L), NEW v \in c.log.floor .. Version(c.log),
         NEW d \in ContextRecs, d.log = Truncate(c.log, v),
         Restores(c, d, v), NEW L2, L2 = L \ Rebuilt(c, v)
  PROVE  Matches(d, L2)
<1> SUFFICES ASSUME NEW i \in Items, i \notin L2
             PROVE  Data(d)[i] = Committed(d.log)[i]
  BY DEF Matches
<1>1. Committed(d.log) = ReplayState(c.log, v)
  <2>1. /\ d.log.floor = c.log.floor /\ Version(d.log) = v
        /\ \A u \in c.log.floor .. v : ReplayState(d.log, u) = ReplayState(c.log, u)
    BY LogTyped, TruncateHistory
  <2>2. v \in c.log.floor .. v
    BY LogTyped
  <2> QED BY <2>1, <2>2 DEF Committed
<1>2. CASE i \in Rebuilt(c, v)
  BY <1>1, <1>2 DEF Restores
<1>3. CASE i \notin Rebuilt(c, v)
  <2>1. i \notin L /\ i \notin Touched(c.log, v) /\ d.art[i] = c.art[i]
    BY <1>3 DEF Rebuilt, Restores
  <2>2. Data(d)[i] = Data(c)[i]
    BY <2>1 DEF Data, Live
  <2>3. Data(c)[i] = Committed(c.log)[i]
    BY <2>1 DEF Matches
  <2>4. ReplayState(c.log, v)[i] = Committed(c.log)[i]
    BY <2>1, LogTyped, UntouchedStays
  <2> QED BY <1>1, <2>2, <2>3, <2>4
<1> QED
  BY <1>2, <1>3

LEMMA CompactedMatches ==
  ASSUME NEW c \in ContextRecs, NEW L, Matches(c, L), NEW cutoff \in c.log.floor .. Version(c.log),
         NEW d \in ContextRecs, d.log = CompactTo(c.log, cutoff), d.art = c.art
  PROVE  Matches(d, L)
<1>1. /\ Version(d.log) = Version(c.log)
      /\ \A v \in cutoff .. Version(c.log) : ReplayState(d.log, v) = ReplayState(c.log, v)
  BY LogTyped, CompactHistory
<1>2. Version(c.log) \in cutoff .. Version(c.log)
  BY LogTyped DEF Version
<1>3. Committed(d.log) = Committed(c.log)
  BY <1>1, <1>2 DEF Committed
<1> QED
  BY <1>3, SameMatches

-----------------------------------------------------------------------------
(* What merges make of the chain *)

LEMMA AdoptOpTyped ==
  ASSUME NEW t, NEW v \in Vals \cup {Absent}, NEW i \in Items, NEW op, op = AdoptOp(t, v, i)
  PROVE  /\ op \in OpRecs /\ op.val = v
         /\ op.kind = IF v = Absent THEN "delete"
                      ELSE IF i \in Live(ctx[t]) THEN "update" ELSE "adopt"
BY AbsentAssumption DEF AdoptOp, OpRecs, AbsentAssumption

(* What a step may do to a chain.                                           *)
Extended(log, new)  == \E commit \in CommitRecs : new = AppendCommit(log, commit)
Truncated(log, new) == \E v \in log.floor .. Version(log) : new = Truncate(log, v)
Shortened(log, new) == \E v \in log.floor .. Version(log) : new = CompactTo(log, v)

(* What a merge leaves in loose.                                            *)
LooseOf(ops, L) == (L \ DOMAIN ops) \cup {i \in DOMAIN ops : ops[i].kind = "adopt"}

(* The commit of a merge reads and writes nothing.                          *)
LEMMA PlainCommit ==
  ASSUME NEW c \in ContextRecs, NEW R, Exact(c), HonestCommits(c, R), WrittenLive(c, R),
         NEW ops \in OpMaps, NEW d, d = Recomputed(Logged(c, CommitOf(c, ops, {}, {})))
  PROVE  /\ d \in ContextRecs /\ Tracked(d, R) /\ d.art = c.art /\ d.base = c.base
         /\ \E commit \in CommitRecs : commit.ops = ops /\ d.log = AppendCommit(c.log, commit)
<1>1. PICK commit : commit = CommitOf(c, ops, {}, {})
  OBVIOUS
<1>2. commit \in CommitRecs /\ commit.ops = ops /\ commit.reads = {} /\ commit.writes = {}
  <2>1. Records(commit, c, ops, {}, {})
    BY <1>1, CommitOfTyped
  <2> QED BY <2>1 DEF Records
<1>3. PICK e : e = Logged(c, commit)
  OBVIOUS
<1>4. Honest(c, commit.reads, R)
  BY <1>2 DEF Honest
<1>5. commit.writes \subseteq Live(c) \cup R
  BY <1>2
<1>6. /\ e \in ContextRecs /\ Exact(e) /\ HonestCommits(e, R) /\ WrittenLive(e, R)
      /\ e.art = c.art /\ e.base = c.base /\ e.log = AppendCommit(c.log, commit)
  <2>1. Longer(c, commit, e, R)
    BY <1>2, <1>3, <1>4, <1>5, LoggedCommits
  <2> QED BY <2>1 DEF Longer
<1>7. d = Recomputed(e)
  BY <1>1, <1>3
<1>8. d \in ContextRecs /\ Tracked(d, R)
  BY <1>6, <1>7, RecomputedTracked
<1>9. d.art = e.art /\ d.base = e.base /\ d.log = e.log
  BY <1>6, <1>7, RecomputedTyped
<1> QED
  BY <1>2, <1>6, <1>8, <1>9

Merges(t, o, d) == \A i \in Items : Data(d)[i] = MergedData(t, o)[i]

LEMMA MergedTracked ==
  ASSUME NEW t, NEW o, NEW c \in ContextRecs, c = ctx[t], ctx[o] \in ContextRecs,
         NEW R, Tracked(c, R), NEW L, Matches(c, L),
         NEW ops, ops = MergeOps(t, o), NEW moved, moved = [c EXCEPT !.art = MergedArt(t, o)],
         NEW d, d = Recomputed(Logged(moved, CommitOf(moved, ops, {}, {}))),
         NEW R2, R2 = R \cup (Live(c) \ Live(d)), NEW L2, L2 = LooseOf(ops, L)
  PROVE  /\ d \in ContextRecs /\ Tracked(d, R2) /\ Matches(d, L2) /\ Merges(t, o, d)
         /\ Extended(c.log, d.log)
<1> DEFINE S == Adopted(t, o)
<1>1. S \subseteq Items /\ DOMAIN ops = S
      /\ \A i \in S : ops[i] = AdoptOp(t, Data(ctx[o])[i], i)
  BY DEF Adopted, MergeOps
<1>2. \A i \in Items : Data(ctx[o])[i] \in Vals \cup {Absent}
  BY DataTyped DEF States
<1>3. ops \in OpMaps
  <2>1. ASSUME NEW i \in S  PROVE ops[i] \in OpRecs
    <3>1. PICK v : v = Data(ctx[o])[i]
      OBVIOUS
    <3>2. i \in Items /\ v \in Vals \cup {Absent} /\ ops[i] = AdoptOp(t, v, i)
      BY <1>1, <1>2, <3>1
    <3> QED BY <3>2, AdoptOpTyped
  <2>2. ops \in [S -> OpRecs]
    BY <1>1, <2>1 DEF MergeOps
  <2> QED BY <1>1, <2>2 DEF OpMaps
<1>4. c = ctx[t]
  OBVIOUS
<1>5. PICK art : art = MergedArt(t, o)
  OBVIOUS
<1>6. /\ c \in ContextRecs
      /\ art = [i \in Items |-> art[i]]
      /\ \A i \in Items : art[i] = IF i \notin S THEN c.art[i]
                                   ELSE IF Data(ctx[o])[i] = Absent THEN Absent
                                   ELSE IF i \in Live(c)
                                     THEN [val |-> Data(ctx[o])[i], ver |-> c.art[i].ver + 1]
                                     ELSE Fresh(Data(ctx[o])[i])
  BY <1>4, <1>5 DEF MergedArt
<1>7. ASSUME NEW i \in Items
      PROVE  /\ art[i] \in Artifacts
             /\ i \in S => /\ art[i] = Absent <=> Data(ctx[o])[i] = Absent
                           /\ art[i] # Absent => art[i].val = Data(ctx[o])[i]
             /\ i \in Live(c) /\ art[i] # Absent =>
                  /\ art[i].ver >= c.art[i].ver
                  /\ art[i].ver = c.art[i].ver => art[i] = c.art[i]
  <2>1. CASE i \notin S
    <3>1. art[i] = c.art[i] /\ c.art[i] \in Artifacts
      BY <1>6, <2>1 DEF ContextRecs
    <3>2. i \in Live(c) => c.art[i].ver \in Nat
      BY <1>6, LiveData
    <3> QED BY <2>1, <3>1, <3>2
  <2>2. CASE i \in S /\ Data(ctx[o])[i] = Absent
    BY <1>6, <2>2, AbsentTyped
  <2>3. CASE i \in S /\ Data(ctx[o])[i] # Absent /\ i \in Live(c)
    <3>1. art[i] = [val |-> Data(ctx[o])[i], ver |-> c.art[i].ver + 1]
      BY <1>6, <2>3
    <3>2. c.art[i].ver \in Nat /\ Data(ctx[o])[i] \in Vals
      BY <1>2, <1>6, <2>3, LiveData
    <3>3. art[i] \in [val : Vals, ver : Nat]
      BY <3>1, <3>2
    <3>4. art[i] \in Artifacts /\ art[i] # Absent
      BY <3>3, NoArtifact DEF Artifacts
    <3> QED BY <2>3, <3>1, <3>2, <3>4
  <2>4. CASE i \in S /\ Data(ctx[o])[i] # Absent /\ i \notin Live(c)
    <3>1. Data(ctx[o])[i] \in Vals /\ art[i] = Fresh(Data(ctx[o])[i])
      BY <1>2, <1>6, <2>4
    <3> QED BY <2>4, <3>1, FreshTyped
  <2> QED BY <2>1, <2>2, <2>3, <2>4
<1>8. art \in [Items -> Artifacts]
  BY <1>6, <1>7
<1>9. /\ moved \in ContextRecs
      /\ moved = [art |-> art, log |-> c.log, reading |-> c.reading,
                  deps |-> c.deps, stale |-> c.stale, base |-> c.base]
  BY <1>4, <1>5, <1>6, <1>8, ArtTyped
<1>10. PICK R3 : R3 = R \cup (Live(c) \ Live(moved))
  OBVIOUS
<1>11. Grows(c, moved, R, R3)
  BY <1>6, <1>7, <1>9, <1>10 DEF Grows, Live
<1>12. Exact(moved) /\ HonestCommits(moved, R3) /\ WrittenLive(moved, R3)
  <2>1. Within(moved.log, c.log)
    BY <1>9 DEF Within
  <2>2. Exact(moved)
    BY <1>4, <1>9 DEF Tracked, Exact
  <2> QED BY <1>4, <1>6, <1>9, <1>11, <2>1, <2>2, CommitsGrow DEF Tracked
<1>13. /\ d \in ContextRecs /\ Tracked(d, R3) /\ d.art = moved.art /\ d.base = moved.base
       /\ \E commit \in CommitRecs : commit.ops = ops /\ d.log = AppendCommit(moved.log, commit)
  BY <1>3, <1>9, <1>12, PlainCommit
<1>14. PICK commit \in CommitRecs : commit.ops = ops /\ d.log = AppendCommit(moved.log, commit)
  BY <1>13
<1>18. d \in ContextRecs /\ Tracked(d, R3) /\ d.art = art /\ d.base = c.base
       /\ d.log = AppendCommit(c.log, commit)
  BY <1>9, <1>13, <1>14
<1>19. R2 = R3
  BY <1>4, <1>9, <1>10, <1>18 DEF Live
<1>20. ASSUME NEW i \in Items
       PROVE  /\ i \in S => Data(d)[i] = Data(ctx[o])[i]
              /\ i \notin S => d.art[i] = c.art[i] /\ Data(d)[i] = Data(c)[i]
  <2>1. CASE i \in S
    <3>1. /\ d.art[i] = Absent <=> Data(ctx[o])[i] = Absent
          /\ d.art[i] # Absent => d.art[i].val = Data(ctx[o])[i]
      BY <1>7, <1>18, <2>1
    <3> QED BY <1>18, <2>1, <3>1, DataTyped
  <2>2. CASE i \notin S
    <3>1. d.art[i] = c.art[i]
      BY <1>6, <1>18, <2>2
    <3> QED BY <2>2, <3>1 DEF Data, Live
  <2> QED BY <2>1, <2>2
<1>21. Follows(c, d, commit.ops, L, LooseOf(ops, L))
  <2> SUFFICES ASSUME NEW i \in Items, i \notin LooseOf(ops, L)
               PROVE  IF i \in DOMAIN ops THEN ops[i].kind # "adopt" /\ Data(d)[i] = ops[i].val
                      ELSE i \notin L /\ d.art[i] = c.art[i]
    BY <1>14 DEF Follows
  <2>1. CASE i \in S
    <3>1. PICK v : v = Data(ctx[o])[i]
      OBVIOUS
    <3>2. v \in Vals \cup {Absent} /\ ops[i] = AdoptOp(t, v, i)
      BY <1>1, <1>2, <2>1, <3>1
    <3>3. ops[i].val = v
      BY <3>2, AdoptOpTyped
    <3>4. ops[i].val = Data(ctx[o])[i]
      BY <3>1, <3>3
    <3> QED BY <1>1, <1>20, <2>1, <3>4 DEF LooseOf
  <2>2. CASE i \notin S
    BY <1>1, <1>20, <2>2 DEF LooseOf
  <2> QED BY <2>1, <2>2
<1>22. Matches(d, LooseOf(ops, L))
  BY <1>4, <1>6, <1>14, <1>18, <1>21, LoggedMatches
<1>23. Merges(t, o, d)
  BY <1>4, <1>20 DEF MergedData, Merges
<1>24. Extended(c.log, d.log)
  BY <1>4, <1>14, <1>18 DEF Extended
<1> QED
  BY <1>18, <1>19, <1>22, <1>23, <1>24

(* d is what merge_context_from makes of Context t, once it holds c.         *)
TakesNewer(t, o, c, ops, d) ==
  /\ c = ctx[t] /\ ctx[o] \in ContextRecs
  /\ \E newer : newer \subseteq Live(ctx[o]) /\ ops = [i \in newer |-> AdoptOp(t, ctx[o].art[i].val, i)]
  /\ d = Logged(WithOps(c, ops), CommitOf(WithOps(c, ops), ops, {}, {}))

(* The histories of TakenOver.                                              *)
Remembers(c, d, ops, L, L2, R, R2) ==
  R2 = R \cup (Live(c) \ Live(d)) /\ L2 = LooseOf(ops, L)

LEMMA MergedFromTracked ==
  ASSUME NEW c \in ContextRecs, NEW R, Tracked(c, R), NEW L, Matches(c, L),
         NEW t, NEW o, NEW ops, NEW d, TakesNewer(t, o, c, ops, d),
         NEW R2, NEW L2, Remembers(c, d, ops, L, L2, R, R2)
  PROVE  /\ d \in ContextRecs /\ Tracked(d, R2) /\ Matches(d, L2)
         /\ Extended(c.log, d.log)
<1>0. PICK newer : newer \subseteq Live(ctx[o]) /\ ops = [i \in newer |-> AdoptOp(t, ctx[o].art[i].val, i)]
  BY DEF TakesNewer
<1>a. PICK moved : moved = WithOps(c, ops)
  OBVIOUS
<1>b. d = Logged(moved, CommitOf(moved, ops, {}, {}))
  BY <1>a DEF TakesNewer
<1>1. c = ctx[t] /\ ctx[o] \in ContextRecs
  BY DEF TakesNewer
<1>2. /\ c \in ContextRecs /\ Tracked(c, R) /\ Matches(c, L)
      /\ newer \subseteq Items /\ DOMAIN ops = newer
  BY <1>0 DEF Live
<1>3. ASSUME NEW i \in newer
      PROVE  /\ ops[i] \in OpRecs /\ ops[i].val = ctx[o].art[i].val /\ ops[i].val \in Vals
             /\ ops[i].kind = IF i \in Live(c) THEN "update" ELSE "adopt"
  <2>1. PICK v : v = ctx[o].art[i].val
    OBVIOUS
  <2>2. v \in Vals /\ v # Absent /\ i \in Items
    BY <1>0, <1>1, <2>1, LiveData, AbsentAssumption DEF AbsentAssumption
  <2>3. ops[i] = AdoptOp(t, v, i) /\ v \in Vals \cup {Absent}
    BY <1>0, <2>1, <2>2
  <2>4. ops[i] = [kind |-> IF i \in Live(c) THEN "update" ELSE "adopt", val |-> v]
    BY <1>1, <2>2, <2>3 DEF AdoptOp
  <2> QED BY <2>1, <2>2, <2>4 DEF OpRecs
<1>4. ops \in OpMaps
  <2>1. ops \in [newer -> OpRecs]
    BY <1>0, <1>3
  <2> QED BY <1>2, <2>1 DEF OpMaps
<1>5. PICK R3 : R3 = R \cup (Live(c) \ Live(moved))
  OBVIOUS
<1>6. moved = WithOps(c, ops)
  BY <1>a
<1>7. moved \in ContextRecs /\ Tracked(moved, R3)
  <2>1. Loses(c, moved, R, R3)
    BY <1>5 DEF Loses
  <2> QED BY <1>2, <1>4, <1>6, <2>1, WithOpsTracked
<1>8. /\ \A i \in Items : moved.art[i] = IF i \in DOMAIN ops THEN AfterOp(c.art[i], ops[i])
                                         ELSE c.art[i]
      /\ moved.log = c.log
  BY <1>2, <1>4, <1>6, WithOpsTyped
<1>9. PICK commit : commit = CommitOf(moved, ops, {}, {})
  OBVIOUS
<1>10. /\ commit \in CommitRecs /\ commit.ops = ops /\ commit.reads = {} /\ commit.writes = {}
       /\ commit.behind = {r.item : r \in {x \in commit.reads : Outdated(moved, x)}}
  <2>1. Records(commit, moved, ops, {}, {})
    BY <1>4, <1>7, <1>9, CommitOfTyped
  <2> QED BY <2>1 DEF Records
<1>11. Honest(moved, commit.reads, R3)
  BY <1>10 DEF Honest
<1>12. commit.writes \subseteq Live(moved) \cup R3
  BY <1>10
<1>13. d = Logged(moved, commit)
  BY <1>b, <1>9
<1>14. d \in ContextRecs /\ Tracked(d, R3)
  BY <1>7, <1>10, <1>11, <1>12, <1>13, LoggedTracked
<1>15. d.art = moved.art /\ d.log = AppendCommit(c.log, commit)
  <2>1. Longer(moved, commit, d, R3)
    BY <1>7, <1>10, <1>11, <1>12, <1>13, LoggedCommits DEF Tracked
  <2> QED BY <1>8, <2>1 DEF Longer
<1>16. R2 = R3
  BY <1>5, <1>15 DEF Live, Remembers
<1>17. Follows(c, d, commit.ops, L, LooseOf(ops, L))
  <2> SUFFICES ASSUME NEW i \in Items, i \notin LooseOf(ops, L)
               PROVE  IF i \in DOMAIN ops THEN ops[i].kind # "adopt" /\ Data(d)[i] = ops[i].val
                      ELSE i \notin L /\ d.art[i] = c.art[i]
    BY <1>10 DEF Follows
  <2>1. CASE i \in newer
    <3>1. ops[i].kind # "adopt"
      BY <1>2, <2>1 DEF LooseOf
    <3>2. ops[i] \in OpRecs /\ ops[i].kind = "update" /\ c.art[i] # Absent /\ c.art[i] \in Artifacts
      BY <1>2, <1>3, <2>1, <3>1 DEF Live, ContextRecs
    <3>3. d.art[i] = AfterOp(c.art[i], ops[i])
      BY <1>2, <1>8, <1>15, <2>1
    <3>4. d.art[i] # Absent /\ d.art[i].val = ops[i].val
      <4>1. PICK op : op = ops[i]
        OBVIOUS
      <4>2. PICK a : a = c.art[i]
        OBVIOUS
      <4>3. op \in OpRecs /\ op.kind = "update" /\ a \in Artifacts /\ a # Absent
        BY <3>2, <4>1, <4>2
      <4>4. AfterOp(a, op) # Absent /\ AfterOp(a, op).val = op.val
        BY <4>3, AfterOpTyped
      <4> QED BY <3>3, <4>1, <4>2, <4>4
    <3> QED BY <1>2, <1>14, <2>1, <3>1, <3>4, DataTyped
  <2>2. CASE i \notin newer
    BY <1>2, <1>8, <1>15, <2>2 DEF LooseOf
  <2> QED BY <2>1, <2>2
<1>18. L2 = LooseOf(ops, L)
  BY DEF Remembers
<1>20. Matches(d, L2)
  BY <1>2, <1>10, <1>14, <1>15, <1>17, <1>18, LoggedMatches
<1>19. Extended(c.log, d.log)
  BY <1>1, <1>10, <1>15 DEF Extended
<1> QED
  BY <1>14, <1>16, <1>19, <1>20

(* create, update and delete outside any commit, and the dispatcher.        *)
LEMMA OneOpTracked ==
  ASSUME NEW c \in ContextRecs, NEW R, Tracked(c, R), NEW L, Matches(c, L),
         NEW i \in Items, NEW op \in Ops, NEW ops, ops = [k \in {i} |-> op], NEW d, d = WithOps(c, ops),
         NEW R2, Loses(c, d, R, R2), NEW L2, L2 = L \cup {i}
  PROVE  /\ d \in ContextRecs /\ Tracked(d, R2) /\ Grows(c, d, R, R2)
         /\ Matches(d, L2) /\ d.log = c.log
<1>2. ops \in OpMaps /\ DOMAIN ops = {i} /\ d = WithOps(c, ops)
  <2>1. op \in OpRecs
    BY DEF Ops, OpRecs
  <2> QED BY <2>1 DEF OpMaps
<1>3. d \in ContextRecs /\ d.log = c.log /\ \A j \in Items \ {i} : d.art[j] = c.art[j]
  <2>1. d \in ContextRecs /\ d.log = c.log
    BY <1>2, WithOpsTyped
  <2>2. \A j \in Items : d.art[j] = IF j \in DOMAIN ops THEN AfterOp(c.art[j], ops[j]) ELSE c.art[j]
    BY <1>2, WithOpsTyped
  <2> QED BY <1>2, <2>1, <2>2
<1>4. Tracked(d, R2)
  BY <1>2, WithOpsTracked
<1>5. Grows(c, d, R, R2)
  BY <1>2, WithOpsGrows
<1>6. Matches(d, L2)
  BY <1>3, TouchedMatches
<1> QED
  BY <1>3, <1>4, <1>5, <1>6

Agents == {<<>>} \cup {<<reads>> : reads \in SUBSET Reads}

(* A Context, the agent under way in it, and their histories.               *)
Fit(c, a, L, R) ==
  /\ c \in ContextRecs /\ Tracked(c, R) /\ Matches(c, L)
  /\ a \in Agents /\ \A k \in DOMAIN a : Honest(c, a[k], R)

LogInv ==
  /\ ctx = [n \in Names |-> ctx[n]] /\ agent = [n \in Names |-> agent[n]]
  /\ loose = [n \in Names |-> loose[n]] /\ reborn = [n \in Names |-> reborn[n]]
  /\ exists \subseteq Names
  /\ \A n \in Names : Fit(ctx[n], agent[n], loose[n], reborn[n])

(* What a step may do to a chain.                                           *)
ChainStep(log, new) == new = log \/ Extended(log, new) \/ Truncated(log, new) \/ Shortened(log, new)

(* Context n becomes c; at most its chain changes, by one of these, or it   *)
(* is another's.                                                            *)
Evolves(n, c) ==
  /\ n \in Names /\ ctx' = [ctx EXCEPT ![n] = c]
  /\ \/ n \in exists /\ exists' = exists /\ ChainStep(ctx[n].log, c.log)
     \/ exists' = exists \cup {n} /\ \E m \in exists \ {n} : c.log = ctx[m].log

LEMMA AgentTyped ==
  ASSUME NEW c, NEW a \in Agents, NEW L, NEW R, Fit(c, a, L, R)
  PROVE  /\ Fit(c, <<>>, L, R)
         /\ \A k \in DOMAIN a : a[k] \in SUBSET Reads /\ Honest(c, a[k], R)
<1>1. a = <<>> \/ \E reads \in SUBSET Reads : a = <<reads>>
  BY DEF Agents
<1>2. \A k \in DOMAIN a : a[k] \in SUBSET Reads
  BY <1>1
<1> QED
  BY <1>2 DEF Fit, Agents

LEMMA FitGrows ==
  ASSUME NEW c, NEW a, NEW L, NEW R, Fit(c, a, L, R),
         NEW d \in ContextRecs, NEW L2, NEW R2, Tracked(d, R2), Matches(d, L2), Grows(c, d, R, R2)
  PROVE  Fit(d, a, L2, R2)
<1>1. c \in ContextRecs /\ a \in Agents
  BY DEF Fit
<1>2. ASSUME NEW k \in DOMAIN a  PROVE Honest(d, a[k], R2)
  <2>1. a[k] \in SUBSET Reads /\ Honest(c, a[k], R)
    BY <1>1, <1>2, AgentTyped
  <2> QED BY <1>1, <2>1, HonestGrows
<1> QED
  BY <1>1, <1>2 DEF Fit

LEMMA FitIdle ==
  ASSUME NEW d \in ContextRecs, NEW L, NEW R, Tracked(d, R), Matches(d, L)
  PROVE  Fit(d, <<>>, L, R)
BY DEF Fit, Agents

(* One Context changes at a time.                                           *)
LEMMA OneFit ==
  ASSUME LogInv, NEW n \in Names, NEW c, NEW a, NEW L, NEW R, Fit(c, a, L, R),
         ctx' = [ctx EXCEPT ![n] = c], agent' = [agent EXCEPT ![n] = a],
         loose' = [loose EXCEPT ![n] = L], reborn' = [reborn EXCEPT ![n] = R],
         exists' \subseteq Names
  PROVE  LogInv' /\ ctx'[n] = c
<1>1. \A m \in Names : /\ ctx'[m] = IF m = n THEN c ELSE ctx[m]
  BY DEF LogInv
<1>2. \A m \in Names : agent'[m] = IF m = n THEN a ELSE agent[m]
  BY DEF LogInv
<1>3. \A m \in Names : loose'[m] = IF m = n THEN L ELSE loose[m]
  BY DEF LogInv
<1>4. \A m \in Names : reborn'[m] = IF m = n THEN R ELSE reborn[m]
  BY DEF LogInv
<1>5. /\ ctx' = [m \in Names |-> ctx'[m]] /\ agent' = [m \in Names |-> agent'[m]]
      /\ loose' = [m \in Names |-> loose'[m]] /\ reborn' = [m \in Names |-> reborn'[m]]
  BY DEF LogInv
<1>6. \A m \in Names : Fit(ctx'[m], agent'[m], loose'[m], reborn'[m])
  BY <1>1, <1>2, <1>3, <1>4 DEF LogInv
<1> QED
  BY <1>1, <1>5, <1>6 DEF LogInv

(* What is left alone is set to what it was.                                *)
LEMMA Same ==
  ASSUME LogInv, NEW n \in Names
  PROVE  /\ agent = [agent EXCEPT ![n] = agent[n]] /\ loose = [loose EXCEPT ![n] = loose[n]]
         /\ reborn = [reborn EXCEPT ![n] = reborn[n]]
         /\ \A c : [ctx EXCEPT ![n] = c][n] = c
BY DEF LogInv

LEMMA FitAt ==
  ASSUME LogInv, NEW n \in Names
  PROVE  /\ Fit(ctx[n], agent[n], loose[n], reborn[n])
         /\ ctx[n] \in ContextRecs /\ Tracked(ctx[n], reborn[n]) /\ Matches(ctx[n], loose[n])
         /\ agent[n] \in Agents
BY DEF LogInv, Fit

-----------------------------------------------------------------------------
(* The steps, and what they make of the chains *)

LEMMA StartAgentStep ==
  ASSUME LogInv, NEW n \in exists, NEW S, StartAgent(n, S)
  PROVE  LogInv' /\ \E c : Evolves(n, c)
<1>1. n \in Names
  BY DEF LogInv
<1>2. PICK c : c = ctx[n]
  OBVIOUS
<1>3. PICK R : R = reborn[n]
  OBVIOUS
<1>4. PICK L : L = loose[n]
  OBVIOUS
<1>5. PICK reads : reads = ReadsOf(c, S)
  OBVIOUS
<1>6. PICK a : a = <<reads>>
  OBVIOUS
<1>7. c \in ContextRecs /\ Tracked(c, R) /\ Matches(c, L)
  BY <1>1, <1>2, <1>3, <1>4, FitAt
<1>8. reads \in SUBSET Reads /\ Honest(c, reads, R)
  <2> SUFFICES ASSUME NEW i \in S \cap Live(c)
               PROVE  /\ [item |-> i, ver |-> c.art[i].ver, was |-> c.art[i].val] \in Reads
                      /\ c.art[i].ver >= c.art[i].ver
    BY <1>5 DEF ReadsOf, Honest
  <2>1. i \in Items /\ c.art[i].ver \in Nat /\ c.art[i].val \in Vals
    BY <1>7, LiveData
  <2> QED BY <2>1 DEF Reads
<1>9. Fit(c, a, L, R)
  BY <1>6, <1>7, <1>8 DEF Fit, Agents
<1>10. /\ agent' = [agent EXCEPT ![n] = a]
       /\ ctx' = ctx /\ loose' = loose /\ reborn' = reborn /\ exists' = exists
  BY <1>2, <1>5, <1>6 DEF StartAgent, history
<1>11. /\ ctx' = [ctx EXCEPT ![n] = c] /\ loose' = [loose EXCEPT ![n] = L]
       /\ reborn' = [reborn EXCEPT ![n] = R] /\ exists' \subseteq Names
  BY <1>1, <1>2, <1>3, <1>4, <1>10 DEF LogInv
<1>12. LogInv'
  BY <1>1, <1>9, <1>10, <1>11, OneFit
<1> QED
  BY <1>1, <1>2, <1>10, <1>11, <1>12 DEF Evolves, ChainStep

LEMMA CommitStep ==
  ASSUME LogInv, NEW n \in exists, NEW i \in Items, NEW op \in Ops, Commit(n, i, op)
  PROVE  LogInv' /\ \E c : Evolves(n, c)
<1>1. n \in Names
  BY DEF LogInv
<1>2. PICK c : c = ctx[n]
  OBVIOUS
<1>3. PICK R : R = reborn[n]
  OBVIOUS
<1>4. PICK L : L = loose[n]
  OBVIOUS
<1>5. PICK a : a = agent[n]
  OBVIOUS
<1>6. /\ Fit(c, a, L, R) /\ c \in ContextRecs /\ Tracked(c, R) /\ Matches(c, L) /\ a \in Agents
  BY <1>1, <1>2, <1>3, <1>4, <1>5, FitAt
<1>7. PICK reads : /\ reads \in {{}} \cup {a[k] : k \in DOMAIN a}
                   /\ ctx' = [ctx EXCEPT ![n] = Patched(c, [k \in {i} |-> op], reads)]
                   /\ agent' = [agent EXCEPT ![n] = IF reads = {} THEN a ELSE <<>>]
  <2>1. PICK reads \in {{}} \cup {agent[n][k] : k \in DOMAIN agent[n]} :
          /\ ctx' = [ctx EXCEPT ![n] = Patched(@, [k \in {i} |-> op], reads)]
          /\ agent' = [agent EXCEPT ![n] = IF reads = {} THEN @ ELSE <<>>]
    BY DEF Commit
  <2>2. ctx' = [ctx EXCEPT ![n] = Patched(ctx[n], [k \in {i} |-> op], reads)]
    BY <2>1
  <2>3. agent' = [agent EXCEPT ![n] = IF reads = {} THEN agent[n] ELSE <<>>]
    BY <2>1
  <2>4. reads \in {{}} \cup {a[k] : k \in DOMAIN a}
    BY ONLY <1>5, <2>1
  <2> QED BY ONLY <1>2, <1>5, <2>2, <2>3, <2>4
<1>8. reads \in SUBSET Reads /\ Honest(c, reads, R)
  <2>1. CASE reads = {}
    BY <2>1 DEF Honest
  <2>2. ASSUME NEW k \in DOMAIN a, reads = a[k]
        PROVE  reads \in SUBSET Reads /\ Honest(c, reads, R)
    <3>1. a[k] \in SUBSET Reads /\ Honest(c, a[k], R)
      BY <1>6, AgentTyped
    <3> QED BY <2>2, <3>1
  <2> QED BY <1>7, <2>1, <2>2
<1>9. PICK R2 : R2 = IF op.kind = "delete" THEN R \cup {i} ELSE R
  OBVIOUS
<1>10. PICK L2 : L2 = IF op.kind = "update" /\ i \notin Live(c) THEN L \cup {i} ELSE L \ {i}
  OBVIOUS
<1>a. PICK ops : ops = [k \in {i} |-> op]
  OBVIOUS
<1>11. PICK d : d = Patched(c, ops, reads)
  OBVIOUS
<1>12. /\ d \in ContextRecs /\ Tracked(d, R2) /\ Grows(c, d, R, R2)
       /\ Writes(c, d, i, op) /\ CommitsOnly(c, d, i, op)
  BY <1>a, <1>6, <1>8, <1>9, <1>11, PatchedTracked
<1>14. Matches(d, L2)
  BY <1>6, <1>10, <1>12, PatchedMatches
<1>15. PICK a2 : a2 = IF reads = {} THEN a ELSE <<>>
  OBVIOUS
<1>16. Fit(d, a2, L2, R2)
  BY <1>6, <1>12, <1>14, <1>15, FitGrows, FitIdle
<1>17. /\ ctx' = [ctx EXCEPT ![n] = d] /\ agent' = [agent EXCEPT ![n] = a2]
       /\ loose' = [loose EXCEPT ![n] = L2] /\ reborn' = [reborn EXCEPT ![n] = R2]
       /\ exists' = exists
  BY <1>2, <1>3, <1>4, <1>7, <1>9, <1>10, <1>11, <1>a, <1>15 DEF Commit
<1>18. LogInv'
  <2>1. exists' \subseteq Names
    BY <1>17 DEF LogInv
  <2> QED BY <1>1, <1>16, <1>17, <2>1, OneFit
<1>19. Extended(c.log, d.log)
  BY <1>12 DEF Extended, CommitsOnly
<1> QED
  BY <1>1, <1>2, <1>17, <1>18, <1>19 DEF Evolves, ChainStep

(* The Context n before a step.                                             *)
Before(n, c, a, L, R) ==
  /\ n \in Names /\ c = ctx[n] /\ a = agent[n] /\ L = loose[n] /\ R = reborn[n]
  /\ Fit(c, a, L, R) /\ c \in ContextRecs /\ Tracked(c, R) /\ Matches(c, L) /\ a \in Agents

LEMMA BeforeStep ==
  ASSUME LogInv, NEW n \in Names
  PROVE  \E c, a, L, R : Before(n, c, a, L, R)
BY FitAt DEF Before

LEMMA BeforeFit ==
  ASSUME NEW n, NEW c, NEW a, NEW L, NEW R, Before(n, c, a, L, R)
  PROVE  c \in ContextRecs /\ Tracked(c, R) /\ Matches(c, L) /\ a \in Agents
BY DEF Before

LEMMA TouchStep ==
  ASSUME LogInv, NEW n \in exists, NEW i \in Items, NEW v \in Proposals \cup {Absent},
         Touch(n, i, v)
  PROVE  LogInv' /\ \E c : Evolves(n, c)
<1>1. n \in Names
  BY DEF LogInv
<1>2. PICK c, a, L, R : Before(n, c, a, L, R)
  BY <1>1, BeforeStep
<1>b. c \in ContextRecs /\ Tracked(c, R) /\ Matches(c, L)
  BY <1>2, BeforeFit
<1>3. PICK op : op = [kind |-> IF v = Absent THEN "delete" ELSE "create", val |-> v]
  OBVIOUS
<1>4. op \in Ops
  BY <1>3 DEF Ops, Proposals
<1>5. PICK ops : ops = [k \in {i} |-> op]
  OBVIOUS
<1>6. PICK d : d = WithOps(c, ops)
  OBVIOUS
<1>7. /\ ctx' = [ctx EXCEPT ![n] = d] /\ loose' = [loose EXCEPT ![n] = L \cup {i}]
      /\ agent' = agent /\ exists' = exists
      /\ reborn' = [reborn EXCEPT ![n] = R \cup (Live(ctx[n]) \ Live(ctx'[n]))]
  BY <1>2, <1>3, <1>5, <1>6 DEF Touch, Reborn, Before
<1>8. PICK R2 : R2 = R \cup (Live(c) \ Live(d))
  OBVIOUS
<1>9. PICK L2 : L2 = L \cup {i}
  OBVIOUS
<1>10. /\ ctx' = [ctx EXCEPT ![n] = d] /\ loose' = [loose EXCEPT ![n] = L2]
       /\ agent' = [agent EXCEPT ![n] = a] /\ exists' = exists /\ exists' \subseteq Names
       /\ reborn' = [reborn EXCEPT ![n] = R2]
  BY <1>1, <1>2, <1>7, <1>8, <1>9 DEF LogInv, Before
<1>11. /\ d \in ContextRecs /\ Tracked(d, R2) /\ Grows(c, d, R, R2)
       /\ Matches(d, L2) /\ d.log = c.log
  <2>1. Loses(c, d, R, R2)
    BY <1>8 DEF Loses
  <2> QED BY <1>4, <1>5, <1>6, <1>9, <2>1, <1>b, OneOpTracked
<1>12. Fit(d, a, L2, R2)
  BY <1>2, <1>11, FitGrows DEF Before
<1>13. LogInv'
  BY <1>1, <1>10, <1>12, OneFit
<1> QED
  BY <1>1, <1>2, <1>10, <1>11, <1>13 DEF Evolves, ChainStep, Before

LEMMA MarkedStep ==
  ASSUME LogInv, NEW n \in exists, NEW i \in Items, NEW v \in Vals, Marked(n, i, v)
  PROVE  LogInv' /\ \E c : Evolves(n, c)
<1>1. n \in Names
  BY DEF LogInv
<1>2. PICK c, a, L, R : Before(n, c, a, L, R)
  BY <1>1, BeforeStep
<1>b. c \in ContextRecs /\ Tracked(c, R) /\ Matches(c, L)
  BY <1>2, BeforeFit
<1>3. PICK op : op = [kind |-> "update", val |-> v]
  OBVIOUS
<1>4. op \in Ops
  BY <1>3 DEF Ops
<1>5. PICK ops : ops = [k \in {i} |-> op]
  OBVIOUS
<1>6. PICK d : d = WithOps(c, ops)
  OBVIOUS
<1>9. PICK L2 : L2 = L \cup {i}
  OBVIOUS
<1>10. /\ ctx' = [ctx EXCEPT ![n] = d] /\ loose' = [loose EXCEPT ![n] = L2]
       /\ agent' = [agent EXCEPT ![n] = a] /\ exists' = exists /\ exists' \subseteq Names
       /\ reborn' = [reborn EXCEPT ![n] = R]
  BY <1>1, <1>2, <1>3, <1>5, <1>6, <1>9 DEF Marked, LogInv, Before
<1>11. Live(c) \ Live(d) \subseteq R
  <2>1. op \in OpRecs /\ ops \in OpMaps /\ DOMAIN ops = {i} /\ ops[i] = op
    <3>1. op \in OpRecs
      BY <1>4 DEF Ops, OpRecs
    <3> QED BY <1>5, <3>1 DEF OpMaps
  <2>2. \A j \in Items : d.art[j] = IF j \in DOMAIN ops THEN AfterOp(c.art[j], ops[j]) ELSE c.art[j]
    BY <1>2, <1>6, <2>1, WithOpsTyped DEF Before
  <2>3. PICK b : b = c.art[i]
    OBVIOUS
  <2>4. b \in Artifacts
    BY <1>2, <2>3 DEF Before, ContextRecs
  <2>5. b # Absent => AfterOp(b, op) # Absent
    BY <1>3, <2>1, <2>4, AfterOpTyped
  <2> QED BY <2>1, <2>2, <2>3, <2>5 DEF Live
<1>12. /\ d \in ContextRecs /\ Tracked(d, R) /\ Grows(c, d, R, R)
       /\ Matches(d, L2) /\ d.log = c.log
  <2>1. Loses(c, d, R, R)
    BY <1>11 DEF Loses
  <2> QED BY <1>4, <1>5, <1>6, <1>9, <2>1, <1>b, OneOpTracked
<1>13. Fit(d, a, L2, R)
  BY <1>2, <1>12, FitGrows DEF Before
<1>14. LogInv'
  BY <1>1, <1>10, <1>13, OneFit
<1> QED
  BY <1>1, <1>2, <1>10, <1>12, <1>14 DEF Evolves, ChainStep, Before

LEMMA CheckoutStep ==
  ASSUME LogInv, NEW n \in exists, NEW v, Checkout(n, v)
  PROVE  LogInv' /\ \E c : Evolves(n, c)
<1>1. n \in Names
  BY DEF LogInv
<1>2. PICK c, a, L, R : Before(n, c, a, L, R)
  BY <1>1, BeforeStep
<1>b. c \in ContextRecs /\ Tracked(c, R) /\ Matches(c, L)
  BY <1>2, BeforeFit
<1>3. v \in c.log.floor .. Version(c.log) /\ a = <<>>
  BY <1>2 DEF Checkout, Idle, Before
<1>4. PICK d : d = RolledBack(c, v)
  OBVIOUS
<1>5. PICK R2 : R2 = R \cup Rebuilt(c, v)
  OBVIOUS
<1>6. PICK L2 : L2 = L \ Rebuilt(c, v)
  OBVIOUS
<1>7. /\ ctx' = [ctx EXCEPT ![n] = d] /\ loose' = [loose EXCEPT ![n] = L2]
      /\ agent' = [agent EXCEPT ![n] = a] /\ exists' = exists /\ exists' \subseteq Names
      /\ reborn' = [reborn EXCEPT ![n] = R2]
  BY <1>1, <1>2, <1>4, <1>5, <1>6 DEF Checkout, Rebuilt, LogInv, Before
<1>8. d \in ContextRecs /\ Tracked(d, R2) /\ d.log = Truncate(c.log, v) /\ Restores(c, d, v)
  BY <1>b, <1>3, <1>4, <1>5, RolledBackTracked
<1>9. Matches(d, L2)
  BY <1>b, <1>3, <1>6, <1>8, RolledBackMatches
<1>10. Fit(d, a, L2, R2)
  BY <1>3, <1>8, <1>9, FitIdle
<1>11. LogInv'
  BY <1>1, <1>7, <1>10, OneFit
<1>12. Truncated(c.log, d.log)
  BY <1>3, <1>8 DEF Truncated
<1> QED
  BY <1>1, <1>2, <1>7, <1>11, <1>12 DEF Evolves, ChainStep, Before

LEMMA CompactStep ==
  ASSUME LogInv, NEW n \in exists, NEW keep \in Nat, Compact(n, keep)
  PROVE  LogInv' /\ \E c : Evolves(n, c)
<1>1. n \in Names
  BY DEF LogInv
<1>2. PICK c, a, L, R : Before(n, c, a, L, R)
  BY <1>1, BeforeStep
<1>b. c \in ContextRecs /\ Tracked(c, R) /\ Matches(c, L)
  BY <1>2, BeforeFit
<1>3. CanCompact(c, keep) /\ a = <<>>
  BY <1>2 DEF Compact, Idle, Before
<1>4. PICK d : d = Compacted(c, keep)
  OBVIOUS
<1>5. /\ ctx' = [ctx EXCEPT ![n] = d] /\ loose' = [loose EXCEPT ![n] = L]
      /\ agent' = [agent EXCEPT ![n] = a] /\ exists' = exists /\ exists' \subseteq Names
      /\ reborn' = [reborn EXCEPT ![n] = R]
  BY <1>1, <1>2, <1>4 DEF Compact, history, LogInv, Before
<1>6. PICK cutoff : cutoff = Version(c.log) - keep
  OBVIOUS
<1>7. /\ d \in ContextRecs /\ Tracked(d, R) /\ d.art = c.art
      /\ cutoff \in c.log.floor .. Version(c.log) /\ d.log = CompactTo(c.log, cutoff)
  BY <1>b, <1>3, <1>4, <1>6, CompactedTracked
<1>8. Matches(d, L)
  BY <1>b, <1>7, CompactedMatches
<1>9. Fit(d, a, L, R)
  BY <1>3, <1>7, <1>8, FitIdle
<1>10. LogInv'
  BY <1>1, <1>5, <1>9, OneFit
<1>11. Shortened(c.log, d.log)
  BY <1>7 DEF Shortened
<1> QED
  BY <1>1, <1>2, <1>5, <1>10, <1>11 DEF Evolves, ChainStep, Before

LEMMA ReloadStep ==
  ASSUME LogInv, NEW n \in exists, Reload(n)
  PROVE  LogInv' /\ \E c : Evolves(n, c)
<1>1. n \in Names
  BY DEF LogInv
<1>2. PICK c, a, L, R : Before(n, c, a, L, R)
  BY <1>1, BeforeStep
<1>b. c \in ContextRecs /\ Tracked(c, R) /\ Matches(c, L)
  BY <1>2, BeforeFit
<1>3. PICK d : d = Copied(c)
  OBVIOUS
<1>4. PICK idle : idle = <<>>
  OBVIOUS
<1>5. /\ ctx' = [ctx EXCEPT ![n] = d] /\ loose' = [loose EXCEPT ![n] = L]
      /\ agent' = [agent EXCEPT ![n] = idle] /\ exists' = exists /\ exists' \subseteq Names
      /\ reborn' = [reborn EXCEPT ![n] = R]
  BY <1>1, <1>2, <1>3, <1>4 DEF Reload, history, LogInv, Before
<1>6. d \in ContextRecs /\ Tracked(d, R) /\ d.art = c.art /\ d.log = c.log
  BY <1>b, <1>3, CopiedTracked
<1>7. Matches(d, L)
  BY <1>b, <1>6, SameMatches
<1>8. Fit(d, idle, L, R)
  BY <1>4, <1>6, <1>7, FitIdle
<1>9. LogInv'
  BY <1>1, <1>5, <1>8, OneFit
<1> QED
  BY <1>1, <1>2, <1>5, <1>6, <1>9 DEF Evolves, ChainStep, Before

LEMMA ForkStep ==
  ASSUME LogInv, NEW m \in exists, NEW n \in Names, Fork(m, n)
  PROVE  LogInv' /\ \E c : Evolves(n, c)
<1>1. m \in Names /\ m # n
  BY DEF LogInv, Fork
<1>2. PICK c, a, L, R : Before(m, c, a, L, R)
  BY <1>1, BeforeStep
<1>b. c \in ContextRecs /\ Tracked(c, R) /\ Matches(c, L)
  BY <1>2, BeforeFit
<1>3. PICK d : d = Forked(c)
  OBVIOUS
<1>4. PICK idle : idle = <<>>
  OBVIOUS
<1>5. /\ ctx' = [ctx EXCEPT ![n] = d] /\ loose' = [loose EXCEPT ![n] = L]
      /\ agent' = [agent EXCEPT ![n] = idle] /\ exists' = exists \cup {n}
      /\ reborn' = [reborn EXCEPT ![n] = R]
  BY <1>2, <1>3, <1>4 DEF Fork, Before
<1>6. exists' \subseteq Names
  BY <1>5 DEF LogInv
<1>7. d \in ContextRecs /\ Tracked(d, R) /\ d.art = c.art /\ d.log = c.log
  BY <1>b, <1>3, ForkedTracked
<1>8. Matches(d, L)
  BY <1>b, <1>7, SameMatches
<1>9. Fit(d, idle, L, R)
  BY <1>4, <1>7, <1>8, FitIdle
<1>10. LogInv'
  BY <1>5, <1>6, <1>9, OneFit
<1> QED
  BY <1>1, <1>2, <1>5, <1>7, <1>10 DEF Evolves, Before

LEMMA MergeStep ==
  ASSUME LogInv, NEW t \in exists, NEW o \in exists, Merge(t, o)
  PROVE  /\ LogInv' /\ \E c : Evolves(t, c)
         /\ Merges(t, o, ctx'[t])
<1>1. t \in Names /\ o \in Names
  BY DEF LogInv
<1>2. PICK c, a, L, R : Before(t, c, a, L, R)
  BY <1>1, BeforeStep
<1>b. c \in ContextRecs /\ Tracked(c, R) /\ Matches(c, L)
  BY <1>2, BeforeFit
<1>3. a = <<>>
  BY <1>2 DEF Merge, Idle, Before
<1>4. PICK ops : ops = MergeOps(t, o)
  OBVIOUS
<1>5. PICK moved : moved = [c EXCEPT !.art = MergedArt(t, o)]
  OBVIOUS
<1>6. PICK d : d = Recomputed(Logged(moved, CommitOf(moved, ops, {}, {})))
  OBVIOUS
<1>7. PICK R2 : R2 = R \cup (Live(c) \ Live(d))
  OBVIOUS
<1>8. PICK L2 : L2 = LooseOf(ops, L)
  OBVIOUS
<1>9. ctx' = [ctx EXCEPT ![t] = d] /\ TakenOver(t, ops)
  BY <1>2, <1>4, <1>5, <1>6 DEF Merge, Before
<1>10. ctx'[t] = d
  BY <1>1, <1>9 DEF LogInv
<1>11. /\ loose' = [loose EXCEPT ![t] = L2] /\ agent' = agent /\ exists' = exists
       /\ reborn' = [reborn EXCEPT ![t] = R2]
  BY <1>2, <1>7, <1>8, <1>9, <1>10 DEF TakenOver, Reborn, LooseOf, Before
<1>12. agent' = [agent EXCEPT ![t] = a] /\ exists' \subseteq Names
  BY <1>1, <1>2, <1>11 DEF LogInv, Before
<1>13. c = ctx[t] /\ ctx[o] \in ContextRecs
  BY <1>1, <1>2, FitAt DEF Before
<1>14. /\ d \in ContextRecs /\ Tracked(d, R2) /\ Matches(d, L2) /\ Merges(t, o, d)
       /\ Extended(c.log, d.log)
  BY <1>b, <1>4, <1>5, <1>6, <1>7, <1>8, <1>13, MergedTracked
<1>15. Fit(d, a, L2, R2)
  BY <1>2, <1>3, <1>7, <1>8, <1>14, FitIdle DEF Before
<1>16. LogInv'
  BY <1>1, <1>9, <1>11, <1>12, <1>15, OneFit
<1>17. Extended(c.log, d.log)
  BY <1>2, <1>14 DEF Before
<1> QED
  BY <1>1, <1>2, <1>9, <1>10, <1>11, <1>14, <1>16, <1>17 DEF Evolves, ChainStep, Before

LEMMA MergeFromStep ==
  ASSUME LogInv, NEW t \in exists, NEW o \in exists, MergeFrom(t, o)
  PROVE  LogInv' /\ \E c : Evolves(t, c)
<1>1. t \in Names /\ o \in Names
  BY DEF LogInv
<1>2. PICK c, a, L, R : Before(t, c, a, L, R)
  BY <1>1, BeforeStep
<1>b. c \in ContextRecs /\ Tracked(c, R) /\ Matches(c, L)
  BY <1>2, BeforeFit
<1>3. a = <<>>
  BY <1>2 DEF MergeFrom, Idle, Before
<1>4. PICK newer : newer = {i \in Live(ctx[o]) :
                              i \in Live(ctx[t]) => ctx[o].art[i].ver > ctx[t].art[i].ver}
  OBVIOUS
<1>5. PICK ops : ops = [i \in newer |-> AdoptOp(t, ctx[o].art[i].val, i)]
  OBVIOUS
<1>7. PICK d : d = Logged(WithOps(c, ops), CommitOf(WithOps(c, ops), ops, {}, {}))
  OBVIOUS
<1>8. PICK R2 : R2 = R \cup (Live(c) \ Live(d))
  OBVIOUS
<1>9. PICK L2 : L2 = LooseOf(ops, L)
  OBVIOUS
<1>10. ctx' = [ctx EXCEPT ![t] = d] /\ TakenOver(t, ops)
  BY <1>2, <1>4, <1>5, <1>7 DEF MergeFrom, Before
<1>11. ctx'[t] = d
  BY <1>1, <1>10 DEF LogInv
<1>12. /\ loose' = [loose EXCEPT ![t] = L2] /\ agent' = agent /\ exists' = exists
       /\ reborn' = [reborn EXCEPT ![t] = R2]
  BY <1>2, <1>8, <1>9, <1>10, <1>11 DEF TakenOver, Reborn, LooseOf, Before
<1>13. agent' = [agent EXCEPT ![t] = a] /\ exists' \subseteq Names
  BY <1>1, <1>2, <1>12 DEF LogInv, Before
<1>14. TakesNewer(t, o, c, ops, d) /\ Remembers(c, d, ops, L, L2, R, R2)
  <2>1. c = ctx[t] /\ ctx[o] \in ContextRecs
    BY <1>1, <1>2, FitAt DEF Before
  <2>2. newer \subseteq Live(ctx[o])
    BY <1>4
  <2> QED BY <1>5, <1>7, <1>8, <1>9, <2>1, <2>2 DEF TakesNewer, Remembers
<1>15. d \in ContextRecs /\ Tracked(d, R2) /\ Matches(d, L2) /\ Extended(c.log, d.log)
  BY <1>b, <1>14, MergedFromTracked
<1>16. Fit(d, a, L2, R2)
  BY <1>2, <1>3, <1>8, <1>9, <1>15, FitIdle DEF Before
<1>17. LogInv'
  BY <1>1, <1>10, <1>12, <1>13, <1>16, OneFit
<1>18. Extended(c.log, d.log)
  BY <1>2, <1>15 DEF Before
<1> QED
  BY <1>1, <1>2, <1>10, <1>12, <1>17, <1>18 DEF Evolves, ChainStep, Before

-----------------------------------------------------------------------------
(* The beginning *)

(* A Context no version of which has been forgotten.                        *)
Rooted(c) == c.log.floor = 0 /\ c.log.baseline = NoArtifacts

LEMMA EmptyTracked ==
  ASSUME NEW c, c.log = EmptyLog, c.reading = NoReading, c.deps = NoReading, c.stale = {}
  PROVE  \A R : Tracked(c, R)
<1>1. c.log.commits = <<>> /\ DOMAIN c.log.commits = {} /\ Len(c.log.commits) = 0
  BY DEF EmptyLog
<1>2. \A cs, i : Writers(cs, 0, i) = {}
  BY DEF Writers
<1>3. Exact(c)
  BY <1>1, <1>2 DEF Exact, IndexOf, LastRead, NoReading
<1>4. \A i : ~HasProducer(c.log, i)
  BY <1>1 DEF HasProducer, WritesTo
<1> QED
  BY <1>1, <1>3, <1>4 DEF Tracked, HonestCommits, WrittenLive, StaleComplete, StaleCaused

LEMMA SeededFit ==
  ASSUME NEW S \in SUBSET Items, NEW v \in Vals, NEW c,
         c = [art |-> [i \in Items |-> IF i \in S THEN Fresh(v) ELSE Absent], log |-> EmptyLog,
              reading |-> NoReading, deps |-> NoReading, stale |-> {}, base |-> <<>>]
  PROVE  Fit(c, <<>>, S, {}) /\ Rooted(c)
<1> DEFINE art == [i \in Items |-> IF i \in S THEN Fresh(v) ELSE Absent]
<1>1. art \in [Items -> Artifacts]
  BY FreshTyped, AbsentTyped
<1>2. EmptyLog \in LogsOf(CommitRecs)
  <2>1. NoArtifacts \in States
    BY DEF NoArtifacts, States
  <2>2. <<>> \in Seq(CommitRecs)
    OBVIOUS
  <2> QED BY <2>1, <2>2 DEF EmptyLog, LogsOf
<1>3. NoReading \in Indexes
  BY DEF NoReading, Indexes
<1>4. c \in ContextRecs
  BY <1>1, <1>2, <1>3 DEF ContextRecs, Bases
<1>5. Tracked(c, {})
  BY EmptyTracked
<1>6. Committed(EmptyLog) = NoArtifacts
  <2>1. Version(EmptyLog) = EmptyLog.floor /\ EmptyLog.baseline = NoArtifacts
    BY DEF Version, EmptyLog
  <2>2. ReplayState(EmptyLog, EmptyLog.floor) = EmptyLog.baseline
    BY <1>2, CommitsHaveOps, HistoryTyped
  <2> QED BY <2>1, <2>2 DEF Committed
<1>7. \A i \in Items \ S : Data(c)[i] = Absent
  BY DEF Data, Live
<1>8. Matches(c, S)
  BY <1>6, <1>7 DEF Matches, NoArtifacts
<1>9. Rooted(c)
  BY DEF Rooted, EmptyLog
<1> QED
  BY <1>4, <1>5, <1>8, <1>9, FitIdle

LEMMA EmptyFit == Fit(EmptyContext, <<>>, {}, {}) /\ Rooted(EmptyContext)
<1>1. PICK v : v = Pending
  OBVIOUS
<1>2. v \in Vals /\ {} \in SUBSET Items
  BY <1>1, BranchesAssumption DEF BranchesAssumption
<1>3. [i \in Items |-> Absent] = [i \in Items |-> IF i \in {} THEN Fresh(v) ELSE Absent]
  OBVIOUS
<1>4. EmptyContext = [art |-> [i \in Items |-> IF i \in {} THEN Fresh(v) ELSE Absent],
                      log |-> EmptyLog, reading |-> NoReading, deps |-> NoReading,
                      stale |-> {}, base |-> <<>>]
  BY <1>3 DEF EmptyContext
<1> QED
  BY <1>2, <1>4, SeededFit

(* A first version of a Context.                                            *)
LEMMA CreatedFit ==
  ASSUME NEW c, Fit(c, <<>>, {}, {}), Rooted(c), NEW i \in Items, NEW v \in Vals,
         NEW reads \in SUBSET Reads, Honest(c, reads, {}),
         NEW d, d = Patched(c, [k \in {i} |-> [kind |-> "create", val |-> v]], reads)
  PROVE  Fit(d, <<>>, {}, {}) /\ Rooted(d)
<1>1. PICK op : op = [kind |-> "create", val |-> v]
  OBVIOUS
<1>2. op \in Ops /\ op.kind = "create"
  BY <1>1 DEF Ops
<1>3. PICK ops : ops = [k \in {i} |-> op]
  OBVIOUS
<1>4. d = Patched(c, ops, reads)
  BY <1>1, <1>3
<1>5. PICK R : R = {}
  OBVIOUS
<1>6. R = (IF op.kind = "delete" THEN R \cup {i} ELSE R)
      /\ R = (IF op.kind = "update" /\ i \notin Live(c) THEN R \cup {i} ELSE R \ {i})
  BY <1>2, <1>5
<1>7. c \in ContextRecs /\ Tracked(c, R) /\ Matches(c, R) /\ Honest(c, reads, R)
  BY <1>5 DEF Fit
<1>8. d \in ContextRecs /\ Tracked(d, R) /\ Writes(c, d, i, op) /\ CommitsOnly(c, d, i, op)
  BY <1>2, <1>3, <1>4, <1>6, <1>7, PatchedTracked
<1>9. Matches(d, R)
  BY <1>2, <1>6, <1>7, <1>8, PatchedMatches
<1>10. Rooted(d)
  <2>1. c.log = [floor |-> c.log.floor, baseline |-> c.log.baseline, commits |-> c.log.commits]
    BY <1>7, LogTyped DEF LogsOf
  <2>2. PICK commit : d.log = AppendCommit(c.log, commit)
    BY <1>8 DEF CommitsOnly
  <2> QED BY <2>1, <2>2 DEF AppendCommit, Rooted
<1> QED
  BY <1>5, <1>8, <1>9, <1>10, FitIdle

LEMMA DerivedFit ==
  ASSUME NEW i \in Items, NEW j \in Items, NEW u \in Vals, NEW v \in Vals
  PROVE  Fit(Derived(i, u, j, v), <<>>, {}, {}) /\ Rooted(Derived(i, u, j, v))
<1>1. PICK source : source = Patched(EmptyContext, [k \in {i} |-> [kind |-> "create", val |-> u]], {})
  OBVIOUS
<1>2. PICK reads : reads = ReadsOf(source, {i})
  OBVIOUS
<1>3. PICK d : d = Patched(source, [k \in {j} |-> [kind |-> "create", val |-> v]], reads)
  OBVIOUS
<1>4. Derived(i, u, j, v) = d
  BY <1>1, <1>2, <1>3 DEF Derived
<1>5. PICK none : none = {}
  OBVIOUS
<1>6. none \in SUBSET Reads /\ Honest(EmptyContext, none, {})
  BY <1>5 DEF Honest
<1>7. Fit(source, <<>>, {}, {}) /\ Rooted(source)
  BY <1>1, <1>5, <1>6, EmptyFit, CreatedFit
<1>8. reads \in SUBSET Reads /\ Honest(source, reads, {})
  <2>1. source \in ContextRecs
    BY <1>7 DEF Fit
  <2> SUFFICES ASSUME NEW s \in {i} \cap Live(source)
               PROVE  /\ [item |-> s, ver |-> source.art[s].ver, was |-> source.art[s].val] \in Reads
                      /\ source.art[s].ver >= source.art[s].ver
    BY <1>2 DEF ReadsOf, Honest
  <2>2. s \in Items /\ source.art[s].ver \in Nat /\ source.art[s].val \in Vals
    BY <2>1, LiveData
  <2> QED BY <2>2 DEF Reads
<1>9. Fit(d, <<>>, {}, {}) /\ Rooted(d)
  BY <1>3, <1>7, <1>8, CreatedFit
<1> QED
  BY <1>4, <1>9

LEMMA LogInvInit ==
  ASSUME Init
  PROVE  /\ LogInv
         /\ \E root \in Names : exists = {root} /\ Rooted(ctx[root])
<1>1. PICK root \in Names : 
        /\ exists = {root}
        /\ \E v \in Proposals :
             \/ \E S \in SUBSET Items : Begin(root, Seeded(S, v), S)
             \/ \E i, j \in Items, u \in Proposals :
                  i # j /\ Begin(root, Derived(i, u, j, v), {})
  BY DEF Init
<1>2. PICK c, L : Begin(root, c, L) /\ Fit(c, <<>>, L, {}) /\ Rooted(c)
  <2>1. PICK v \in Proposals :
             \/ \E S \in SUBSET Items : Begin(root, Seeded(S, v), S)
             \/ \E i, j \in Items, u \in Proposals :
                  i # j /\ Begin(root, Derived(i, u, j, v), {})
    BY <1>1
  <2>0. v \in Vals /\ Proposals \subseteq Vals
    BY DEF Proposals
  <2>2. ASSUME NEW S \in SUBSET Items, Begin(root, Seeded(S, v), S)
        PROVE  \E c, L : Begin(root, c, L) /\ Fit(c, <<>>, L, {}) /\ Rooted(c)
    <3>0. PICK art : art = [i \in Items |-> IF i \in S THEN Fresh(v) ELSE Absent]
      OBVIOUS
    <3>a. PICK none : none = [i \in Items |-> Absent]
      OBVIOUS
    <3>b. EmptyContext = [art |-> none, log |-> EmptyLog, reading |-> NoReading,
                          deps |-> NoReading, stale |-> {}, base |-> <<>>]
      BY <3>a DEF EmptyContext
    <3>c. Seeded(S, v) = [EmptyContext EXCEPT !.art = art]
      BY <3>0 DEF Seeded
    <3>d. Seeded(S, v) = [art |-> art, log |-> EmptyLog, reading |-> NoReading,
                          deps |-> NoReading, stale |-> {}, base |-> <<>>]
      BY <3>b, <3>c
    <3>1. Seeded(S, v) = [art |-> [i \in Items |-> IF i \in S THEN Fresh(v) ELSE Absent],
                          log |-> EmptyLog, reading |-> NoReading, deps |-> NoReading,
                          stale |-> {}, base |-> <<>>]
      BY <3>0, <3>d
    <3>2. Fit(Seeded(S, v), <<>>, S, {}) /\ Rooted(Seeded(S, v))
      BY <2>0, <3>1, SeededFit
    <3> QED BY <2>2, <3>2
  <2>3. ASSUME NEW i \in Items, NEW j \in Items, NEW u \in Vals, Begin(root, Derived(i, u, j, v), {})
        PROVE  \E c, L : Begin(root, c, L) /\ Fit(c, <<>>, L, {}) /\ Rooted(c)
    BY <2>0, <2>3, DerivedFit
  <2> QED BY <2>0, <2>1, <2>2, <2>3
<1>3. /\ ctx = [m \in Names |-> IF m = root THEN c ELSE EmptyContext]
      /\ loose = [m \in Names |-> IF m = root THEN L ELSE {}]
      /\ agent = [m \in Names |-> <<>>] /\ reborn = [m \in Names |-> {}]
  BY <1>2 DEF Init, Begin
<1>4. ASSUME NEW m \in Names  PROVE Fit(ctx[m], agent[m], loose[m], reborn[m])
  <2>1. CASE m = root
    BY <1>2, <1>3, <2>1
  <2>2. CASE m # root
    BY <1>3, <2>2, EmptyFit
  <2> QED BY <2>1, <2>2
<1>5. LogInv
  BY <1>1, <1>3, <1>4 DEF LogInv
<1> QED
  BY <1>1, <1>2, <1>3, <1>5

LEMMA LogInvStep ==
  ASSUME LogInv, Next
  PROVE  LogInv' /\ \E n, c : Evolves(n, c)
<1>1. ASSUME NEW n \in exists, NEW S, StartAgent(n, S)
      PROVE  LogInv' /\ \E m, c : Evolves(m, c)
  BY <1>1, StartAgentStep
<1>2. ASSUME NEW n \in exists, NEW i \in Items, NEW op \in Ops, Commit(n, i, op)
      PROVE  LogInv' /\ \E m, c : Evolves(m, c)
  BY <1>2, CommitStep
<1>3. ASSUME NEW n \in exists, NEW i \in Items, NEW v \in Proposals \cup {Absent},
             Touch(n, i, v)
      PROVE  LogInv' /\ \E m, c : Evolves(m, c)
  BY <1>3, TouchStep
<1>4. ASSUME NEW n \in exists, NEW i \in Items,
             Dispatch(n, i) \/ DispatchFails(n, i) \/ Retry(n, i)
      PROVE  LogInv' /\ \E m, c : Evolves(m, c)
  BY <1>4, MarkedStep, BranchesAssumption DEF Dispatch, DispatchFails, Retry, BranchesAssumption
<1>5. ASSUME NEW n \in exists, NEW v, Checkout(n, v)
      PROVE  LogInv' /\ \E m, c : Evolves(m, c)
  BY <1>5, CheckoutStep
<1>6. ASSUME NEW n \in exists, NEW keep \in 0 .. MaxSteps, Compact(n, keep)
      PROVE  LogInv' /\ \E m, c : Evolves(m, c)
  <2>1. keep \in Nat
    BY BranchesAssumption DEF BranchesAssumption
  <2> QED BY <1>6, <2>1, CompactStep
<1>7. ASSUME NEW n \in exists, Reload(n)
      PROVE  LogInv' /\ \E m, c : Evolves(m, c)
  BY <1>7, ReloadStep
<1>8. ASSUME NEW n \in exists, NEW m \in Names, Fork(n, m)
      PROVE  LogInv' /\ \E k, c : Evolves(k, c)
  BY <1>8, ForkStep
<1>9. ASSUME NEW n \in exists, NEW o \in exists, Merge(n, o)
      PROVE  LogInv' /\ \E m, c : Evolves(m, c)
  BY <1>9, MergeStep
<1>10. ASSUME NEW n \in exists, NEW o \in exists, MergeFrom(n, o)
       PROVE  LogInv' /\ \E m, c : Evolves(m, c)
  BY <1>10, MergeFromStep
<1> QED
  BY <1>1, <1>2, <1>3, <1>4, <1>5, <1>6, <1>7, <1>8, <1>9, <1>10 DEF Next

LEMMA LogInvNext == LogInv /\ [Next]_vars => LogInv'
<1>1. ASSUME LogInv, Next  PROVE LogInv'
  BY <1>1, LogInvStep
<1>2. ASSUME LogInv, UNCHANGED vars  PROVE LogInv'
  BY <1>2 DEF vars, history, LogInv
<1> QED
  BY <1>1, <1>2

-----------------------------------------------------------------------------
(* II. Theorems *)

(* context.py, commit_log.py: after any commits, rollbacks, compactions,    *)
(* reloads, forks and merges, the live data nobody touched outside the      *)
(* commits is what replaying the retained chain yields.                     *)
THEOREM LiveIsCommitted == Spec => []LiveMatchesLog
<1>1. LogInv => LiveMatchesLog
  BY DEF LogInv, Fit, Matches, LiveMatchesLog
<1>2. Init => LogInv
  BY LogInvInit
<1> QED
  BY <1>1, <1>2, LogInvNext, PTL DEF Spec

LEMMA ProducersKnown ==
  ASSUME LogInv, NEW n \in exists
  PROVE  /\ \A s \in Items :
              ctx[n].deps[s] = {w \in Items : /\ HasProducer(ctx[n].log, w)
                                              /\ s \in Sources(Producer(ctx[n].log, w))}
         /\ ctx[n].stale \subseteq Items
<1>1. ctx[n] \in ContextRecs /\ Exact(ctx[n])
  BY DEF LogInv, Fit, Tracked
<1> QED
  BY <1>1, ExactProducer DEF ContextRecs

(* context.py: the producer index and the stale set, maintained operation   *)
(* by operation and recomputed after a cut, are exact: the index holds the  *)
(* sources of every last writer, what was derived from changed data is      *)
(* stale, and nothing is stale without a cause.                             *)
THEOREM SourcesAreKnown == Spec => []DependenciesTracked
<1>1. LogInv => IndexIsExact
  BY ProducersKnown DEF IndexIsExact
<1>2. LogInv => StaleHasCause
  <2> SUFFICES ASSUME LogInv, NEW n \in exists, NEW i \in ctx[n].stale
               PROVE  /\ HasProducer(ctx[n].log, i)
                      /\ \E r \in Producer(ctx[n].log, i).reads :
                           Outdated(ctx[n], r) \/ r.item \in reborn[n]
    BY DEF StaleHasCause
  <2>1. StaleCaused(ctx[n], reborn[n])
    BY DEF LogInv, Fit, Tracked
  <2> QED BY <2>1 DEF StaleCaused
<1>3. LogInv => ChangeMakesStale
  <2> SUFFICES ASSUME LogInv, NEW n \in exists,
                      NEW i \in Live(ctx[n]) \ (ctx[n].stale \cup reborn[n]),
                      HasProducer(ctx[n].log, i),
                      NEW r \in Producer(ctx[n].log, i).reads,
                      r.item \in Live(ctx[n]), ctx[n].art[r.item].val # r.was,
                      r.item \notin reborn[n]
               PROVE  r.item \in Producer(ctx[n].log, i).behind
    BY DEF ChangeMakesStale
  <2>1. PICK c : c = ctx[n]
    OBVIOUS
  <2>2. PICK R : R = reborn[n]
    OBVIOUS
  <2>3. c \in ContextRecs /\ Tracked(c, R)
    BY <2>1, <2>2 DEF LogInv, Fit
  <2>4. i \in Items
    BY DEF Live
  <2>5. PICK k \in DOMAIN c.log.commits :
          Producer(c.log, i) = c.log.commits[k] /\ Producer(c.log, i) \in CommitRecs
    BY <2>1, <2>3, ProducerTyped
  <2>6. Honest(c, Producer(c.log, i).reads, R)
    BY <2>3, <2>5 DEF Tracked, HonestCommits
  <2>7. r \in Producer(c.log, i).reads /\ r.ver \in Nat
    BY <2>1, <2>5, ReadsTyped
  <2>8. c.art[r.item].ver >= r.ver /\ c.art[r.item].ver # r.ver /\ r.item \in Live(c)
    BY <2>1, <2>2, <2>6, <2>7 DEF Honest
  <2>9. c.art[r.item].ver \in Nat
    BY <2>3, <2>8, LiveData
  <2>10. Outdated(c, r)
    BY <2>7, <2>8, <2>9 DEF Outdated
  <2>11. Outdates(c, R, i)
    BY <2>1, <2>2, <2>3, <2>4 DEF Tracked, StaleComplete
  <2> QED BY <2>1, <2>2, <2>7, <2>10, <2>11 DEF Outdates
<1>4. LogInv => DependenciesTracked
  BY <1>1, <1>2, <1>3 DEF DependenciesTracked
<1>5. Init => LogInv
  BY LogInvInit
<1> QED
  BY <1>4, <1>5, LogInvNext, PTL DEF Spec

(* branching.py: the first merge after a fork loses no change of either     *)
(* side, if the base of the merge is the data both started from.            *)
THEOREM BothSidesAreKept == Spec => MergeKeepsBothSides
<1> DEFINE Keeps == \A t, o \in exists :
       (Merge(t, o) /\ ~merged /\ ancestor = <<MergeBase(t, o)>>) =>
         \A i \in Items :
           LET changed(n) == Sig(Data(ctx[n])[i]) # Sig(ancestor[1][i])
               after == Sig(Data(ctx'[t])[i])
           IN  /\ changed(t) => after = Sig(Data(ctx[t])[i])
               /\ changed(o) => after = Sig(Data(ctx[o])[i])
<1>1. ASSUME LogInv  PROVE Keeps
  <2> SUFFICES ASSUME NEW t \in exists, NEW o \in exists, Merge(t, o),
                      ancestor = <<MergeBase(t, o)>>, NEW i \in Items
               PROVE  /\ Sig(Data(ctx[t])[i]) # Sig(ancestor[1][i]) =>
                           Sig(Data(ctx'[t])[i]) = Sig(Data(ctx[t])[i])
                      /\ Sig(Data(ctx[o])[i]) # Sig(ancestor[1][i]) =>
                           Sig(Data(ctx'[t])[i]) = Sig(Data(ctx[o])[i])
    OBVIOUS
  <2>1. PICK vt : vt = Data(ctx[t])[i]
    OBVIOUS
  <2>2. PICK vo : vo = Data(ctx[o])[i]
    OBVIOUS
  <2>3. PICK sb : sb = Sig(MergeBase(t, o)[i])
    OBVIOUS
  <2>4. sb = Sig(ancestor[1][i])
    BY <2>3
  <2>5. PICK verdict : verdict = Verdict(t, o, i)
    OBVIOUS
  <2>6. verdict # "conflict"
    BY <2>5 DEF Merge, Conflicts
  <2>7. Data(ctx'[t])[i] = IF verdict \in {"sent", "adopt"} THEN vo ELSE vt
    <3>1. Merges(t, o, ctx'[t])
      BY <1>1, MergeStep
    <3> QED BY <2>1, <2>2, <2>5, <3>1 DEF Merges, MergedData, Adopted
  <2>8. Judged(verdict, vt, vo, sb)
    BY <2>1, <2>2, <2>3, <2>5, VerdictIs
  <2>9. OnlySentBy(vo, vt) => Sig(vt) = Sig(vo)
    BY OneIntent
  <2> QED BY <2>1, <2>2, <2>4, <2>6, <2>7, <2>8, <2>9 DEF Judged
<1>2. ASSUME LogInv, [Next]_vars  PROVE [Keeps]_vars
  BY <1>1, <1>2
<1>3. Init => LogInv
  BY LogInvInit
<1> HIDE DEF Keeps
<1>4. Spec => [][Keeps]_vars
  BY <1>2, <1>3, LogInvNext, PTL DEF Spec
<1> QED
  BY <1>4 DEF Keeps, MergeKeepsBothSides

-----------------------------------------------------------------------------
(* Histories *)

HistoryOf(log) == [v \in log.floor .. Version(log) |-> ReplayState(log, v)]

LEMMA NewestIsVersion ==
  ASSUME NEW a \in Nat, NEW b \in Nat, a <= b, NEW h, DOMAIN h = a .. b
  PROVE  Versions!Newest(h) = b
<1> DEFINE S == a .. b
<1>1. \E x \in S : \A y \in S : x >= y
  <2>1. b \in S /\ \A y \in S : b >= y
    OBVIOUS
  <2> QED BY <2>1
<1>2. \A x \in S : (\A y \in S : x >= y) => x = b
  OBVIOUS
<1>3. DOMAIN h = S
  OBVIOUS
<1> HIDE DEF S
<1>4. (CHOOSE x \in S : \A y \in S : x >= y) = b
  BY <1>1, <1>2, Zenon
<1> QED
  BY <1>3, <1>4, Zenon DEF Versions!Newest, Versions!Max

LEMMA HistoryFacts ==
  ASSUME NEW log \in LogsOf(CommitRecs)
  PROVE  /\ log.floor \in Nat /\ Version(log) \in Nat /\ log.floor <= Version(log)
         /\ HistoryOf(log) \in [log.floor .. Version(log) -> States]
         /\ HistoryOf(log) # <<>>
         /\ Versions!Newest(HistoryOf(log)) = Version(log)
<1>1. /\ Version(log) \in Nat /\ log.floor <= Version(log)
      /\ \A v \in log.floor .. Version(log) : ReplayState(log, v) \in States
  BY CommitsHaveOps, HistoryTyped
<1>2. log.floor \in Nat
  BY DEF LogsOf
<1>3. HistoryOf(log) \in [log.floor .. Version(log) -> States]
  BY <1>1 DEF HistoryOf
<1>4. log.floor \in DOMAIN HistoryOf(log)
  BY <1>1, <1>2 DEF HistoryOf
<1>5. DOMAIN <<>> = {}
  OBVIOUS
<1>6. DOMAIN HistoryOf(log) = log.floor .. Version(log)
  BY DEF HistoryOf
<1>7. Versions!Newest(HistoryOf(log)) = Version(log)
  BY <1>1, <1>2, <1>6, NewestIsVersion
<1> QED
  BY <1>1, <1>2, <1>3, <1>4, <1>5, <1>7

LEMMA AppendExtends ==
  ASSUME NEW log \in LogsOf(CommitRecs), NEW new, Extended(log, new)
  PROVE  HistoryOf(new) \in Versions!Extensions(HistoryOf(log))
<1>1. PICK commit \in CommitRecs : new = AppendCommit(log, commit)
  BY DEF Extended
<1>2. /\ new \in LogsOf(CommitRecs) /\ new.floor = log.floor /\ Version(new) = Version(log) + 1
      /\ \A v \in log.floor .. Version(log) : ReplayState(new, v) = ReplayState(log, v)
  BY <1>1, CommitsHaveOps, AppendHistory
<1>3. PICK a, b : a = log.floor /\ b = Version(log)
  OBVIOUS
<1>4. a \in Nat /\ b \in Nat /\ a <= b /\ Versions!Newest(HistoryOf(log)) = b
  BY <1>3, HistoryFacts
<1>5. PICK s : s = ReplayState(new, b + 1)
  OBVIOUS
<1>6. s \in States
  <2>1. \A v \in new.floor .. Version(new) : ReplayState(new, v) \in States
    BY <1>2, CommitsHaveOps, HistoryTyped
  <2> QED BY <1>2, <1>3, <1>4, <1>5, <2>1
<1>7. HistoryOf(new) = [v \in a .. b + 1 |-> ReplayState(new, v)]
  BY <1>2, <1>3 DEF HistoryOf
<1>8. DOMAIN HistoryOf(log) = a .. b /\ \A v \in a .. b : HistoryOf(log)[v] = ReplayState(new, v)
  BY <1>2, <1>3 DEF HistoryOf
<1>9. a .. b + 1 = (a .. b) \cup {b + 1}
  BY <1>4
<1>10. \A v \in a .. b + 1 : v \notin a .. b => v = b + 1
  BY <1>4
<1>11. HistoryOf(new) = Versions!OnTop(HistoryOf(log), s)
  BY <1>4, <1>5, <1>7, <1>8, <1>9, <1>10 DEF Versions!OnTop
<1> QED
  BY <1>6, <1>11 DEF Versions!Extensions

LEMMA TruncateRollsBack ==
  ASSUME NEW log \in LogsOf(CommitRecs), NEW new, Truncated(log, new)
  PROVE  HistoryOf(new) \in Versions!Rollbacks(HistoryOf(log))
<1>1. PICK v \in log.floor .. Version(log) : new = Truncate(log, v)
  BY DEF Truncated
<1>2. /\ new.floor = log.floor /\ Version(new) = v
      /\ \A u \in log.floor .. v : ReplayState(new, u) = ReplayState(log, u)
  BY <1>1, CommitsHaveOps, TruncateHistory
<1>3. PICK a, b : a = log.floor /\ b = Version(log)
  OBVIOUS
<1>4. a \in Nat /\ b \in Nat /\ v \in a .. b
  BY <1>1, <1>3, HistoryFacts
<1>5. PICK h : h = HistoryOf(log)
  OBVIOUS
<1>6. DOMAIN h = a .. b /\ \A u \in a .. v : h[u] = ReplayState(new, u)
  BY <1>2, <1>3, <1>4, <1>5 DEF HistoryOf
<1>7. {u \in DOMAIN h : u <= v} = a .. v
  BY <1>4, <1>6
<1>8. HistoryOf(new) = [u \in a .. v |-> ReplayState(new, u)]
  BY <1>2, <1>3 DEF HistoryOf
<1>9. HistoryOf(new) = Versions!Restrict(h, {u \in DOMAIN h : u <= v})
  BY <1>6, <1>7, <1>8 DEF Versions!Restrict
<1>10. v \in DOMAIN h
  BY <1>4, <1>6
<1> QED
  BY <1>5, <1>9, <1>10 DEF Versions!Rollbacks

LEMMA ShortenCompacts ==
  ASSUME NEW log \in LogsOf(CommitRecs), NEW v \in log.floor .. Version(log), NEW new,
         new.floor = v, Version(new) = Version(log),
         \A u \in v .. Version(log) : ReplayState(new, u) = ReplayState(log, u)
  PROVE  HistoryOf(new) \in Versions!Compactions(HistoryOf(log))
<1>3. PICK a, b : a = log.floor /\ b = Version(log)
  OBVIOUS
<1>4. a \in Nat /\ b \in Nat /\ v \in a .. b
  BY <1>3, HistoryFacts
<1>5. PICK h : h = HistoryOf(log)
  OBVIOUS
<1>6. DOMAIN h = a .. b /\ \A u \in v .. b : h[u] = ReplayState(new, u)
  BY <1>3, <1>4, <1>5 DEF HistoryOf
<1>7. {u \in DOMAIN h : u >= v} = v .. b
  BY <1>4, <1>6
<1>8. HistoryOf(new) = [u \in v .. b |-> ReplayState(new, u)]
  BY <1>3 DEF HistoryOf
<1>9. HistoryOf(new) = Versions!Restrict(h, {u \in DOMAIN h : u >= v})
  BY <1>6, <1>7, <1>8 DEF Versions!Restrict
<1>10. v \in DOMAIN h
  BY <1>4, <1>6
<1> QED
  BY <1>5, <1>9, <1>10 DEF Versions!Compactions

LEMMA ChainStepChanges ==
  ASSUME NEW log \in LogsOf(CommitRecs), NEW new, ChainStep(log, new)
  PROVE  LET h == HistoryOf(log)
         IN  HistoryOf(new) \in Versions!Extensions(h) \cup Versions!Rollbacks(h) \cup Versions!Compactions(h)
<1>1. CASE new = log
  <2>1. PICK v : v = log.floor
    OBVIOUS
  <2>2. v \in log.floor .. Version(log)
    BY <2>1, HistoryFacts
  <2>3. HistoryOf(new) \in Versions!Compactions(HistoryOf(log))
    BY <1>1, <2>1, <2>2, ShortenCompacts
  <2> QED BY <2>3
<1>2. CASE Extended(log, new)
  BY <1>2, AppendExtends
<1>3. CASE Truncated(log, new)
  BY <1>3, TruncateRollsBack
<1>4. CASE Shortened(log, new)
  <2>1. PICK v \in log.floor .. Version(log) : new = CompactTo(log, v)
    BY <1>4 DEF Shortened
  <2>2. /\ new.floor = v /\ Version(new) = Version(log)
        /\ \A u \in v .. Version(log) : ReplayState(new, u) = ReplayState(log, u)
    BY <2>1, CommitsHaveOps, CompactHistory
  <2>3. HistoryOf(new) \in Versions!Compactions(HistoryOf(log))
    BY <2>2, ShortenCompacts
  <2> QED BY <2>3
<1> QED
  BY <1>1, <1>2, <1>3, <1>4 DEF ChainStep

LEMMA LogsTyped ==
  ASSUME LogInv, NEW n \in Names
  PROVE  ctx[n].log \in LogsOf(CommitRecs)
BY DEF LogInv, Fit, ContextRecs

LEMMA HistoryAt ==
  /\ \A n \in Names : Histories[n] = IF n \in exists THEN HistoryOf(ctx[n].log) ELSE <<>>
  /\ \A n \in Names : Histories'[n] = IF n \in exists' THEN HistoryOf(ctx'[n].log) ELSE <<>>
BY DEF Histories, HistoryOf

LEMMA ChangedHistory ==
  ASSUME LogInv, LogInv', NEW n, NEW c, Evolves(n, c)
  PROVE  Versions!Next
<1>1. n \in Names /\ ctx' = [ctx EXCEPT ![n] = c]
  BY DEF Evolves
<1>2. ctx'[n] = c /\ \A m \in Names \ {n} : ctx'[m] = ctx[m]
  BY <1>1 DEF LogInv
<1>3. ctx[n].log \in LogsOf(CommitRecs) /\ c.log \in LogsOf(CommitRecs)
  <2>1. c \in ContextRecs
    BY <1>1, <1>2 DEF LogInv, Fit
  <2> QED BY <1>1, <2>1, LogsTyped DEF ContextRecs
<1>4. HistoryOf(c.log) # <<>> /\ HistoryOf(ctx[n].log) # <<>>
  BY <1>3, HistoryFacts
<1>5. \A m \in Names \ {n} : Histories'[m] = Histories[m]
  <2>1. \A m \in Names \ {n} : m \in exists' <=> m \in exists
    BY DEF Evolves
  <2> QED BY <1>2, <2>1, HistoryAt
<1>6. Versions!Change(n)
  <2>1. CASE n \in exists /\ exists' = exists /\ ChainStep(ctx[n].log, c.log)
    <3>1. Histories[n] = HistoryOf(ctx[n].log) /\ Histories'[n] = HistoryOf(c.log)
      BY <1>1, <1>2, <2>1, HistoryAt
    <3>2. LET h == HistoryOf(ctx[n].log)
          IN  HistoryOf(c.log) \in
                Versions!Extensions(h) \cup Versions!Rollbacks(h) \cup Versions!Compactions(h)
      BY <1>3, <2>1, ChainStepChanges
    <3> QED BY <1>4, <3>1, <3>2 DEF Versions!Change
  <2>2. CASE exists' = exists \cup {n} /\ \E m \in exists \ {n} : c.log = ctx[m].log
    <3>1. PICK m \in exists \ {n} : c.log = ctx[m].log
      BY <2>2
    <3>2. m \in Names \ {n} /\ Histories[m] = HistoryOf(c.log) /\ Histories'[n] = HistoryOf(c.log)
      BY <1>1, <1>2, <2>2, <3>1, HistoryAt DEF LogInv
    <3> QED BY <1>4, <3>2 DEF Versions!Change
  <2> QED BY <2>1, <2>2 DEF Evolves
<1> QED
  BY <1>1, <1>5, <1>6 DEF Versions!Next

LEMMA HistoryInit == Init => Versions!Init
<1> SUFFICES ASSUME Init PROVE Versions!Init
  OBVIOUS
<1>1. LogInv /\ \E root \in Names : exists = {root} /\ Rooted(ctx[root])
  BY LogInvInit
<1>2. PICK root \in Names : exists = {root} /\ Rooted(ctx[root])
  BY <1>1
<1>3. PICK log : log = ctx[root].log
  OBVIOUS
<1>4. log \in LogsOf(CommitRecs) /\ log.floor = 0 /\ log.baseline = NoArtifacts
  BY <1>1, <1>2, <1>3, LogsTyped DEF Rooted
<1>5. Histories[root] = HistoryOf(log) /\ \A n \in Names \ {root} : Histories[n] = <<>>
  BY <1>2, <1>3, HistoryAt
<1>6. /\ Version(log) \in Nat
      /\ HistoryOf(log) \in [0 .. Version(log) -> States]
      /\ Versions!Newest(HistoryOf(log)) = Version(log)
  BY <1>4, HistoryFacts
<1>7. HistoryOf(log)[0] = NoArtifacts
  <2>1. ReplayState(log, log.floor) = log.baseline
    BY <1>4, CommitsHaveOps, HistoryTyped
  <2> QED BY <1>4, <1>6, <2>1 DEF HistoryOf
<1> QED
  BY <1>2, <1>5, <1>6, <1>7 DEF Versions!Init

(* commit_log.py, context.py: the Contexts implement versioned histories,   *)
(* in which the state of a version never changes while it is retained.      *)
THEOREM HistoryIsKept == Spec => KeepsHistory
<1>1. ASSUME LogInv, LogInv', Next  PROVE Versions!Next
  BY <1>1, LogInvStep, ChangedHistory
<1>2. UNCHANGED vars => UNCHANGED Histories
  BY DEF vars, Histories
<1>3. LogInv /\ LogInv' /\ [Next]_vars => [Versions!Next]_Histories
  BY <1>1, <1>2
<1> QED
  BY <1>3, LogInvInit, LogInvNext, HistoryInit, PTL DEF Spec, KeepsHistory, Versions!Spec
=============================================================================
