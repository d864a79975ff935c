-------------------------- MODULE Generation_proofs --------------------------
(***************************************************************************)
(* What TLAPS proves of Generation, for any agents, priorities, limits,    *)
(* batches and bounds.                                                     *)
(*                                                                         *)
(* The work of a generation serves its batch.  Which work a batch asks for *)
(* is a property of the operators of WorkList; WorkInv carries it through  *)
(* the collection and the dispatch.                                        *)
(*                                                                         *)
(* The limits hold.  RunningWithinLimits is not inductive: that a slot is  *)
(* free says nothing unless every other slot is accounted for.  Sound does *)
(* that: each slot of a semaphore is free, held by a worker that took it,  *)
(* or already given to one that was woken and has not resumed (Balanced),  *)
(* who waits in the line of the semaphore it needs next (Lined).           *)
(*                                                                         *)
(* A stream leaves nothing unsaid.  NothingUnsaid speaks of its end; the   *)
(* invariant says at any time that what has been announced and not lost is *)
(* shown, taken from the queue or in it, in order (InFlow), and that no    *)
(* announcement comes after the run: a worker that announces is running,   *)
(* which SemInv excludes outside the dispatch.                             *)
(***************************************************************************)
EXTENDS Generation, FiniteSetTheorems, WellFoundedInduction, TLAPS

-----------------------------------------------------------------------------
(* Least and greatest numbers *)

Smaller == {xy \in Nat \X Nat : xy[1] < xy[2]}

(* The natural numbers have no infinite descent, so what is not empty among *)
(* them has a least element, which Min picks.                               *)
LEMMA LeastNatural ==
  ASSUME NEW S, S \subseteq Nat, S # {}
  PROVE  Min(S) \in S /\ \A y \in S : Min(S) <= y
<1>1. IsWellFoundedOn(Smaller, Nat)
  BY NatLessThanWellFounded DEF OpToRel, Smaller
<1>2. \E x \in S : \A y \in S : ~ (<<y, x>> \in Smaller)
  BY Zenon, <1>1, WFMin
<1>3. ASSUME NEW x \in S, NEW y \in S, ~ (<<y, x>> \in Smaller)
      PROVE  x <= y
  BY <1>3 DEF Smaller
<1>4. \E x \in S : \A y \in S : x <= y
  BY Zenon, <1>2, <1>3
<1> QED
  BY Zenon, <1>4 DEF Min

(* A set of indices has a greatest one, which Max picks.                    *)
LEMMA MaxOfSegment ==
  ASSUME NEW n \in Nat, NEW s \in SUBSET (1 .. n), s # {}
  PROVE  Max(s) \in s /\ \A y \in s : Max(s) >= y
<1> DEFINE T == {n - x : x \in s}
<1>1. T \subseteq Nat /\ T # {}
  <2>1. \A x \in s : n - x \in Nat
    OBVIOUS
  <2> QED BY <2>1
<1>2. PICK m \in T : \A y \in T : m <= y
  BY Zenon, <1>1, LeastNatural
<1>3. PICK x \in s : m = n - x
  OBVIOUS
<1>4. \A y \in s : x >= y
  <2> TAKE y \in s
  <2>1. m <= n - y
    BY <1>2
  <2> QED BY <1>3, <2>1
<1> QED
  BY Zenon, <1>4 DEF Max

-----------------------------------------------------------------------------
(* Arranging *)

(* `before` is a strict total order of S. *)
Orders(before, S) ==
  /\ \A x \in S : <<x, x>> \notin before
  /\ \A x, y \in S : x = y \/ <<x, y>> \in before \/ <<y, x>> \in before
  /\ \A x, y, z \in S : <<x, y>> \in before /\ <<y, z>> \in before => <<x, z>> \in before

(* Arranging a finite set by a total order yields all of it, nothing twice,  *)
(* in that order: each element is at the place one more than the number of   *)
(* those before it.                                                          *)
LEMMA ArrangedFacts ==
  ASSUME NEW S, IsFiniteSet(S), NEW before, Orders(before, S)
  PROVE  /\ Arranged(S, before) \in Seq(S)
         /\ Len(Arranged(S, before)) = Cardinality(S)
         /\ ToSet(Arranged(S, before)) = S
         /\ \A i, j \in DOMAIN Arranged(S, before) :
              i < j <=> <<Arranged(S, before)[i], Arranged(S, before)[j]>> \in before
         /\ IsInjective(Arranged(S, before))
<1> DEFINE n == Cardinality(S)
           Below(x) == {y \in S : <<y, x>> \in before}
           f == [x \in S |-> Cardinality(Below(x)) + 1]
           t == [k \in 1 .. n |-> CHOOSE x \in S : Cardinality(Below(x)) = k - 1]
<1>1. n \in Nat
  BY FS_CardinalityType
<1>2. \A x \in S : /\ IsFiniteSet(Below(x)) /\ Cardinality(Below(x)) \in Nat
                   /\ Cardinality(Below(x)) + 1 <= n
  <2> SUFFICES ASSUME NEW x \in S
               PROVE  /\ IsFiniteSet(Below(x)) /\ Cardinality(Below(x)) \in Nat
                      /\ Cardinality(Below(x)) + 1 <= n
    OBVIOUS
  <2>1. IsFiniteSet(S \ {x}) /\ Cardinality(S \ {x}) = n - 1
    BY FS_RemoveElement
  <2>2. Below(x) \in SUBSET (S \ {x})
    BY DEF Orders
  <2>3. IsFiniteSet(Below(x)) /\ Cardinality(Below(x)) <= n - 1
    <3> HIDE DEF Below, n
    <3> QED BY ONLY <2>1, <2>2, FS_Subset
  <2> QED BY <1>1, <2>3, FS_CardinalityType
<1>3. ASSUME NEW x \in S, NEW y \in S, <<x, y>> \in before
      PROVE  f[x] < f[y]
  <2>1. Below(x) \cup {x} \in SUBSET Below(y) /\ x \notin Below(x)
    BY <1>3 DEF Orders
  <2>2. Cardinality(Below(x) \cup {x}) = Cardinality(Below(x)) + 1
    BY <1>2, <2>1, FS_AddElement
  <2>3. Cardinality(Below(x) \cup {x}) <= Cardinality(Below(y))
    BY <1>2, <2>1, FS_Subset
  <2>4. Cardinality(Below(x)) \in Nat /\ Cardinality(Below(y)) \in Nat
    BY <1>2
  <2> HIDE DEF Below
  <2> QED BY <2>2, <2>3, <2>4
<1>4. f \in [S -> 1 .. n]
  BY <1>1, <1>2
<1>5. f \in Injection(S, 1 .. n)
  <2>1. \A x, y \in S : x # y => f[x] # f[y]
    <3> SUFFICES ASSUME NEW x \in S, NEW y \in S, x # y PROVE f[x] # f[y]
      OBVIOUS
    <3>1. f[x] \in Int /\ f[y] \in Int
      BY <1>1, <1>4
    <3>2. <<x, y>> \in before \/ <<y, x>> \in before
      BY DEF Orders
    <3> HIDE DEF f
    <3> QED BY <3>1, <3>2, <1>3
  <2> HIDE DEF f
  <2> QED BY <2>1, <1>4 DEF Injection, IsInjective
<1>6. IsFiniteSet(1 .. n) /\ Cardinality(1 .. n) = n
  BY <1>1, FS_Interval
<1>7. f \in Surjection(S, 1 .. n)
  BY <1>5, <1>6, FS_Injection
<1>8. \A k \in 1 .. n : t[k] \in S /\ f[t[k]] = k
  <2> SUFFICES ASSUME NEW k \in 1 .. n PROVE t[k] \in S /\ f[t[k]] = k
    OBVIOUS
  <2>1. PICK x \in S : f[x] = k
    BY <1>7 DEF Surjection
  <2>2. Cardinality(Below(x)) = k - 1
    <3>1. f[x] = Cardinality(Below(x)) + 1 /\ Cardinality(Below(x)) \in Nat
      BY <1>2
    <3> HIDE DEF f, Below
    <3> QED BY <2>1, <3>1
  <2>3. t[k] \in S /\ Cardinality(Below(t[k])) = k - 1
    BY <2>2
  <2> QED BY <1>1, <2>3
<1>9. Arranged(S, before) = t
  BY DEF Arranged
<1>10. t \in Seq(S) /\ Len(t) = n /\ DOMAIN t = 1 .. n
  <2>1. t \in [1 .. n -> S]
    BY <1>8
  <2> HIDE DEF t
  <2> QED BY <1>1, <2>1
<1>11. \A x \in S : f[x] \in 1 .. n /\ t[f[x]] = x
  <2> SUFFICES ASSUME NEW x \in S PROVE f[x] \in 1 .. n /\ t[f[x]] = x
    OBVIOUS
  <2>1. f[x] \in 1 .. n
    BY <1>4
  <2>2. t[f[x]] \in S /\ f[t[f[x]]] = f[x]
    BY <1>8, <2>1
  <2> HIDE DEF t, f
  <2> QED BY <1>5, <2>1, <2>2 DEF Injection, IsInjective
<1>12. ToSet(t) = S
  <2> HIDE DEF t, f
  <2> QED BY <1>8, <1>10, <1>11 DEF ToSet
<1>13. ASSUME NEW i \in 1 .. n, NEW j \in 1 .. n
       PROVE  i < j <=> <<t[i], t[j]>> \in before
  <2>1. t[i] \in S /\ t[j] \in S /\ f[t[i]] = i /\ f[t[j]] = j
    BY <1>8
  <2>2. <<t[i], t[j]>> \in before => i < j
    <3> HIDE DEF t, f
    <3> QED BY <1>3, <2>1
  <2>3. <<t[j], t[i]>> \in before => j < i
    <3> HIDE DEF t, f
    <3> QED BY <1>3, <2>1
  <2>4. t[i] = t[j] => i = j
    <3> HIDE DEF t, f
    <3> QED BY <2>1
  <2>5. t[i] = t[j] \/ <<t[i], t[j]>> \in before \/ <<t[j], t[i]>> \in before
    <3> HIDE DEF t, f
    <3> QED BY <2>1 DEF Orders
  <2> HIDE DEF t
  <2> QED BY <1>1, <2>2, <2>3, <2>4, <2>5
<1>14. IsInjective(t)
  <2> SUFFICES ASSUME NEW i \in 1 .. n, NEW j \in 1 .. n, t[i] = t[j] PROVE i = j
    BY <1>10 DEF IsInjective
  <2>1. f[t[i]] = i /\ f[t[j]] = j
    BY <1>8
  <2> HIDE DEF t, f
  <2> QED BY <2>1
<1> QED
  <2>1. \A i, j \in DOMAIN t : i < j <=> <<t[i], t[j]>> \in before
    BY <1>10, <1>13
  <2> HIDE DEF t
  <2> QED BY <1>9, <1>10, <1>12, <1>14, <2>1

(* The part of a sequence without repetitions at some places has what is at  *)
(* those places, once.                                                       *)
LEMMA PartFacts ==
  ASSUME NEW S, NEW s \in Seq(S), IsInjective(s), NEW I \in SUBSET DOMAIN s
  PROVE  /\ Part(s, I) \in Seq(S)
         /\ ToSet(Part(s, I)) = {s[i] : i \in I}
         /\ IsInjective(Part(s, I))
<1> DEFINE before == {p \in I \X I : p[1] < p[2]}
           places == Arranged(I, before)
<1>1. I \in SUBSET Nat /\ IsFiniteSet(I)
  <2>1. DOMAIN s = 1 .. Len(s) /\ Len(s) \in Nat
    OBVIOUS
  <2>2. IsFiniteSet(DOMAIN s)
    BY <2>1, FS_Interval
  <2> QED BY <2>1, <2>2, FS_Subset
<1>2. Orders(before, I)
  BY <1>1 DEF Orders
<1>3. /\ places \in Seq(I) /\ ToSet(places) = I /\ IsInjective(places)
  <2> HIDE DEF before
  <2> QED BY <1>1, <1>2, ArrangedFacts
<1>4. Part(s, I) = [n \in DOMAIN places |-> s[places[n]]]
  BY DEF Part
<1> HIDE DEF places
<1>5. /\ DOMAIN places = 1 .. Len(places) /\ Len(places) \in Nat
      /\ \A n \in DOMAIN places : places[n] \in I /\ s[places[n]] \in S
  BY <1>3
<1>6. Part(s, I) \in Seq(S) /\ DOMAIN Part(s, I) = DOMAIN places
  BY <1>4, <1>5
<1>7. ToSet(Part(s, I)) = {s[i] : i \in I}
  BY <1>3, <1>4, <1>6 DEF ToSet
<1>8. IsInjective(Part(s, I))
  BY <1>3, <1>4, <1>5, <1>6 DEF IsInjective
<1> QED
  BY <1>6, <1>7, <1>8

(* sorted(items, key=priority) keeps every item and sorts by priority. *)
LEMMA ByPriorityFacts ==
  ASSUME WorkListAssumption, NEW S, \A x \in S : x[1] \in DOMAIN Priority,
         NEW items \in Seq(S), IsInjective(items)
  PROVE  /\ ByPriority(items) \in Seq(S)
         /\ ToSet(ByPriority(items)) = ToSet(items)
         /\ IsInjective(ByPriority(items))
         /\ \A i, j \in DOMAIN ByPriority(items) :
              i < j => Priority[ByPriority(items)[i][1]] <= Priority[ByPriority(items)[j][1]]
<1> DEFINE D == DOMAIN items
           key(i) == Priority[items[i][1]]
           before == {p \in D \X D : \/ key(p[1]) < key(p[2])
                                     \/ (key(p[1]) = key(p[2]) /\ p[1] < p[2])}
           places == Arranged(D, before)
<1>1. D = 1 .. Len(items) /\ Len(items) \in Nat /\ D \in SUBSET Nat
  OBVIOUS
<1>2. IsFiniteSet(D)
  BY <1>1, FS_Interval
<1>3. \A i \in D : key(i) \in Int
  BY DEF WorkListAssumption
<1>4. \A i, j \in D : <<i, j>> \in before <=> key(i) < key(j) \/ (key(i) = key(j) /\ i < j)
  OBVIOUS
<1>5. Orders(before, D)
  <2> HIDE DEF key, before, D
  <2>1. \A i, j \in D : i \in Nat /\ j \in Nat /\ key(i) \in Int /\ key(j) \in Int
    BY <1>1, <1>3
  <2>2. \A x \in D : <<x, x>> \notin before
    BY ONLY <1>4, <2>1
  <2>3. ASSUME NEW x \in D, NEW y \in D PROVE x = y \/ <<x, y>> \in before \/ <<y, x>> \in before
    <3>1. x \in Nat /\ y \in Nat /\ key(x) \in Int /\ key(y) \in Int
      BY ONLY <2>1
    <3>2. /\ <<x, y>> \in before <=> key(x) < key(y) \/ (key(x) = key(y) /\ x < y)
          /\ <<y, x>> \in before <=> key(y) < key(x) \/ (key(y) = key(x) /\ y < x)
      BY ONLY <1>4
    <3> QED BY ONLY <3>1, <3>2
  <2>4. ASSUME NEW x \in D, NEW y \in D, NEW z \in D, <<x, y>> \in before, <<y, z>> \in before
        PROVE  <<x, z>> \in before
    BY ONLY <1>4, <2>1, <2>4
  <2> QED BY ONLY <2>2, <2>3, <2>4 DEF Orders
<1>6. /\ places \in Seq(D) /\ ToSet(places) = D /\ IsInjective(places)
      /\ \A i, j \in DOMAIN places : i < j <=> <<places[i], places[j]>> \in before
  <2> HIDE DEF before, D
  <2> QED BY <1>2, <1>5, ArrangedFacts
<1>7. ByPriority(items) = [n \in DOMAIN places |-> items[places[n]]]
  BY DEF ByPriority
<1> HIDE DEF places
<1>8. /\ DOMAIN places = 1 .. Len(places) /\ Len(places) \in Nat
      /\ \A n \in DOMAIN places : places[n] \in D /\ items[places[n]] \in S
  BY <1>6
<1>9. ByPriority(items) \in Seq(S) /\ DOMAIN ByPriority(items) = DOMAIN places
  BY <1>7, <1>8
<1>10. ToSet(ByPriority(items)) = ToSet(items)
  BY <1>6, <1>7, <1>9 DEF ToSet
<1>11. IsInjective(ByPriority(items))
  BY <1>6, <1>7, <1>8, <1>9 DEF IsInjective
<1>12. ASSUME NEW i \in DOMAIN places, NEW j \in DOMAIN places, i < j
       PROVE  Priority[ByPriority(items)[i][1]] <= Priority[ByPriority(items)[j][1]]
  <2>1. /\ places[i] \in D /\ places[j] \in D /\ <<places[i], places[j]>> \in before
        /\ key(places[i]) \in Int /\ key(places[j]) \in Int
    BY <1>3, <1>6, <1>8, <1>12
  <2>2. key(places[i]) <= key(places[j])
    <3> HIDE DEF key, before, D
    <3> QED BY <1>4, <2>1
  <2> QED BY <1>7, <2>2, <1>12
<1> QED
  BY <1>9, <1>10, <1>11, <1>12

(* The loops over events and agents meet every item once, and the agents of  *)
(* one event in the order of their priority.                                 *)
LEMMA AsMetFacts ==
  ASSUME WorkListAssumption,
         NEW items \in SUBSET (ToSet(Agents) \X Nat), IsFiniteSet(items)
  PROVE  /\ AsMet(items) \in Seq(items)
         /\ ToSet(AsMet(items)) = items
         /\ IsInjective(AsMet(items))
         /\ \A i, j \in DOMAIN AsMet(items) :
              i < j /\ AsMet(items)[i][2] = AsMet(items)[j][2]
                => Priority[AsMet(items)[i][1]] <= Priority[AsMet(items)[j][1]]
<1> DEFINE before == {p \in items \X items :
             p[1][2] < p[2][2] \/ (p[1][2] = p[2][2] /\ Earlier(p[1][1], p[2][1]))}
           A == ToSet(Agents)
           t == AsMet(items)
<1>1. \A p, q \in items : <<p, q>> \in before <=> p[2] < q[2] \/ (p[2] = q[2] /\ Earlier(p[1], q[1]))
  OBVIOUS
<1>2. \A p \in items : p = <<p[1], p[2]>> /\ p[1] \in A /\ p[2] \in Nat
  OBVIOUS
<1>3. A \subseteq DOMAIN Priority /\ \A a \in A : Priority[a] \in Int
  BY DEF WorkListAssumption, ToSet
<1>4. \A a \in A : ~Earlier(a, a)
  BY <1>3 DEF Earlier, WorkListAssumption, IsInjective
<1>5. \A a, b \in A : a = b \/ Earlier(a, b) \/ Earlier(b, a)
  <2> SUFFICES ASSUME NEW a \in A, NEW b \in A, a # b PROVE Earlier(a, b) \/ Earlier(b, a)
    OBVIOUS
  <2>1. PICK i \in DOMAIN Agents, j \in DOMAIN Agents : Agents[i] = a /\ Agents[j] = b
    BY DEF ToSet
  <2>2. i \in Nat /\ j \in Nat /\ i # j
    BY <2>1 DEF WorkListAssumption
  <2> QED BY <1>3, <2>1, <2>2 DEF Earlier
<1>6. \A a, b, c \in A : Earlier(a, b) /\ Earlier(b, c) => Earlier(a, c)
  <2> SUFFICES ASSUME NEW a \in A, NEW b \in A, NEW c \in A, Earlier(a, b), Earlier(b, c)
               PROVE  Earlier(a, c)
    OBVIOUS
  <2>1. CASE Priority[a] < Priority[b] \/ Priority[b] < Priority[c]
    BY <1>3, <2>1 DEF Earlier
  <2>2. CASE ~(Priority[a] < Priority[b] \/ Priority[b] < Priority[c])
    <3>1. PICK i \in DOMAIN Agents, j \in DOMAIN Agents :
            i < j /\ Agents[i] = a /\ Agents[j] = b
      BY <2>2 DEF Earlier
    <3>2. PICK k \in DOMAIN Agents, l \in DOMAIN Agents :
            k < l /\ Agents[k] = b /\ Agents[l] = c
      BY <2>2 DEF Earlier
    <3>3. j = k /\ i \in Nat /\ j \in Nat /\ l \in Nat
      BY <3>1, <3>2 DEF WorkListAssumption, IsInjective
    <3>4. i < l
      BY <3>1, <3>2, <3>3
    <3>5. Priority[a] = Priority[c]
      BY <1>3, <2>2 DEF Earlier
    <3> QED BY <3>1, <3>2, <3>4, <3>5 DEF Earlier
  <2> QED BY <2>1, <2>2
<1>7. Orders(before, items)
  <2> HIDE DEF before, A
  <2>1. \A p \in items : <<p, p>> \notin before
    BY <1>1, <1>2, <1>4
  <2>2. \A p, q \in items : p = q \/ <<p, q>> \in before \/ <<q, p>> \in before
    <3> SUFFICES ASSUME NEW p \in items, NEW q \in items, p # q
                 PROVE  <<p, q>> \in before \/ <<q, p>> \in before
      OBVIOUS
    <3>1. p[1] # q[1] \/ p[2] # q[2]
      BY <1>2
    <3>2. p[1] = q[1] \/ Earlier(p[1], q[1]) \/ Earlier(q[1], p[1])
      BY <1>2, <1>5
    <3>3. p[2] \in Nat /\ q[2] \in Nat
      BY <1>2
    <3> QED BY <1>1, <3>1, <3>2, <3>3
  <2>3. ASSUME NEW p \in items, NEW q \in items, NEW r \in items,
               <<p, q>> \in before, <<q, r>> \in before
        PROVE  <<p, r>> \in before
    <3>1. /\ p[2] < q[2] \/ (p[2] = q[2] /\ Earlier(p[1], q[1]))
          /\ q[2] < r[2] \/ (q[2] = r[2] /\ Earlier(q[1], r[1]))
      BY <1>1, <2>3
    <3>2. p[2] \in Nat /\ q[2] \in Nat /\ r[2] \in Nat
      BY <1>2
    <3>3. Earlier(p[1], q[1]) /\ Earlier(q[1], r[1]) => Earlier(p[1], r[1])
      BY <1>2, <1>6
    <3>4. p[2] < r[2] \/ (p[2] = r[2] /\ Earlier(p[1], r[1]))
      BY <3>1, <3>2, <3>3
    <3> QED BY <1>1, <3>4
  <2> QED BY <2>1, <2>2, <2>3 DEF Orders
<1>8. /\ t \in Seq(items) /\ ToSet(t) = items /\ IsInjective(t)
      /\ \A i, j \in DOMAIN t : i < j <=> <<t[i], t[j]>> \in before
  <2>1. t = Arranged(items, before)
    BY DEF AsMet
  <2> HIDE DEF t, before
  <2> QED BY <1>7, <2>1, ArrangedFacts
<1>9. ASSUME NEW i \in DOMAIN t, NEW j \in DOMAIN t, i < j, t[i][2] = t[j][2]
      PROVE  Priority[t[i][1]] <= Priority[t[j][1]]
  <2> HIDE DEF t, before
  <2>1. t[i] \in items /\ t[j] \in items /\ <<t[i], t[j]>> \in before
    BY <1>8, <1>9
  <2>2. t[i][2] \in Nat /\ t[i][1] \in A /\ t[j][1] \in A
    BY <1>2, <2>1
  <2>3. Earlier(t[i][1], t[j][1])
    BY <1>1, <1>9, <2>1, <2>2
  <2> HIDE DEF A
  <2> QED BY <1>3, <2>2, <2>3 DEF Earlier
<1> QED
  <2> HIDE DEF before
  <2> QED BY <1>8, <1>9

-----------------------------------------------------------------------------
(* What a batch asks for *)

(* What a concatenation holds, and when it repeats nothing. *)
LEMMA ConcatFacts ==
  ASSUME NEW S, NEW s \in Seq(S), NEW t \in Seq(S)
  PROVE  /\ s \o t \in Seq(S)
         /\ ToSet(s \o t) = ToSet(s) \cup ToSet(t)
         /\ IsInjective(s) /\ IsInjective(t) /\ ToSet(s) \cap ToSet(t) = {} => IsInjective(s \o t)
<1>1. /\ s \o t \in Seq(S) /\ DOMAIN (s \o t) = 1 .. Len(s) + Len(t)
      /\ DOMAIN s = 1 .. Len(s) /\ DOMAIN t = 1 .. Len(t) /\ Len(s) \in Nat /\ Len(t) \in Nat
      /\ \A i \in DOMAIN (s \o t) :
           /\ i \in DOMAIN s => (s \o t)[i] = s[i]
           /\ i \notin DOMAIN s => i - Len(s) \in DOMAIN t /\ (s \o t)[i] = t[i - Len(s)]
  OBVIOUS
<1>2. ToSet(s \o t) = ToSet(s) \cup ToSet(t)
  <2>1. ToSet(s \o t) \subseteq ToSet(s) \cup ToSet(t)
    BY <1>1 DEF ToSet
  <2>2. ToSet(s) \subseteq ToSet(s \o t)
    BY <1>1 DEF ToSet
  <2>3. ASSUME NEW j \in DOMAIN t PROVE t[j] \in ToSet(s \o t)
    <3>1. Len(s) + j \in DOMAIN (s \o t) /\ (s \o t)[Len(s) + j] = t[j]
      BY <1>1
    <3> QED BY <3>1 DEF ToSet
  <2> QED BY <2>1, <2>2, <2>3 DEF ToSet
<1>3. ASSUME IsInjective(s), IsInjective(t), ToSet(s) \cap ToSet(t) = {}
      PROVE  IsInjective(s \o t)
  <2> SUFFICES ASSUME NEW i \in DOMAIN (s \o t), NEW j \in DOMAIN (s \o t),
                      (s \o t)[i] = (s \o t)[j]
               PROVE  i = j
    BY DEF IsInjective
  <2>0. i \in Int /\ j \in Int /\ Len(s) \in Int
    BY <1>1
  <2>1. CASE i \in DOMAIN s /\ j \in DOMAIN s
    BY <1>1, <1>3, <2>1 DEF IsInjective
  <2>2. CASE i \notin DOMAIN s /\ j \notin DOMAIN s
    <3>1. i - Len(s) = j - Len(s)
      BY <1>1, <1>3, <2>2 DEF IsInjective
    <3> QED BY <2>0, <3>1
  <2>3. CASE i \in DOMAIN s /\ j \notin DOMAIN s
    BY <1>1, <1>3, <2>3 DEF ToSet
  <2>4. CASE i \notin DOMAIN s /\ j \in DOMAIN s
    BY <1>1, <1>3, <2>4 DEF ToSet
  <2> QED BY <2>1, <2>2, <2>3, <2>4
<1> QED
  BY <1>1, <1>2, <1>3

(* A collected batch says of each of its events what it asks of each agent. *)
Batch == met \in Seq([DOMAIN Priority -> {"no", "now", "settle"}])

(* A batch can ask for finitely many items only. *)
LEMMA AskedItems ==
  ASSUME WorkListAssumption, Batch
  PROVE  /\ ToSet(Agents) \subseteq DOMAIN Priority
         /\ ToSet(Agents) \X DOMAIN met \in SUBSET (ToSet(Agents) \X Nat)
         /\ IsFiniteSet(ToSet(Agents) \X DOMAIN met)
<1>1. Agents \in Seq(DOMAIN Priority) /\ DOMAIN Agents = 1 .. Len(Agents) /\ Len(Agents) \in Nat
  BY DEF WorkListAssumption
<1>2. DOMAIN met = 1 .. Len(met) /\ Len(met) \in Nat
  BY DEF Batch
<1>3. Agents \in Surjection(DOMAIN Agents, ToSet(Agents))
  <2>1. Agents \in [DOMAIN Agents -> ToSet(Agents)]
    BY <1>1 DEF ToSet
  <2> QED BY <2>1 DEF Surjection, ToSet
<1>4. IsFiniteSet(DOMAIN Agents) /\ IsFiniteSet(DOMAIN met)
  BY <1>1, <1>2, FS_Interval
<1>5. IsFiniteSet(ToSet(Agents))
  BY <1>3, <1>4, FS_Surjection
<1>6. IsFiniteSet(ToSet(Agents) \X DOMAIN met)
  BY <1>4, <1>5, FS_Product
<1> QED
  BY <1>1, <1>2, <1>6 DEF ToSet

(* An agent with a debounced event has a first and a last one. *)
LEMMA SettleFacts ==
  ASSUME Batch, NEW a, NEW e \in SettleEvents(met, a)
  PROVE  /\ Min(SettleEvents(met, a)) \in SettleEvents(met, a)
         /\ Max(SettleEvents(met, a)) \in SettleEvents(met, a)
<1>1. SettleEvents(met, a) \in SUBSET (1 .. Len(met)) /\ Len(met) \in Nat
  BY DEF Batch, SettleEvents
<1>2. SettleEvents(met, a) \subseteq Nat
  BY <1>1
<1> QED
  BY <1>1, <1>2, LeastNatural, MaxOfSegment

(* The items the debounced agents are run for: their last event. *)
Settled == {p \in Asking(met, "settle") : p[2] = Max(SettleEvents(met, p[1]))}

(* The dict of debounced runs has each of those once. *)
LEMMA DebouncedFacts ==
  ASSUME WorkListAssumption, Batch
  PROVE  /\ Debounced(met) \in Seq(Settled)
         /\ ToSet(Debounced(met)) = Settled
         /\ IsInjective(Debounced(met))
<1> DEFINE all == ToSet(Agents) \X DOMAIN met
           F == {p \in Asking(met, "settle") : p[2] = Min(SettleEvents(met, p[1]))}
           f == AsMet(F)
           last(a) == Max(SettleEvents(met, a))
           D == [i \in DOMAIN f |-> <<f[i][1], last(f[i][1])>>]
<1>1. F \in SUBSET (ToSet(Agents) \X Nat) /\ IsFiniteSet(F)
  <2>1. F \in SUBSET all
    BY DEF Asking
  <2>2. all \in SUBSET (ToSet(Agents) \X Nat) /\ IsFiniteSet(all)
    BY AskedItems
  <2> HIDE DEF F, all
  <2>3. IsFiniteSet(F)
    BY <2>1, <2>2, FS_Subset
  <2> QED BY <2>1, <2>2, <2>3
<1>2. f \in Seq(F) /\ ToSet(f) = F /\ IsInjective(f)
  <2> HIDE DEF F
  <2> QED BY <1>1, AsMetFacts
<1>3. Debounced(met) = D
  BY DEF Debounced
<1>4. \A p : p \in F <=> /\ p \in all /\ met[p[2]][p[1]] = "settle"
                         /\ p[2] = Min(SettleEvents(met, p[1]))
  BY DEF Asking
<1>5. \A p : p \in Settled <=> /\ p \in all /\ met[p[2]][p[1]] = "settle" /\ p[2] = last(p[1])
  BY DEF Asking, Settled
<1> HIDE DEF f, F
<1>6. \A p \in F : <<p[1], last(p[1])>> \in Settled
  <2> SUFFICES ASSUME NEW p \in F PROVE <<p[1], last(p[1])>> \in Settled
    OBVIOUS
  <2>1. p \in all /\ p[2] \in SettleEvents(met, p[1])
    BY <1>4 DEF SettleEvents
  <2>2. last(p[1]) \in SettleEvents(met, p[1])
    BY <2>1, SettleFacts
  <2>3. <<p[1], last(p[1])>> \in all /\ met[last(p[1])][p[1]] = "settle"
    BY <2>1, <2>2 DEF SettleEvents
  <2> HIDE DEF last, all
  <2> QED BY <1>5, <2>3
<1>7. \A q \in Settled : \E p \in F : q = <<p[1], last(p[1])>>
  <2> SUFFICES ASSUME NEW q \in Settled PROVE \E p \in F : q = <<p[1], last(p[1])>>
    OBVIOUS
  <2> DEFINE e == Min(SettleEvents(met, q[1]))
  <2>1. q \in all /\ q[2] \in SettleEvents(met, q[1]) /\ q[2] = last(q[1])
    BY <1>5 DEF SettleEvents
  <2>2. e \in SettleEvents(met, q[1])
    BY <2>1, SettleFacts
  <2>3. <<q[1], e>> \in all /\ met[e][q[1]] = "settle"
    BY <2>1, <2>2 DEF SettleEvents
  <2>4. <<q[1], e>> \in F
    BY <1>4, <2>3
  <2>5. q = <<q[1], q[2]>>
    BY <2>1
  <2> HIDE DEF last, e
  <2> QED BY <2>1, <2>4, <2>5
<1> HIDE DEF last, all
<1>8. /\ DOMAIN f = 1 .. Len(f) /\ Len(f) \in Nat /\ \A i \in DOMAIN f : f[i] \in F
  BY <1>2
<1>9. D \in Seq(Settled) /\ DOMAIN D = DOMAIN f
  BY <1>6, <1>8
<1>10. ToSet(D) = Settled
  <2>0. \A i \in DOMAIN D : D[i] \in Settled
    BY <1>6, <1>8, <1>9
  <2>1. ToSet(D) \subseteq Settled
    <3> HIDE DEF D
    <3> QED BY <2>0 DEF ToSet
  <2>2. ASSUME NEW q \in Settled PROVE q \in ToSet(D)
    <3>1. PICK p \in F : q = <<p[1], last(p[1])>>
      BY <1>7
    <3>2. PICK i \in DOMAIN f : f[i] = p
      BY <1>2 DEF ToSet
    <3> QED BY <3>1, <3>2, <1>9 DEF ToSet
  <2> QED BY <2>1, <2>2
<1>11. IsInjective(D)
  <2> SUFFICES ASSUME NEW i \in DOMAIN f, NEW j \in DOMAIN f, D[i] = D[j] PROVE i = j
    BY <1>9 DEF IsInjective
  <2>1. f[i][1] = f[j][1]
    OBVIOUS
  <2>2. f[i] \in F /\ f[j] \in F
    BY <1>8
  <2>3. f[i] = <<f[i][1], f[i][2]>> /\ f[j] = <<f[j][1], f[j][2]>> /\ f[i][2] = f[j][2]
    BY <1>4, <2>1, <2>2 DEF all
  <2>4. f[i] = f[j]
    BY <2>1, <2>3
  <2> QED BY <1>2, <2>4 DEF IsInjective
<1> QED
  <2> HIDE DEF D
  <2> QED BY <1>3, <1>9, <1>10, <1>11

(* The collection asks for what is due, once, and for the agents of one      *)
(* event in the order of their priority, whether or not something is         *)
(* debounced.                                                                *)
LEMMA CollectFacts ==
  ASSUME WorkListAssumption, Batch
  PROVE  /\ Collect(met) \in Seq(Due)
         /\ ToSet(Collect(met)) = Due
         /\ IsInjective(Collect(met))
         /\ \A i, j \in DOMAIN Collect(met) :
              i < j /\ Collect(met)[i][2] = Collect(met)[j][2]
                => Priority[Collect(met)[i][1]] <= Priority[Collect(met)[j][1]]
<1> DEFINE all == ToSet(Agents) \X DOMAIN met
           N == Asking(met, "now")
           now == AsMet(N)
           D == Debounced(met)
<1>1. N \in SUBSET (ToSet(Agents) \X Nat) /\ IsFiniteSet(N)
  <2>1. N \in SUBSET all
    BY DEF Asking
  <2>2. all \in SUBSET (ToSet(Agents) \X Nat) /\ IsFiniteSet(all)
    BY AskedItems
  <2> HIDE DEF N, all
  <2>3. IsFiniteSet(N)
    BY <2>1, <2>2, FS_Subset
  <2> QED BY <2>1, <2>2, <2>3
<1>2. /\ now \in Seq(N) /\ ToSet(now) = N /\ IsInjective(now)
      /\ \A i, j \in DOMAIN now :
           i < j /\ now[i][2] = now[j][2] => Priority[now[i][1]] <= Priority[now[j][1]]
  <2> HIDE DEF N
  <2> QED BY <1>1, AsMetFacts
<1>3. D \in Seq(Settled) /\ ToSet(D) = Settled /\ IsInjective(D)
  BY DebouncedFacts
<1>4. Due = N \cup Settled /\ N \cap Settled = {} /\ \A p \in Due : p[1] \in DOMAIN Priority /\ p[2] \in DOMAIN met
  BY AskedItems DEF Due, Asking, Settled
<1>5. Collect(met) = IF D = <<>> THEN now ELSE ByPriority(now \o D)
  BY DEF Collect
<1> HIDE DEF now, D, N
<1>6. CASE D = <<>>
  <2>1. Settled = {}
    BY <1>3, <1>6 DEF ToSet
  <2> QED BY <1>2, <1>4, <1>5, <1>6, <2>1
<1>7. CASE D # <<>>
  <2>1. now \in Seq(Due) /\ D \in Seq(Due)
    BY <1>2, <1>3, <1>4
  <2>2. now \o D \in Seq(Due) /\ ToSet(now \o D) = Due /\ IsInjective(now \o D)
    BY <1>2, <1>3, <1>4, <2>1, ConcatFacts
  <2>3. /\ ByPriority(now \o D) \in Seq(Due) /\ ToSet(ByPriority(now \o D)) = Due
        /\ IsInjective(ByPriority(now \o D))
        /\ \A i, j \in DOMAIN ByPriority(now \o D) : i < j =>
             Priority[ByPriority(now \o D)[i][1]] <= Priority[ByPriority(now \o D)[j][1]]
    <3>1. \A x \in Due : x[1] \in DOMAIN Priority
      BY <1>4
    <3> QED BY <2>2, <3>1, ByPriorityFacts
  <2> QED BY <1>5, <1>7, <2>3
<1> QED
  BY <1>6, <1>7

-----------------------------------------------------------------------------
(* What the Scheduler and max_runs leave of it *)

(* work[:n] is a beginning of the work, all of it unless it has n items, and *)
(* not empty unless the work is or n is 0.                                   *)
LEMMA SliceFacts ==
  ASSUME NEW S, NEW w \in Seq(S), NEW n \in Nat, IsInjective(w)
  PROVE  /\ Slice(w, n) \in Seq(S)
         /\ IsInjective(Slice(w, n))
         /\ ToSet(Slice(w, n)) \subseteq ToSet(w)
         /\ Len(Slice(w, n)) <= n /\ Len(Slice(w, n)) \in Nat
         /\ Len(Slice(w, n)) = n \/ Slice(w, n) = w
         /\ \A i \in DOMAIN Slice(w, n) : i \in DOMAIN w /\ Slice(w, n)[i] = w[i]
         /\ n > 0 /\ w # <<>> => Slice(w, n) # <<>>
<1> DEFINE bound == IF n < Len(w) THEN n ELSE Len(w)
<1>0. PICK l \in Nat : l = Len(w)
  OBVIOUS
<1>m. PICK m \in Nat : m = bound
  OBVIOUS
<1> DEFINE c == SubSeq(w, 1, m)
<1>1. /\ m <= l /\ m <= n /\ (m = n \/ m = l)
      /\ DOMAIN w = 1 .. l
  BY <1>0, <1>m
<1>2. Slice(w, n) = c
  BY <1>m DEF Slice
<1>3. /\ c \in Seq(S) /\ Len(c) = m /\ DOMAIN c = 1 .. m
      /\ \A i \in 1 .. m : i \in DOMAIN w /\ c[i] = w[i]
  <2>1. \A i \in 1 .. m : i \in DOMAIN w /\ w[i] \in S
    BY <1>1
  <2>2. c \in Seq(S) /\ Len(c) = m
    BY <1>0, <1>1, <2>1
  <2>3. \A i \in 1 .. m : c[i] = w[i]
    BY <1>1, <2>1
  <2>4. DOMAIN c = 1 .. m
    BY <2>2
  <2> QED BY <2>1, <2>2, <2>3, <2>4
<1> HIDE DEF c
<1>4. IsInjective(c)
  BY <1>3 DEF IsInjective
<1>5. ToSet(c) \subseteq ToSet(w)
  BY <1>3 DEF ToSet
<1>6. m = l => c = w
  BY <1>0, <1>1, <1>3
<1>7. n > 0 /\ w # <<>> => c # <<>>
  <2>1. w # <<>> => l > 0
    BY <1>0
  <2>2. n > 0 /\ w # <<>> => Len(c) > 0
    BY <1>1, <1>3, <2>1
  <2> QED BY <2>2, <1>3
<1> QED
  BY <1>1, <1>2, <1>3, <1>4, <1>5, <1>6, <1>7

(* What the Scheduler, if there is one, may make of the work. *)
Answers == IF scheduled THEN Schedules(Collect(met), resumes, RankLimit) ELSE {Collect(met)}

(* A sequence of at most one item has at most one element. *)
LEMMA FewFacts ==
  ASSUME NEW S, NEW s \in Seq(S), IsInjective(s), Len(s) <= 1
  PROVE  Cardinality(ToSet(s)) <= 1
<1>1. CASE Len(s) = 0
  <2>1. ToSet(s) = {}
    BY <1>1 DEF ToSet
  <2>2. Cardinality({}) = 0
    BY FS_EmptySet
  <2> QED BY <2>1, <2>2
<1>2. CASE Len(s) = 1
  <2>1. ToSet(s) = {s[1]}
    BY <1>2 DEF ToSet
  <2>2. Cardinality({s[1]}) = 1
    BY FS_Singleton
  <2> QED BY <2>1, <2>2
<1>3. PICK n \in Nat : n = Len(s)
  OBVIOUS
<1> QED
  BY <1>1, <1>2, <1>3

(* A rank_limit other than 0 leaves something of what the rules kept. *)
LEMMA CutFacts ==
  ASSUME NEW k, NEW s \in SetToSeqs(k), IsFiniteSet(k), NEW c,
         RankLimit \in Nat \cup {None},
         c = (IF RankLimit # None /\ Len(s) > RankLimit THEN SubSeq(s, 1, RankLimit) ELSE s)
  PROVE  /\ c \in Seq(k) /\ ToSet(c) \subseteq k /\ IsInjective(c)
         /\ k # {} /\ RankLimit # 0 => c # <<>>
<1>1. Cardinality(k) \in Nat /\ (k # {} => Cardinality(k) # 0)
  BY FS_CardinalityType, FS_EmptySet
<1>2. /\ s \in [1 .. Cardinality(k) -> k]
      /\ \A i, j \in 1 .. Cardinality(k) : i # j => s[i] # s[j]
  BY DEF SetToSeqs
<1>3. s \in Seq(k) /\ Len(s) = Cardinality(k) /\ IsInjective(s)
  BY <1>1, <1>2 DEF IsInjective
<1>4. CASE c = s
  BY <1>1, <1>3, <1>4 DEF ToSet
<1>5. CASE RankLimit # None /\ Len(s) > RankLimit /\ c = SubSeq(s, 1, RankLimit)
  <2>1. c \in Seq(k) /\ Len(c) = RankLimit /\ \A i \in 1 .. RankLimit : c[i] = s[i] /\ i \in DOMAIN s
    BY <1>3, <1>5
  <2>2. DOMAIN c = 1 .. RankLimit
    BY <2>1
  <2> QED BY <1>3, <1>5, <2>1, <2>2 DEF ToSet, IsInjective
<1> QED
  BY <1>4, <1>5

(* What the Scheduler answers to more than one item is a part of them, once, *)
(* and not empty unless rank_limit is 0; the items of answered questions     *)
(* come first, and none of them is missing.                                  *)
LEMMA SchedulesFacts ==
  ASSUME NEW S, NEW c \in Seq(S), IsInjective(c), Len(c) > 1, IsFiniteSet(ToSet(c)),
         RankLimit \in Nat \cup {None}, NEW w \in Schedules(c, resumes, RankLimit)
  PROVE  /\ w \in Seq(S) /\ IsInjective(w)
         /\ ToSet(w) \subseteq ToSet(c)
         /\ RankLimit # 0 => w # <<>>
         /\ \A i, j \in DOMAIN w : i < j /\ OfResume(w[j]) => OfResume(w[i])
         /\ \A p \in ToSet(c) : OfResume(p) => p \in ToSet(w)
<1> DEFINE I == {i \in DOMAIN c : c[i][2] \in resumes}
           p == Part(c, I)
           rest == {it \in ToSet(c) : it[2] \notin resumes}
           kept == IF rest = {} THEN {{}} ELSE (SUBSET rest) \ {{}}
           Cut(s) == IF RankLimit # None /\ Len(s) > RankLimit THEN SubSeq(s, 1, RankLimit) ELSE s
<1>0. PICK k \in kept : \E s \in SetToSeqs(k) : w = p \o Cut(s)
  <2>1. w \in {p \o Cut(s) : s \in UNION {SetToSeqs(k) : k \in kept}}
    <3>1. Len(c) \in Nat /\ ~(Len(c) <= 1)
      OBVIOUS
    <3> QED BY <3>1, Zenon DEF Schedules
  <2> HIDE DEF p, Cut, kept
  <2> QED BY <2>1
<1>1. PICK s \in SetToSeqs(k) : w = p \o Cut(s)
  BY <1>0
<1> DEFINE t == Cut(s)
<1>2. k \subseteq rest /\ IsFiniteSet(k) /\ (rest # {} => k # {})
  <2>1. k \subseteq rest /\ (rest # {} => k # {})
    <3>1. CASE rest = {}
      <4>1. k \in {{}}
        BY <3>1
      <4> QED BY <4>1, <3>1
    <3>2. CASE rest # {}
      <4>1. k \in (SUBSET rest) \ {{}}
        BY <3>2
      <4> HIDE DEF rest
      <4>2. k \in SUBSET rest /\ k \notin {{}}
        BY <4>1
      <4>3. k # {}
        BY <4>2
      <4> QED BY ONLY <4>2, <4>3
    <3> QED BY <3>1, <3>2
  <2>2. rest \subseteq ToSet(c)
    OBVIOUS
  <2> HIDE DEF rest
  <2> QED BY <2>1, <2>2, FS_Subset
<1>3. /\ t \in Seq(k) /\ ToSet(t) \subseteq k /\ IsInjective(t)
      /\ k # {} /\ RankLimit # 0 => t # <<>>
  <2> QED BY <1>2, CutFacts
<1>4. p \in Seq(S) /\ ToSet(p) = {c[i] : i \in I} /\ IsInjective(p)
  <2>1. I \in SUBSET DOMAIN c
    OBVIOUS
  <2> HIDE DEF I
  <2> QED BY <2>1, PartFacts
<1>5. ToSet(p) = {it \in ToSet(c) : OfResume(it)}
  <2> HIDE DEF p
  <2> QED BY <1>4 DEF ToSet, OfResume
<1>6. rest = {it \in ToSet(c) : ~OfResume(it)}
  BY DEF OfResume
<1>7. c # <<>> /\ ToSet(c) # {} /\ ToSet(c) \subseteq S
  BY DEF ToSet
<1> HIDE DEF p, rest, kept, t
<1>8. t \in Seq(S)
  <2>1. k \subseteq S
    BY <1>2, <1>6, <1>7
  <2> QED BY <1>3, <2>1
<1>9. w = p \o t
  BY <1>1 DEF t
<1>10. w \in Seq(S) /\ ToSet(w) = ToSet(p) \cup ToSet(t) /\ IsInjective(w)
  <2>1. ToSet(p) \cap ToSet(t) = {}
    BY <1>2, <1>3, <1>5, <1>6
  <2> QED BY <1>3, <1>4, <1>8, <1>9, <2>1, ConcatFacts
<1>11. ASSUME RankLimit # 0 PROVE w # <<>>
  <2>1. CASE rest = {}
    <3>1. ToSet(p) # {}
      BY <1>5, <1>6, <1>7, <2>1
    <3>2. ToSet(w) # {}
      BY <1>10, <3>1
    <3> QED BY <3>2 DEF ToSet
  <2>2. CASE rest # {}
    <3>1. t # <<>> /\ Len(t) > 0
      BY <1>2, <1>3, <1>11, <2>2
    <3> QED BY <1>4, <1>8, <1>9, <3>1
  <2> QED BY <2>1, <2>2
<1>12. ASSUME NEW i \in DOMAIN w, NEW j \in DOMAIN w, i < j, OfResume(w[j])
       PROVE  OfResume(w[i])
  <2>1. /\ i \in Nat /\ j \in Nat /\ Len(p) \in Nat
        /\ DOMAIN p = 1 .. Len(p) /\ DOMAIN w = 1 .. Len(p) + Len(t) /\ Len(t) \in Nat
        /\ DOMAIN t = 1 .. Len(t)
        /\ j > Len(p) => j - Len(p) \in DOMAIN t /\ w[j] = t[j - Len(p)]
        /\ i <= Len(p) => i \in DOMAIN p /\ w[i] = p[i]
    BY <1>4, <1>8, <1>9
  <2>2. j <= Len(p)
    <3>1. ASSUME j > Len(p) PROVE FALSE
      <4>1. w[j] \in ToSet(t)
        BY <2>1, <3>1 DEF ToSet
      <4> QED BY <4>1, <1>2, <1>3, <1>6, <1>12
    <3> QED BY <2>1, <3>1
  <2>3. w[i] \in ToSet(p)
    BY <2>1, <2>2, <1>12 DEF ToSet
  <2> QED BY <2>3, <1>5
<1> QED
  BY <1>2, <1>3, <1>5, <1>6, <1>10, <1>11, <1>12

(* What a generation finds; none of it changes. *)
Inputs == /\ batch \in Batches /\ remaining \in Caps
          /\ scheduled \in BOOLEAN /\ isolates \in BOOLEAN /\ most \in Concurrencies

(* The work is what the Scheduler answered, cut by max_runs. *)
Served == \E w \in Answers : work = Slice(w, remaining)

(* Such work is what DueIsServed asks for. *)
LEMMA ServedFacts ==
  ASSUME WorkListAssumption, GenerationAssumption, Inputs, Batch, Served
  PROVE  /\ work \in Seq(Due)
         /\ ToSet(work) \subseteq Due /\ IsInjective(work)
         /\ Len(work) <= remaining
         /\ ~scheduled => Len(work) = remaining \/ ToSet(work) = Due
         /\ ~scheduled => \A i, j \in Workers :
              i < j /\ work[i][2] = work[j][2] => Priority[AgentOf(i)] <= Priority[AgentOf(j)]
         /\ scheduled /\ Cardinality(Due) > 1 =>
              /\ \A i, j \in Workers : i < j /\ OfResume(work[j]) => OfResume(work[i])
              /\ \A p \in Due : OfResume(p) => p \in ToSet(work) \/ Len(work) = remaining
         /\ remaining > 0 /\ Due # {} => work # <<>> \/ (scheduled /\ RankLimit = 0)
<1> DEFINE c == Collect(met)
<1>1. Batch /\ remaining \in Nat /\ RankLimit \in Nat \cup {None}
  BY DEF GenerationAssumption, Inputs, Batch
<1>2. /\ c \in Seq(Due) /\ ToSet(c) = Due /\ IsInjective(c)
      /\ \A i, j \in DOMAIN c : i < j /\ c[i][2] = c[j][2] => Priority[c[i][1]] <= Priority[c[j][1]]
  BY <1>1, CollectFacts
<1>3. IsFiniteSet(Due)
  <2>1. Due \subseteq ToSet(Agents) \X DOMAIN met
    BY DEF Due
  <2> QED BY <1>1, <2>1, AskedItems, FS_Subset
<1>4. PICK w \in Answers : work = Slice(w, remaining)
  BY DEF Served
<1>5. CASE w = c
  <2>0. work = Slice(c, remaining)
    BY <1>4, <1>5
  <2>1. /\ work \in Seq(Due) /\ IsInjective(work) /\ ToSet(work) \subseteq Due
        /\ Len(work) <= remaining /\ (Len(work) = remaining \/ work = c)
        /\ \A i \in DOMAIN work : i \in DOMAIN c /\ work[i] = c[i]
        /\ (remaining > 0 /\ c # <<>> => work # <<>>)
    <3> HIDE DEF c
    <3> QED BY <2>0, <1>1, <1>2, SliceFacts
  <2>2. Due # {} => c # <<>>
    BY <1>2 DEF ToSet
  <2>3. \A i, j \in Workers :
          i < j /\ work[i][2] = work[j][2] => Priority[AgentOf(i)] <= Priority[AgentOf(j)]
    <3> HIDE DEF c
    <3> QED BY <2>1, <1>2 DEF Workers, AgentOf
  <2>4. CASE ~scheduled
    <3> HIDE DEF c
    <3> QED BY <1>2, <2>1, <2>2, <2>3, <2>4
  <2>5. CASE scheduled /\ Len(c) <= 1
    <3> HIDE DEF c
    <3>1. Cardinality(Due) <= 1
      BY <1>2, <2>5, FewFacts
    <3>2. Cardinality(Due) \in Nat
      BY <1>3, FS_CardinalityType
    <3> QED BY <2>1, <2>2, <2>5, <3>1, <3>2
  <2>6. CASE scheduled /\ Len(c) > 1
    <3>1. w \in Schedules(c, resumes, RankLimit)
      BY <2>6 DEF Answers
    <3> HIDE DEF c
    <3>2. /\ \A i, j \in DOMAIN w : i < j /\ OfResume(w[j]) => OfResume(w[i])
      BY <1>1, <1>2, <1>3, <2>6, <3>1, SchedulesFacts
    <3> QED BY <1>2, <1>5, <2>1, <2>2, <2>6, <3>2 DEF Workers
  <2>7. Len(c) \in Nat
    <3> HIDE DEF c
    <3> QED BY <1>2
  <2> QED
    BY <2>4, <2>5, <2>6, <2>7
<1>6. CASE w # c
  <2>1. scheduled /\ Len(c) > 1 /\ w \in Schedules(c, resumes, RankLimit)
    <3>1. scheduled /\ w \in Schedules(c, resumes, RankLimit)
      BY <1>6 DEF Answers
    <3>2. ~(Len(c) <= 1)
      BY <1>6, <3>1 DEF Schedules
    <3>3. Len(c) \in Nat
      <4> HIDE DEF c
      <4> QED BY <1>2
    <3> QED BY <3>1, <3>2, <3>3
  <2> HIDE DEF c
  <2>2. /\ w \in Seq(Due) /\ IsInjective(w) /\ ToSet(w) \subseteq Due /\ (RankLimit # 0 => w # <<>>)
        /\ \A i, j \in DOMAIN w : i < j /\ OfResume(w[j]) => OfResume(w[i])
        /\ \A p \in Due : OfResume(p) => p \in ToSet(w)
    BY <1>1, <1>2, <1>3, <2>1, SchedulesFacts
  <2>3. /\ work \in Seq(Due) /\ IsInjective(work) /\ ToSet(work) \subseteq ToSet(w)
        /\ Len(work) <= remaining /\ (Len(work) = remaining \/ work = w)
        /\ \A i \in DOMAIN work : i \in DOMAIN w /\ work[i] = w[i]
        /\ (remaining > 0 /\ w # <<>> => work # <<>>)
    BY <1>1, <1>4, <2>2, SliceFacts
  <2>4. \A i, j \in Workers : i < j /\ OfResume(work[j]) => OfResume(work[i])
    BY <2>2, <2>3 DEF Workers
  <2> QED BY <2>1, <2>2, <2>3, <2>4
<1> QED
  BY <1>5, <1>6

-----------------------------------------------------------------------------
(* The inductive invariant *)

(* Where a worker can be. *)
Stages == {"new", "queued", "granted", "running"} \cup Over

(* The slots a semaphore was made with. *)
Slots(s) == IF s = Global THEN most ELSE s

(* Worker i uses a slot of s: one of the semaphores it took, or the one it   *)
(* was woken for and has not taken yet.                                      *)
Uses(a, g, i, s) ==
  \E k \in 1 .. Len(Needs(i)) :
    /\ Needs(i)[k] = s
    /\ k <= g[i] \/ (k = g[i] + 1 /\ a[i] = "granted")

(* Places, counts and lines are of their types. *)
Typed(a, g, f, ln) ==
  /\ a \in [Workers -> Stages] /\ g \in [Workers -> Nat]
  /\ f \in [Sems -> Nat] /\ ln \in [Sems -> Seq(Workers)]

(* How many semaphores a worker holds fits where it is. *)
Placed(a, g) ==
  \A i \in Workers :
    /\ g[i] <= Len(Needs(i))
    /\ a[i] \in Waiting => g[i] < Len(Needs(i))
    /\ a[i] = "running" => g[i] = Len(Needs(i))
    /\ a[i] = "new" => g[i] = 0

(* A worker is in the line of a semaphore, once, when and only when it waits *)
(* for it as the next it needs.                                              *)
Lined(a, g, ln) ==
  \A s \in Sems :
    /\ IsInjective(ln[s])
    /\ \A i \in Workers : i \in ToSet(ln[s]) <=> a[i] \in Waiting /\ Needs(i)[g[i] + 1] = s

(* Every slot of a semaphore is free or used. This is what makes the limits  *)
(* hold; it needs the lines, for a release gives its slot to who is first in *)
(* line.                                                                     *)
Balanced(a, g, f) ==
  \A s \in Sems : f[s] + Cardinality(Users(a, g, s)) = Slots(s)

Sound(a, g, f, ln) ==
  Typed(a, g, f, ln) /\ Placed(a, g) /\ Lined(a, g, ln) /\ Balanced(a, g, f)

(* A sequential dispatch runs the workers one after the other. *)
InTurn(a) ==
  Sequential => \A i, j \in Workers : j < i /\ a[i] # "new" => a[j] \in Over

Idle == at = <<>> /\ got = <<>> /\ free = <<>> /\ line = <<>>

(* There are no semaphores before the dispatch; during and after it they are *)
(* sound; and outside it no worker is under way.                             *)
SemInv ==
  /\ phase \in {"collect", "schedule"} => Idle
  /\ phase = "dispatch" => Sound(at, got, free, line) /\ InTurn(at)
  /\ Idle \/ (Sound(at, got, free, line) /\ InTurn(at))
  /\ phase # "dispatch" => \A i \in DOMAIN at : at[i] \in Over \cup {"new"}

(* What astream has shown or taken from the queue. *)
Ahead == shown \o (IF item = None THEN <<>> ELSE <<item>>)

(* All that is not lost: shown, taken or queued. *)
Flow == Ahead \o hub

(* q has its elements in the order s has them. *)
OrderedAs(q, s) ==
  \A m, n \in DOMAIN q : m < n => \E j, k \in DOMAIN s : j < k /\ s[j] = q[m] /\ s[k] = q[n]

(* What is queued has been announced, once. *)
Queued ==
  /\ said \in Seq(Nat) /\ IsInjective(said) /\ lost \subseteq ToSet(said)
  /\ hub \in Seq(Nat) /\ Len(hub) <= HubSize /\ ToSet(hub) \subseteq ToSet(said)
  /\ shown \in Seq(Nat) /\ item \in Nat \cup {None}

(* The loop of astream ends only when the run has ended and nothing is       *)
(* queued or taken.                                                          *)
Reading ==
  /\ done => Ended
  /\ spc \in {"started", "showing"} => item = None
  /\ spc \in {"joining", "ended", "failed"} => done /\ hub = <<>> /\ item = None

(* Until the client closes the stream, every announcement is shown, on its   *)
(* way or lost, in the order they were made.                                 *)
InFlow ==
  spc \notin {"closing", "closed"} =>
    ToSet(Flow) = ToSet(said) \ lost /\ OrderedAs(Flow, said)

HubInv == Queued /\ Reading /\ InFlow

(* The work is empty, then what the collected batch asks for, then what was *)
(* served; that is the whole batch unless the deadline passed.               *)
WorkInv ==
  /\ Batch
  /\ phase # "raised" /\ phase # "collect" => met = batch \/ late
  /\ counted => phase = "returned" /\ ~late
  /\ phase = "schedule" => work = Collect(met)
  /\ phase \in {"dispatch", "returned"} => Served
  /\ phase # "schedule" => work \in Seq(Due)

-----------------------------------------------------------------------------
(* What the invariant says of the work *)

(* What the proofs about the semaphores use of the work: no worker needs a   *)
(* semaphore twice, or one that there is not.                                *)
Setting ==
  /\ Workers \in SUBSET Nat /\ 0 \notin Workers /\ IsFiniteSet(Workers)
  /\ Sems \in SUBSET Nat /\ \A s \in Sems : Slots(s) \in Nat
  /\ \A i \in Workers :
       /\ Needs(i) \in Seq(Sems) /\ Len(Needs(i)) \in Nat
       /\ \A k, l \in 1 .. Len(Needs(i)) : Needs(i)[k] = Needs(i)[l] => k = l
       /\ \A k \in 1 .. Len(Needs(i)) : Needs(i)[k] \in Sems
       /\ Sequential => Len(Needs(i)) = 0

(* The work is due whatever the phase. *)
LEMMA WorkIsDue ==
  ASSUME WorkListAssumption, WorkInv
  PROVE  work \in Seq(Due)
<1>1. CASE phase = "schedule"
  BY <1>1, CollectFacts DEF WorkInv
<1> QED
  BY <1>1 DEF WorkInv

(* Every worker runs one of the agents. *)
LEMMA WorkTyped ==
  ASSUME WorkListAssumption, GenerationAssumption, Inputs, WorkInv
  PROVE  /\ \A i \in Workers : AgentOf(i) \in DOMAIN Priority /\ Limit[AgentOf(i)] \in Nat
         /\ Workers \in SUBSET Nat /\ 0 \notin Workers /\ IsFiniteSet(Workers) /\ most \in Nat
<1>1. \A p \in Due : p[1] \in DOMAIN Priority
  <2>1. Batch
    BY DEF WorkInv
  <2>2. ToSet(Agents) \subseteq DOMAIN Priority
    BY <2>1, AskedItems
  <2> QED BY <2>2 DEF Due
<1>2. work \in Seq(Due)
  BY WorkIsDue
<1>3. PICK l \in Nat : l = Len(work)
  BY <1>2
<1>4. Workers = 1 .. l /\ \A i \in 1 .. l : work[i] \in Due
  BY <1>2, <1>3 DEF Workers
<1>5. \A i \in Workers : AgentOf(i) \in DOMAIN Priority /\ Limit[AgentOf(i)] \in Nat
  BY <1>1, <1>4 DEF GenerationAssumption, AgentOf
<1>6. most \in Nat
  BY DEF Inputs, GenerationAssumption
<1> QED
  BY <1>4, <1>5, <1>6, FS_Interval

(* The work of a batch is such a setting. *)
LEMMA SettingHolds ==
  ASSUME WorkListAssumption, GenerationAssumption, Inputs, WorkInv
  PROVE  Setting
<1>1. /\ \A i \in Workers : Limit[AgentOf(i)] \in Nat
      /\ Workers \in SUBSET Nat /\ 0 \notin Workers /\ IsFiniteSet(Workers) /\ most \in Nat
  BY WorkTyped
<1>2. Sems \in SUBSET Nat /\ Global \in Sems /\ \A i \in Workers : Limit[AgentOf(i)] \in Sems
  BY <1>1 DEF Sems, Global, AgentOf
<1>3. \A s \in Sems : Slots(s) \in Nat
  BY <1>1, <1>2 DEF Slots
<1>4. ASSUME NEW i \in Workers
      PROVE  /\ Needs(i) \in Seq(Sems) /\ Len(Needs(i)) \in Nat
             /\ \A k, l \in 1 .. Len(Needs(i)) : Needs(i)[k] = Needs(i)[l] => k = l
             /\ \A k \in 1 .. Len(Needs(i)) : Needs(i)[k] \in Sems
             /\ Sequential => Len(Needs(i)) = 0
  <2> DEFINE t == Limit[AgentOf(i)]
  <2>1. t \in Nat /\ t \in Sems /\ Global \in Sems /\ Global = 0
    BY <1>1, <1>2 DEF Global
  <2>2. CASE t > 0 /\ most > 0
    <3>1. Needs(i) = <<t>> \o <<Global>>
      BY <2>2 DEF Needs
    <3>3. <<t>> \in Seq(Sems) /\ <<Global>> \in Seq(Sems)
      BY <2>1
    <3>4. /\ Needs(i) \in Seq(Sems) /\ Len(Needs(i)) = 2
          /\ Needs(i)[1] = t /\ Needs(i)[2] = Global
      <4> HIDE DEF t
      <4> QED BY <3>1, <3>3
    <3>2. ~Sequential
      BY <2>2 DEF Sequential
    <3> QED BY <2>1, <2>2, <3>2, <3>4
  <2>3. CASE t > 0 /\ ~(most > 0)
    <3>1. Needs(i) = <<t>>
      BY <2>3 DEF Needs
    <3>2. ~Sequential
      BY <2>3 DEF Sequential
    <3> QED BY <2>1, <2>3, <3>1, <3>2
  <2>4. CASE ~(t > 0) /\ most > 0
    <3>1. Needs(i) = <<Global>>
      <4>1. Needs(i) = <<>> \o <<Global>>
        BY <2>4 DEF Needs
      <4>2. <<>> \o <<Global>> = <<Global>>
        OBVIOUS
      <4> QED BY <4>1, <4>2
    <3>2. ~Sequential
      BY <2>4 DEF Sequential
    <3> QED BY <2>1, <2>4, <3>1, <3>2
  <2>5. CASE ~(t > 0) /\ ~(most > 0)
    <3>1. Needs(i) = <<>>
      BY <2>5 DEF Needs
    <3> QED BY <2>1, <3>1
  <2> QED BY <2>2, <2>3, <2>4, <2>5
<1> QED
  BY <1>1, <1>2, <1>3, <1>4 DEF Setting

-----------------------------------------------------------------------------
(* Lines *)

(* What a line holds when one more joins it. *)
LEMMA AppendFacts ==
  ASSUME NEW S, NEW s \in Seq(S), NEW x \in S
  PROVE  /\ Append(s, x) \in Seq(S)
         /\ ToSet(Append(s, x)) = ToSet(s) \cup {x}
         /\ IsInjective(s) /\ x \notin ToSet(s) => IsInjective(Append(s, x))
<1> DEFINE t == Append(s, x)
<1>1. PICK l \in Nat : l = Len(s)
  OBVIOUS
<1>2. /\ t \in Seq(S) /\ DOMAIN t = 1 .. l + 1 /\ DOMAIN s = 1 .. l
      /\ t[l + 1] = x /\ \A i \in 1 .. l : t[i] = s[i]
  BY <1>1
<1> HIDE DEF t
<1>3. ToSet(t) \subseteq ToSet(s) \cup {x}
  <2>1. \A i \in 1 .. l + 1 : i \in 1 .. l \/ i = l + 1
    OBVIOUS
  <2> QED BY <1>2, <2>1 DEF ToSet
<1>4. ToSet(s) \cup {x} \subseteq ToSet(t)
  <2>1. l + 1 \in DOMAIN t /\ \A i \in 1 .. l : i \in DOMAIN t
    BY <1>2
  <2> QED BY <1>2, <2>1 DEF ToSet
<1>5. ASSUME IsInjective(s), x \notin ToSet(s) PROVE IsInjective(t)
  <2> SUFFICES ASSUME NEW i \in 1 .. l + 1, NEW j \in 1 .. l + 1, t[i] = t[j] PROVE i = j
    BY <1>2 DEF IsInjective
  <2>1. \A k \in 1 .. l : t[k] # x
    BY <1>2, <1>5 DEF ToSet
  <2>2. (i \in 1 .. l \/ i = l + 1) /\ (j \in 1 .. l \/ j = l + 1)
    OBVIOUS
  <2> QED BY <1>2, <1>5, <2>1, <2>2 DEF IsInjective
<1> QED
  BY <1>2, <1>3, <1>4, <1>5 DEF t

(* What a line holds when one leaves it. *)
LEMMA RemoveAtFacts ==
  ASSUME NEW S, NEW s \in Seq(S), IsInjective(s), NEW n \in DOMAIN s
  PROVE  /\ RemoveAt(s, n) \in Seq(S) /\ IsInjective(RemoveAt(s, n))
         /\ ToSet(RemoveAt(s, n)) = ToSet(s) \ {s[n]}
<1>1. PICK l \in Nat : l = Len(s)
  OBVIOUS
<1>2. n \in 1 .. l /\ DOMAIN s = 1 .. l
  BY <1>1
<1> DEFINE b == SubSeq(s, 1, n - 1)
           e == SubSeq(s, n + 1, l)
           r == b \o e
<1>3. RemoveAt(s, n) = r
  BY <1>1 DEF RemoveAt
<1>4. /\ b \in Seq(S) /\ Len(b) = n - 1 /\ \A i \in 1 .. n - 1 : b[i] = s[i]
  BY <1>1, <1>2
<1>5. /\ e \in Seq(S) /\ Len(e) = l - n /\ \A i \in 1 .. l - n : e[i] = s[n + i]
  BY <1>1, <1>2
<1> HIDE DEF b, e
<1>6. /\ r \in Seq(S) /\ Len(r) = l - 1
      /\ \A i \in 1 .. l - 1 : r[i] = IF i < n THEN s[i] ELSE s[i + 1]
  <2>1. r \in Seq(S) /\ Len(r) = l - 1
    <3>1. r \in Seq(S) /\ Len(r) = Len(b) + Len(e)
      <4>1. b \in Seq(S) /\ e \in Seq(S)
        BY <1>4, <1>5
      <4> QED BY ONLY <4>1
    <3>2. (n - 1) + (l - n) = l - 1
      BY <1>2
    <3> QED BY <1>4, <1>5, <3>1, <3>2
  <2>2. ASSUME NEW i \in 1 .. l - 1, i < n PROVE r[i] = s[i]
    BY <1>2, <1>4, <1>5, <2>2
  <2>3. ASSUME NEW i \in 1 .. l - 1, ~(i < n) PROVE r[i] = s[i + 1]
    <3>1. r[i] = e[i - (n - 1)] /\ i - (n - 1) \in 1 .. l - n
      BY <1>2, <1>4, <1>5, <2>3
    <3>2. n + (i - (n - 1)) = i + 1
      BY <1>2
    <3> QED BY <1>5, <3>1, <3>2
  <2> QED BY <2>1, <2>2, <2>3
<1> HIDE DEF r
<1>7. DOMAIN r = 1 .. l - 1
  BY <1>2, <1>6
<1>8. \A i \in 1 .. l - 1 : i \in 1 .. l /\ i + 1 \in 1 .. l /\ i \in Int
  OBVIOUS
<1>9. IsInjective(r)
  <2> SUFFICES ASSUME NEW i \in 1 .. l - 1, NEW j \in 1 .. l - 1, r[i] = r[j] PROVE i = j
    BY <1>7 DEF IsInjective
  <2>1. \A x, y \in 1 .. l : s[x] = s[y] => x = y
    BY <1>2 DEF IsInjective
  <2>2. CASE i < n /\ j < n
    BY <1>6, <1>8, <2>1, <2>2
  <2>3. CASE ~(i < n) /\ ~(j < n)
    <3>1. i + 1 = j + 1
      BY <1>6, <1>8, <2>1, <2>3
    <3> QED BY <1>8, <3>1
  <2>4. CASE i < n /\ ~(j < n)
    <3>1. i = j + 1
      BY <1>6, <1>8, <2>1, <2>4
    <3> QED BY <1>2, <2>4, <3>1
  <2>5. CASE ~(i < n) /\ j < n
    <3>1. j = i + 1
      BY <1>6, <1>8, <2>1, <2>5
    <3> QED BY <1>2, <2>5, <3>1
  <2> QED BY <2>2, <2>3, <2>4, <2>5
<1>10. ToSet(r) \subseteq ToSet(s) \ {s[n]}
  <2> SUFFICES ASSUME NEW i \in 1 .. l - 1 PROVE r[i] \in ToSet(s) /\ r[i] # s[n]
    BY <1>7 DEF ToSet
  <2>1. \A x, y \in 1 .. l : s[x] = s[y] => x = y
    BY <1>2 DEF IsInjective
  <2>2. PICK k \in 1 .. l : r[i] = s[k] /\ k # n
    <3>1. CASE i < n
      <4>1. i # n
        BY <1>2, <3>1
      <4> QED BY <1>6, <1>8, <3>1, <4>1
    <3>2. CASE ~(i < n)
      <4>1. i + 1 # n
        BY <1>2, <3>2
      <4> QED BY <1>6, <1>8, <3>2, <4>1
    <3> QED BY <3>1, <3>2
  <2> QED BY <1>2, <2>1, <2>2 DEF ToSet
<1>11. ToSet(s) \ {s[n]} \subseteq ToSet(r)
  <2> SUFFICES ASSUME NEW k \in 1 .. l, s[k] # s[n] PROVE s[k] \in ToSet(r)
    BY <1>2 DEF ToSet
  <2>1. CASE k < n
    <3>1. k \in 1 .. l - 1
      BY <1>2, <2>1
    <3> QED BY <1>6, <1>7, <2>1, <3>1 DEF ToSet
  <2>2. CASE ~(k < n)
    <3>1. k - 1 \in 1 .. l - 1 /\ ~(k - 1 < n) /\ (k - 1) + 1 = k
      BY <1>2, <2>2
    <3>2. r[k - 1] = s[k]
      BY <1>6, <3>1
    <3> QED BY <1>7, <3>1, <3>2 DEF ToSet
  <2> QED BY <2>1, <2>2
<1> QED
  BY <1>3, <1>6, <1>9, <1>10, <1>11

(* The users of a semaphore, one by one. *)
LEMMA UsersAre ==
  ASSUME NEW a, NEW g, NEW s
  PROVE  Users(a, g, s) = {i \in Workers : Uses(a, g, i, s)}
BY DEF Users, Uses

-----------------------------------------------------------------------------
(* Taking, giving and waiting keep the semaphores sound *)

(* There are finitely many users of a semaphore. *)
LEMMA UsersFinite ==
  ASSUME Setting, NEW a, NEW g, NEW s
  PROVE  IsFiniteSet(Users(a, g, s)) /\ Cardinality(Users(a, g, s)) \in Nat
<1>1. Users(a, g, s) \in SUBSET Workers /\ IsFiniteSet(Workers)
  BY DEF Setting, Users
<1>2. IsFiniteSet(Users(a, g, s))
  BY <1>1, FS_Subset
<1> QED
  BY <1>2, FS_CardinalityType

(* A worker that holds its first n semaphores, and waits for none, goes on:  *)
(* it takes what is not locked, up to the first that is, in whose line it    *)
(* then waits. It is called cancelled before it does so, which is a worker   *)
(* in no line and with nothing still to take.                                *)
LEMMA GoOnSound ==
  ASSUME Setting, NEW i \in Workers, NEW n, NEW a, NEW f, NEW ln,
         a \in [Workers -> Stages], got \in [Workers -> Nat],
         Sound([a EXCEPT ![i] = "cancelled"], [got EXCEPT ![i] = n], f, ln),
         GoOn(i, n, a, f, ln)
  PROVE  Sound(at', got', free', line')
<1> DEFINE a0    == [a EXCEPT ![i] = "cancelled"]
           g0    == [got EXCEPT ![i] = n]
           need  == Needs(i)
           stops == {k \in n + 1 .. Len(need) : Locked(need[k], f, ln)}
           stop  == IF stops = {} THEN Len(need) + 1 ELSE Min(stops)
           taken == {need[k] : k \in n + 1 .. stop - 1}
<1>1. PICK l \in Nat : l = Len(need)
  BY DEF Setting
<1>2. /\ \A k, m \in 1 .. l : need[k] = need[m] => k = m
      /\ \A k \in 1 .. l : need[k] \in Sems
      /\ Workers \in SUBSET Nat /\ Sems \in SUBSET Nat
  BY <1>1 DEF Setting
<1>3. Typed(a0, g0, f, ln) /\ Placed(a0, g0) /\ Lined(a0, g0, ln) /\ Balanced(a0, g0, f)
  BY DEF Sound
<1>4. /\ g0[i] = n /\ a0[i] = "cancelled" /\ n \in Nat /\ n <= l
      /\ \A j \in Workers \ {i} : a0[j] = a[j] /\ g0[j] = got[j]
      /\ f \in [Sems -> Nat] /\ ln \in [Sems -> Seq(Workers)]
  <2>1. g0[i] = n /\ a0[i] = "cancelled"
        /\ \A j \in Workers \ {i} : a0[j] = a[j] /\ g0[j] = got[j]
    OBVIOUS
  <2>2. g0[i] \in Nat /\ g0[i] <= Len(need)
    BY <1>3 DEF Typed, Placed
  <2> QED BY <1>1, <1>3, <2>1, <2>2 DEF Typed
<1>5. /\ stop \in n + 1 .. l + 1
      /\ stops # {} => stop \in n + 1 .. l
      /\ stops = {} => stop = l + 1
      /\ \A k \in n + 1 .. stop - 1 : ~ Locked(need[k], f, ln)
  <2>1. CASE stops = {}
    <3>1. \A k \in n + 1 .. l : ~ Locked(need[k], f, ln)
      BY <1>1, <2>1
    <3>2. stop = l + 1
      BY <1>1, <2>1
    <3> HIDE DEF stop, need
    <3> QED BY <1>4, <2>1, <3>1, <3>2
  <2>2. CASE stops # {}
    <3>1. stops \in SUBSET (n + 1 .. l) /\ stops \subseteq Nat
      BY <1>1, <1>4
    <3>2. Min(stops) \in stops /\ \A y \in stops : Min(stops) <= y
      <4> HIDE DEF stops
      <4> QED BY <2>2, <3>1, LeastNatural
    <3>3. stop = Min(stops)
      BY <2>2
    <3>4. stop \in n + 1 .. l
      <4> HIDE DEF stops, stop
      <4> QED BY <3>1, <3>2, <3>3
    <3>5. ASSUME NEW k \in n + 1 .. stop - 1 PROVE ~ Locked(need[k], f, ln)
      <4>1. k \notin stops
        <5> HIDE DEF stops, stop
        <5> QED BY <1>4, <3>2, <3>3, <3>4, <3>5
      <4>2. k \in n + 1 .. l
        <5> HIDE DEF stops, stop
        <5> QED BY <1>4, <3>4
      <4> HIDE DEF stop
      <4> QED BY <1>1, <4>1, <4>2
    <3> HIDE DEF stop, stops, need
    <3> QED BY <1>4, <2>2, <3>4, <3>5
  <2> QED BY <2>1, <2>2
<1>6. /\ got' = [got EXCEPT ![i] = stop - 1]
      /\ free' = [s \in DOMAIN f |-> IF s \in taken THEN f[s] - 1 ELSE f[s]]
      /\ at' = [a EXCEPT ![i] = IF stops = {} THEN "running" ELSE "queued"]
      /\ line' = IF stops = {} THEN ln ELSE [ln EXCEPT ![need[stop]] = Append(@, i)]
  BY DEF GoOn
<1>7. taken \subseteq Sems /\ \A s \in taken : f[s] # 0
  <2>1. \A k \in n + 1 .. stop - 1 : k \in 1 .. l
    <3> HIDE DEF stop
    <3> QED BY <1>4, <1>5
  <2>2. \A k \in n + 1 .. stop - 1 : need[k] \in Sems /\ f[need[k]] # 0
    <3> HIDE DEF stop, need
    <3> QED BY <1>2, <1>5, <2>1 DEF Locked
  <2> HIDE DEF stop, need
  <2> QED BY <2>2
<1>8. stops # {} => need[stop] \in Sems
  <2> HIDE DEF stop, need, stops
  <2> QED BY <1>2, <1>4, <1>5
<1>9. \A s : s \in taken <=> \E k \in n + 1 .. stop - 1 : need[k] = s
  <2> HIDE DEF stop, need
  <2> QED OBVIOUS
<1> HIDE DEF stops, stop, taken
<1>10. /\ at' \in [Workers -> Stages] /\ got' \in [Workers -> Nat]
       /\ got'[i] = stop - 1
       /\ at'[i] = (IF stops = {} THEN "running" ELSE "queued")
       /\ \A j \in Workers \ {i} : at'[j] = a[j] /\ got'[j] = got[j]
  <2>1. stop - 1 \in Nat
    BY <1>4, <1>5
  <2> QED BY <1>6, <2>1 DEF Stages
<1>11. Typed(at', got', free', line')
  <2>1. free' \in [Sems -> Nat]
    BY <1>4, <1>6, <1>7
  <2>2. line' \in [Sems -> Seq(Workers)]
    <3>1. CASE stops = {}
      BY <1>4, <1>6, <3>1
    <3>2. CASE stops # {}
      <4>1. Append(ln[need[stop]], i) \in Seq(Workers)
        BY <1>4, <1>8, <3>2
      <4> HIDE DEF need
      <4> QED BY <1>4, <1>6, <1>8, <3>2, <4>1
    <3> QED BY <3>1, <3>2
  <2> QED BY <1>10, <2>1, <2>2 DEF Typed
<1>12. Placed(at', got')
  <2>1. \A j \in Workers \ {i} :
          /\ got'[j] <= Len(Needs(j))
          /\ at'[j] \in Waiting => got'[j] < Len(Needs(j))
          /\ at'[j] = "running" => got'[j] = Len(Needs(j))
          /\ at'[j] = "new" => got'[j] = 0
    <3> HIDE DEF a0, g0
    <3> QED BY <1>3, <1>4, <1>10 DEF Placed
  <2>2. /\ got'[i] <= Len(Needs(i))
        /\ at'[i] \in Waiting => got'[i] < Len(Needs(i))
        /\ at'[i] = "running" => got'[i] = Len(Needs(i))
        /\ at'[i] # "new"
    BY <1>1, <1>4, <1>5, <1>10 DEF Waiting
  <2> QED BY <2>1, <2>2 DEF Placed
<1>13. ASSUME NEW s \in Sems PROVE i \notin ToSet(ln[s])
  <2> HIDE DEF a0, g0
  <2> QED BY <1>3, <1>4 DEF Lined, Waiting
<1>14. Lined(at', got', line')
  <2> SUFFICES ASSUME NEW s \in Sems
               PROVE  /\ IsInjective(line'[s])
                      /\ \A j \in Workers : j \in ToSet(line'[s])
                           <=> at'[j] \in Waiting /\ Needs(j)[got'[j] + 1] = s
    BY DEF Lined
  <2>1. /\ IsInjective(ln[s]) /\ ln[s] \in Seq(Workers)
        /\ \A j \in Workers \ {i} : j \in ToSet(ln[s])
             <=> at'[j] \in Waiting /\ Needs(j)[got'[j] + 1] = s
    <3> HIDE DEF a0, g0
    <3>1. IsInjective(ln[s]) /\ ln[s] \in Seq(Workers)
      BY <1>3, <1>4 DEF Lined
    <3>2. ASSUME NEW j \in Workers \ {i}
          PROVE  j \in ToSet(ln[s]) <=> at'[j] \in Waiting /\ Needs(j)[got'[j] + 1] = s
      <4>1. j \in ToSet(ln[s]) <=> a0[j] \in Waiting /\ Needs(j)[g0[j] + 1] = s
        BY <1>3 DEF Lined
      <4>2. a0[j] = at'[j] /\ g0[j] = got'[j]
        BY <1>4, <1>10
      <4> QED BY <4>1, <4>2
    <3> QED BY <3>1, <3>2
  <2>2. CASE stops = {}
    <3>1. at'[i] \notin Waiting
      BY <1>10, <2>2 DEF Waiting
    <3> QED BY <1>6, <1>13, <2>1, <2>2, <3>1
  <2>3. CASE stops # {} /\ s = need[stop]
    <3>1. line'[s] = Append(ln[s], i)
      <4> HIDE DEF need
      <4> QED BY <1>4, <1>6, <2>3
    <3>2. ToSet(line'[s]) = ToSet(ln[s]) \cup {i} /\ IsInjective(line'[s])
      BY <1>13, <2>1, <3>1, AppendFacts
    <3>3. at'[i] \in Waiting /\ Needs(i)[got'[i] + 1] = s
      <4>1. stop - 1 + 1 = stop
        BY <1>4, <1>5
      <4> QED BY <1>10, <2>3, <4>1 DEF Waiting
    <3> QED BY <2>1, <3>2, <3>3
  <2>4. CASE stops # {} /\ s # need[stop]
    <3>1. line'[s] = ln[s]
      <4> HIDE DEF need
      <4> QED BY <1>4, <1>6, <2>4
    <3>3. Needs(i)[got'[i] + 1] # s
      <4>1. stop - 1 + 1 = stop
        BY <1>4, <1>5
      <4> QED BY <1>10, <2>4, <4>1
    <3> QED BY <1>13, <2>1, <3>1, <3>3
  <2> QED BY <2>2, <2>3, <2>4
<1>15. Balanced(at', got', free')
  <2> SUFFICES ASSUME NEW s \in Sems
               PROVE  free'[s] + Cardinality(Users(at', got', s)) = Slots(s)
    BY DEF Balanced
  <2>1. f[s] + Cardinality(Users(a0, g0, s)) = Slots(s) /\ f[s] \in Nat
    BY <1>3, <1>4 DEF Balanced
  <2>2. ASSUME NEW j \in Workers \ {i} PROVE Uses(at', got', j, s) <=> Uses(a0, g0, j, s)
    <3> HIDE DEF a0, g0
    <3> QED BY <1>4, <1>10 DEF Uses
  <2>3. Uses(a0, g0, i, s) <=> \E k \in 1 .. l : need[k] = s /\ k <= n
    <3> HIDE DEF a0, g0
    <3> QED BY <1>1, <1>4 DEF Uses
  <2>4. Uses(at', got', i, s) <=> \E k \in 1 .. l : need[k] = s /\ k <= stop - 1
    BY <1>1, <1>10 DEF Uses
  <2>5. s \in taken <=> \E k \in 1 .. l : need[k] = s /\ k <= stop - 1 /\ ~(k <= n)
    <3> HIDE DEF need
    <3> QED BY <1>4, <1>5, <1>9
  <2>6. Uses(at', got', i, s) <=> Uses(a0, g0, i, s) \/ s \in taken
    <3> HIDE DEF need, a0, g0
    <3> QED BY <1>4, <1>5, <2>3, <2>4, <2>5
  <2>7. ~(Uses(a0, g0, i, s) /\ s \in taken)
    <3> HIDE DEF need, a0, g0
    <3> QED BY <1>2, <2>3, <2>5
  <2>8. IsFiniteSet(Users(a0, g0, s)) /\ Cardinality(Users(a0, g0, s)) \in Nat
    BY UsersFinite
  <2> HIDE DEF a0, g0, need
  <2>9. CASE s \in taken
    <3>1. Users(at', got', s) = Users(a0, g0, s) \cup {i} /\ i \notin Users(a0, g0, s)
      BY <2>2, <2>6, <2>7, <2>9, UsersAre
    <3>2. Cardinality(Users(at', got', s)) = Cardinality(Users(a0, g0, s)) + 1
      BY <2>8, <3>1, FS_AddElement
    <3>3. free'[s] = f[s] - 1
      BY <1>4, <1>6, <2>9
    <3> QED BY <2>1, <2>8, <3>2, <3>3
  <2>10. CASE s \notin taken
    <3>1. Users(at', got', s) = Users(a0, g0, s)
      BY <2>2, <2>6, <2>10, UsersAre
    <3>3. free'[s] = f[s]
      BY <1>4, <1>6, <2>10
    <3> QED BY <2>1, <3>1, <3>3
  <2> QED BY <2>9, <2>10
<1> QED
  BY <1>11, <1>12, <1>14, <1>15 DEF Sound

(* A worker that starts waits for nothing and holds nothing yet. *)
LEMMA StartSound ==
  ASSUME Setting, Sound(at, got, free, line), NEW i \in Workers, Start(i)
  PROVE  Sound(at', got', free', line')
<1> DEFINE a0 == [at EXCEPT ![i] = "cancelled"]
           g0 == [got EXCEPT ![i] = 0]
<1>1. /\ Typed(at, got, free, line) /\ Placed(at, got) /\ Lined(at, got, line)
      /\ Balanced(at, got, free) /\ at[i] = "new" /\ GoOn(i, 0, at, free, line)
  BY DEF Sound, Start
<1>2. at \in [Workers -> Stages] /\ got \in [Workers -> Nat]
  BY <1>1 DEF Typed
<1>3. g0 = got
  <2>1. got[i] = 0
    BY <1>1 DEF Placed
  <2> QED BY <1>2, <2>1
<1>4. /\ a0 \in [Workers -> Stages] /\ a0[i] = "cancelled"
      /\ \A j \in Workers \ {i} : a0[j] = at[j]
  BY <1>2 DEF Stages, Over
<1> HIDE DEF a0, g0
<1>5. Typed(a0, got, free, line)
  BY <1>1, <1>4 DEF Typed
<1>6. Placed(a0, got)
  BY <1>1, <1>4 DEF Placed, Waiting
<1>7. Lined(a0, got, line)
  <2>1. \A j \in Workers : a0[j] \in Waiting <=> at[j] \in Waiting
    BY <1>1, <1>4 DEF Waiting
  <2> QED BY <1>1, <2>1 DEF Lined
<1>8. \A s : Users(a0, got, s) = Users(at, got, s)
  <2>1. \A j \in Workers : a0[j] = "granted" <=> at[j] = "granted"
    BY <1>1, <1>4
  <2> QED BY <2>1 DEF Users, Uses
<1>9. Balanced(a0, got, free)
  BY <1>1, <1>8 DEF Balanced
<1>10. Sound(a0, g0, free, line)
  BY <1>3, <1>5, <1>6, <1>7, <1>9 DEF Sound
<1> QED
  BY <1>1, <1>2, <1>10, GoOnSound DEF a0, g0

(* The first that sleeps in a line waits there for its next semaphore. *)
LEMMA SleeperFacts ==
  ASSUME Setting, Sound(at, got, free, line), NEW s \in Sems, Sleepers(s) # {}
  PROVE  /\ FirstSleeper(s) \in Workers /\ at[FirstSleeper(s)] = "queued"
         /\ Needs(FirstSleeper(s))[got[FirstSleeper(s)] + 1] = s
         /\ got[FirstSleeper(s)] + 1 \in 1 .. Len(Needs(FirstSleeper(s)))
         /\ FirstSleeper(s) \in ToSet(line[s])
<1>1. line[s] \in Seq(Workers)
  BY DEF Sound, Typed
<1>2. PICK l \in Nat : l = Len(line[s])
  BY <1>1
<1>3. DOMAIN line[s] = 1 .. l
  BY <1>1, <1>2
<1>4. Sleepers(s) \subseteq Nat
  BY <1>3 DEF Sleepers
<1>5. PICK n \in DOMAIN line[s] : n = Min(Sleepers(s)) /\ at[line[s][n]] = "queued"
  <2>1. Min(Sleepers(s)) \in Sleepers(s)
    BY <1>4, LeastNatural
  <2> QED BY <2>1 DEF Sleepers
<1>6. FirstSleeper(s) = line[s][n]
  BY <1>5 DEF FirstSleeper
<1> DEFINE j == line[s][n]
<1>7. j \in ToSet(line[s]) /\ j \in Workers
  BY <1>1, <1>3, <1>5 DEF ToSet
<1>8. Needs(j)[got[j] + 1] = s
  BY <1>7 DEF Sound, Lined
<1>9. got[j] + 1 \in 1 .. Len(Needs(j))
  <2>1. got[j] \in Nat /\ got[j] < Len(Needs(j))
    BY <1>5, <1>7 DEF Sound, Typed, Placed, Waiting
  <2>2. Len(Needs(j)) \in Nat
    BY <1>7 DEF Setting
  <2> QED BY <2>1, <2>2
<1> QED
  BY <1>5, <1>6, <1>7, <1>8, <1>9

(* A worker that is woken uses the slot it is woken for. *)
LEMMA GrantSound ==
  ASSUME Setting, NEW a, NEW g, NEW f, NEW ln, Sound(a, g, f, ln), NEW s \in Sems,
         NEW j \in Workers, a[j] = "queued", Needs(j)[g[j] + 1] = s, f[s] > 0
  PROVE  Sound([a EXCEPT ![j] = "granted"], g, [f EXCEPT ![s] = @ - 1], ln)
<1> DEFINE a1 == [a EXCEPT ![j] = "granted"]
           f1 == [f EXCEPT ![s] = @ - 1]
<1>1. Typed(a, g, f, ln) /\ Placed(a, g) /\ Lined(a, g, ln) /\ Balanced(a, g, f)
  BY DEF Sound
<1>2. /\ a \in [Workers -> Stages] /\ g \in [Workers -> Nat] /\ f \in [Sems -> Nat]
      /\ ln \in [Sems -> Seq(Workers)]
  BY <1>1 DEF Typed
<1>3. /\ a1 \in [Workers -> Stages] /\ a1[j] = "granted"
      /\ \A k \in Workers \ {j} : a1[k] = a[k]
  BY <1>2 DEF Stages
<1>4. /\ f1 \in [Sems -> Nat] /\ f1[s] = f[s] - 1 /\ f[s] \in Nat
      /\ \A r \in Sems \ {s} : f1[r] = f[r]
  <2>1. f[s] \in Nat /\ f[s] - 1 \in Nat
    BY <1>2
  <2> QED BY <1>2, <2>1
<1> HIDE DEF a1, f1
<1>5. Typed(a1, g, f1, ln)
  BY <1>2, <1>3, <1>4 DEF Typed
<1>6. Placed(a1, g)
  BY <1>1, <1>3 DEF Placed, Waiting
<1>7. Lined(a1, g, ln)
  <2>1. \A k \in Workers : a1[k] \in Waiting <=> a[k] \in Waiting
    BY <1>3 DEF Waiting
  <2> QED BY <1>1, <2>1 DEF Lined
<1>8. Balanced(a1, g, f1)
  <2> SUFFICES ASSUME NEW r \in Sems PROVE f1[r] + Cardinality(Users(a1, g, r)) = Slots(r)
    BY DEF Balanced
  <2>1. f[r] + Cardinality(Users(a, g, r)) = Slots(r) /\ f[r] \in Nat
    BY <1>1, <1>2 DEF Balanced
  <2>2. \A k \in Workers \ {j} : Uses(a1, g, k, r) <=> Uses(a, g, k, r)
    BY <1>3 DEF Uses
  <2>3. g[j] \in Nat /\ g[j] + 1 \in 1 .. Len(Needs(j)) /\ Len(Needs(j)) \in Nat
    <3>1. g[j] \in Nat /\ g[j] < Len(Needs(j))
      BY <1>1, <1>2 DEF Placed, Waiting
    <3>2. Len(Needs(j)) \in Nat
      BY DEF Setting
    <3> QED BY <3>1, <3>2
  <2>4. Uses(a, g, j, r) <=> \E k \in 1 .. Len(Needs(j)) : Needs(j)[k] = r /\ k <= g[j]
    BY DEF Uses
  <2>5. Uses(a1, g, j, r) <=>
          \E k \in 1 .. Len(Needs(j)) : Needs(j)[k] = r /\ (k <= g[j] \/ k = g[j] + 1)
    BY <1>3 DEF Uses
  <2>6. \A k, m \in 1 .. Len(Needs(j)) : Needs(j)[k] = Needs(j)[m] => k = m
    BY DEF Setting
  <2>7. CASE r = s
    <3>1. Uses(a1, g, j, r)
      BY <2>3, <2>5, <2>7
    <3>2. ~ Uses(a, g, j, r)
      <4> SUFFICES ASSUME NEW k \in 1 .. Len(Needs(j)), Needs(j)[k] = r, k <= g[j] PROVE FALSE
        BY <2>4
      <4>1. k = g[j] + 1
        BY <2>3, <2>6, <2>7
      <4> QED BY <2>3, <4>1
    <3>3. Users(a1, g, r) = Users(a, g, r) \cup {j} /\ j \notin Users(a, g, r)
      BY <2>2, <3>1, <3>2, UsersAre
    <3>4. IsFiniteSet(Users(a, g, r)) /\ Cardinality(Users(a, g, r)) \in Nat
      BY UsersFinite
    <3>5. Cardinality(Users(a1, g, r)) = Cardinality(Users(a, g, r)) + 1
      BY <3>3, <3>4, FS_AddElement
    <3> QED BY <1>4, <2>1, <2>7, <3>4, <3>5
  <2>8. CASE r # s
    <3>1. Uses(a1, g, j, r) <=> Uses(a, g, j, r)
      BY <2>4, <2>5, <2>8
    <3>2. Users(a1, g, r) = Users(a, g, r)
      BY <2>2, <3>1, UsersAre
    <3> QED BY <1>4, <2>1, <2>8, <3>2
  <2> QED BY <2>7, <2>8
<1> QED
  BY <1>5, <1>6, <1>7, <1>8 DEF Sound, a1, f1

(* A woken worker leaves the line with the slot it was given. *)
LEMMA LeaveSound ==
  ASSUME Setting, NEW a, NEW g, NEW f, NEW ln, Sound(a, g, f, ln), NEW i \in Workers,
         a[i] = "granted", NEW s, s = Needs(i)[g[i] + 1],
         NEW n \in DOMAIN ln[s], ln[s][n] = i
  PROVE  Sound([a EXCEPT ![i] = "cancelled"], [g EXCEPT ![i] = g[i] + 1], f,
               [ln EXCEPT ![s] = RemoveAt(@, n)])
<1> DEFINE a1 == [a EXCEPT ![i] = "cancelled"]
           g1 == [g EXCEPT ![i] = g[i] + 1]
           l1 == [ln EXCEPT ![s] = RemoveAt(@, n)]
<1>1. Typed(a, g, f, ln) /\ Placed(a, g) /\ Lined(a, g, ln) /\ Balanced(a, g, f)
  BY DEF Sound
<1>2. /\ a \in [Workers -> Stages] /\ g \in [Workers -> Nat] /\ f \in [Sems -> Nat]
      /\ ln \in [Sems -> Seq(Workers)]
  BY <1>1 DEF Typed
<1>3. g[i] \in Nat /\ g[i] + 1 \in 1 .. Len(Needs(i)) /\ Len(Needs(i)) \in Nat /\ s \in Sems
  <2>1. g[i] \in Nat /\ g[i] < Len(Needs(i))
    BY <1>1, <1>2 DEF Placed, Waiting
  <2>2. Len(Needs(i)) \in Nat /\ \A k \in 1 .. Len(Needs(i)) : Needs(i)[k] \in Sems
    BY DEF Setting
  <2>3. g[i] + 1 \in 1 .. Len(Needs(i))
    BY <2>1, <2>2
  <2> QED BY <2>1, <2>2, <2>3
<1>4. /\ a1 \in [Workers -> Stages] /\ a1[i] = "cancelled"
      /\ \A k \in Workers \ {i} : a1[k] = a[k]
      /\ g1 \in [Workers -> Nat] /\ g1[i] = g[i] + 1
      /\ \A k \in Workers \ {i} : g1[k] = g[k]
  <2>1. g[i] + 1 \in Nat
    BY <1>3
  <2> QED BY <1>2, <2>1 DEF Stages, Over
<1>5. /\ RemoveAt(ln[s], n) \in Seq(Workers) /\ IsInjective(RemoveAt(ln[s], n))
      /\ ToSet(RemoveAt(ln[s], n)) = ToSet(ln[s]) \ {i}
  <2>1. ln[s] \in Seq(Workers) /\ IsInjective(ln[s])
    BY <1>1, <1>2, <1>3 DEF Lined
  <2> QED BY <2>1, RemoveAtFacts
<1>6. /\ l1 \in [Sems -> Seq(Workers)] /\ l1[s] = RemoveAt(ln[s], n)
      /\ \A r \in Sems \ {s} : l1[r] = ln[r]
  BY <1>2, <1>3, <1>5
<1> HIDE DEF a1, g1, l1
<1>7. Typed(a1, g1, f, l1)
  BY <1>2, <1>4, <1>6 DEF Typed
<1>8. Placed(a1, g1)
  <2>1. g1[i] <= Len(Needs(i))
    BY <1>3, <1>4
  <2> QED BY <1>1, <1>4, <2>1 DEF Placed, Waiting
<1>9. Lined(a1, g1, l1)
  <2> SUFFICES ASSUME NEW r \in Sems
               PROVE  /\ IsInjective(l1[r])
                      /\ \A k \in Workers : k \in ToSet(l1[r])
                           <=> a1[k] \in Waiting /\ Needs(k)[g1[k] + 1] = r
    BY DEF Lined
  <2>1. /\ IsInjective(ln[r])
        /\ \A k \in Workers : k \in ToSet(ln[r]) <=> a[k] \in Waiting /\ Needs(k)[g[k] + 1] = r
    BY <1>1 DEF Lined
  <2>2. IsInjective(l1[r]) /\ ToSet(l1[r]) = ToSet(ln[r]) \ {i}
    <3>1. CASE r = s
      BY <1>5, <1>6, <3>1
    <3>2. CASE r # s
      <4>1. i \notin ToSet(ln[r])
        BY <2>1, <3>2
      <4> QED BY <1>6, <2>1, <3>2, <4>1
    <3> QED BY <3>1, <3>2
  <2>3. a1[i] \notin Waiting
    BY <1>4 DEF Waiting
  <2>4. ASSUME NEW k \in Workers \ {i}
        PROVE  a1[k] = a[k] /\ g1[k] = g[k]
    BY <1>4
  <2> QED BY <2>1, <2>2, <2>3, <2>4
<1>10. Balanced(a1, g1, f)
  <2> SUFFICES ASSUME NEW r \in Sems PROVE Users(a1, g1, r) = Users(a, g, r)
    BY <1>1 DEF Balanced
  <2>1. \A k \in Workers \ {i} : Uses(a1, g1, k, r) <=> Uses(a, g, k, r)
    BY <1>4 DEF Uses
  <2>2. Uses(a1, g1, i, r) <=> \E k \in 1 .. Len(Needs(i)) : Needs(i)[k] = r /\ k <= g[i] + 1
    BY <1>4 DEF Uses
  <2>3. Uses(a, g, i, r) <=>
          \E k \in 1 .. Len(Needs(i)) : Needs(i)[k] = r /\ (k <= g[i] \/ k = g[i] + 1)
    BY DEF Uses
  <2>4. \A k \in 1 .. Len(Needs(i)) : k <= g[i] + 1 <=> k <= g[i] \/ k = g[i] + 1
    BY <1>3
  <2>5. Uses(a1, g1, i, r) <=> Uses(a, g, i, r)
    BY <2>2, <2>3, <2>4
  <2> QED BY <2>1, <2>5, UsersAre
<1> QED
  BY <1>7, <1>8, <1>9, <1>10 DEF Sound, a1, g1, l1

(* A worker that resumes takes its slot, wakes the next if there is another, *)
(* and goes on.                                                              *)
LEMMA ResumeSound ==
  ASSUME Setting, Sound(at, got, free, line), NEW i \in Workers, Resume(i)
  PROVE  Sound(at', got', free', line')
<1> DEFINE s == Needs(i)[got[i] + 1]
<1>1. /\ Typed(at, got, free, line) /\ at[i] = "granted"
      /\ at \in [Workers -> Stages] /\ got \in [Workers -> Nat] /\ free \in [Sems -> Nat]
  BY DEF Sound, Typed, Resume
<1>2. PICK n \in DOMAIN line[s] :
        /\ line[s][n] = i
        /\ LET ln == [line EXCEPT ![s] = RemoveAt(@, n)]
           IN  IF free[s] > 0 /\ Sleepers(s) # {}
               THEN GoOn(i, got[i] + 1, [at EXCEPT ![FirstSleeper(s)] = "granted"],
                         [free EXCEPT ![s] = @ - 1], ln)
               ELSE GoOn(i, got[i] + 1, at, free, ln)
  BY DEF Resume
<1> DEFINE ln == [line EXCEPT ![s] = RemoveAt(@, n)]
<1>3. s \in Sems
  <2>1. got[i] \in Nat /\ got[i] < Len(Needs(i))
    BY <1>1 DEF Sound, Placed, Waiting
  <2>2. Len(Needs(i)) \in Nat /\ \A k \in 1 .. Len(Needs(i)) : Needs(i)[k] \in Sems
    BY DEF Setting
  <2>3. got[i] + 1 \in 1 .. Len(Needs(i))
    BY <2>1, <2>2
  <2> QED BY <2>2, <2>3
<1>4. CASE free[s] > 0 /\ Sleepers(s) # {}
  <2> DEFINE j  == FirstSleeper(s)
             a1 == [at EXCEPT ![j] = "granted"]
             f1 == [free EXCEPT ![s] = @ - 1]
  <2>1. j \in Workers /\ at[j] = "queued" /\ Needs(j)[got[j] + 1] = s
    <3> HIDE DEF s
    <3> QED BY <1>3, <1>4, SleeperFacts
  <2>2. Sound(a1, got, f1, line)
    <3> HIDE DEF s, j
    <3> QED BY <1>3, <1>4, <2>1, GrantSound
  <2>3. a1 \in [Workers -> Stages] /\ a1[i] = "granted"
    <3>1. j # i
      BY <1>1, <2>1
    <3> HIDE DEF j
    <3> QED BY <1>1, <2>1, <3>1 DEF Stages
  <2>4. GoOn(i, got[i] + 1, a1, f1, ln)
    BY <1>2, <1>4
  <2>5. Sound([a1 EXCEPT ![i] = "cancelled"], [got EXCEPT ![i] = got[i] + 1], f1, ln)
    <3> HIDE DEF a1, f1
    <3> QED BY <1>2, <2>2, <2>3, LeaveSound
  <2> HIDE DEF a1, f1, ln
  <2> QED BY <1>1, <2>3, <2>4, <2>5, GoOnSound
<1>5. CASE ~(free[s] > 0 /\ Sleepers(s) # {})
  <2>1. GoOn(i, got[i] + 1, at, free, ln)
    BY <1>2, <1>5
  <2>2. Sound([at EXCEPT ![i] = "cancelled"], [got EXCEPT ![i] = got[i] + 1], free, ln)
    BY <1>1, <1>2, LeaveSound
  <2> HIDE DEF ln
  <2> QED BY <1>1, <2>1, <2>2, GoOnSound
<1> QED
  BY <1>4, <1>5

(* A worker that ends gives back every slot: to the one it wakes, or to the  *)
(* semaphore.                                                                *)
LEMMA ReleaseSound ==
  ASSUME Setting, Sound(at, got, free, line), NEW i \in Workers, at[i] = "running",
         NEW end \in Over, Release(i, end)
  PROVE  Sound(at', got', free', line')
<1> DEFINE held  == {Needs(i)[k] : k \in 1 .. got[i]}
           slept == {s \in held : Sleepers(s) # {}}
           woken == {FirstSleeper(s) : s \in slept}
<1>1. /\ Typed(at, got, free, line) /\ Placed(at, got) /\ Lined(at, got, line)
      /\ Balanced(at, got, free)
  BY DEF Sound
<1>2. /\ at \in [Workers -> Stages] /\ got \in [Workers -> Nat] /\ free \in [Sems -> Nat]
      /\ line \in [Sems -> Seq(Workers)]
  BY <1>1 DEF Typed
<1>3. /\ at' = [j \in Workers |-> IF j = i THEN end
                                  ELSE IF j \in woken THEN "granted" ELSE at[j]]
      /\ free' = [s \in DOMAIN free |-> IF s \in held \ slept THEN free[s] + 1 ELSE free[s]]
      /\ got' = [got EXCEPT ![i] = 0]
      /\ line' = line
  BY DEF Release
<1>4. got[i] = Len(Needs(i)) /\ Len(Needs(i)) \in Nat
  BY <1>1 DEF Placed, Setting
<1>5. held \subseteq Sems /\ \A r : r \in held <=> \E k \in 1 .. Len(Needs(i)) : Needs(i)[k] = r
  <2>1. \A k \in 1 .. Len(Needs(i)) : Needs(i)[k] \in Sems
    BY DEF Setting
  <2>2. held = {Needs(i)[k] : k \in 1 .. Len(Needs(i))}
    BY <1>4
  <2> HIDE DEF held
  <2> QED BY ONLY <2>1, <2>2
<1>6. slept \subseteq held /\ \A r \in slept : Sleepers(r) # {}
  <2> HIDE DEF held
  <2> QED OBVIOUS
<1>7. \A j : j \in woken <=> \E r \in slept : j = FirstSleeper(r)
  <2> HIDE DEF slept
  <2> QED OBVIOUS
<1> HIDE DEF held, slept, woken
<1>8. ASSUME NEW r \in slept
      PROVE  /\ FirstSleeper(r) \in Workers /\ at[FirstSleeper(r)] = "queued"
             /\ Needs(FirstSleeper(r))[got[FirstSleeper(r)] + 1] = r
             /\ got[FirstSleeper(r)] + 1 \in 1 .. Len(Needs(FirstSleeper(r)))
  BY <1>5, <1>6, SleeperFacts
<1>9. \A j \in woken : j \in Workers /\ j # i /\ at[j] = "queued"
  BY <1>7, <1>8
<1>10. /\ at' \in [Workers -> Stages] /\ at'[i] = end
       /\ \A j \in woken : at'[j] = "granted"
       /\ \A j \in Workers \ {i} : j \notin woken => at'[j] = at[j]
       /\ got' \in [Workers -> Nat] /\ got'[i] = 0
       /\ \A j \in Workers \ {i} : got'[j] = got[j]
  BY <1>2, <1>3, <1>9 DEF Stages
<1>11. end \notin Waiting /\ end # "running" /\ end # "new" /\ end # "granted"
  BY DEF Over, Waiting
<1>12. Typed(at', got', free', line')
  <2>1. free' \in [Sems -> Nat]
    BY <1>2, <1>3
  <2> QED BY <1>2, <1>3, <1>10, <2>1 DEF Typed
<1>13. \A j \in Workers \ {i} : at'[j] \in Waiting <=> at[j] \in Waiting
  BY <1>9, <1>10 DEF Waiting
<1>14. Placed(at', got')
  <2>1. \A j \in Workers \ {i} : at'[j] \in {"running", "new"} => at'[j] = at[j]
    BY <1>9, <1>10
  <2>2. ASSUME NEW j \in Workers \ {i}
        PROVE  /\ got'[j] <= Len(Needs(j))
               /\ at'[j] \in Waiting => got'[j] < Len(Needs(j))
               /\ at'[j] = "running" => got'[j] = Len(Needs(j))
               /\ at'[j] = "new" => got'[j] = 0
    BY <1>1, <1>10, <1>13, <2>1 DEF Placed
  <2>3. got'[i] <= Len(Needs(i))
    BY <1>4, <1>10
  <2> QED BY <1>10, <1>11, <2>2, <2>3 DEF Placed
<1>15. Lined(at', got', line')
  <2> SUFFICES ASSUME NEW r \in Sems
               PROVE  /\ IsInjective(line[r])
                      /\ \A j \in Workers : j \in ToSet(line[r])
                           <=> at'[j] \in Waiting /\ Needs(j)[got'[j] + 1] = r
    BY <1>3 DEF Lined
  <2>1. /\ IsInjective(line[r])
        /\ \A j \in Workers : j \in ToSet(line[r])
             <=> at[j] \in Waiting /\ Needs(j)[got[j] + 1] = r
    BY <1>1 DEF Lined
  <2>2. at[i] \notin Waiting /\ at'[i] \notin Waiting
    BY <1>10, <1>11 DEF Waiting
  <2>3. ASSUME NEW j \in Workers \ {i}
        PROVE  got'[j] = got[j] /\ (at'[j] \in Waiting <=> at[j] \in Waiting)
    BY <1>10, <1>13
  <2> QED BY <2>1, <2>2, <2>3
<1>16. ASSUME NEW r \in Sems
       PROVE  free'[r] + Cardinality(Users(at', got', r)) = Slots(r)
  <2>1. free[r] + Cardinality(Users(at, got, r)) = Slots(r) /\ free[r] \in Nat
    BY <1>1, <1>2 DEF Balanced
  <2>2. IsFiniteSet(Users(at, got, r)) /\ Cardinality(Users(at, got, r)) \in Nat
    BY UsersFinite
  <2>3. i \in Users(at, got, r) <=> r \in held
    BY <1>4, <1>5 DEF Users, Uses
  <2>4. i \notin Users(at', got', r)
    <3> SUFFICES ASSUME NEW k \in 1 .. Len(Needs(i)), k <= got'[i] PROVE FALSE
      BY <1>10, <1>11 DEF Users, Uses
    <3> QED BY <1>4, <1>10
  <2>5. ASSUME NEW j \in Workers \ {i}
        PROVE  j \in Users(at', got', r)
                 <=> j \in Users(at, got, r) \/ (j \in woken /\ Needs(j)[got[j] + 1] = r)
    <3>1. got'[j] = got[j]
      BY <1>10
    <3>2. CASE j \in woken
      <4>1. at'[j] = "granted" /\ at[j] = "queued"
        BY <1>9, <1>10, <3>2
      <4>2. got[j] + 1 \in 1 .. Len(Needs(j))
        BY <1>7, <1>8, <3>2
      <4> QED BY <3>1, <3>2, <4>1, <4>2 DEF Users, Uses
    <3>3. CASE j \notin woken
      <4>1. at'[j] = at[j]
        BY <1>10, <3>3
      <4> QED BY <3>1, <3>3, <4>1 DEF Users, Uses
    <3> QED BY <3>2, <3>3
  <2>6. \A j : j \in woken /\ Needs(j)[got[j] + 1] = r <=> r \in slept /\ j = FirstSleeper(r)
    BY <1>7, <1>8
  <2>7. free'[r] = IF r \in held \ slept THEN free[r] + 1 ELSE free[r]
    BY <1>2, <1>3
  <2>8. Users(at, got, r) \subseteq Workers /\ Users(at', got', r) \subseteq Workers
    BY UsersAre
  <2>9. CASE r \notin held
    <3>1. r \notin slept
      BY <1>6, <2>9
    <3>2. Users(at', got', r) = Users(at, got, r)
      BY <2>3, <2>4, <2>5, <2>6, <2>8, <2>9, <3>1
    <3> QED BY <2>1, <2>7, <2>9, <3>2
  <2>10. CASE r \in held \ slept
    <3>1. Users(at', got', r) = Users(at, got, r) \ {i}
      BY <2>4, <2>5, <2>6, <2>8, <2>10
    <3>2. i \in Users(at, got, r) /\ IsFiniteSet(Users(at, got, r))
      BY <2>2, <2>3, <2>10
    <3>3. Cardinality(Users(at', got', r)) = Cardinality(Users(at, got, r)) - 1
      BY ONLY <3>1, <3>2, FS_RemoveElement
    <3> QED BY <2>1, <2>2, <2>7, <2>10, <3>3
  <2>11. CASE r \in slept
    <3> DEFINE j == FirstSleeper(r)
               U == Users(at, got, r) \ {i}
    <3>1. j \in Workers \ {i} /\ j \in woken
      BY <1>7, <1>9, <2>11
    <3>2. r \in held
      BY <1>6, <2>11
    <3>3. Users(at', got', r) = U \cup {j}
      BY <2>4, <2>5, <2>6, <2>8, <2>11, <3>1
    <3>4. j \notin Users(at, got, r)
      <4>1. at[j] = "queued" /\ Needs(j)[got[j] + 1] = r /\ got[j] + 1 \in 1 .. Len(Needs(j))
        BY <1>8, <2>11
      <4>2. \A k, m \in 1 .. Len(Needs(j)) : Needs(j)[k] = Needs(j)[m] => k = m
        BY <3>1 DEF Setting
      <4>3. got[j] \in Nat
        BY <1>2, <3>1
      <4> HIDE DEF j
      <4>4. SUFFICES ASSUME NEW k \in 1 .. Len(Needs(j)), Needs(j)[k] = r, k <= got[j] PROVE FALSE
        BY <4>1 DEF Users, Uses
      <4>5. k = got[j] + 1
        BY <4>1, <4>2, <4>4
      <4> QED BY <4>3, <4>4, <4>5
    <3>5. IsFiniteSet(U) /\ Cardinality(U) = Cardinality(Users(at, got, r)) - 1
      BY <2>2, <2>3, <3>2, FS_RemoveElement
    <3>6. Cardinality(U \cup {j}) = Cardinality(U) + 1
      <4>1. j \notin U
        BY <3>4
      <4> HIDE DEF U, j
      <4> QED BY <3>5, <4>1, FS_AddElement
    <3> HIDE DEF U, j
    <3> QED BY <2>1, <2>2, <2>7, <2>11, <3>3, <3>5, <3>6
  <2> QED BY <1>6, <2>9, <2>10, <2>11
<1> QED
  BY <1>12, <1>14, <1>15, <1>16 DEF Sound, Balanced

(* A cancellation empties the lines, and the slots of those in them that     *)
(* were woken go back; who had taken a slot before is counted among its      *)
(* users still.                                                              *)
LEMMA CancelSound ==
  ASSUME Setting, Sound(at, got, free, line),
         at' = [i \in Workers |-> IF at[i] \in {"new"} \cup Waiting THEN "cancelled" ELSE at[i]],
         free' = [s \in DOMAIN free |->
                    free[s] + Cardinality({i \in Workers : /\ at[i] = "granted"
                                                           /\ Needs(i)[got[i] + 1] = s})],
         line' = [s \in DOMAIN line |-> <<>>], got' = got
  PROVE  Sound(at', got', free', line')
<1>1. /\ Typed(at, got, free, line) /\ Placed(at, got) /\ Lined(at, got, line)
      /\ Balanced(at, got, free)
  BY DEF Sound
<1>2. /\ at \in [Workers -> Stages] /\ got \in [Workers -> Nat] /\ free \in [Sems -> Nat]
      /\ line \in [Sems -> Seq(Workers)]
  BY <1>1 DEF Typed
<1>3. /\ at' \in [Workers -> Stages]
      /\ \A j \in Workers : at'[j] \in {"running"} \cup Over /\ (at'[j] = "running" => at[j] = "running")
  BY <1>2 DEF Stages, Over, Waiting
<1>4. got' \in [Workers -> Nat]
  BY <1>2
<1> DEFINE back(s) == {i \in Workers : at[i] = "granted" /\ Needs(i)[got[i] + 1] = s}
<1>5. ASSUME NEW s \in Sems
      PROVE  IsFiniteSet(back(s)) /\ Cardinality(back(s)) \in Nat
  <2>1. back(s) \in SUBSET Workers /\ IsFiniteSet(Workers)
    BY DEF Setting
  <2> HIDE DEF back
  <2> QED BY <2>1, FS_Subset, FS_CardinalityType
<1>6. /\ free' \in [Sems -> Nat]
      /\ \A s \in Sems : free'[s] = free[s] + Cardinality(back(s))
  <2>1. free' = [s \in Sems |-> free[s] + Cardinality(back(s))]
    BY <1>2
  <2> HIDE DEF back
  <2>2. \A s \in Sems : free[s] + Cardinality(back(s)) \in Nat
    BY <1>2, <1>5
  <2> QED BY <2>1, <2>2
<1>7. line' \in [Sems -> Seq(Workers)] /\ \A s \in Sems : line'[s] = <<>>
  BY <1>2
<1>8. Typed(at', got', free', line')
  BY <1>3, <1>4, <1>6, <1>7 DEF Typed
<1>9. Placed(at', got')
  <2> SUFFICES ASSUME NEW j \in Workers
               PROVE  /\ got'[j] <= Len(Needs(j))
                      /\ at'[j] \in Waiting => got'[j] < Len(Needs(j))
                      /\ at'[j] = "running" => got'[j] = Len(Needs(j))
                      /\ at'[j] = "new" => got'[j] = 0
    BY DEF Placed
  <2>1. Len(Needs(j)) \in Nat
    BY DEF Setting
  <2>2. got[j] <= Len(Needs(j)) /\ (at[j] = "running" => got[j] = Len(Needs(j)))
    BY <1>1 DEF Placed
  <2> QED BY <1>3, <1>4, <2>1, <2>2 DEF Waiting, Over
<1>10. Lined(at', got', line')
  <2>1. \A j \in Workers : at'[j] \notin Waiting
    BY <1>3 DEF Waiting, Over
  <2>2. ToSet(<<>>) = {} /\ IsInjective(<<>>)
    BY DEF ToSet, IsInjective
  <2> QED BY <1>7, <2>1, <2>2 DEF Lined
<1>11. ASSUME NEW s \in Sems
       PROVE  free'[s] + Cardinality(Users(at', got', s)) = Slots(s)
  <2>1. /\ IsFiniteSet(Users(at', got', s)) /\ Cardinality(Users(at', got', s)) \in Nat
        /\ Cardinality(Users(at, got, s)) \in Nat
    BY UsersFinite
  <2>2. ASSUME NEW j \in Workers
        PROVE  Uses(at, got, j, s) <=> Uses(at', got', j, s) \/ j \in back(s)
    <3>1. at'[j] # "granted" /\ got[j] \in Nat /\ Len(Needs(j)) \in Nat
      BY <1>2, <1>3 DEF Over, Setting
    <3>2. at[j] = "granted" => got[j] + 1 \in 1 .. Len(Needs(j))
      BY <1>1, <3>1 DEF Placed, Waiting
    <3>3. Uses(at', got', j, s) => Uses(at, got, j, s)
      BY <3>1 DEF Uses
    <3>4. j \in back(s) => Uses(at, got, j, s)
      BY <3>2 DEF Uses
    <3>5. Uses(at, got, j, s) => Uses(at', got', j, s) \/ j \in back(s)
      BY DEF Uses
    <3> QED BY <3>3, <3>4, <3>5
  <2>n. ASSUME NEW j \in Workers, Uses(at', got', j, s), j \in back(s) PROVE FALSE
    <3>1. PICK k \in 1 .. Len(Needs(j)) : Needs(j)[k] = s /\ k <= got[j]
      BY <1>3, <2>n DEF Uses, Over
    <3>2. got[j] + 1 \in 1 .. Len(Needs(j)) /\ Needs(j)[got[j] + 1] = s /\ got[j] \in Nat
      BY <1>1, <1>2, <2>n DEF Placed, Waiting, Setting
    <3>3. k = got[j] + 1
      BY <3>1, <3>2 DEF Setting
    <3> QED BY <3>1, <3>2, <3>3
  <2>3. Users(at, got, s) = Users(at', got', s) \cup back(s)
    BY <2>2, UsersAre
  <2>4. Users(at', got', s) \cap back(s) = {}
    BY <2>n, UsersAre
  <2> HIDE DEF back
  <2>5. Cardinality(Users(at, got, s)) =
          Cardinality(Users(at', got', s)) + Cardinality(back(s)) - Cardinality({})
    BY <1>5, <2>1, <2>3, <2>4, FS_Union
  <2>6. Cardinality({}) = 0
    BY FS_EmptySet
  <2>7. free[s] + Cardinality(Users(at, got, s)) = Slots(s) /\ free[s] \in Nat
    BY <1>1, <1>2 DEF Balanced
  <2> QED BY <1>5, <1>6, <2>1, <2>5, <2>6, <2>7
<1> QED
  BY <1>8, <1>9, <1>10, <1>11 DEF Sound, Balanced

-----------------------------------------------------------------------------
(* The work *)

(* What the Scheduler answers is due and repeats nothing. *)
LEMMA AnswersTyped ==
  ASSUME WorkListAssumption, GenerationAssumption, Inputs, Batch, NEW w \in Answers
  PROVE  w \in Seq(Due) /\ IsInjective(w)
<1> DEFINE c == Collect(met)
<1>1. Batch /\ RankLimit \in Nat \cup {None}
  BY DEF GenerationAssumption, Inputs
<1>2. c \in Seq(Due) /\ ToSet(c) = Due /\ IsInjective(c)
  BY <1>1, CollectFacts
<1>3. IsFiniteSet(Due)
  <2>1. Due \subseteq ToSet(Agents) \X DOMAIN met
    BY DEF Due
  <2> QED BY <1>1, <2>1, AskedItems, FS_Subset
<1>4. CASE w = c
  BY <1>2, <1>4
<1>5. CASE w # c
  <2>1. w \in Schedules(c, resumes, RankLimit)
    BY <1>5 DEF Answers
  <2>2. ~(Len(c) <= 1)
    BY <1>5, <2>1 DEF Schedules
  <2> HIDE DEF c
  <2>3. PICK l \in Nat : l = Len(c)
    BY <1>2
  <2>4. Len(c) > 1
    BY <2>2, <2>3
  <2> QED BY <1>1, <1>2, <1>3, <2>1, <2>4, SchedulesFacts
<1> QED
  BY <1>4, <1>5

(* Where the deadline stops it, a collected batch still is one. *)
LEMMA UpToFacts ==
  ASSUME NEW m \in Seq([DOMAIN Priority -> {"no", "now", "settle"}]), NEW a, NEW e
  PROVE  UpTo(m, a, e) \in Seq([DOMAIN Priority -> {"no", "now", "settle"}])
<1> DEFINE A == [DOMAIN Priority -> {"no", "now", "settle"}]
           row(d) == [b \in DOMAIN Priority |->
                        IF d < e \/ (d = e /\ Earlier(b, a)) THEN m[d][b] ELSE "no"]
           u == [d \in DOMAIN m |-> row(d)]
<1>1. PICK l \in Nat : DOMAIN m = 1 .. l /\ \A d \in 1 .. l : m[d] \in A
  OBVIOUS
<1>2. \A d \in 1 .. l : row(d) \in A
  BY <1>1
<1> HIDE DEF row, A
<1>3. u \in [1 .. l -> A]
  BY <1>1, <1>2
<1>4. UpTo(m, a, e) = u
  BY DEF UpTo, row
<1> HIDE DEF u
<1> QED
  BY <1>3, <1>4 DEF A

(* There is no work at first. *)
LEMMA WorkFirst ==
  ASSUME Init
  PROVE  Inputs /\ WorkInv
BY DEF Init, Inputs, WorkInv, Batch

(* Nothing but the collection and the dispatch changes the work. *)
LEMMA WorkKept ==
  ASSUME WorkListAssumption, inputs' = inputs, met' = met, work' = work, late' = late, Inputs, WorkInv,
         counted' => phase' = "returned" /\ ~late,
         \/ phase' = phase \/ phase' = "raised" \/ (phase = "dispatch" /\ phase' = "returned")
  PROVE  Inputs' /\ WorkInv'
<1>1. /\ batch' = batch /\ resumes' = resumes /\ remaining' = remaining
      /\ scheduled' = scheduled /\ isolates' = isolates /\ most' = most
  BY DEF inputs
<1>2. Inputs'
  BY <1>1 DEF Inputs
<1>3. Due' = Due /\ Collect(met') = Collect(met) /\ Answers' = Answers /\ (Batch => Batch')
  BY <1>1 DEF Due, Answers, Batch
<1>5. work \in Seq(Due)
  BY WorkIsDue
<1>4. Served => Served'
  BY <1>1, <1>3 DEF Served
<1> QED
  BY <1>1, <1>2, <1>3, <1>4, <1>5 DEF WorkInv

(* Every step keeps the work one of its stages. *)
LEMMA WorkStep ==
  ASSUME WorkListAssumption, GenerationAssumption, Inputs, WorkInv, [Next]_vars
  PROVE  Inputs' /\ WorkInv'
<1>1. CASE CollectWork
  <2>1. /\ inputs' = inputs /\ counted' = counted
        /\ batch' = batch /\ resumes' = resumes /\ remaining' = remaining
        /\ scheduled' = scheduled /\ isolates' = isolates /\ most' = most
        /\ phase' = "schedule" /\ work' = Collect(met')
        /\ \/ met' = batch /\ late' = late
           \/ late' = TRUE /\ \E a \in ToSet(Agents), e \in DOMAIN batch : met' = UpTo(batch, a, e)
    BY <1>1 DEF CollectWork, inputs
  <2>2. Inputs'
    BY <2>1 DEF Inputs
  <2>3. batch \in Seq([DOMAIN Priority -> {"no", "now", "settle"}])
    BY DEF GenerationAssumption, Inputs
  <2>4. Batch'
    <3>1. CASE met' = batch
      BY <2>3, <3>1 DEF Batch
    <3>2. ASSUME NEW a, NEW e, met' = UpTo(batch, a, e) PROVE Batch'
      BY <2>3, <3>2, UpToFacts DEF Batch
    <3> QED BY <2>1, <3>1, <3>2
  <2>6. ~counted'
    BY <1>1, <2>1 DEF CollectWork, WorkInv
  <2> QED BY <2>1, <2>2, <2>4, <2>6 DEF WorkInv
<1>2. CASE Dispatch
  <2>1. /\ batch' = batch /\ resumes' = resumes /\ remaining' = remaining
        /\ scheduled' = scheduled /\ isolates' = isolates /\ most' = most
        /\ phase' \in {"returned", "dispatch"} /\ work = Collect(met) /\ phase = "schedule"
        /\ met' = met /\ late' = late /\ counted' = counted
    BY <1>2 DEF Dispatch, inputs, WorkInv
  <2>2. Inputs' /\ Due' = Due /\ Answers' = Answers /\ (Batch => Batch')
    BY <2>1 DEF Inputs, Due, Answers, Batch
  <2>3. Chosen = Answers
    BY <2>1 DEF Chosen, Answers
  <2>4. PICK w \in Answers : work' = Slice(w, remaining)
    BY <1>2, <2>3 DEF Dispatch
  <2>5. Served'
    BY <2>1, <2>2, <2>4 DEF Served
  <2>6. work' \in Seq(Due)
    <3>1. w \in Seq(Due) /\ IsInjective(w)
      BY AnswersTyped DEF WorkInv
    <3>2. remaining \in Nat
      BY DEF Inputs, GenerationAssumption
    <3> QED BY <2>4, <3>1, <3>2, SliceFacts
  <2> QED BY <2>1, <2>2, <2>5, <2>6 DEF WorkInv
<1>3. CASE ~CollectWork /\ ~Dispatch
  <2>1. /\ inputs' = inputs /\ met' = met /\ work' = work /\ late' = late
        /\ (counted' => phase' = "returned" /\ ~late)
        /\ \/ phase' = phase \/ phase' = "raised" \/ (phase = "dispatch" /\ phase' = "returned")
    <3>1. CASE Gather \/ RunnerDone
      <4>1. CASE Gather
        <5>1. late => MayCount = {FALSE}
          BY DEF MayCount
        <5>2. phase' = "raised" => ~counted'
          BY <4>1 DEF Gather
        <5>3. phase' \in {"raised", "returned"} /\ (phase' = "returned" /\ late => ~counted')
          BY <4>1, <5>1 DEF Gather
        <5>4. /\ inputs' = inputs /\ met' = met /\ work' = work /\ late' = late
              /\ phase = "dispatch"
          BY <4>1 DEF Gather
        <5> QED BY ONLY <5>2, <5>3, <5>4
      <4>2. CASE RunnerDone
        BY <4>2 DEF RunnerDone, workVars, WorkInv
      <4> QED BY <3>1, <4>1, <4>2
    <3>2. ASSUME NEW i \in DOMAIN at, Worker(i) \/ Announce(i)
          PROVE  /\ inputs' = inputs /\ workVars' = workVars
                 /\ phase' = phase \/ (phase = "dispatch" /\ phase' = "raised")
      BY <3>2 DEF Worker, Start, Resume, Finish, Announce
    <3>3. CASE CancelRun
      BY <3>3 DEF CancelRun, CancelTurn, workVars, WorkInv
    <3>4. CASE Stream
      BY <3>4 DEF Stream, Pull, Get, Wake, Join, Closed, workVars, WorkInv
    <3>5. CASE Close
      BY <3>5 DEF Close, CancelTurn, workVars, WorkInv
    <3>6. CASE UNCHANGED vars
      BY <3>6 DEF vars, workVars, WorkInv
    <3>7. CASE \E i \in DOMAIN at : Worker(i) \/ Announce(i)
      <4>1. /\ inputs' = inputs /\ workVars' = workVars
            /\ phase' = phase \/ (phase = "dispatch" /\ phase' = "raised")
        BY <3>2, <3>7
      <4> QED BY <4>1 DEF workVars, WorkInv
    <3> QED BY <1>3, <3>1, <3>3, <3>4, <3>5, <3>6, <3>7 DEF Next, Run
  <2> QED BY <2>1, WorkKept
<1> QED
  BY <1>1, <1>2, <1>3

(* The invariant has the property: Served is what the dispatch establishes. *)
LEMMA WorkServes ==
  ASSUME WorkListAssumption, GenerationAssumption, Inputs, WorkInv
  PROVE  DueIsServed
BY ServedFacts DEF WorkInv, DueIsServed

(* WorkInv is an invariant. *)
LEMMA WorkAlways == Spec => [](Inputs /\ WorkInv)
<1>1. Init => Inputs /\ WorkInv
  BY WorkFirst
<1>2. Inputs /\ WorkInv /\ [Next]_vars => (Inputs /\ WorkInv)'
  BY WorkListAssumption, GenerationAssumption, WorkStep
<1> QED
  BY <1>1, <1>2, PTL DEF Spec

(* A generation runs what its batch asks for, once, in the order of          *)
(* priority, and loses nothing but to max_runs, to the rules and rank_limit  *)
(* of a Scheduler, and to the deadline, and then it applies nothing          *)
(* (_arun_once_impl, Scheduler.run), for any agents, priorities and batch.   *)
THEOREM SpecServesDue == Spec => []DueIsServed
<1>1. Inputs /\ WorkInv => DueIsServed
  BY WorkListAssumption, GenerationAssumption, WorkServes
<1> QED
  BY <1>1, WorkAlways, PTL

(* The setting of the semaphores holds all along. *)
LEMMA SettingAlways == Spec => []Setting
<1>1. Inputs /\ WorkInv => Setting
  BY WorkListAssumption, GenerationAssumption, SettingHolds
<1> QED
  BY <1>1, WorkAlways, PTL

-----------------------------------------------------------------------------
(* The semaphores *)

(* Sound and InTurn depend on the work and the inputs as well, which most    *)
(* steps leave alone.                                                        *)
LEMMA Carried ==
  ASSUME work' = work, inputs' = inputs
  PROVE  /\ Sound(at', got', free', line') => Sound(at, got, free, line)'
         /\ InTurn(at') => InTurn(at)'
<1>1. most' = most
  BY DEF inputs
<1>2. Workers' = Workers /\ Sems' = Sems /\ Sequential' = Sequential
  BY <1>1 DEF Workers, Sems, Sequential, AgentOf
<1>3. \A i : Needs(i)' = Needs(i)
  BY <1>1 DEF Needs, AgentOf
<1>4. \A s : Slots(s)' = Slots(s)
  BY <1>1 DEF Slots
<1>5. Typed(at', got', free', line') => Typed(at, got, free, line)'
  BY <1>2 DEF Typed
<1>6. Placed(at', got') => Placed(at, got)'
  BY <1>2, <1>3 DEF Placed
<1>7. Lined(at', got', line') => Lined(at, got, line)'
  BY <1>2, <1>3 DEF Lined
<1>8. Balanced(at', got', free') => Balanced(at, got, free)'
  <2>1. \A s : Users(at', got', s) = Users(at, got, s)'
    BY <1>2, <1>3 DEF Users, Uses
  <2> QED BY <1>2, <1>4, <2>1 DEF Balanced
<1>9. InTurn(at') => InTurn(at)'
  BY <1>2 DEF InTurn
<1> QED
  BY <1>5, <1>6, <1>7, <1>8, <1>9 DEF Sound

(* The dispatch makes the semaphores with all their slots free. *)
LEMMA FreshSound ==
  ASSUME Setting', at' = [i \in DOMAIN work' |-> "new"], got' = [i \in DOMAIN work' |-> 0],
         free' = [s \in Sems' |-> IF s = Global THEN most' ELSE s],
         line' = [s \in Sems' |-> <<>>]
  PROVE  Sound(at, got, free, line)' /\ InTurn(at)'
<1>1. Workers' = DOMAIN work'
  BY DEF Workers
<1>2. \A i \in Workers' : at'[i] = "new" /\ got'[i] = 0
  BY <1>1
<1>3. \A s \in Sems' : free'[s] = Slots(s)' /\ line'[s] = <<>> /\ Slots(s)' \in Nat
  BY DEF Slots, Setting
<1>4. Typed(at, got, free, line)'
  <2>1. at' \in [Workers' -> Stages] /\ got' \in [Workers' -> Nat]
    BY <1>1 DEF Stages
  <2>2. free' \in [Sems' -> Nat]
    BY <1>3
  <2>3. line' \in [Sems' -> Seq(Workers')]
    OBVIOUS
  <2> QED BY <2>1, <2>2, <2>3 DEF Typed, Stages, Over
<1>5. Placed(at, got)'
  <2>1. \A i \in Workers' : Len(Needs(i)') \in Nat
    BY DEF Setting
  <2> QED BY <1>2, <2>1 DEF Placed, Waiting
<1>6. Lined(at, got, line)'
  <2>1. ToSet(<<>>) = {} /\ IsInjective(<<>>)
    BY DEF ToSet, IsInjective
  <2> QED BY <1>2, <1>3, <2>1 DEF Lined, Waiting
<1>7. Balanced(at, got, free)'
  <2> SUFFICES ASSUME NEW s \in Sems' PROVE free'[s] + Cardinality(Users(at, got, s)') = Slots(s)'
    BY DEF Balanced
  <2>1. Users(at, got, s)' = {}
    <3> SUFFICES ASSUME NEW i \in Workers', Uses(at, got, i, s)' PROVE FALSE
      BY DEF Users, Uses
    <3>1. PICK k \in 1 .. Len(Needs(i)') : k <= got'[i]
      BY <1>2 DEF Uses
    <3>2. Len(Needs(i)') \in Nat /\ got'[i] = 0
      BY <1>2 DEF Setting
    <3> QED BY <3>1, <3>2
  <2>2. Cardinality(Users(at, got, s)') = 0
    BY <2>1, FS_EmptySet
  <2>3. free'[s] = Slots(s)' /\ Slots(s)' \in Nat
    BY <1>3
  <2> QED BY <2>2, <2>3
<1>8. InTurn(at)'
  BY <1>2 DEF InTurn
<1> QED
  BY <1>4, <1>5, <1>6, <1>7, <1>8 DEF Sound

(* In a sequential dispatch nobody needs a semaphore. *)
LEMMA SequentialHolds ==
  ASSUME Setting, Sound(at, got, free, line), Sequential, NEW i \in Workers
  PROVE  got[i] = 0 /\ Len(Needs(i)) = 0 /\ at[i] \notin Waiting
<1>1. Len(Needs(i)) = 0
  BY DEF Setting
<1>2. got[i] \in Nat /\ got[i] <= Len(Needs(i)) /\ (at[i] \in Waiting => got[i] < Len(Needs(i)))
  BY DEF Sound, Typed, Placed
<1> QED
  BY <1>1, <1>2

(* In a sequential dispatch a worker starts when those before it are over,   *)
(* and none that is over goes on.                                            *)
LEMMA WorkerInTurn ==
  ASSUME Setting, Sound(at, got, free, line), InTurn(at), NEW i \in Workers, Worker(i)
  PROVE  InTurn(at')
<1> SUFFICES ASSUME Sequential, NEW k \in Workers, NEW j \in Workers, j < k, at'[k] # "new"
             PROVE  at'[j] \in Over
  BY DEF InTurn
<1>0. \A x, y \in Workers : y < x /\ at[x] # "new" => at[y] \in Over
  BY DEF InTurn
<1>1. at \in [Workers -> Stages] /\ i \in Nat /\ j \in Nat /\ Workers \in SUBSET Nat
  BY DEF Sound, Typed, Setting
<1>2. CASE Start(i)
  <2>1. /\ at[i] = "new" /\ (\A x \in 1 .. i - 1 : at[x] \in Over)
        /\ \A x \in Workers \ {i} : at'[x] = at[x]
    BY <1>1, <1>2 DEF Start, GoOn
  <2>2. CASE k = i
    <3>1. j \in 1 .. i - 1 /\ j # i
      <4>1. j # 0
        BY DEF Setting
      <4> QED BY <1>1, <2>2, <4>1
    <3> QED BY <2>1, <3>1
  <2>3. CASE k # i
    <3>1. at[j] \in Over
      BY <1>0, <2>1, <2>3
    <3>2. j # i
      BY <2>1, <3>1 DEF Over
    <3> QED BY <2>1, <3>1, <3>2
  <2> QED BY <2>2, <2>3
<1>3. CASE Resume(i)
  BY <1>3, SequentialHolds DEF Resume, Waiting
<1>4. ASSUME NEW end \in Over, Finish(i, end) PROVE at'[j] \in Over
  <2>1. Release(i, end)
    BY <1>4 DEF Finish
  <2>2. got[i] = 0
    BY SequentialHolds
  <2>3. {Needs(i)[x] : x \in 1 .. got[i]} = {}
    BY <2>2
  <2>4. at' = [x \in Workers |-> IF x = i THEN end ELSE at[x]]
    BY <2>1, <2>3 DEF Release
  <2>5. at[i] # "new"
    BY <1>4 DEF Finish
  <2>6. at[k] # "new"
    BY <2>4, <2>5
  <2> QED BY <1>0, <2>4, <2>6
<1> QED
  BY <1>2, <1>3, <1>4 DEF Worker

(* Before the dispatch there are no semaphores. *)
LEMMA SemFirst ==
  ASSUME Init
  PROVE  SemInv
BY DEF Init, SemInv, Idle

(* A worker that has begun and is not over is seen only while the generation *)
(* dispatches.                                                               *)
LEMMA Unbusy ==
  ASSUME SemInv, NEW i \in DOMAIN at
  PROVE  /\ Sound(at, got, free, line) /\ InTurn(at) /\ i \in Workers
         /\ at[i] \notin Over \cup {"new"} => phase = "dispatch"
<1>1. ~Idle
  BY DEF Idle
<1>2. Sound(at, got, free, line) /\ InTurn(at)
  BY <1>1 DEF SemInv
<1>3. DOMAIN at = Workers
  BY <1>2 DEF Sound, Typed
<1>4. at[i] \notin Over \cup {"new"} => phase = "dispatch"
  BY DEF SemInv
<1> QED
  BY <1>2, <1>3, <1>4

(* In a sequential dispatch at most one worker runs. *)
LEMMA AtMostOne ==
  ASSUME Setting, Sound(at, got, free, line), InTurn(at), Sequential,
         NEW i \in Workers, at[i] = "running", NEW j \in Workers, j # i
  PROVE  at[j] \in Over \cup {"new"}
<1>1. i \in Nat /\ j \in Nat
  BY DEF Setting
<1>2. CASE j < i
  BY <1>2 DEF InTurn
<1>3. CASE i < j
  BY <1>3 DEF InTurn, Over
<1> QED
  BY <1>1, <1>2, <1>3

(* Steps that touch neither semaphores nor workers keep the invariant, those *)
(* to the end of the dispatch included.                                      *)
LEMMA SemQuiet ==
  ASSUME SemInv, inputs' = inputs, work' = work, semVars' = semVars,
         \/ phase' = phase
         \/ phase' \in {"returned", "raised"} /\ \A i \in DOMAIN at : at[i] \in Over
         \/ phase' \in {"schedule", "raised"} /\ phase \in {"collect", "schedule"}
  PROVE  SemInv'
<1>1. at' = at /\ got' = got /\ free' = free /\ line' = line
  BY DEF semVars
<1>2. Idle => Idle'
  BY <1>1 DEF Idle
<1>3. /\ Sound(at, got, free, line) => Sound(at, got, free, line)'
      /\ InTurn(at) => InTurn(at)'
  BY <1>1, Carried
<1>4. CASE phase' = phase
  BY <1>1, <1>2, <1>3, <1>4 DEF SemInv
<1>5. CASE phase' \in {"returned", "raised"} /\ \A i \in DOMAIN at : at[i] \in Over
  BY <1>1, <1>2, <1>3, <1>5 DEF SemInv
<1>6. CASE phase' \in {"schedule", "raised"} /\ phase \in {"collect", "schedule"}
  <2>1. Idle
    BY <1>6 DEF SemInv
  <2>2. Idle'
    BY <1>2, <2>1
  <2>3. DOMAIN at' = {}
    BY <2>2 DEF Idle
  <2> QED BY <1>6, <2>2, <2>3 DEF SemInv
<1> QED
  BY <1>4, <1>5, <1>6

(* So do the steps of a worker; when one in a sequential dispatch raises,    *)
(* nobody else has begun.                                                    *)
LEMMA SemWorker ==
  ASSUME Setting, SemInv, NEW i \in DOMAIN at, Worker(i)
  PROVE  SemInv'
<1>1. Sound(at, got, free, line) /\ InTurn(at) /\ i \in Workers
  BY Unbusy
<1>2. inputs' = inputs /\ work' = work
  BY DEF Worker, Start, Resume, Finish, workVars
<1>3. phase = "dispatch"
  BY Unbusy DEF Worker, Start, Resume, Finish, Over
<1>4. Sound(at', got', free', line')
  <2>1. CASE Start(i)
    BY <1>1, <2>1, StartSound
  <2>2. CASE Resume(i)
    BY <1>1, <2>2, ResumeSound
  <2>3. ASSUME NEW end \in Over, Finish(i, end) PROVE Sound(at', got', free', line')
    BY <1>1, <2>3, ReleaseSound DEF Finish
  <2> QED BY <2>1, <2>2, <2>3 DEF Worker
<1>5. InTurn(at')
  BY <1>1, WorkerInTurn
<1>6. Sound(at, got, free, line)' /\ InTurn(at)'
  BY <1>2, <1>4, <1>5, Carried
<1>7. CASE phase' = phase
  BY <1>3, <1>6, <1>7 DEF SemInv
<1>8. CASE phase' # phase
  <2>1. PICK end \in Over : Finish(i, end)
    BY <1>8 DEF Worker, Start, Resume
  <2>2. phase' = "raised" /\ Sequential /\ at[i] = "running" /\ Release(i, end)
    BY <1>8, <2>1 DEF Finish
  <2>3. {Needs(i)[x] : x \in 1 .. got[i]} = {}
    <3>1. got[i] = 0
      BY <1>1, <2>2, SequentialHolds
    <3> QED BY <3>1
  <2>4. at' = [x \in Workers |-> IF x = i THEN end ELSE at[x]]
    BY <2>2, <2>3 DEF Release
  <2>5. \A j \in Workers : j # i => at[j] \in Over \cup {"new"}
    BY <1>1, <2>2, AtMostOne
  <2>6. \A j \in DOMAIN at' : at'[j] \in Over \cup {"new"}
    BY <2>4, <2>5
  <2> QED BY <1>6, <2>2, <2>6 DEF SemInv
<1> QED
  BY <1>7, <1>8

(* So does a cancellation. *)
LEMMA SemCancel ==
  ASSUME Setting, SemInv, inputs' = inputs, work' = work, CancelTurn
  PROVE  SemInv'
<1>1. CASE Sequential \/ phase # "dispatch"
  <2>1. semVars' = semVars
    BY <1>1 DEF CancelTurn, semVars
  <2>2. phase' = phase \/ (phase' = "raised" /\ phase \in {"collect", "schedule"})
    BY DEF CancelTurn
  <2> QED BY <2>1, <2>2, SemQuiet
<1>2. CASE ~(Sequential \/ phase # "dispatch")
  <2>1. phase = "dispatch" /\ phase' = phase /\ ~Sequential
    BY <1>2 DEF CancelTurn
  <2>2. Sound(at, got, free, line)
    BY <2>1 DEF SemInv
  <2>3. Sound(at', got', free', line')
    BY <1>2, <2>2, CancelSound DEF CancelTurn
  <2>4. InTurn(at')
    BY <2>1 DEF InTurn
  <2>5. Sound(at, got, free, line)' /\ InTurn(at)'
    BY <2>3, <2>4, Carried
  <2> QED BY <2>1, <2>5 DEF SemInv
<1> QED
  BY <1>1, <1>2

(* So does the dispatch, which makes the semaphores. *)
LEMMA SemDispatch ==
  ASSUME Setting', SemInv, Dispatch
  PROVE  SemInv'
<1>1. /\ at' = [i \in DOMAIN work' |-> "new"] /\ got' = [i \in DOMAIN work' |-> 0]
      /\ free' = [s \in Sems' |-> IF s = Global THEN most ELSE s]
      /\ line' = [s \in Sems' |-> <<>>] /\ most' = most
      /\ phase' \in {"returned", "dispatch"}
  BY DEF Dispatch, inputs
<1>2. Sound(at, got, free, line)' /\ InTurn(at)'
  BY <1>1, FreshSound
<1>3. \A i \in DOMAIN at' : at'[i] \in Over \cup {"new"}
  BY <1>1
<1> QED
  BY <1>1, <1>2, <1>3 DEF SemInv

(* Every step keeps SemInv. *)
LEMMA SemStep ==
  ASSUME Setting, Setting', SemInv, [Next]_vars
  PROVE  SemInv'
<1>1. CASE CollectWork
  <2>1. inputs' = inputs /\ semVars' = semVars /\ phase = "collect" /\ phase' = "schedule"
    BY <1>1 DEF CollectWork
  <2>2. Idle /\ Idle'
    BY <2>1 DEF SemInv, Idle, semVars
  <2>3. DOMAIN at' = {}
    BY <2>2 DEF Idle
  <2> QED BY <2>1, <2>2, <2>3 DEF SemInv
<1>2. CASE Dispatch
  BY <1>2, SemDispatch
<1>3. CASE Gather
  <2>1. DOMAIN at = Workers
    BY <1>3 DEF Gather, SemInv, Sound, Typed
  <2>2. /\ inputs' = inputs /\ work' = work /\ semVars' = semVars
        /\ phase' \in {"returned", "raised"} /\ \A i \in DOMAIN at : at[i] \in Over
    BY <1>3, <2>1 DEF Gather
  <2> QED BY <2>2, SemQuiet
<1>4. ASSUME NEW i \in DOMAIN at, Worker(i) PROVE SemInv'
  BY <1>4, SemWorker
<1>5. CASE CancelRun
  BY <1>5, SemCancel DEF CancelRun, workVars
<1>6. CASE Close
  <2>1. CASE Ended
    BY <1>6, <2>1, SemQuiet DEF Close, workVars
  <2>2. CASE ~Ended
    BY <1>6, <2>2, SemCancel DEF Close, workVars
  <2> QED BY <2>1, <2>2
<1>7. CASE RunnerDone \/ Stream \/ UNCHANGED vars \/ \E i \in DOMAIN at : Announce(i)
  <2>1. inputs' = inputs /\ work' = work /\ semVars' = semVars /\ phase' = phase
    BY <1>7 DEF RunnerDone, Stream, Pull, Get, Wake, Join, Closed, Announce, vars, workVars
  <2> QED BY <2>1, SemQuiet
<1> QED
  BY <1>1, <1>2, <1>3, <1>4, <1>5, <1>6, <1>7 DEF Next, Run

(* A running worker uses a slot of each semaphore it needs, and there are no *)
(* more slots than the limit: the property follows from the balance of each  *)
(* semaphore.                                                                *)
LEMMA SemLimits ==
  ASSUME WorkListAssumption, GenerationAssumption, Inputs, WorkInv, Setting, SemInv
  PROVE  RunningWithinLimits
<1>1. CASE Idle
  <2>1. Running = {}
    BY <1>1 DEF Idle, Running
  <2>2. Cardinality({}) = 0 /\ \A l : {i \in {} : Limit[AgentOf(i)] = l} = {}
    BY FS_EmptySet
  <2>3. most \in Nat /\ Sems \subseteq Nat
    BY WorkTyped DEF Setting
  <2> QED BY <2>1, <2>2, <2>3 DEF RunningWithinLimits
<1>2. CASE Sound(at, got, free, line) /\ InTurn(at)
  <2>1. Running \subseteq Workers /\ \A i \in Running : at[i] = "running"
    BY <1>2 DEF Running, Sound, Typed
  <2>2. \A i \in Running : got[i] = Len(Needs(i))
    BY <1>2, <2>1 DEF Sound, Placed
  <2>3. ASSUME phase # "dispatch" PROVE Running = {}
    BY <2>1, <2>3 DEF SemInv, Running, Over
  <2>4. ASSUME NEW s \in Sems, NEW R \in SUBSET Running,
               \A i \in R : \E k \in 1 .. Len(Needs(i)) : Needs(i)[k] = s
        PROVE  Cardinality(R) <= Slots(s)
    <3>1. R \in SUBSET Users(at, got, s)
      <4> SUFFICES ASSUME NEW i \in R PROVE i \in Workers /\ Uses(at, got, i, s)
        BY UsersAre
      <4>1. got[i] = Len(Needs(i)) /\ i \in Workers /\ Len(Needs(i)) \in Nat
        BY <2>1, <2>2 DEF Setting
      <4> QED BY <2>4, <4>1 DEF Uses
    <3>2. IsFiniteSet(Users(at, got, s)) /\ Cardinality(Users(at, got, s)) \in Nat
      BY UsersFinite
    <3>3. Cardinality(R) <= Cardinality(Users(at, got, s)) /\ IsFiniteSet(R)
      BY <3>1, <3>2, FS_Subset
    <3>4. Cardinality(R) \in Nat
      BY <3>3, FS_CardinalityType
    <3>5. free[s] \in Nat /\ free[s] + Cardinality(Users(at, got, s)) = Slots(s)
      BY <1>2 DEF Sound, Typed, Balanced
    <3> QED BY <3>2, <3>3, <3>4, <3>5
  <2>5. ASSUME most > 0 PROVE Cardinality(Running) <= most
    <3>1. Global \in Sems /\ Slots(Global) = most
      BY DEF Sems, Slots
    <3>2. ASSUME NEW i \in Running PROVE \E k \in 1 .. Len(Needs(i)) : Needs(i)[k] = Global
      <4> DEFINE t == IF Limit[AgentOf(i)] > 0 THEN <<Limit[AgentOf(i)]>> ELSE <<>>
      <4>1. Needs(i) = t \o <<Global>>
        BY <2>5 DEF Needs
      <4>2. Limit[AgentOf(i)] \in Nat
        BY <2>1, WorkTyped
      <4>3. t \in Seq(Nat) /\ Len(t) \in {0, 1} /\ <<Global>> \in Seq(Nat)
        BY <4>2 DEF Global
      <4> HIDE DEF t
      <4>4. Len(Needs(i)) = Len(t) + 1 /\ Needs(i)[Len(t) + 1] = Global
        BY <4>1, <4>3
      <4> QED BY <4>3, <4>4
    <3> QED BY <2>4, <3>1, <3>2
  <2>6. ASSUME NEW l \in Sems \ {Global}
        PROVE  Cardinality({i \in Running : Limit[AgentOf(i)] = l}) <= l
    <3> DEFINE R == {i \in Running : Limit[AgentOf(i)] = l}
    <3>1. Slots(l) = l /\ l \in Nat /\ l > 0
      BY DEF Slots, Setting, Global
    <3>2. ASSUME NEW i \in R PROVE \E k \in 1 .. Len(Needs(i)) : Needs(i)[k] = l
      <4> DEFINE g == IF most > 0 THEN <<Global>> ELSE <<>>
      <4>1. Needs(i) = <<l>> \o g
        BY <3>1 DEF Needs
      <4>2. g \in Seq(Nat) /\ Len(g) \in {0, 1} /\ <<l>> \in Seq(Nat) /\ Len(<<l>>) = 1
        BY <3>1 DEF Global
      <4> HIDE DEF g
      <4>3. Len(Needs(i)) = 1 + Len(g) /\ Needs(i)[1] = l
        BY <4>1, <4>2
      <4> QED BY <4>2, <4>3
    <3>3. R \in SUBSET Running
      OBVIOUS
    <3> HIDE DEF R
    <3>4. Cardinality(R) <= Slots(l)
      BY <2>4, <3>2, <3>3
    <3> QED BY <3>1, <3>4 DEF R
  <2>7. ASSUME Sequential PROVE Cardinality(Running) <= 1
    <3>1. CASE Running = {}
      BY <3>1, FS_EmptySet
    <3>2. CASE Running # {}
      <4>1. PICK i \in Running : TRUE
        BY <3>2
      <4>2. Running = {i}
        BY <1>2, <2>1, <2>7, AtMostOne DEF Over
      <4>3. Cardinality({i}) = 1
        BY FS_Singleton
      <4> QED BY <4>2, <4>3
    <3> QED BY <3>1, <3>2
  <2> QED BY <2>3, <2>5, <2>6, <2>7 DEF RunningWithinLimits
<1> QED
  BY <1>1, <1>2 DEF SemInv

(* SemInv is an invariant. *)
LEMMA SemAlways == Spec => []SemInv
<1>1. Init => SemInv
  BY SemFirst
<1>2. Setting /\ Setting' /\ SemInv /\ [Next]_vars => SemInv'
  BY SemStep
<1> QED
  BY <1>1, <1>2, SettingAlways, PTL DEF Spec

(* No generation runs more agents than max_concurrency, more of one limit    *)
(* than that limit, or more than one when nothing is limited, whatever fails *)
(* and whoever cancels it; and none runs once the generation is over         *)
(* (_dispatch).                                                              *)
THEOREM SpecKeepsLimits == Spec => []RunningWithinLimits
<1>1. Inputs /\ WorkInv /\ Setting /\ SemInv => RunningWithinLimits
  BY WorkListAssumption, GenerationAssumption, SemLimits
<1> QED
  BY <1>1, WorkAlways, SettingAlways, SemAlways, PTL

-----------------------------------------------------------------------------
(* Queues *)

(* OrderedAs is transitive. *)
LEMMA OrderedTransitive ==
  ASSUME NEW d, NEW q, NEW s, OrderedAs(d, q), OrderedAs(q, s)
  PROVE  OrderedAs(d, s)
<1> SUFFICES ASSUME NEW m \in DOMAIN d, NEW n \in DOMAIN d, m < n
             PROVE  \E j, k \in DOMAIN s : j < k /\ s[j] = d[m] /\ s[k] = d[n]
  BY DEF OrderedAs
<1>1. PICK x, y \in DOMAIN q : x < y /\ q[x] = d[m] /\ q[y] = d[n]
  BY DEF OrderedAs
<1>2. PICK j, k \in DOMAIN s : j < k /\ s[j] = q[x] /\ s[k] = q[y]
  BY <1>1 DEF OrderedAs
<1> QED
  BY <1>1, <1>2

(* What is appended to both keeps the order. *)
LEMMA OrderedAppend ==
  ASSUME NEW S, NEW q \in Seq(S), NEW s \in Seq(S), NEW x \in S,
         OrderedAs(q, s), ToSet(q) \subseteq ToSet(s)
  PROVE  OrderedAs(Append(q, x), Append(s, x))
<1> DEFINE p == Append(q, x)
           t == Append(s, x)
<1>1. PICK l \in Nat : l = Len(q)
  OBVIOUS
<1>2. PICK o \in Nat : o = Len(s)
  OBVIOUS
<1>3. /\ DOMAIN p = 1 .. l + 1 /\ DOMAIN q = 1 .. l /\ p[l + 1] = x
      /\ \A i \in 1 .. l : p[i] = q[i]
  BY <1>1
<1>4. /\ DOMAIN t = 1 .. o + 1 /\ DOMAIN s = 1 .. o /\ t[o + 1] = x
      /\ \A i \in 1 .. o : t[i] = s[i]
  BY <1>2
<1> HIDE DEF p, t
<1>s. SUFFICES ASSUME NEW m \in DOMAIN p, NEW n \in DOMAIN p, m < n
               PROVE  \E j, k \in DOMAIN t : j < k /\ t[j] = p[m] /\ t[k] = p[n]
  <2>1. OrderedAs(p, t) <=> \A m, n \in DOMAIN p : m < n =>
          \E j, k \in DOMAIN t : j < k /\ t[j] = p[m] /\ t[k] = p[n]
    BY DEF OrderedAs
  <2> QED BY <2>1 DEF p, t
<1>5. m \in 1 .. l /\ p[m] = q[m]
  <2>1. m \in 1 .. l
    BY <1>3, <1>s
  <2> QED BY <1>3, <2>1
<1>6. CASE n \in 1 .. l
  <2>0. m \in DOMAIN q /\ n \in DOMAIN q
    BY <1>3, <1>5, <1>6
  <2>1. PICK j, k \in DOMAIN s : j < k /\ s[j] = q[m] /\ s[k] = q[n]
    BY <1>s, <2>0 DEF OrderedAs
  <2>2. j \in 1 .. o + 1 /\ k \in 1 .. o + 1 /\ j \in 1 .. o /\ k \in 1 .. o
    BY <1>4
  <2> QED BY <1>3, <1>4, <1>5, <1>6, <2>1, <2>2
<1>7. CASE n = l + 1
  <2>1. PICK j \in 1 .. o : s[j] = q[m]
    BY <1>3, <1>4, <1>5 DEF ToSet
  <2>2. j \in 1 .. o + 1 /\ o + 1 \in 1 .. o + 1 /\ j < o + 1
    OBVIOUS
  <2> QED BY <1>3, <1>4, <1>5, <1>7, <2>1, <2>2
<1>8. n \in 1 .. l \/ n = l + 1
  BY <1>3
<1> QED
  BY <1>6, <1>7, <1>8

(* What is ordered as a sequence without repetitions repeats nothing. *)
LEMMA OrderedInjective ==
  ASSUME NEW S, NEW q \in Seq(S), NEW s \in Seq(S), OrderedAs(q, s), IsInjective(s)
  PROVE  IsInjective(q)
<1> SUFFICES ASSUME NEW m \in DOMAIN q, NEW n \in DOMAIN q, m < n, q[m] = q[n] PROVE FALSE
  <2>1. \A m, n \in DOMAIN q : m = n \/ m < n \/ n < m
    BY DOMAIN q = 1 .. Len(q)
  <2> QED BY <2>1 DEF IsInjective
<1>1. PICK j, k \in DOMAIN s : j < k /\ s[j] = q[m] /\ s[k] = q[n]
  BY DEF OrderedAs
<1>2. j = k
  BY <1>1 DEF IsInjective
<1>3. j \in Int
  <2>1. DOMAIN s = 1 .. Len(s)
    OBVIOUS
  <2> QED BY <2>1
<1> QED
  BY <1>1, <1>2, <1>3

(* Appending to the second part of a concatenation appends to it. *)
LEMMA ConcatAppend ==
  ASSUME NEW S, NEW p \in Seq(S), NEW h \in Seq(S), NEW x \in S
  PROVE  p \o Append(h, x) = Append(p \o h, x)
<1>1. PICK l \in Nat : l = Len(p)
  OBVIOUS
<1>2. PICK o \in Nat : o = Len(h)
  OBVIOUS
<1> DEFINE a == p \o Append(h, x)
           b == Append(p \o h, x)
<1>3. Append(h, x) \in Seq(S) /\ Len(Append(h, x)) = o + 1 /\ p \o h \in Seq(S) /\ Len(p \o h) = l + o
  BY <1>1, <1>2
<1>4. a \in Seq(S) /\ b \in Seq(S) /\ Len(a) = l + (o + 1) /\ Len(b) = (l + o) + 1
  BY <1>1, <1>2, <1>3
<1>5. ASSUME NEW i \in 1 .. l + o + 1 PROVE a[i] = b[i]
  <2>1. CASE i <= l
    <3>1. a[i] = p[i]
      BY <1>1, <1>3, <2>1
    <3>2. b[i] = (p \o h)[i]
      BY <1>3, <2>1
    <3> QED BY <1>1, <1>2, <2>1, <3>1, <3>2
  <2>2. CASE l < i /\ i <= l + o
    <3>0. i - l \in 1 .. o
      BY <2>2
    <3>1. a[i] = Append(h, x)[i - l]
      BY <1>1, <1>3, <2>2, <3>0
    <3>2. Append(h, x)[i - l] = h[i - l]
      BY <1>2, <3>0
    <3>3. b[i] = (p \o h)[i]
      BY <1>3, <2>2
    <3>4. (p \o h)[i] = h[i - l]
      BY <1>1, <1>2, <2>2, <3>0
    <3> QED BY <3>1, <3>2, <3>3, <3>4
  <2>3. CASE i = l + o + 1
    <3>1. a[i] = Append(h, x)[o + 1]
      BY <1>1, <1>3, <2>3
    <3>2. Append(h, x)[o + 1] = x /\ b[i] = x
      BY <1>2, <1>3, <2>3
    <3> QED BY <3>1, <3>2
  <2>4. i <= l \/ (l < i /\ i <= l + o) \/ i = l + o + 1
    OBVIOUS
  <2> HIDE DEF a, b
  <2> QED BY <2>1, <2>2, <2>3, <2>4
<1> HIDE DEF a, b
<1>6. DOMAIN a = 1 .. l + o + 1 /\ DOMAIN b = 1 .. l + o + 1
  BY <1>4
<1>7. a = b
  BY <1>4, <1>5, <1>6
<1> QED
  BY <1>7 DEF a, b

(* What the head and the tail of a queue are. *)
LEMMA TailFacts ==
  ASSUME NEW S, NEW h \in Seq(S), h # <<>>
  PROVE  /\ Tail(h) \in Seq(S) /\ Head(h) \in S /\ Head(h) \in ToSet(h)
         /\ Len(h) \in Nat \ {0} /\ Len(Tail(h)) = Len(h) - 1
         /\ Head(h) = h[1] /\ \A i \in 1 .. Len(h) - 1 : Tail(h)[i] = h[i + 1]
         /\ ToSet(Tail(h)) \subseteq ToSet(h)
<1>1. PICK l \in Nat : l = Len(h) /\ l # 0
  OBVIOUS
<1>2. /\ Tail(h) \in Seq(S) /\ Head(h) \in S /\ Len(Tail(h)) = l - 1 /\ Head(h) = h[1]
      /\ \A i \in 1 .. l - 1 : Tail(h)[i] = h[i + 1]
      /\ DOMAIN h = 1 .. l /\ DOMAIN Tail(h) = 1 .. l - 1
  BY <1>1
<1>3. Head(h) \in ToSet(h)
  BY <1>1, <1>2 DEF ToSet
<1>4. ToSet(Tail(h)) \subseteq ToSet(h)
  <2>1. \A i \in 1 .. l - 1 : i + 1 \in 1 .. l
    OBVIOUS
  <2> QED BY <1>2, <2>1 DEF ToSet
<1> QED
  BY <1>1, <1>2, <1>3, <1>4

(* What is left of p \o h when the head of h goes: all but that, in order. *)
LEMMA DropFacts ==
  ASSUME NEW S, NEW p \in Seq(S), NEW h \in Seq(S), h # <<>>, IsInjective(p \o h)
  PROVE  /\ p \o Tail(h) \in Seq(S)
         /\ OrderedAs(p \o Tail(h), p \o h)
         /\ ToSet(p \o Tail(h)) = ToSet(p \o h) \ {Head(h)}
<1>1. PICK l \in Nat : l = Len(p)
  OBVIOUS
<1>2. PICK o \in Nat : o = Len(h) /\ o # 0
  BY TailFacts
<1> DEFINE q == p \o h
           d == p \o Tail(h)
<1>3. /\ Tail(h) \in Seq(S) /\ Len(Tail(h)) = o - 1 /\ Head(h) = h[1]
      /\ \A i \in 1 .. o - 1 : Tail(h)[i] = h[i + 1]
  BY <1>2, TailFacts
<1>4. /\ q \in Seq(S) /\ Len(q) = l + o /\ DOMAIN q = 1 .. l + o
      /\ \A i \in 1 .. l : q[i] = p[i]
      /\ q[l + 1] = Head(h)
  <2>1. q \in Seq(S) /\ Len(q) = l + o
    BY <1>1, <1>2
  <2>2. \A i \in 1 .. l : q[i] = p[i]
    BY <1>1, <1>2
  <2>3. q[l + 1] = h[1]
    BY <1>1, <1>2
  <2> HIDE DEF q
  <2> QED BY <1>3, <2>1, <2>2, <2>3
<1>5. \A i \in 1 .. o : q[l + i] = h[i]
  BY <1>1, <1>2
<1>6. /\ d \in Seq(S) /\ DOMAIN d = 1 .. l + o - 1
      /\ \A i \in 1 .. l : d[i] = p[i]
      /\ \A i \in 1 .. o - 1 : d[l + i] = Tail(h)[i]
  <2>1. d \in Seq(S) /\ Len(d) = l + (o - 1)
    BY <1>1, <1>3
  <2>2. \A i \in 1 .. l : d[i] = p[i]
    BY <1>1, <1>3
  <2>3. \A i \in 1 .. o - 1 : d[l + i] = Tail(h)[i]
    BY <1>1, <1>3
  <2>4. l + (o - 1) = l + o - 1
    OBVIOUS
  <2> HIDE DEF d
  <2>5. DOMAIN d = 1 .. l + o - 1
    BY <2>1, <2>4
  <2> QED BY <2>1, <2>2, <2>3, <2>5
<1> HIDE DEF q, d
<1> DEFINE from(i) == IF i <= l THEN i ELSE i + 1
<1>7. ASSUME NEW i \in 1 .. l + o - 1
      PROVE  from(i) \in 1 .. l + o /\ d[i] = q[from(i)] /\ from(i) # l + 1 /\ i \in Int
  <2>1. CASE i <= l
    BY <1>4, <1>6, <2>1
  <2>2. CASE ~(i <= l)
    <3>1. i - l \in 1 .. o - 1 /\ l + (i - l) = i /\ (i - l) + 1 \in 1 .. o
          /\ l + ((i - l) + 1) = i + 1
      BY <2>2
    <3>2. d[i] = Tail(h)[i - l]
      BY <1>6, <3>1
    <3>3. q[i + 1] = h[(i - l) + 1]
      BY <1>5, <3>1
    <3> QED BY <1>3, <2>2, <3>1, <3>2, <3>3
  <2> QED BY <2>1, <2>2
<1>8. OrderedAs(d, q)
  <2>1. OrderedAs(d, q) <=> \A m, n \in DOMAIN d : m < n =>
          \E j, k \in DOMAIN q : j < k /\ q[j] = d[m] /\ q[k] = d[n]
    BY DEF OrderedAs
  <2>2. ASSUME NEW m \in DOMAIN d, NEW n \in DOMAIN d, m < n
        PROVE  \E j, k \in DOMAIN q : j < k /\ q[j] = d[m] /\ q[k] = d[n]
    <3>0. m \in 1 .. l + o - 1 /\ n \in 1 .. l + o - 1
      BY <1>6
    <3>1. from(m) < from(n)
      BY <2>2, <3>0
    <3>2. from(m) \in DOMAIN q /\ from(n) \in DOMAIN q /\ d[m] = q[from(m)] /\ d[n] = q[from(n)]
      BY <1>4, <1>7, <3>0
    <3> HIDE DEF from
    <3> QED BY <3>1, <3>2
  <2> QED BY <2>1, <2>2
<1>9. ToSet(d) \subseteq ToSet(q) \ {Head(h)}
  <2> SUFFICES ASSUME NEW i \in 1 .. l + o - 1 PROVE d[i] \in ToSet(q) /\ d[i] # Head(h)
    BY <1>6 DEF ToSet
  <2>1. from(i) \in 1 .. l + o /\ d[i] = q[from(i)] /\ from(i) # l + 1
    BY <1>7
  <2> HIDE DEF from
  <2>2. l + 1 \in DOMAIN q /\ q[l + 1] = Head(h)
    <3>1. l + 1 \in 1 .. l + o
      BY <1>2
    <3> QED BY <1>4, <3>1
  <2>3. IsInjective(q)
    BY DEF q
  <2> QED BY <1>4, <2>1, <2>2, <2>3 DEF ToSet, IsInjective
<1>10. ToSet(q) \ {Head(h)} \subseteq ToSet(d)
  <2> SUFFICES ASSUME NEW k \in 1 .. l + o, q[k] # Head(h) PROVE q[k] \in ToSet(d)
    BY <1>4 DEF ToSet
  <2>1. k # l + 1
    BY <1>4
  <2>2. PICK i \in 1 .. l + o - 1 : from(i) = k
    <3>1. CASE k <= l
      <4>1. k \in 1 .. l + o - 1 /\ from(k) = k
        BY <1>2, <3>1
      <4> QED BY <4>1
    <3>2. CASE ~(k <= l)
      <4>1. k - 1 \in 1 .. l + o - 1 /\ from(k - 1) = k
        BY <1>2, <2>1, <3>2
      <4> QED BY <4>1
    <3> QED BY <3>1, <3>2
  <2>3. d[i] = q[k]
    BY <1>7, <2>2
  <2> QED BY <1>6, <2>3 DEF ToSet
<1> QED
  BY <1>6, <1>8, <1>9, <1>10 DEF q, d

-----------------------------------------------------------------------------
(* The stream *)

(* What has been shown or taken is ahead of what is queued. *)
LEMMA FlowTyped ==
  ASSUME GenerationAssumption, Queued
  PROVE  /\ Ahead \in Seq(Nat) /\ Flow \in Seq(Nat)
         /\ item = None => Ahead = shown
         /\ item # None => Ahead = Append(shown, item)
<1>1. shown \in Seq(Nat) /\ hub \in Seq(Nat) /\ item \in Nat \cup {None}
  BY DEF Queued
<1>2. CASE item = None
  <2>1. Ahead = shown \o <<>>
    BY <1>2 DEF Ahead
  <2>2. shown \o <<>> = shown
    BY <1>1
  <2>3. Ahead \in Seq(Nat) /\ Ahead = shown
    BY <1>1, <2>1, <2>2
  <2> QED BY <1>1, <1>2, <2>3 DEF Flow
<1>3. CASE item # None
  <2>0. item \in Nat
    BY <1>1, <1>3
  <2>1. Ahead = shown \o <<item>>
    BY <1>3 DEF Ahead
  <2>2. shown \o <<item>> = Append(shown, item)
    BY <1>1, <2>0
  <2>3. Ahead \in Seq(Nat) /\ Ahead = Append(shown, item)
    BY <1>1, <2>0, <2>1, <2>2
  <2> QED BY <1>1, <1>3, <2>3 DEF Flow
<1> QED
  BY <1>2, <1>3

(* At first nothing was announced. *)
LEMMA HubFirst ==
  ASSUME Init, GenerationAssumption
  PROVE  HubInv
<1>1. /\ said = <<>> /\ lost = {} /\ hub = <<>> /\ item = None /\ shown = <<>>
      /\ done = FALSE /\ spc = "started"
  BY DEF Init
<1>2. ToSet(<<>>) = {} /\ IsInjective(<<>>) /\ <<>> \in Seq(Nat) /\ Len(<<>>) = 0
  BY DEF ToSet, IsInjective
<1>3. Queued
  BY <1>1, <1>2 DEF Queued, GenerationAssumption
<1>4. Reading
  BY <1>1 DEF Reading
<1>5. Flow = <<>>
  BY <1>1 DEF Flow, Ahead
<1>6. InFlow
  BY <1>1, <1>2, <1>5 DEF InFlow, OrderedAs
<1> QED
  BY <1>3, <1>4, <1>6 DEF HubInv

(* An announcement joins the queue, and pushes the oldest out of it when it  *)
(* is full: that one is lost, and it alone. A worker announces only while    *)
(* the generation dispatches, so not after `done`.                           *)
LEMMA HubAnnounce ==
  ASSUME GenerationAssumption, Setting, SemInv, HubInv, NEW i \in DOMAIN at, Announce(i)
  PROVE  HubInv'
<1>1. /\ said' = Append(said, i) /\ i \notin ToSet(said) /\ at[i] = "running"
      /\ spc \notin {"ended", "failed", "closed"}
      /\ phase' = phase /\ done' = done /\ spc' = spc /\ item' = item /\ shown' = shown
  BY DEF Announce, Subscribed
<1>2. i \in Nat /\ phase = "dispatch"
  BY <1>1, Unbusy DEF Setting, Over
<1>3. ~done /\ spc # "joining"
  BY <1>2 DEF HubInv, Reading, Ended
<1>4. /\ said \in Seq(Nat) /\ IsInjective(said) /\ lost \subseteq ToSet(said)
      /\ hub \in Seq(Nat) /\ Len(hub) <= HubSize /\ ToSet(hub) \subseteq ToSet(said)
      /\ shown \in Seq(Nat) /\ item \in Nat \cup {None} /\ Queued
      /\ HubSize \in Nat \ {0} /\ Len(hub) \in Nat
  BY DEF HubInv, Queued, GenerationAssumption
<1>5. /\ said' \in Seq(Nat) /\ IsInjective(said') /\ ToSet(said') = ToSet(said) \cup {i}
  <2>1. said \in Seq(Nat) /\ i \in Nat /\ IsInjective(said) /\ i \notin ToSet(said)
    BY <1>1, <1>2, <1>4
  <2>2. /\ Append(said, i) \in Seq(Nat) /\ ToSet(Append(said, i)) = ToSet(said) \cup {i}
        /\ IsInjective(Append(said, i))
    BY ONLY <2>1, AppendFacts
  <2> QED BY <1>1, <2>2
<1>6. Reading'
  BY <1>1, <1>3 DEF Reading, HubInv, Ended
<1>7. Ahead' = Ahead /\ Ahead \in Seq(Nat) /\ Flow \in Seq(Nat)
  BY <1>1, <1>4, FlowTyped DEF Ahead
<1> DEFINE open == spc \notin {"closing", "closed"}
<1>8. ASSUME open
      PROVE  ToSet(Flow) = ToSet(said) \ lost /\ OrderedAs(Flow, said) /\ IsInjective(Flow)
  <2>1. ToSet(Flow) = ToSet(said) \ lost /\ OrderedAs(Flow, said)
    BY <1>8 DEF HubInv, InFlow
  <2> QED BY <1>4, <1>7, <2>1, OrderedInjective
<1>9. CASE Len(hub) = HubSize
  <2>1. hub' = Append(Tail(hub), i) /\ lost' = lost \cup {Head(hub)}
    BY <1>9 DEF Announce
  <2>2. hub # <<>>
    BY <1>4, <1>9
  <2>3. /\ Tail(hub) \in Seq(Nat) /\ Head(hub) \in ToSet(hub) /\ ToSet(Tail(hub)) \subseteq ToSet(hub)
        /\ Len(Tail(hub)) = Len(hub) - 1 /\ Head(hub) \in Nat
    BY <1>4, <2>2, TailFacts
  <2>4. /\ hub' \in Seq(Nat) /\ ToSet(hub') = ToSet(Tail(hub)) \cup {i}
    <3>1. i \in Nat
      BY <1>2
    <3>2. PICK t : t = Tail(hub)
      OBVIOUS
    <3>3. t \in Seq(Nat) /\ hub' = Append(t, i)
      BY ONLY <2>1, <2>3, <3>2
    <3>4. Append(t, i) \in Seq(Nat) /\ ToSet(Append(t, i)) = ToSet(t) \cup {i}
      BY ONLY <3>1, <3>3, AppendFacts
    <3> QED BY ONLY <3>2, <3>3, <3>4
  <2>5. Len(hub') = Len(hub)
    BY <1>2, <1>4, <2>1, <2>3
  <2>6. Queued'
    <3>1. lost' \subseteq ToSet(said') /\ ToSet(hub') \subseteq ToSet(said')
      BY <1>4, <1>5, <2>1, <2>3, <2>4
    <3> QED BY <1>1, <1>4, <1>5, <2>4, <2>5, <3>1 DEF Queued
  <2> DEFINE d == Ahead \o Tail(hub)
  <2>7. ASSUME open PROVE ToSet(Flow') = ToSet(said') \ lost' /\ OrderedAs(Flow', said')
    <3>1. Flow = Ahead \o hub /\ IsInjective(Ahead \o hub)
      BY <1>8, <2>7 DEF Flow
    <3>2. d \in Seq(Nat) /\ OrderedAs(d, Flow) /\ ToSet(d) = ToSet(Flow) \ {Head(hub)}
      BY <1>4, <1>7, <2>2, <3>1, DropFacts
    <3>3. Flow' = Append(d, i)
      BY <1>2, <1>7, <2>1, <2>3, ConcatAppend DEF Flow
    <3> HIDE DEF d
    <3>4. OrderedAs(d, said) /\ ToSet(d) \subseteq ToSet(said)
      BY <1>8, <2>7, <3>2, OrderedTransitive
    <3>5. OrderedAs(Flow', said')
      BY <1>1, <1>2, <1>4, <3>2, <3>3, <3>4, OrderedAppend
    <3>6. ToSet(Flow') = ToSet(d) \cup {i}
      BY <1>2, <3>2, <3>3, AppendFacts
    <3>7. ToSet(Flow') = ToSet(said') \ lost'
      <4>1. i \notin lost /\ i # Head(hub)
        BY <1>1, <1>4, <2>3
      <4> QED BY <1>5, <1>8, <2>1, <2>7, <3>2, <3>6, <4>1
    <3> QED BY <3>5, <3>7
  <2> QED BY <1>1, <1>6, <2>6, <2>7 DEF HubInv, InFlow
<1>10. CASE Len(hub) # HubSize
  <2>1. hub' = Append(hub, i) /\ lost' = lost
    BY <1>10 DEF Announce
  <2>2. hub' \in Seq(Nat) /\ ToSet(hub') = ToSet(hub) \cup {i}
    <3>1. hub \in Seq(Nat) /\ i \in Nat
      BY <1>2, <1>4
    <3>2. Append(hub, i) \in Seq(Nat) /\ ToSet(Append(hub, i)) = ToSet(hub) \cup {i}
      BY ONLY <3>1, AppendFacts
    <3> QED BY <2>1, <3>2
  <2>3. Len(hub') <= HubSize
    <3>1. PICK o \in Nat : o = Len(hub)
      BY <1>4
    <3>2. Len(hub') = o + 1
      BY <1>2, <1>4, <2>1, <3>1
    <3> QED BY <1>4, <1>10, <3>1, <3>2
  <2>4. Queued'
    <3>1. lost' \subseteq ToSet(said') /\ ToSet(hub') \subseteq ToSet(said')
      BY <1>4, <1>5, <2>1, <2>2
    <3> QED BY <1>1, <1>4, <1>5, <2>2, <2>3, <3>1 DEF Queued
  <2>5. ASSUME open PROVE ToSet(Flow') = ToSet(said') \ lost' /\ OrderedAs(Flow', said')
    <3>1. Flow' = Append(Flow, i)
      <4>1. Flow' = Ahead \o Append(hub, i)
        BY <1>7, <2>1 DEF Flow
      <4>2. Ahead \in Seq(Nat) /\ hub \in Seq(Nat) /\ i \in Nat
        BY <1>2, <1>4, <1>7
      <4>3. Flow = Ahead \o hub
        BY DEF Flow
      <4> QED BY ONLY <4>1, <4>2, <4>3, ConcatAppend
    <3>2. ToSet(Flow) \subseteq ToSet(said)
      BY <1>8, <2>5
    <3>3. OrderedAs(Flow', said')
      BY <1>1, <1>2, <1>4, <1>7, <1>8, <2>5, <3>1, <3>2, OrderedAppend
    <3>4. ToSet(Flow') = ToSet(Flow) \cup {i}
      BY <1>2, <1>7, <3>1, AppendFacts
    <3>5. i \notin lost
      BY <1>1, <1>4
    <3> QED BY <1>5, <1>8, <2>1, <2>5, <3>3, <3>4, <3>5
  <2> QED BY <1>1, <1>6, <2>4, <2>5 DEF HubInv, InFlow
<1> QED
  BY <1>9, <1>10

(* queue.get() moves the head of the queue ahead of it. *)
LEMMA HubGet ==
  ASSUME WorkListAssumption, GenerationAssumption, HubInv, Get
  PROVE  HubInv'
<1>1. /\ item = None /\ hub # <<>> /\ item' = Head(hub) /\ hub' = Tail(hub)
      /\ spc = "waiting" /\ spc' = spc /\ done' = done /\ phase' = phase
      /\ shown' = shown /\ said' = said /\ lost' = lost
  BY DEF Get
<1>2. Queued /\ hub \in Seq(Nat) /\ shown \in Seq(Nat) /\ Len(hub) <= HubSize /\ HubSize \in Nat
  BY DEF HubInv, Queued, GenerationAssumption
<1>3. /\ Tail(hub) \in Seq(Nat) /\ Head(hub) \in Nat /\ ToSet(Tail(hub)) \subseteq ToSet(hub)
      /\ Len(hub) \in Nat \ {0} /\ Len(Tail(hub)) = Len(hub) - 1
  BY <1>1, <1>2, TailFacts
<1>4. Queued'
  <2>1. Len(hub') <= HubSize
    BY <1>1, <1>2, <1>3
  <2> QED BY <1>1, <1>2, <1>3, <2>1 DEF Queued
<1>5. Reading'
  BY <1>1 DEF Reading, HubInv, Ended
<1>6. Flow' = Flow
  <2>1. Flow = shown \o hub
    BY <1>1, <1>2, FlowTyped DEF Flow
  <2>2. item' # None
    BY <1>1, <1>3 DEF WorkListAssumption
  <2>3. Flow' = (shown \o <<Head(hub)>>) \o Tail(hub)
    BY <1>1, <2>2 DEF Flow, Ahead
  <2>4. hub = <<Head(hub)>> \o Tail(hub)
    BY <1>1, <1>2, <1>3
  <2>5. (shown \o <<Head(hub)>>) \o Tail(hub) = shown \o (<<Head(hub)>> \o Tail(hub))
    <3>1. <<Head(hub)>> \in Seq(Nat)
      BY <1>3
    <3> QED BY <1>2, <1>3, <3>1
  <2> QED BY <2>1, <2>3, <2>4, <2>5
<1> QED
  BY <1>1, <1>4, <1>5, <1>6 DEF HubInv, InFlow

(* What was taken is shown, or the loop turns: to its end only if the queue  *)
(* is empty and the run is done.                                             *)
LEMMA HubWake ==
  ASSUME GenerationAssumption, HubInv, Wake
  PROVE  HubInv'
<1>1. /\ spc = "waiting" /\ done' = done /\ phase' = phase
      /\ hub' = hub /\ said' = said /\ lost' = lost
  BY DEF Wake, hubVars
<1>2. Queued /\ hub \in Seq(Nat) /\ shown \in Seq(Nat) /\ item \in Nat \cup {None}
  BY DEF HubInv, Queued
<1>3. CASE item # None
  <2>1. spc' = "showing" /\ shown' = Append(shown, item) /\ item' = None
    BY <1>3 DEF Wake
  <2>2. shown' \in Seq(Nat)
    BY <1>2, <1>3, <2>1
  <2>3. Queued'
    BY <1>1, <1>2, <2>1, <2>2 DEF Queued
  <2>4. Reading'
    BY <1>1, <2>1 DEF Reading, HubInv, Ended
  <2>5. Ahead' = Ahead
    <3>1. Ahead' = shown' \o <<>>
      BY <2>1 DEF Ahead
    <3>2. shown' \o <<>> = shown'
      BY <2>2
    <3> QED BY <1>2, <1>3, <2>1, <3>1, <3>2, FlowTyped
  <2>6. Flow' = Flow
    BY <1>1, <2>5 DEF Flow
  <2> QED BY <1>1, <2>1, <2>3, <2>4, <2>6 DEF HubInv, InFlow
<1>4. CASE item = None
  <2>1. /\ done /\ item' = item /\ shown' = shown
        /\ spc' \in {"joining", "waiting"} /\ (spc' = "joining" => hub = <<>>)
    BY <1>4 DEF Wake, Turned
  <2>2. Queued'
    BY <1>1, <1>2, <2>1 DEF Queued
  <2>3. Reading'
    BY <1>1, <1>4, <2>1 DEF Reading, HubInv, Ended
  <2>4. Flow' = Flow
    BY <1>1, <2>1 DEF Flow, Ahead
  <2> QED BY <1>1, <2>1, <2>2, <2>3, <2>4 DEF HubInv, InFlow
<1> QED
  BY <1>3, <1>4

(* The other steps take nothing from the queue and put nothing in it. *)
LEMMA HubQuiet ==
  ASSUME HubInv, hubVars' = hubVars, shown' = shown, done => done', Ended => Ended', done' => Ended',
         \/ spc' = spc /\ item' = item
         \/ spc \in {"started", "showing"} /\ spc' = Turned /\ item' = item /\ done' = done
         \/ spc = "joining" /\ spc' \in {"ended", "failed"} /\ item' = item
         \/ spc' \in {"closing", "closed"} /\ item' \in {item, None}
  PROVE  HubInv'
<1>1. said' = said /\ lost' = lost /\ hub' = hub
  BY DEF hubVars
<1>2. Queued'
  BY <1>1 DEF HubInv, Queued
<1>3. Reading'
  BY <1>1 DEF HubInv, Reading, Turned
<1>4. CASE spc' \in {"closing", "closed"}
  BY <1>2, <1>3, <1>4 DEF HubInv, InFlow
<1>5. CASE spc' \notin {"closing", "closed"}
  <2>1. item' = item
    BY <1>5
  <2>2. spc \notin {"closing", "closed"}
    BY <1>5
  <2>3. Flow' = Flow
    BY <1>1, <2>1 DEF Flow, Ahead
  <2> QED BY <1>1, <1>2, <1>3, <2>2, <2>3 DEF HubInv, InFlow
<1> QED
  BY <1>4, <1>5

(* A run that has ended stays so. *)
LEMMA EndedKept ==
  ASSUME [Next]_vars, Ended
  PROVE  Ended'
<1>1. CASE Run
  BY <1>1 DEF Run, CollectWork, Dispatch, Gather, RunnerDone, Ended
<1>2. ASSUME NEW i \in DOMAIN at, Worker(i) \/ Announce(i) PROVE Ended'
  BY <1>2 DEF Worker, Start, Resume, Finish, Announce, Ended
<1>3. CASE CancelRun
  BY <1>3 DEF CancelRun
<1>4. CASE Stream
  BY <1>4 DEF Stream, Pull, Get, Wake, Join, Closed, Ended
<1>5. CASE Close
  BY <1>5 DEF Close, Ended
<1>6. CASE UNCHANGED vars
  BY <1>6 DEF vars, Ended
<1> QED
  BY <1>1, <1>2, <1>3, <1>4, <1>5, <1>6 DEF Next

(* Every step keeps HubInv. *)
LEMMA HubStep ==
  ASSUME WorkListAssumption, GenerationAssumption, Setting, SemInv, HubInv, [Next]_vars
  PROVE  HubInv'
<1>0. Ended => Ended'
  BY EndedKept
<1>1. CASE RunnerDone
  <2>1. /\ hubVars' = hubVars /\ shown' = shown /\ done' /\ Ended /\ spc' = spc /\ item' = item
    BY <1>1 DEF RunnerDone
  <2> QED BY <1>0, <2>1, HubQuiet
<1>2. ASSUME NEW i \in DOMAIN at, Announce(i) PROVE HubInv'
  BY <1>2, HubAnnounce
<1>3. CASE Get
  BY <1>3, HubGet
<1>4. CASE Wake
  BY <1>4, HubWake
<1>5. CASE Pull \/ Join \/ Closed \/ Close
  <2>1. /\ hubVars' = hubVars /\ shown' = shown /\ done' = done
        /\ \/ spc \in {"started", "showing"} /\ spc' = Turned /\ item' = item
           \/ spc = "joining" /\ spc' \in {"ended", "failed"} /\ item' = item
           \/ spc' \in {"closing", "closed"} /\ item' \in {item, None}
    BY <1>5 DEF Pull, Join, Closed, Close, hubVars
  <2>2. done => Ended
    BY DEF HubInv, Reading
  <2> QED BY <1>0, <2>1, <2>2, HubQuiet
<1>6. CASE \/ CollectWork \/ Dispatch \/ Gather \/ CancelRun \/ UNCHANGED vars
           \/ \E i \in DOMAIN at : Worker(i)
  <2>1. hubVars' = hubVars /\ shown' = shown /\ done' = done /\ spc' = spc /\ item' = item
    BY <1>6 DEF CollectWork, Dispatch, Gather, CancelRun, vars, Worker, Start, Resume, Finish
  <2>2. done => Ended
    BY DEF HubInv, Reading
  <2> QED BY <1>0, <2>1, <2>2, HubQuiet
<1> QED
  BY <1>1, <1>2, <1>3, <1>4, <1>5, <1>6 DEF Next, Run, Stream

(* The invariant has the property: at the end nothing is on its way. *)
LEMMA HubSays ==
  ASSUME GenerationAssumption, HubInv
  PROVE  NothingUnsaid
<1>1. Len(hub) <= HubSize /\ shown \in Seq(Nat) /\ Queued
  BY DEF HubInv, Queued
<1>2. ASSUME spc = "ended"
      PROVE  /\ ToSet(shown) = ToSet(said) \ lost
             /\ \A m, n \in DOMAIN shown : m < n =>
                  \E j, k \in DOMAIN said : j < k /\ said[j] = shown[m] /\ said[k] = shown[n]
  <2>1. hub = <<>> /\ item = None
    BY <1>2 DEF HubInv, Reading
  <2>2. Flow = shown \o <<>>
    BY <1>1, <2>1, FlowTyped DEF Flow
  <2>3. Flow = shown
    BY <1>1, <2>2
  <2>4. ToSet(Flow) = ToSet(said) \ lost /\ OrderedAs(Flow, said)
    BY <1>2 DEF HubInv, InFlow
  <2> QED BY <2>3, <2>4 DEF OrderedAs
<1> QED
  BY <1>1, <1>2 DEF NothingUnsaid

(* HubInv is an invariant, that of the semaphores given: it says that no     *)
(* worker runs, and so none announces, once the run has ended.               *)
LEMMA HubAlways == Spec => []HubInv
<1>1. Init => HubInv
  BY GenerationAssumption, HubFirst
<1>2. Setting /\ SemInv /\ HubInv /\ [Next]_vars => HubInv'
  BY WorkListAssumption, GenerationAssumption, HubStep
<1> QED
  BY <1>1, <1>2, SettingAlways, SemAlways, PTL DEF Spec

(* A stream that ends with run_end has shown every announcement in order but *)
(* those the full queue dropped, and the queue never exceeds its bound       *)
(* (astream, EventHub.publish), for any number of agents and any bound.      *)
THEOREM SpecLeavesNothingUnsaid == Spec => []NothingUnsaid
<1>1. HubInv => NothingUnsaid
  BY GenerationAssumption, HubSays
<1> QED
  BY <1>1, HubAlways, PTL
=============================================================================
