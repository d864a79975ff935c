-------------------------- MODULE A2ATasks_proofs --------------------------
(***************************************************************************)
(* Proofs about A2ATasks, for any finite set of requests and any limits:   *)
(* the table keeps its shape, a settled task says the truth, and the task  *)
(* that leaves is the longest silent one.                                  *)
(***************************************************************************)
EXTENDS A2ATasks, WellFoundedInduction, TLAPS

(* A record and the id it is under belong to requests that have come in.    *)
IdsKnown ==
  \A k \in Requests : id[k] # None => pc[k] # "new" /\ pc[id[k]] # "new"

TableMade == \A n \in DOMAIN table : id[table[n]] # None

NewUntouched == \A k \in Requests : pc[k] = "new" => state[k] = "submitted"

HomesMade ==
  \A r \in Requests :
    /\ pc[r] \in InFlight \/ r \in strays => home[r] \in Requests /\ id[home[r]] # None
    /\ r \in strays => pc[r] = "ended"
    /\ pc[r] = "new" => home[r] = None

(* The table is in the order in which its records were last spoken to.      *)
TableInOrder ==
  /\ \A k \in Requests : talk[k] \subseteq Came
  /\ \A m, n \in DOMAIN table : m < n => talk[table[m]] \subseteq talk[table[n]]

(* The inductive invariant.                                                 *)
Ind ==
  /\ TypeOK
  /\ IdsKnown
  /\ TableMade
  /\ NewUntouched
  /\ HomesMade
  /\ TableInOrder
  /\ SettledIsTrue

-----------------------------------------------------------------------------
(* Tables *)

(* What is left of a sequence without its i-th element, index by index.     *)
LEMMA RemoveAtFacts ==
  ASSUME NEW S, NEW q \in Seq(S), NEW i \in DOMAIN q
  PROVE  /\ RemoveAt(q, i) \in Seq(S)
         /\ Len(RemoveAt(q, i)) = Len(q) - 1
         /\ \A j \in 1 .. Len(q) - 1 :
              RemoveAt(q, i)[j] = IF j < i THEN q[j] ELSE q[j + 1]
<1> DEFINE front == SubSeq(q, 1, i - 1)
           back  == SubSeq(q, i + 1, Len(q))
<1>1. front \in Seq(S) /\ Len(front) = i - 1 /\ \A j \in 1 .. i - 1 : front[j] = q[j]
  OBVIOUS
<1>2. back \in Seq(S) /\ Len(back) = Len(q) - i /\ \A j \in 1 .. Len(q) - i : back[j] = q[j + i]
  OBVIOUS
<1>3. RemoveAt(q, i) = front \o back
  BY DEF RemoveAt
<1> HIDE DEF front, back
<1> QED
  BY <1>1, <1>2, <1>3

(* The i-th element moved to the end, index by index.                       *)
LEMMA MoveToEnd ==
  ASSUME NEW S, NEW q \in Seq(S), NEW i \in DOMAIN q
  PROVE  LET p == Append(RemoveAt(q, i), q[i])
         IN  /\ p \in Seq(S) /\ Len(p) = Len(q)
             /\ p[Len(q)] = q[i]
             /\ \A j \in 1 .. Len(q) - 1 : p[j] = IF j < i THEN q[j] ELSE q[j + 1]
             /\ ToSet(p) = ToSet(q)
<1> DEFINE o == RemoveAt(q, i)
           p == Append(o, q[i])
<1>1. /\ o \in Seq(S) /\ Len(o) = Len(q) - 1
      /\ \A j \in 1 .. Len(q) - 1 : o[j] = IF j < i THEN q[j] ELSE q[j + 1]
  BY RemoveAtFacts
<1>2. Len(q) \in Nat /\ i \in 1 .. Len(q) /\ DOMAIN q = 1 .. Len(q) /\ q[i] \in S
  OBVIOUS
<1> HIDE DEF o
<1>3. /\ p \in Seq(S) /\ Len(p) = Len(q)
      /\ p[Len(q)] = q[i]
      /\ \A j \in 1 .. Len(q) - 1 : p[j] = IF j < i THEN q[j] ELSE q[j + 1]
  BY <1>1, <1>2
<1> HIDE DEF p
<1>4. DOMAIN p = 1 .. Len(q)
  BY <1>2, <1>3
<1>5. \A j \in DOMAIN p : \E m \in DOMAIN q : p[j] = q[m]
  <2> TAKE j \in DOMAIN p
  <2>1. CASE j = Len(q)
    BY <2>1, <1>2, <1>3
  <2>2. CASE j < Len(q) /\ j < i
    BY <2>2, <1>2, <1>3, <1>4
  <2>3. CASE j < Len(q) /\ ~ (j < i)
    <3>1. j + 1 \in DOMAIN q /\ p[j] = q[j + 1]
      BY <2>3, <1>2, <1>3, <1>4
    <3> QED BY <3>1
  <2> QED
    BY <2>1, <2>2, <2>3, <1>2, <1>4
<1>6. \A m \in DOMAIN q : \E j \in DOMAIN p : q[m] = p[j]
  <2> TAKE m \in DOMAIN q
  <2>1. CASE m < i
    BY <2>1, <1>2, <1>3, <1>4
  <2>2. CASE m = i
    BY <2>2, <1>2, <1>3, <1>4
  <2>3. CASE m > i
    <3>1. m - 1 \in DOMAIN p /\ p[m - 1] = q[m]
      BY <2>3, <1>2, <1>3, <1>4
    <3> QED BY <3>1
  <2> QED
    BY <2>1, <2>2, <2>3, <1>2
<1>7. ToSet(p) = ToSet(q)
  BY <1>5, <1>6 DEF ToSet
<1> QED
  BY <1>3, <1>7 DEF p, o

Smaller == {xy \in Nat \X Nat : xy[1] < xy[2]}

(* The natural numbers have no infinite descent, so what is not empty among *)
(* them has a least element, which Min picks.                               *)
LEMMA LeastNatural ==
  ASSUME NEW S, S \subseteq Nat, S # {}
  PROVE  Min(S) \in S /\ \A y \in S : Min(S) <= y
<1>1. IsWellFoundedOn(Smaller, Nat)
  BY NatLessThanWellFounded DEF OpToRel, Smaller
<1>2. \E x \in S : \A y \in S : ~ (<<y, x>> \in Smaller)
  BY Zenon, <1>1, WFMin
<1>3. ASSUME NEW x \in S, NEW y \in S, ~ (<<y, x>> \in Smaller)
      PROVE  x <= y
  BY <1>3 DEF Smaller
<1>4. \E x \in S : \A y \in S : x <= y
  BY Zenon, <1>2, <1>3
<1> QED
  BY Zenon, <1>4 DEF Min

-----------------------------------------------------------------------------
(* The table *)

(* _evict takes out one record of a table that is too long: the first of    *)
(* the finished ones if there is one, else the first.                       *)
LEMMA EvictFacts ==
  ASSUME NEW t \in Seq(Requests), NEW st, Len(t) > MaxTasks
  PROVE  \E n \in DOMAIN t :
           /\ Evict(t, st) = RemoveAt(t, n)
           /\ IF \E i \in DOMAIN t : st[t[i]] \in Finished
              THEN st[t[n]] \in Finished /\ \A m \in DOMAIN t : st[t[m]] \in Finished => n <= m
              ELSE n = 1
<1> DEFINE done == {i \in DOMAIN t : st[t[i]] \in Finished}
<1>1. Len(t) \in Nat /\ DOMAIN t = 1 .. Len(t) /\ 1 \in DOMAIN t
  BY A2AAssumption
<1>2. done \subseteq Nat
  BY <1>1
<1>3. Evict(t, st) = RemoveAt(t, IF done # {} THEN Min(done) ELSE 1)
  BY A2AAssumption, <1>1 DEF Evict
<1>4. CASE done # {}
  <2>1. Min(done) \in done /\ \A m \in done : Min(done) <= m
    BY <1>2, <1>4, LeastNatural
  <2> QED
    BY <1>3, <1>4, <2>1
<1>5. CASE done = {}
  BY <1>1, <1>3, <1>5
<1> QED
  BY <1>4, <1>5

(* What a new record does to the table.                                     *)
LEMMA NewRecordTable ==
  ASSUME Ind, NEW r \in Requests, NEW i, pc[r] = "new", NewRecord(r, i)
  PROVE  LET t == Append(table, r)
         IN  /\ t \in Seq(Requests) /\ Len(t) = Len(table) + 1 /\ t[Len(table) + 1] = r
             /\ \A m \in DOMAIN table : t[m] = table[m] /\ table[m] # r
             /\ \/ Len(t) <= MaxTasks /\ table' = t
                \/ /\ Len(table) = MaxTasks
                   /\ \E n \in DOMAIN t :
                        /\ table' = RemoveAt(t, n)
                        /\ IF \E m \in DOMAIN t : state[t[m]] \in Finished
                           THEN /\ state[t[n]] \in Finished
                                /\ \A m \in DOMAIN t : state[t[m]] \in Finished => n <= m
                           ELSE n = 1
<1> DEFINE t == Append(table, r)
<1>1. table \in Seq(Requests) /\ Len(table) \in Nat /\ DOMAIN table = 1 .. Len(table)
  BY DEF Ind, TypeOK
<1>2. /\ t \in Seq(Requests) /\ Len(t) = Len(table) + 1 /\ t[Len(table) + 1] = r
      /\ \A m \in DOMAIN table : t[m] = table[m]
  BY <1>1
<1>3. \A m \in DOMAIN table : table[m] # r
  BY <1>1 DEF Ind, TableMade, IdsKnown
<1>4. table' = Evict(t, state)
  BY DEF NewRecord
<1>5. Len(table) <= MaxTasks /\ MaxTasks \in Nat
  BY A2AAssumption DEF Ind, TypeOK
<1> HIDE DEF t
<1>6. CASE Len(t) <= MaxTasks
  BY <1>2, <1>3, <1>4, <1>6 DEF Evict, t
<1>7. CASE Len(t) > MaxTasks
  <2>1. Len(t) = Len(table) + 1 /\ Len(table) \in Nat /\ t \in Seq(Requests)
    BY <1>1, <1>2
  <2>2. Len(table) = MaxTasks
    BY <2>1, <1>5, <1>7
  <2>3. \E n \in DOMAIN t :
          /\ Evict(t, state) = RemoveAt(t, n)
          /\ IF \E m \in DOMAIN t : state[t[m]] \in Finished
             THEN state[t[n]] \in Finished /\ \A m \in DOMAIN t : state[t[m]] \in Finished => n <= m
             ELSE n = 1
    BY <2>1, <1>7, EvictFacts
  <2> QED
    BY Zenon, <1>2, <1>3, <1>4, <2>2, <2>3 DEF t
<1>8. Len(t) <= MaxTasks \/ Len(t) > MaxTasks
  BY <1>2, <1>1, <1>5
<1> QED
  BY Zenon, <1>6, <1>7, <1>8

(* A request that comes in changes the ids, the table and the talk so that  *)
(* all that is said of them stays true, and works on a record that is made. *)
RequestComes(r) ==
  /\ pc[r] = "new"
  /\ \E i \in {None} \cup {id[k] : k \in Made} : RecordFor(r, i)
  /\ \E p \in {"sending", "opened"} : pc' = [pc EXCEPT ![r] = p]

LEMMA ComeStep ==
  ASSUME Ind, NEW r \in Requests, RequestComes(r)
  PROVE  /\ id' \in [Requests -> Requests \cup {None}]
         /\ home' = [home EXCEPT ![r] = home'[r]]
         /\ home'[r] \in Requests /\ id'[home'[r]] # None
         /\ \A k \in Requests : id[k] # None => id'[k] # None
         /\ talk' \in [Requests -> SUBSET Requests]
         /\ \A k \in Requests : k # home'[r] /\ id'[k] # None => id[k] # None
         /\ IdsKnown'
<1>1. PICK i \in {None} \cup {id[k] : k \in Made} : RecordFor(r, i)
  BY DEF RequestComes
<1>2. PICK p \in {"sending", "opened"} : pc' = [pc EXCEPT ![r] = p]
  BY DEF RequestComes
<1>3. /\ Shape /\ pc[r] = "new" /\ id[r] = None /\ table \in Seq(Requests)
      /\ i # None => i \in Requests /\ pc[i] # "new"
  BY DEF Ind, TypeOK, IdsKnown, Shape, RequestComes, Made
<1>4. Came \cup {r} \subseteq Requests
  BY DEF Came
<1>5. CASE NewRecord(r, i)
  <2>1. /\ id' = [id EXCEPT ![r] = IF i = None THEN r ELSE i]
        /\ home' = [home EXCEPT ![r] = r]
        /\ talk' = [talk EXCEPT ![r] = Came \cup {r}]
    BY <1>5 DEF NewRecord
  <2>2. home'[r] = r /\ id'[r] \in Requests /\ id'[r] # None
    BY <2>1, <1>3, A2AAssumption DEF Shape
  <2>3. IdsKnown'
    BY <2>1, <1>2, <1>3, A2AAssumption DEF IdsKnown, Shape, Ind
  <2> QED
    BY <2>1, <2>2, <2>3, <1>3, <1>4 DEF Shape
<1>6. CASE \E n \in DOMAIN table : Known(r, i, table[n])
  <2>1. PICK n \in DOMAIN table : Known(r, i, table[n])
    BY <1>6
  <2>2. table[n] \in Requests /\ id[table[n]] # None
    BY <1>3 DEF Ind, TableMade
  <2>3. /\ id' = id
        /\ home' = [home EXCEPT ![r] = table[n]]
        /\ talk' = [talk EXCEPT ![table[n]] = Came \cup {r}]
    BY <2>1 DEF Known
  <2>4. IdsKnown'
    BY <2>3, <1>2, <1>3 DEF IdsKnown, Shape, Ind
  <2> QED
    BY <2>2, <2>3, <2>4, <1>3, <1>4 DEF Shape
<1> QED
  BY <1>1, <1>5, <1>6 DEF RecordFor

LEMMA ComeTable ==
  ASSUME Ind, NEW r \in Requests, RequestComes(r)
  PROVE  /\ table' \in Seq(Requests) /\ Len(table') <= MaxTasks
         /\ (\A m, n \in DOMAIN table : id[table[m]] = id[table[n]] => m = n)'
         /\ TableMade'
         /\ TableInOrder'
<1>1. PICK i \in {None} \cup {id[k] : k \in Made} : RecordFor(r, i)
  BY DEF RequestComes
<1>2. PICK p \in {"sending", "opened"} : pc' = [pc EXCEPT ![r] = p]
  BY DEF RequestComes
<1>3. /\ Shape /\ pc[r] = "new" /\ id[r] = None
      /\ table \in Seq(Requests) /\ Len(table) \in Nat /\ DOMAIN table = 1 .. Len(table)
      /\ Len(table) <= MaxTasks /\ MaxTasks \in Nat
      /\ \A m, n \in DOMAIN table : id[table[m]] = id[table[n]] => m = n
      /\ \A m \in DOMAIN table : table[m] \in Requests /\ id[table[m]] # None /\ table[m] # r
      /\ \A m, n \in DOMAIN table : m < n => talk[table[m]] \subseteq talk[table[n]]
      /\ \A k \in Requests : talk[k] \subseteq Came
  BY A2AAssumption DEF Ind, TypeOK, IdsKnown, TableMade, TableInOrder, Shape, RequestComes
<1>4. Came' = Came \cup {r}
  BY <1>2, <1>3 DEF Came, Shape
<1>5. CASE NewRecord(r, i)
  <2> DEFINE t == Append(table, r)
  <2>1. /\ id' = [id EXCEPT ![r] = IF i = None THEN r ELSE i]
        /\ talk' = [talk EXCEPT ![r] = Came \cup {r}]
        /\ \A k \in ToSet(table) : i = None \/ id[k] # i
    BY <1>5 DEF NewRecord
  <2>2. /\ t \in Seq(Requests) /\ Len(t) = Len(table) + 1 /\ t[Len(table) + 1] = r
        /\ \A m \in DOMAIN table : t[m] = table[m]
        /\ \/ Len(t) <= MaxTasks /\ table' = t
           \/ Len(table) = MaxTasks /\ \E n \in DOMAIN t : table' = RemoveAt(t, n)
    BY <1>3, <1>5, NewRecordTable
  <2> HIDE DEF t
  <2>3. DOMAIN t = 1 .. Len(table) + 1
    BY <2>2
  <2>4. \A m \in DOMAIN table : id[table[m]] # id'[r]
    BY <2>1, <1>3, A2AAssumption DEF Shape, ToSet, Ind, IdsKnown
  <2>5. \A m \in DOMAIN t : t[m] \in Requests /\ id'[t[m]] # None
    BY <2>1, <2>2, <2>3, <1>3, A2AAssumption DEF Shape
  <2>6. ASSUME NEW m \in DOMAIN t, NEW n \in DOMAIN t, m < n
        PROVE  id'[t[m]] # id'[t[n]] /\ talk'[t[m]] \subseteq talk'[t[n]]
    <3>1. m \in DOMAIN table /\ t[m] = table[m] /\ table[m] # r /\ table[m] \in Requests
      <4>1. m \in 1 .. Len(table) + 1 /\ n \in 1 .. Len(table) + 1
        BY <2>3
      <4>2. m \in 1 .. Len(table)
        BY <4>1, <2>6, <1>3
      <4> QED
        BY <4>2, <2>2, <1>3
    <3>2. id'[t[m]] = id[table[m]] /\ talk'[t[m]] = talk[table[m]]
      BY <3>1, <2>1, <1>3 DEF Shape
    <3>3. CASE n = Len(table) + 1
      BY <3>1, <3>2, <3>3, <2>1, <2>2, <2>4, <1>3 DEF Shape
    <3>4. CASE n # Len(table) + 1
      <4>1. n \in DOMAIN table /\ t[n] = table[n] /\ table[n] # r /\ table[n] \in Requests
        BY <3>4, <2>2, <2>3, <1>3
      <4>2. id'[t[n]] = id[table[n]] /\ talk'[t[n]] = talk[table[n]]
        BY <4>1, <2>1, <1>3 DEF Shape
      <4> QED
        BY <3>1, <3>2, <4>1, <4>2, <2>6, <1>3
    <3> QED
      BY <3>3, <3>4
  <2>7. \A m, n \in DOMAIN t : id'[t[m]] = id'[t[n]] => m = n
    BY <2>3, <2>6, <1>3
  <2>8. \A k \in Requests : talk'[k] \subseteq Came'
    BY <2>1, <1>3, <1>4 DEF Shape
  <2>9. CASE Len(t) <= MaxTasks /\ table' = t
    BY <2>2, <2>5, <2>6, <2>7, <2>8, <2>9 DEF TableMade, TableInOrder
  <2>10. CASE Len(table) = MaxTasks /\ \E n \in DOMAIN t : table' = RemoveAt(t, n)
    <3>1. PICK n \in DOMAIN t : table' = RemoveAt(t, n)
      BY <2>10
    <3>2. /\ table' \in Seq(Requests) /\ Len(table') = Len(table)
          /\ \A m \in 1 .. Len(table) : table'[m] = IF m < n THEN t[m] ELSE t[m + 1]
      <4>1. t \in Seq(Requests) /\ n \in DOMAIN t /\ Len(t) - 1 = Len(table)
        <5>1. t \in Seq(Requests) /\ Len(t) = Len(table) + 1 /\ Len(table) \in Nat
          BY Zenon, <2>2, <1>3
        <5> QED
          BY <5>1
      <4> QED
        BY <4>1, <3>1, RemoveAtFacts
    <3>3. DOMAIN table' = 1 .. Len(table)
      BY <3>2, <1>3
    <3> DEFINE from(m) == IF m < n THEN m ELSE m + 1
    <3>4. \A m \in DOMAIN table' : from(m) \in DOMAIN t /\ table'[m] = t[from(m)]
      BY <3>2, <3>3, <2>3, <1>3
    <3>5. \A l, m \in DOMAIN table' : /\ l < m => from(l) < from(m)
                                      /\ from(l) = from(m) => l = m
      BY <3>3, <2>3, <1>3
    <3> HIDE DEF from
    <3>6. \A l, m \in DOMAIN table' : id'[table'[l]] = id'[table'[m]] => l = m
      BY <3>4, <3>5, <2>7
    <3>7. \A l, m \in DOMAIN table' : l < m => talk'[table'[l]] \subseteq talk'[table'[m]]
      BY <3>4, <3>5, <2>6
    <3>8. \A m \in DOMAIN table' : id'[table'[m]] # None
      BY <3>4, <2>5
    <3> QED
      BY <3>2, <3>6, <3>7, <3>8, <2>8, <2>10, <1>3 DEF TableMade, TableInOrder
  <2> QED
    BY <2>2, <2>9, <2>10
<1>6. CASE \E n \in DOMAIN table :
             Known(r, i, table[n]) /\ table' = Append(RemoveAt(table, n), table[n])
  <2>1. PICK n \in DOMAIN table :
          Known(r, i, table[n]) /\ table' = Append(RemoveAt(table, n), table[n])
    BY <1>6
  <2>2. id' = id /\ talk' = [talk EXCEPT ![table[n]] = Came \cup {r}]
    BY <2>1 DEF Known
  <2>3. /\ table' \in Seq(Requests) /\ Len(table') = Len(table)
        /\ table'[Len(table)] = table[n]
        /\ \A m \in 1 .. Len(table) - 1 : table'[m] = IF m < n THEN table[m] ELSE table[m + 1]
    <3>1. table \in Seq(Requests)
      BY <1>3
    <3> QED
      BY <3>1, <2>1, MoveToEnd
  <2>4. DOMAIN table' = 1 .. Len(table)
    BY <2>3, <1>3
  <2> DEFINE from(m) == IF m = Len(table) THEN n ELSE IF m < n THEN m ELSE m + 1
  <2>5. \A m \in DOMAIN table' : from(m) \in DOMAIN table /\ table'[m] = table[from(m)]
    BY <2>3, <2>4, <1>3
  <2>6. \A l, m \in DOMAIN table' :
          /\ from(l) = from(m) => l = m
          /\ l < m => from(l) # n /\ (from(l) < from(m) \/ from(m) = n)
    BY <2>4, <1>3
  <2> HIDE DEF from
  <2>7. \A l, m \in DOMAIN table' : id'[table'[l]] = id'[table'[m]] => l = m
    BY <2>2, <2>5, <2>6, <1>3
  <2>8. ASSUME NEW l \in DOMAIN table', NEW m \in DOMAIN table', l < m
        PROVE  talk'[table'[l]] \subseteq talk'[table'[m]]
    <3>1. /\ from(l) \in DOMAIN table /\ table'[l] = table[from(l)]
          /\ from(m) \in DOMAIN table /\ table'[m] = table[from(m)]
          /\ from(l) # n /\ (from(l) < from(m) \/ from(m) = n)
      BY <2>5, <2>6, <2>8
    <3>2. table[from(l)] # table[n]
      BY <3>1, <1>3
    <3>3. talk'[table'[l]] = talk[table[from(l)]]
      BY <3>1, <3>2, <2>2, <1>3 DEF Shape
    <3>4. CASE from(m) = n
      <4>1. talk'[table'[m]] = Came \cup {r}
        BY <3>1, <3>4, <2>2, <1>3 DEF Shape
      <4> QED
        BY <4>1, <3>1, <3>3, <1>3
    <3>5. CASE from(m) # n
      <4>1. table[from(m)] # table[n]
        BY <3>1, <3>5, <1>3
      <4>2. talk'[table'[m]] = talk[table[from(m)]]
        BY <4>1, <3>1, <2>2, <1>3 DEF Shape
      <4> QED
        BY <4>2, <3>1, <3>3, <3>5, <1>3
    <3> QED
      BY <3>4, <3>5
  <2>9. \A k \in Requests : talk'[k] \subseteq Came'
    BY <2>2, <1>3, <1>4 DEF Shape
  <2>10. \A m \in DOMAIN table' : id'[table'[m]] # None
    BY <2>2, <2>5, <1>3
  <2> QED
    BY <2>3, <2>7, <2>8, <2>9, <2>10, <1>3 DEF TableMade, TableInOrder
<1> QED
  BY <1>1, <1>5, <1>6 DEF RecordFor

-----------------------------------------------------------------------------
(* What a step does to the tasks it is not about, and to ids and table *)

(* A step of r leaves what is said of a record alone that r does not work   *)
(* on, before or after.                                                     *)
LEMMA Elsewhere ==
  ASSUME Ind, NEW r \in Requests, NEW k \in Requests,
         home[r] # k, home'[r] # k,
         \A q \in Requests : q # r => pc'[q] = pc[q] /\ home'[q] = home[q],
         id'[k] # None => id[k] # None,
         strays \subseteq strays', k \in cut => k \in cut',
         UNCHANGED <<state[k], pending[k], asked[k], answered[k]>>
  PROVE  Settled(k)' => TellsTruth(k)'
<1>1. Users(k) \subseteq Users(k)'
  BY DEF Users
<1>2. \A q \in strays : home[q] = k => q \in strays' /\ home'[q] = k
  BY DEF Ind, TypeOK, Shape
<1>3. Settled(k)' => Settled(k)
  BY <1>1, <1>2 DEF Settled, Made
<1>4. TellsTruth(k)' = TellsTruth(k)
  BY DEF TellsTruth, Open
<1> QED
  BY <1>3, <1>4 DEF Ind, SettledIsTrue

(* A step that lets no request in leaves ids and table alone.               *)
LEMMA NoneComes ==
  ASSUME Ind, UNCHANGED <<table, id, talk>>, Came' = Came
  PROVE  /\ IdsKnown' /\ TableMade' /\ TableInOrder'
         /\ table' \in Seq(Requests) /\ Len(table') <= MaxTasks
         /\ (\A m, n \in DOMAIN table : id[table[m]] = id[table[n]] => m = n)'
<1>1. IdsKnown'
  BY DEF Ind, IdsKnown, TypeOK, Shape, Came
<1> QED
  BY <1>1 DEF Ind, TypeOK, TableMade, TableInOrder

-----------------------------------------------------------------------------
(* The steps *)

LEMMA ComesIn ==
  ASSUME Ind, NEW r \in Requests, RequestComes(r),
         UNCHANGED <<pending, asked, strays, cut>>,
         \/ Seed(home'[r]) /\ state' = state
         \/ state' = [state EXCEPT ![home'[r]] = "working"] /\ answered' = answered
  PROVE  Ind'
<1>1. /\ id' \in [Requests -> Requests \cup {None}]
      /\ home' = [home EXCEPT ![r] = home'[r]]
      /\ home'[r] \in Requests /\ id'[home'[r]] # None
      /\ \A k \in Requests : id[k] # None => id'[k] # None
      /\ talk' \in [Requests -> SUBSET Requests]
      /\ \A k \in Requests : k # home'[r] /\ id'[k] # None => id[k] # None
      /\ IdsKnown'
  BY ComeStep
<1>2. PICK p \in {"sending", "opened"} : pc' = [pc EXCEPT ![r] = p]
  BY DEF RequestComes
<1>3. Shape /\ HomesMade /\ NewUntouched /\ pc[r] = "new"
  BY DEF Ind, TypeOK, RequestComes
<1>4. p \in InFlight /\ p # "new" /\ p # "ended" /\ "ended" \notin InFlight /\ "new" \notin InFlight
  BY DEF InFlight, Running
<1> DEFINE h == home'[r]
<1>5. \A k \in Requests : k # h =>
        UNCHANGED <<state[k], pending[k], asked[k], answered[k]>>
  BY <1>1, <1>3 DEF Shape, Seed
<1>6. Shape'
  <2>1. pc' \in [Requests -> {"new", "ended"} \cup InFlight] /\ home' \in [Requests -> Requests \cup {None}]
    BY <1>1, <1>2, <1>3, <1>4 DEF Shape
  <2>2. state' \in [Requests -> States]
    BY <1>1, <1>3 DEF Shape, States
  <2>3. answered' \in [Requests -> SUBSET Questions]
    <3>1. CASE pending[h] = 0
      BY <3>1, <1>1, <1>3 DEF Shape, Seed
    <3>2. CASE pending[h] # 0
      <4>1. pending[h] \in Questions
        BY <3>2, <1>1, <1>3 DEF Shape
      <4> QED
        BY <4>1, <3>2, <1>1, <1>3 DEF Shape, Seed
    <3> QED
      BY <3>1, <3>2
  <2> QED
    BY <2>1, <2>2, <2>3, <1>1, <1>3 DEF Shape
<1>7. TypeOK' /\ TableMade' /\ TableInOrder'
  BY <1>6, ComeTable DEF TypeOK
<1>8. NewUntouched'
  <2> SUFFICES ASSUME NEW k \in Requests, pc'[k] = "new"
               PROVE  state'[k] = "submitted"
    BY DEF NewUntouched
  <2>1. k # h
    BY <1>1 DEF IdsKnown
  <2>2. pc[k] = "new"
    BY <1>2, <1>3, <1>4 DEF Shape
  <2> QED
    BY <2>1, <2>2, <1>3, <1>5 DEF NewUntouched
<1>9. HomesMade'
  BY <1>1, <1>2, <1>3, <1>4 DEF HomesMade, Shape
<1>10. SettledIsTrue'
  <2> SUFFICES ASSUME NEW k \in Requests, Settled(k)'
               PROVE  TellsTruth(k)'
    BY DEF SettledIsTrue
  <2>1. k # h
    <3>1. SUFFICES ASSUME k = h  PROVE FALSE
      OBVIOUS
    <3>2. r \in Users(k)'
      BY <3>1, <1>1, <1>2, <1>3, <1>4 DEF Users, Shape
    <3> QED
      BY <3>2 DEF Settled
  <2>2. home[r] # k
    BY <1>3, A2AAssumption DEF HomesMade
  <2>3. \A q \in Requests : q # r => pc'[q] = pc[q] /\ home'[q] = home[q]
    BY <1>1, <1>2, <1>3 DEF Shape
  <2> QED
    BY <2>1, <2>2, <2>3, <1>1, <1>5, Elsewhere
<1> QED
  BY <1>1, <1>7, <1>8, <1>9, <1>10 DEF Ind

(* A step of a request in flight, or of its runner after it: what is left   *)
(* to show is that the task it works on is told the truth of.               *)
LEMMA StepAtHome ==
  ASSUME Ind, NEW r \in Requests, NEW k \in Requests,
         k = home[r], pc[r] \in InFlight \/ r \in strays,
         UNCHANGED <<table, id, talk>>,
         Shape',
         \A q \in Requests : q # r => pc'[q] = pc[q] /\ home'[q] = home[q],
         pc[r] # "new", pc'[r] # "new", home'[r] \in {k, None},
         pc'[r] \in InFlight \/ r \in strays' => home'[r] = k,
         strays \subseteq strays', strays' \subseteq strays \cup {r},
         r \in strays' => pc'[r] = "ended",
         \A l \in Requests : l # k => /\ l \in cut => l \in cut'
                                     /\ UNCHANGED <<state[l], pending[l], asked[l], answered[l]>>,
         Settled(k)' => TellsTruth(k)'
  PROVE  Ind'
<1>1. Shape /\ HomesMade /\ NewUntouched /\ IdsKnown
  BY DEF Ind, TypeOK
<1>2. Came' = Came
  BY <1>1 DEF Came
<1>3. TypeOK' /\ IdsKnown' /\ TableMade' /\ TableInOrder'
  BY <1>2, NoneComes DEF TypeOK
<1>4. id[k] # None /\ pc[k] # "new"
  BY <1>1 DEF HomesMade, IdsKnown
<1>5. NewUntouched'
  BY <1>1, <1>4 DEF NewUntouched
<1>6. HomesMade'
  BY <1>1, <1>4 DEF HomesMade
<1>7. SettledIsTrue'
  <2> SUFFICES ASSUME NEW l \in Requests, l # k
               PROVE  Settled(l)' => TellsTruth(l)'
    BY DEF SettledIsTrue
  <2> QED
    BY A2AAssumption, Elsewhere
<1> QED
  BY <1>3, <1>5, <1>6, <1>7 DEF Ind

LEMMA InFlightFacts ==
  /\ Running \subseteq InFlight
  /\ {"opened", "sending", "streaming", "closing"} = InFlight
  /\ "new" \notin InFlight /\ "ended" \notin InFlight
BY DEF InFlight, Running

LEMMA BeginStep ==
  ASSUME Ind, NEW r \in Requests, Begin(r)
  PROVE  Ind'
<1> DEFINE k == home[r]
<1>1. /\ Shape /\ pc[r] = "opened" /\ k \in Requests
      /\ pc' = [pc EXCEPT ![r] = "streaming"] /\ Seed(k)
      /\ UNCHANGED <<table, id, state, pending, asked, home, strays, cut, talk>>
  BY InFlightFacts DEF Begin, Ind, TypeOK, HomesMade
<1>2. answered' \in [Requests -> SUBSET Questions]
  <2>1. CASE pending[k] = 0
    BY <2>1, <1>1 DEF Shape, Seed
  <2>2. CASE pending[k] # 0
    <3>1. pending[k] \in Questions
      BY <2>2, <1>1 DEF Shape
    <3> QED
      BY <3>1, <2>2, <1>1 DEF Shape, Seed
  <2> QED
    BY <2>1, <2>2
<1>3. Shape'
  BY <1>1, <1>2, InFlightFacts DEF Shape
<1>4. ~ Settled(k)'
  <2>1. r \in Users(k)'
    BY <1>1, InFlightFacts DEF Users, Shape
  <2> QED
    BY <2>1 DEF Settled
<1>5. \A l \in Requests : l # k => answered'[l] = answered[l]
  BY <1>1 DEF Shape, Seed
<1>6. r \notin strays
  BY <1>1 DEF Ind, HomesMade
<1> QED
  BY <1>1, <1>3, <1>4, <1>5, <1>6, StepAtHome, InFlightFacts DEF Shape

LEMMA AskStep ==
  ASSUME Ind, NEW r \in Requests, Ask(r)
  PROVE  Ind'
<1> DEFINE k == home[r]
<1>1. /\ Shape /\ (pc[r] \in InFlight \/ r \in strays) /\ k \in Requests
      /\ asked[k] < MaxQuestions /\ asked' = [asked EXCEPT ![k] = @ + 1]
      /\ pc[r] # "new" /\ (r \in strays => pc[r] = "ended")
      /\ UNCHANGED <<table, id, state, pending, answered, pc, home, strays, cut, talk>>
  BY InFlightFacts DEF Ask, Ind, TypeOK, HomesMade, requestVars
<1>2. asked[k] + 1 \in Questions
  BY <1>1, A2AAssumption DEF Shape, Questions
<1>3. Shape'
  BY <1>1, <1>2 DEF Shape
<1>4. ~ Settled(k)'
  <2>1. r \in Users(k)' \/ (r \in strays' /\ home'[r] = k)
    BY <1>1 DEF Users
  <2> QED
    BY <2>1 DEF Settled
<1>5. \A l \in Requests : l # k => asked'[l] = asked[l]
  BY <1>1 DEF Shape
<1> QED
  BY <1>1, <1>3, <1>4, <1>5, StepAtHome

(* Of the questions that are open, the first is one the task asked.         *)
LEMMA OpenQuestions ==
  ASSUME Ind, NEW k \in Requests
  PROVE  Open(k) # {} => Min(Open(k)) \in Questions
<1>1. Open(k) \subseteq Questions
  BY A2AAssumption DEF Open, Ind, TypeOK, Shape, Questions
<1>2. Open(k) \subseteq Nat
  BY <1>1, A2AAssumption DEF Questions
<1> QED
  BY <1>1, <1>2, LeastNatural

LEMMA EndStep ==
  ASSUME Ind, NEW r \in Requests, End(r)
  PROVE  Ind'
<1>0. PICK k \in Requests : k = home[r]
  BY InFlightFacts DEF End, Ind, HomesMade
<1> DEFINE open == Open(k)
<1>1. /\ Shape /\ pc[r] \in InFlight /\ pc[r] # "new" /\ r \notin strays
      /\ state' = [state EXCEPT ![k] = IF open = {} THEN "completed" ELSE "input-required"]
      /\ pending' = [pending EXCEPT ![k] = IF open = {} THEN 0 ELSE Min(open)]
      /\ pc' = [pc EXCEPT ![r] = "ended"] /\ home' = [home EXCEPT ![r] = None]
      /\ cut' = cut \ {k}
      /\ UNCHANGED <<table, id, asked, answered, strays, talk>>
  BY <1>0, InFlightFacts DEF End, Leave, Ind, TypeOK, HomesMade
<1>2. open # {} => Min(open) \in Questions
  BY <1>1, OpenQuestions
<1>3. Shape'
  <2>1. state' \in [Requests -> States]
    BY <1>1 DEF Shape, States, Finished
  <2>2. pending' \in [Requests -> {0} \cup Questions]
    BY <1>1, <1>2 DEF Shape
  <2> QED
    BY <1>1, <2>1, <2>2 DEF Shape
<1>4. TellsTruth(k)'
  <2>1. Open(k)' = open
    BY <1>1 DEF Open
  <2>2. /\ state'[k] = IF open = {} THEN "completed" ELSE "input-required"
        /\ pending'[k] = IF open = {} THEN 0 ELSE Min(open)
    BY <1>1 DEF Shape
  <2> HIDE DEF open
  <2>3. CASE open = {}
    BY <2>1, <2>2, <2>3 DEF TellsTruth
  <2>4. CASE open # {}
    BY <2>1, <2>2, <2>4 DEF TellsTruth
  <2> QED
    BY <2>3, <2>4
<1>5. \A l \in Requests : l # k => UNCHANGED <<state[l], pending[l], asked[l], answered[l]>>
  BY <1>1 DEF Shape
<1>6. /\ \A q \in Requests : q # r => pc'[q] = pc[q] /\ home'[q] = home[q]
      /\ pc'[r] = "ended" /\ home'[r] = None
  BY <1>1 DEF Shape
<1> QED
  BY <1>0, <1>1, <1>3, <1>4, <1>5, <1>6, StepAtHome, InFlightFacts

(* A run that is cut short: its task may say anything.                      *)
LEMMA CutStep ==
  ASSUME Ind, NEW r \in Requests, Fail(r) \/ DropUnstarted(r) \/ GiveUp(r)
  PROVE  Ind'
<1>0. PICK k \in Requests : k = home[r]
  BY InFlightFacts DEF Fail, DropUnstarted, GiveUp, Ind, HomesMade
<1>1. /\ Shape /\ pc[r] \in InFlight /\ pc[r] # "new" /\ r \notin strays
      /\ pc' = [pc EXCEPT ![r] = "ended"]
      /\ \/ home' = [home EXCEPT ![r] = None] /\ strays' = strays
         \/ home' = home /\ strays' = strays \cup {r}
      /\ cut' = cut \cup {k}
      /\ UNCHANGED <<table, id, state, pending, asked, answered, talk>>
  BY <1>0, InFlightFacts DEF Fail, DropUnstarted, GiveUp, Leave, Ind, TypeOK, HomesMade, recordVars
<1>2. Shape'
  BY <1>1 DEF Shape
<1>3. ~ Settled(k)'
  BY <1>1 DEF Settled
<1>4. /\ \A q \in Requests : q # r => pc'[q] = pc[q] /\ home'[q] = home[q]
      /\ pc'[r] = "ended" /\ home'[r] \in {k, None}
      /\ r \in strays' => home'[r] = k
  BY <1>0, <1>1 DEF Shape
<1> QED
  BY <1>0, <1>1, <1>2, <1>3, <1>4, StepAtHome, InFlightFacts

LEMMA DropStep ==
  ASSUME Ind, NEW r \in Requests, Drop(r)
  PROVE  Ind'
<1> DEFINE k == home[r]
<1>1. /\ Shape /\ pc[r] \in InFlight /\ k \in Requests /\ pc[r] # "new" /\ r \notin strays
      /\ pc' = [pc EXCEPT ![r] = "closing"]
      /\ UNCHANGED <<table, id, state, pending, asked, answered, home, strays, cut, talk>>
  BY InFlightFacts DEF Drop, Ind, TypeOK, HomesMade, recordVars
<1>2. Shape'
  BY <1>1, InFlightFacts DEF Shape
<1>3. ~ Settled(k)'
  <2>1. r \in Users(k)'
    BY <1>1, InFlightFacts DEF Users, Shape
  <2> QED
    BY <2>1 DEF Settled
<1>4. pc'[r] = "closing" /\ \A q \in Requests : q # r => pc'[q] = pc[q]
  BY <1>1 DEF Shape
<1> QED
  BY <1>1, <1>2, <1>3, <1>4, StepAtHome, InFlightFacts

LEMMA CancelStep ==
  ASSUME Ind, NEW k \in Requests, Cancel(k)
  PROVE  Ind'
<1>1. /\ Shape /\ id[k] # None /\ pc[k] # "new"
      /\ state' = [state EXCEPT ![k] = "canceled"]
      /\ pending' = [pending EXCEPT ![k] = 0]
      /\ UNCHANGED <<table, id, asked, answered, pc, home, strays, cut, talk>>
  BY DEF Cancel, Ind, TypeOK, TableMade, IdsKnown, ToSet, requestVars
<1>2. Shape'
  BY <1>1 DEF Shape, States, Finished
<1>3. TypeOK' /\ IdsKnown' /\ TableMade' /\ TableInOrder'
  BY <1>1, <1>2, NoneComes DEF TypeOK, Came
<1>4. NewUntouched' /\ HomesMade'
  BY <1>1 DEF Ind, NewUntouched, HomesMade, Shape
<1>5. ASSUME NEW l \in Requests, Settled(l)'  PROVE TellsTruth(l)'
  <2>1. CASE l = k
    BY <2>1, <1>1 DEF TellsTruth, Shape
  <2>2. CASE l # k
    <3>1. Settled(l) /\ Open(l)' = Open(l)
      BY <1>1, <1>5 DEF Settled, Users, Made, Open
    <3>2. state'[l] = state[l] /\ pending'[l] = pending[l]
      BY <2>2, <1>1 DEF Shape
    <3>3. TellsTruth(l)
      BY <3>1 DEF Ind, SettledIsTrue
    <3> QED
      BY <3>1, <3>2, <3>3 DEF TellsTruth
  <2> QED
    BY <2>1, <2>2
<1> QED
  BY <1>3, <1>4, <1>5 DEF Ind, SettledIsTrue

LEMMA NextStep ==
  ASSUME Ind, Next
  PROVE  Ind'
<1>1. ASSUME NEW r \in Requests, NEW i \in {None} \cup {id[k] : k \in Made}, Send(r, i)
      PROVE  Ind'
  <2>1. RequestComes(r)
    BY <1>1 DEF Send, RequestComes
  <2> QED
    BY <1>1, <2>1, ComesIn DEF Send
<1>2. ASSUME NEW r \in Requests, NEW i \in {None} \cup {id[k] : k \in Made}, OpenStream(r, i)
      PROVE  Ind'
  <2>1. RequestComes(r)
    BY <1>2 DEF OpenStream, RequestComes
  <2> QED
    BY <1>2, <2>1, ComesIn DEF OpenStream
<1> QED
  BY <1>1, <1>2, BeginStep, AskStep, EndStep, CutStep, DropStep, CancelStep DEF Next

LEMMA StutterStep ==
  ASSUME Ind, UNCHANGED vars
  PROVE  Ind'
BY DEF Ind, TypeOK, Shape, IdsKnown, TableMade, NewUntouched, HomesMade, TableInOrder, Came,
       SettledIsTrue, Settled, TellsTruth, Open, Users, Made, vars, recordVars, requestVars

LEMMA InitInd == Init => Ind
<1> SUFFICES ASSUME Init  PROVE Ind
  OBVIOUS
<1>1. TypeOK
  BY A2AAssumption DEF Init, TypeOK, Shape, States
<1>2. SettledIsTrue
  BY DEF Init, SettledIsTrue, Settled, Made
<1> QED
  BY <1>1, <1>2 DEF Init, Ind, IdsKnown, TableMade, NewUntouched, HomesMade, TableInOrder, InFlight, Running

(* The inductive invariant holds in every state.                            *)
THEOREM Invariance == Spec => []Ind
<1>1. Ind /\ [Next]_vars => Ind'
  BY NextStep, StutterStep
<1> QED
  BY InitInd, <1>1, PTL DEF Spec

-----------------------------------------------------------------------------
(* The theorems *)

(* The table keeps its limit and holds no record and no id twice, with any  *)
(* number of requests, any limit and any overlap.                           *)
THEOREM TypeCorrect == Spec => []TypeOK
<1>1. Ind => TypeOK
  BY DEF Ind
<1> QED
  BY Invariance, <1>1, PTL

(* A task on which nothing works says what its Context says.                *)
THEOREM TasksTellTruth == Spec => []SettledIsTrue
<1>1. Ind => SettledIsTrue
  BY DEF Ind
<1> QED
  BY Invariance, <1>1, PTL

(* The table loses a record only to a new one, and then what it loses is    *)
(* the first of its finished records, or the first of all.                  *)
LEMMA TableLoses ==
  ASSUME Ind, Next, NEW k \in ToSet(table) \ ToSet(table')
  PROVE  \E n \in DOMAIN table :
           /\ k = table[n]
           /\ Len(table) = MaxTasks
           /\ IF \E m \in DOMAIN table : state[table[m]] \in Finished
              THEN /\ state[k] \in Finished
                   /\ \A m \in DOMAIN table : state[table[m]] \in Finished => n <= m
              ELSE n = 1
<1>1. table' # table
  OBVIOUS
<1>2. PICK r \in Requests, i \in {None} \cup {id[l] : l \in Made} :
               pc[r] = "new" /\ RecordFor(r, i)
  BY <1>1 DEF Next, Send, OpenStream, Begin, Ask, End, Fail, DropUnstarted, Drop, GiveUp, Cancel
<1>3. /\ table \in Seq(Requests) /\ Len(table) \in Nat /\ DOMAIN table = 1 .. Len(table)
      /\ state[r] = "submitted"
  BY <1>2 DEF Ind, TypeOK, NewUntouched
<1>4. ASSUME NEW n \in DOMAIN table, table' = Append(RemoveAt(table, n), table[n])
      PROVE  FALSE
  <2>1. ToSet(table') = ToSet(table)
    BY <1>3, <1>4, MoveToEnd
  <2> QED
    BY <2>1
<1>5. NewRecord(r, i)
  BY <1>2, <1>4 DEF RecordFor
<1> DEFINE t == Append(table, r)
<1>6. /\ t \in Seq(Requests) /\ Len(t) = Len(table) + 1 /\ t[Len(table) + 1] = r
      /\ \A m \in DOMAIN table : t[m] = table[m] /\ table[m] # r
      /\ \/ Len(t) <= MaxTasks /\ table' = t
         \/ /\ Len(table) = MaxTasks
            /\ \E n \in DOMAIN t :
                 /\ table' = RemoveAt(t, n)
                 /\ IF \E m \in DOMAIN t : state[t[m]] \in Finished
                    THEN /\ state[t[n]] \in Finished
                         /\ \A m \in DOMAIN t : state[t[m]] \in Finished => n <= m
                    ELSE n = 1
  BY <1>2, <1>5, NewRecordTable
<1> HIDE DEF t
<1>7. t \in Seq(Requests) /\ Len(t) = Len(table) + 1
  BY Zenon, <1>6
<1>8. DOMAIN t = 1 .. Len(table) + 1
  BY <1>3, <1>7
<1>9. PICK j \in DOMAIN table : k = table[j]
  BY DEF ToSet
<1>10. j \in 1 .. Len(table) /\ j \in DOMAIN t /\ t[j] = k
  BY <1>3, <1>6, <1>8, <1>9
<1>11. table' # t
  <2>1. k \in ToSet(t)
    BY <1>10 DEF ToSet
  <2> QED
    BY <2>1
<1>12. Len(table) = MaxTasks
  BY Zenon, <1>6, <1>11
<1>13. PICK n \in DOMAIN t :
         /\ table' = RemoveAt(t, n)
         /\ IF \E m \in DOMAIN t : state[t[m]] \in Finished
            THEN /\ state[t[n]] \in Finished
                 /\ \A m \in DOMAIN t : state[t[m]] \in Finished => n <= m
            ELSE n = 1
  BY Zenon, <1>6, <1>11
<1>14. j = n
  <2>1. /\ table' \in Seq(Requests) /\ Len(table') = Len(t) - 1
        /\ \A m \in 1 .. Len(t) - 1 : table'[m] = IF m < n THEN t[m] ELSE t[m + 1]
    BY <1>7, <1>13, RemoveAtFacts
  <2>2. DOMAIN table' = 1 .. Len(table) /\ n \in 1 .. Len(table) + 1
    BY <2>1, <1>3, <1>7, <1>8
  <2>3. CASE j < n
    <3>1. j \in DOMAIN table' /\ table'[j] = k
      BY <2>1, <2>2, <2>3, <1>3, <1>7, <1>10
    <3> QED
      BY <3>1 DEF ToSet
  <2>4. CASE j > n
    <3>1. j - 1 \in DOMAIN table' /\ table'[j - 1] = k
      BY <2>1, <2>2, <2>4, <1>3, <1>7, <1>10
    <3> QED
      BY <3>1 DEF ToSet
  <2> QED
    BY <2>2, <2>3, <2>4, <1>10
<1>15. \A m \in DOMAIN t : state[t[m]] \in Finished => m \in DOMAIN table /\ t[m] = table[m]
  <2> SUFFICES ASSUME NEW m \in DOMAIN t, m \notin DOMAIN table
               PROVE  state[t[m]] \notin Finished
    BY <1>6
  <2>1. m = Len(table) + 1
    BY <1>3, <1>8
  <2> QED
    BY <2>1, <1>3, <1>6 DEF Finished
<1>16. \A m \in DOMAIN table : m \in DOMAIN t /\ t[m] = table[m]
  BY <1>3, <1>6, <1>8
<1>17. CASE \E m \in DOMAIN table : state[table[m]] \in Finished
  <2>1. \E m \in DOMAIN t : state[t[m]] \in Finished
    BY <1>16, <1>17
  <2> QED
    BY <2>1, <1>9, <1>10, <1>12, <1>13, <1>14, <1>16, <1>17
<1>18. CASE ~ \E m \in DOMAIN table : state[table[m]] \in Finished
  <2>1. ~ \E m \in DOMAIN t : state[t[m]] \in Finished
    BY <1>15, <1>18
  <2> QED
    BY <2>1, <1>9, <1>12, <1>13, <1>14, <1>18
<1> QED
  BY <1>17, <1>18

(* The task that leaves the table was the longest silent of those that      *)
(* might have: of the finished ones, or of all if none is.                  *)
THEOREM LongestLeaves == Spec => LongestSilentLeaves
<1>1. ASSUME Ind, Next, NEW k \in ToSet(table) \ ToSet(table')
      PROVE  LET done  == {l \in ToSet(table) : state[l] \in Finished}
                 rivals == IF done # {} THEN done ELSE ToSet(table)
             IN  /\ Len(table) = MaxTasks
                 /\ k \in rivals
                 /\ \A l \in rivals : talk[k] \subseteq talk[l]
  <2> DEFINE done   == {l \in ToSet(table) : state[l] \in Finished}
             rivals == IF done # {} THEN done ELSE ToSet(table)
  <2>1. PICK n \in DOMAIN table :
          /\ k = table[n]
          /\ Len(table) = MaxTasks
          /\ IF \E m \in DOMAIN table : state[table[m]] \in Finished
             THEN /\ state[k] \in Finished
                  /\ \A m \in DOMAIN table : state[table[m]] \in Finished => n <= m
             ELSE n = 1
    BY <1>1, TableLoses
  <2>2. /\ DOMAIN table = 1 .. Len(table) /\ Len(table) \in Nat
        /\ \A l, m \in DOMAIN table : l < m => talk[table[l]] \subseteq talk[table[m]]
    BY <1>1 DEF Ind, TypeOK, TableInOrder
  <2>3. ASSUME NEW m \in DOMAIN table, n <= m  PROVE talk[k] \subseteq talk[table[m]]
    <3>1. CASE n = m
      BY <3>1, <2>1
    <3>2. CASE n < m
      BY <3>2, <2>1, <2>2
    <3> QED
      BY <3>1, <3>2, <2>2, <2>3
  <2>4. CASE done # {}
    <3>1. \E m \in DOMAIN table : state[table[m]] \in Finished
      BY <2>4 DEF ToSet
    <3>2. k \in done
      BY <3>1, <2>1
    <3>3. ASSUME NEW l \in done  PROVE talk[k] \subseteq talk[l]
      <4>1. PICK m \in DOMAIN table : l = table[m]
        BY <3>3 DEF ToSet
      <4> QED
        BY <4>1, <3>1, <2>1, <2>3
    <3> QED
      BY <2>1, <2>4, <3>2, <3>3
  <2>5. CASE done = {}
    <3>1. ~ \E m \in DOMAIN table : state[table[m]] \in Finished
      BY <2>5 DEF ToSet
    <3>2. ASSUME NEW l \in ToSet(table)  PROVE talk[k] \subseteq talk[l]
      <4>1. PICK m \in DOMAIN table : l = table[m]
        BY <3>2 DEF ToSet
      <4>2. n <= m
        BY <3>1, <2>1, <2>2
      <4> QED
        BY <4>1, <4>2, <2>3
    <3> QED
      BY <1>1, <2>1, <2>5, <3>2
  <2> QED
    BY <2>4, <2>5
<1>2. Ind /\ [Next]_vars => [LongestSilentLeave]_vars
  BY <1>1 DEF LongestSilentLeave
<1> QED
  BY Invariance, <1>2, PTL DEF Spec, LongestSilentLeaves
=============================================================================
