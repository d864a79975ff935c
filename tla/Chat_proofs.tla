---------------------------- MODULE Chat_proofs ----------------------------
(***************************************************************************)
(* Proofs about Chat: the lock table keeps the requests of one session     *)
(* apart, counts exactly what it should, implements SessionLock, and no    *)
(* saved turn is lost, for any finite set of requests, any sessions and    *)
(* any number of disconnects.                                              *)
(***************************************************************************)
EXTENDS Chat, FiniteSetTheorems, TLAPS

(* Waiters, each once, in the queue of the lock object they wait for.       *)
QueuesExact ==
  \A k \in Requests : ToSet(queue[k]) = WaitingFor(k) /\ IsInjective(queue[k])

(* An active request uses the lock object its session has in the table, and *)
(* has it if it is in its turn.                                             *)
UsersUseTable ==
  \A r \in Requests :
    /\ pc[r] \in Active =>
         of[r] \in Sessions /\ mine[r] \in Requests /\ mine[r] = lock[of[r]]
    /\ pc[r] \in Holding => holder[mine[r]] = r

HoldersAreInTurn ==
  \A k \in Requests :
    holder[k] # None => pc[holder[k]] \in Holding /\ mine[holder[k]] = k

(* A lock object belongs to one session, and to none before it is made.     *)
LocksDistinct ==
  \A s, t \in Sessions : lock[s] # None /\ lock[s] = lock[t] => s = t

NewIsUnused ==
  \A r \in Requests :
    pc[r] = "new" =>
      /\ \A s \in Sessions : lock[s] # r
      /\ \A q \in Requests : mine[q] # r

CountsExact ==
  \A s \in Sessions :
    /\ refs[s] = Cardinality(Users(s)) + leaked[s]
    /\ lock[s] = None <=> refs[s] = 0

(* The inductive invariant.                                                 *)
Ind ==
  /\ Shape
  /\ QueuesExact
  /\ UsersUseTable
  /\ HoldersAreInTurn
  /\ LocksDistinct
  /\ NewIsUnused
  /\ CountsExact

-----------------------------------------------------------------------------
(* Queues *)

(* What is left of a sequence without its i-th element, index by index.     *)
LEMMA RemoveAtFacts ==
  ASSUME NEW S, NEW q \in Seq(S), NEW i \in DOMAIN q
  PROVE  /\ RemoveAt(q, i) \in Seq(S)
         /\ Len(RemoveAt(q, i)) = Len(q) - 1
         /\ \A j \in 1 .. Len(q) - 1 :
              RemoveAt(q, i)[j] = IF j < i THEN q[j] ELSE q[j + 1]
<1> DEFINE front == SubSeq(q, 1, i - 1)
           back  == SubSeq(q, i + 1, Len(q))
<1>1. front \in Seq(S) /\ Len(front) = i - 1 /\ \A j \in 1 .. i - 1 : front[j] = q[j]
  OBVIOUS
<1>2. back \in Seq(S) /\ Len(back) = Len(q) - i /\ \A j \in 1 .. Len(q) - i : back[j] = q[j + i]
  OBVIOUS
<1>3. RemoveAt(q, i) = front \o back
  BY DEF RemoveAt
<1> HIDE DEF front, back
<1> QED
  BY <1>1, <1>2, <1>3

(* Removing the i-th element of a sequence without repetition removes that  *)
(* element and no other.                                                    *)
LEMMA RemoveAtOnce ==
  ASSUME NEW S, NEW q \in Seq(S), NEW i \in DOMAIN q, IsInjective(q)
  PROVE  /\ RemoveAt(q, i) \in Seq(S)
         /\ ToSet(RemoveAt(q, i)) = ToSet(q) \ {q[i]}
         /\ IsInjective(RemoveAt(q, i))
<1> DEFINE p == RemoveAt(q, i)
<1>1. /\ p \in Seq(S) /\ Len(p) = Len(q) - 1
      /\ \A j \in 1 .. Len(q) - 1 : p[j] = IF j < i THEN q[j] ELSE q[j + 1]
  BY RemoveAtFacts
<1>2. Len(q) \in Nat /\ i \in 1 .. Len(q) /\ DOMAIN q = 1 .. Len(q) /\ DOMAIN p = 1 .. Len(q) - 1
  BY <1>1
<1> HIDE DEF p
<1>3. IsInjective(p)
  <2> DEFINE from(j) == IF j < i THEN j ELSE j + 1
  <2>1. \A j \in DOMAIN p : from(j) \in DOMAIN q /\ p[j] = q[from(j)]
    BY <1>1, <1>2
  <2>2. \A a, b \in DOMAIN p : from(a) = from(b) => a = b
    BY <1>2
  <2> HIDE DEF from
  <2> QED BY <2>1, <2>2 DEF IsInjective
<1>4. ToSet(p) \subseteq ToSet(q) \ {q[i]}
  BY <1>1, <1>2 DEF ToSet, IsInjective
<1>5. ASSUME NEW j \in DOMAIN q, q[j] # q[i]  PROVE q[j] \in ToSet(p)
  <2>1. CASE j < i
    <3>1. j \in DOMAIN p /\ p[j] = q[j]
      BY <2>1, <1>1, <1>2
    <3> QED BY <3>1 DEF ToSet
  <2>2. CASE j > i
    <3>1. j - 1 \in DOMAIN p /\ p[j - 1] = q[j]
      BY <2>2, <1>1, <1>2
    <3> QED BY <3>1 DEF ToSet
  <2> QED
    BY <2>1, <2>2, <1>2, <1>5
<1>6. ToSet(q) \ {q[i]} \subseteq ToSet(p)
  BY <1>5 DEF ToSet
<1> QED
  BY <1>1, <1>3, <1>4, <1>6 DEF p

(* The same of the tail.                                                    *)
LEMMA TailOnce ==
  ASSUME NEW S, NEW q \in Seq(S), q # <<>>, IsInjective(q)
  PROVE  /\ Tail(q) \in Seq(S)
         /\ Head(q) \in ToSet(q)
         /\ ToSet(Tail(q)) = ToSet(q) \ {Head(q)}
         /\ IsInjective(Tail(q))
<1>1. /\ Tail(q) \in Seq(S) /\ Len(Tail(q)) = Len(q) - 1
      /\ \A j \in 1 .. Len(q) - 1 : Tail(q)[j] = q[j + 1]
      /\ Head(q) = q[1] /\ Len(q) \in Nat \ {0}
  OBVIOUS
<1>2. DOMAIN q = 1 .. Len(q) /\ DOMAIN Tail(q) = 1 .. Len(q) - 1
  BY <1>1
<1>3. IsInjective(Tail(q))
  BY <1>1, <1>2 DEF IsInjective
<1>4. ToSet(Tail(q)) \subseteq ToSet(q) \ {Head(q)}
  BY <1>1, <1>2 DEF ToSet, IsInjective
<1>5. ASSUME NEW j \in DOMAIN q, q[j] # Head(q)  PROVE q[j] \in ToSet(Tail(q))
  <2>1. j - 1 \in DOMAIN Tail(q) /\ Tail(q)[j - 1] = q[j]
    BY <1>1, <1>2, <1>5
  <2> QED
    BY <2>1 DEF ToSet
<1>6. ToSet(q) \ {Head(q)} \subseteq ToSet(Tail(q))
  BY <1>5 DEF ToSet
<1>7. Head(q) \in ToSet(q)
  BY <1>1, <1>2 DEF ToSet
<1> QED
  BY <1>1, <1>3, <1>4, <1>6, <1>7

(* Appending a new element.                                                 *)
LEMMA AppendOnce ==
  ASSUME NEW S, NEW q \in Seq(S), NEW e \in S, e \notin ToSet(q), IsInjective(q)
  PROVE  /\ Append(q, e) \in Seq(S)
         /\ ToSet(Append(q, e)) = ToSet(q) \cup {e}
         /\ IsInjective(Append(q, e))
<1> DEFINE p == Append(q, e)
<1>1. /\ p \in Seq(S) /\ Len(p) = Len(q) + 1 /\ p[Len(q) + 1] = e
      /\ \A j \in 1 .. Len(q) : p[j] = q[j]
      /\ Len(q) \in Nat
  OBVIOUS
<1>2. DOMAIN q = 1 .. Len(q) /\ DOMAIN p = 1 .. Len(q) + 1
  BY <1>1
<1> HIDE DEF p
<1>3. \A j \in DOMAIN q : q[j] # e
  BY DEF ToSet
<1>4. IsInjective(p)
  BY <1>1, <1>2, <1>3 DEF IsInjective
<1>5. ToSet(p) = ToSet(q) \cup {e}
  BY <1>1, <1>2 DEF ToSet
<1> QED
  BY <1>1, <1>4, <1>5 DEF p

(* The empty queue has no members and no repetition.                        *)
LEMMA EmptyOnce == ToSet(<<>>) = {} /\ IsInjective(<<>>)
BY DEF ToSet, IsInjective

LEMMA NoMembers == ASSUME NEW S, NEW q \in Seq(S), ToSet(q) = {}  PROVE q = <<>>
<1>1. DOMAIN q = {}
  BY DEF ToSet
<1> QED
  BY <1>1

-----------------------------------------------------------------------------
(* Users and counts *)

LEMMA UsersFinite == \A s : IsFiniteSet(Users(s)) /\ Cardinality(Users(s)) \in Nat
<1>1. \A s : Users(s) \subseteq Requests
  BY DEF Users
<1> QED
  BY <1>1, ChatAssumption, FS_Subset, FS_CardinalityType

(* A session with a user is counted, and a count of one is its only user.   *)
LEMMA CountedUser ==
  ASSUME Ind, NEW r \in Requests, pc[r] \in Active
  PROVE  /\ of[r] \in Sessions /\ mine[r] \in Requests /\ lock[of[r]] = mine[r]
         /\ refs[of[r]] \in Nat \ {0}
         /\ refs[of[r]] <= 1 <=> (Users(of[r]) = {r} /\ leaked[of[r]] = 0)
         /\ Cardinality(Users(of[r]) \ {r}) = Cardinality(Users(of[r])) - 1
<1>1. of[r] \in Sessions /\ mine[r] \in Requests /\ lock[of[r]] = mine[r]
  BY DEF Ind, UsersUseTable
<1>2. r \in Users(of[r])
  BY DEF Users
<1>3. /\ IsFiniteSet(Users(of[r])) /\ Cardinality(Users(of[r])) \in Nat
      /\ refs[of[r]] = Cardinality(Users(of[r])) + leaked[of[r]] /\ leaked[of[r]] \in Nat
  BY <1>1, UsersFinite DEF Ind, CountsExact, Shape
<1>4. /\ Cardinality(Users(of[r]) \ {r}) = Cardinality(Users(of[r])) - 1
      /\ IsFiniteSet(Users(of[r]) \ {r})
  BY <1>2, <1>3, FS_RemoveElement
<1>5. /\ Cardinality(Users(of[r]) \ {r}) \in Nat
      /\ Cardinality(Users(of[r]) \ {r}) = 0 <=> Users(of[r]) \ {r} = {}
  BY <1>4, FS_CardinalityType, FS_EmptySet
<1> QED
  BY <1>1, <1>2, <1>3, <1>4, <1>5

-----------------------------------------------------------------------------
(* Each kind of step preserves the invariant *)

(* Everything but the shape, which each step keeps for reasons of its own.  *)
Locks ==
  QueuesExact /\ UsersUseTable /\ HoldersAreInTurn /\ LocksDistinct /\ NewIsUnused /\ CountsExact

(* Steps that leave the lock alone and move no one into or out of a turn.   *)
LEMMA TurnStep ==
  ASSUME Ind, UNCHANGED <<of, lockVars>>,
         \/ UNCHANGED pc
         \/ \E r \in Requests, p \in Holding : pc[r] \in Holding /\ pc' = [pc EXCEPT ![r] = p]
  PROVE  Locks'
<1> USE DEF Ind, Shape, lockVars
<1>1. \A r \in Requests : /\ pc'[r] \in Active <=> pc[r] \in Active
                          /\ pc'[r] \in Holding <=> pc[r] \in Holding
                          /\ pc'[r] = "waiting" <=> pc[r] = "waiting"
                          /\ pc'[r] = "new" <=> pc[r] = "new"
  BY DEF Active, Holding
<1>2. QueuesExact'
  BY <1>1 DEF QueuesExact, WaitingFor
<1>3. UsersUseTable'
  BY <1>1 DEF UsersUseTable
<1>4. HoldersAreInTurn'
  BY <1>1 DEF HoldersAreInTurn
<1>5. LocksDistinct' /\ NewIsUnused'
  BY <1>1 DEF LocksDistinct, NewIsUnused
<1>6. \A s : Users(s)' = Users(s)
  BY <1>1 DEF Users
<1>7. CountsExact'
  BY <1>6 DEF CountsExact
<1> QED
  BY <1>2, <1>3, <1>4, <1>5, <1>7 DEF Locks

(* The way out of a turn.                                                   *)
LEMMA ReleaseStep ==
  ASSUME Ind, NEW r \in Requests, pc[r] \in Holding, Release(r)
  PROVE  Locks' /\ refs' \in [Sessions -> Nat] /\ lock' \in [Sessions -> Requests \cup {None}]
<1> DEFINE s == of[r]
<1>1. /\ s \in Sessions /\ mine[r] \in Requests /\ lock[s] = mine[r] /\ holder[mine[r]] = r
      /\ refs[s] \in Nat \ {0}
      /\ refs[s] <= 1 <=> (Users(s) = {r} /\ leaked[s] = 0)
      /\ Cardinality(Users(s) \ {r}) = Cardinality(Users(s)) - 1
      /\ None \notin Requests
  BY CountedUser, ChatAssumption DEF Ind, UsersUseTable, Active, Holding
<1>2. /\ pc' = [pc EXCEPT ![r] = "done"]
      /\ refs' = [refs EXCEPT ![s] = @ - 1]
      /\ lock' = [lock EXCEPT ![s] = IF refs[s] <= 1 THEN None ELSE @]
      /\ holder' = [holder EXCEPT ![mine[r]] = None]
      /\ UNCHANGED <<of, mine, queue, leaked>>
  BY DEF Release
<1> USE DEF Ind, Shape
<1>3. /\ \A q \in Requests \ {r} : pc'[q] = pc[q]
      /\ pc'[r] = "done"
      /\ \A q \in Requests : pc[q] = "waiting" => q # r
  BY <1>2 DEF Active, Holding
<1>4. QueuesExact'
  BY <1>2, <1>3 DEF QueuesExact, WaitingFor, Active, Holding
<1>5. \A q \in Requests \ {r} : pc[q] \in Active /\ of[q] = s => refs[s] > 1
  BY <1>1 DEF Users
<1>6. ASSUME NEW q \in Requests, q # r, pc[q] \in Active
      PROVE  of[q] \in Sessions /\ mine[q] \in Requests /\ mine[q] = lock'[of[q]]
  <2>1. of[q] \in Sessions /\ mine[q] \in Requests /\ mine[q] = lock[of[q]]
    BY <1>6 DEF UsersUseTable
  <2>2. CASE of[q] = s
    BY <2>1, <2>2, <1>1, <1>2, <1>5, <1>6
  <2>3. CASE of[q] # s
    BY <2>1, <2>3, <1>2
  <2> QED BY <2>2, <2>3
<1>7. ASSUME NEW q \in Requests, q # r, pc[q] \in Holding
      PROVE  holder'[mine[q]] = q
  <2>1. mine[q] \in Requests /\ holder[mine[q]] = q
    BY <1>7 DEF UsersUseTable, Active, Holding
  <2>2. mine[q] # mine[r]
    BY <2>1, <1>1, <1>7
  <2> QED BY <2>1, <2>2, <1>2
<1>8. UsersUseTable'
  BY <1>2, <1>3, <1>6, <1>7 DEF UsersUseTable, Active, Holding
<1>9. HoldersAreInTurn'
  BY <1>1, <1>2, <1>3 DEF HoldersAreInTurn
<1>10. LocksDistinct'
  BY <1>1, <1>2 DEF LocksDistinct
<1>11. NewIsUnused'
  BY <1>1, <1>2, <1>3 DEF NewIsUnused
<1>12. \A t \in Sessions : Users(t)' = IF t = s THEN Users(t) \ {r} ELSE Users(t)
  BY <1>2, <1>3 DEF Users, Active
<1>13. ASSUME NEW t \in Sessions  PROVE refs'[t] = Cardinality(Users(t)') + leaked'[t]
  <2>1. refs[t] = Cardinality(Users(t)) + leaked[t] /\ leaked[t] \in Nat /\ leaked'[t] = leaked[t]
    BY <1>2 DEF CountsExact
  <2>2. Cardinality(Users(t)) \in Nat
    BY UsersFinite
  <2>3. CASE t = s
    <3>1. refs'[t] = refs[t] - 1
      BY <2>3, <1>2, <1>1
    <3>2. Users(t)' = Users(t) \ {r}
      BY <2>3, <1>12
    <3>3. Cardinality(Users(t) \ {r}) = Cardinality(Users(t)) - 1
      BY <2>3, <1>1
    <3> QED BY <3>1, <3>2, <3>3, <2>1, <2>2
  <2>4. CASE t # s
    <3>1. refs'[t] = refs[t]
      BY <2>4, <1>2
    <3>2. Users(t)' = Users(t)
      BY <2>4, <1>12
    <3> QED BY <3>1, <3>2, <2>1
  <2> QED BY <2>3, <2>4
<1>14. refs' \in [Sessions -> Nat]
  BY <1>1, <1>2
<1>15. \A t \in Sessions : lock'[t] = None <=> refs'[t] = 0
  BY <1>1, <1>2 DEF CountsExact
<1>16. CountsExact'
  BY <1>13, <1>15 DEF CountsExact
<1>17. lock' \in [Sessions -> Requests \cup {None}]
  BY <1>1, <1>2
<1> QED
  BY <1>4, <1>8, <1>9, <1>10, <1>11, <1>14, <1>16, <1>17 DEF Locks

(* A request takes a free lock, made or found, or stands in its queue.      *)
LEMMA ArriveStep ==
  ASSUME Ind, NEW r \in Requests, NEW s \in Sessions, Arrive(r, s)
  PROVE  Locks' /\ Shape'
<1> DEFINE k == IF lock[s] = None THEN r ELSE lock[s]
<1> USE DEF Ind, Shape
<1>1. /\ pc[r] = "new" /\ k \in Requests /\ None \notin Requests
      /\ of' = [of EXCEPT ![r] = s] /\ mine' = [mine EXCEPT ![r] = k]
      /\ lock' = [lock EXCEPT ![s] = k] /\ refs' = [refs EXCEPT ![s] = @ + 1]
      /\ UNCHANGED <<inorder, leaked, runner, mem, store, gone>>
  BY ChatAssumption DEF Arrive, dataVars
<1>2. \/ /\ holder[k] = None /\ queue[k] = <<>>
         /\ holder' = [holder EXCEPT ![k] = r] /\ UNCHANGED queue
         /\ pc' = [pc EXCEPT ![r] = "opening"] /\ calls' = Append(calls, LoadCall(r))
      \/ /\ queue' = [queue EXCEPT ![k] = Append(@, r)] /\ UNCHANGED <<holder, calls>>
         /\ pc' = [pc EXCEPT ![r] = "waiting"]
  BY DEF Arrive
<1>3. /\ \A q \in Requests \ {r} : pc'[q] = pc[q] /\ of'[q] = of[q] /\ mine'[q] = mine[q]
      /\ pc'[r] \in {"opening", "waiting"} /\ of'[r] = s /\ mine'[r] = k /\ lock'[s] = k
  BY <1>1, <1>2
<1>4. LoadCall(r) \in Calls
  BY DEF LoadCall, Call, Calls, NoTurns, Turns, Absent
<1>5. \A q \in Requests : ToSet(queue[q]) = WaitingFor(q) /\ IsInjective(queue[q]) /\ r \notin WaitingFor(q)
  BY <1>1 DEF QueuesExact, WaitingFor
<1>6. queue' \in [Requests -> Seq(Requests)] /\ QueuesExact'
  <2>1. CASE pc' = [pc EXCEPT ![r] = "opening"] /\ UNCHANGED queue
    BY <2>1, <1>1, <1>3, <1>5 DEF QueuesExact, WaitingFor
  <2>2. CASE pc' = [pc EXCEPT ![r] = "waiting"] /\ queue' = [queue EXCEPT ![k] = Append(@, r)]
    <3>1. /\ Append(queue[k], r) \in Seq(Requests)
          /\ ToSet(Append(queue[k], r)) = ToSet(queue[k]) \cup {r}
          /\ IsInjective(Append(queue[k], r))
      BY <1>1, <1>5, AppendOnce
    <3>2. WaitingFor(k)' = WaitingFor(k) \cup {r}
      BY <2>2, <1>1, <1>3 DEF WaitingFor
    <3>3. \A q \in Requests : q # k => WaitingFor(q)' = WaitingFor(q)
      BY <2>2, <1>1, <1>3, <1>5 DEF WaitingFor
    <3> QED BY <2>2, <3>1, <3>2, <3>3, <1>1, <1>5 DEF QueuesExact
  <2> QED BY <1>2, <2>1, <2>2
<1>7. ASSUME NEW q \in Requests \ {r}, pc[q] \in Active
      PROVE  of[q] \in Sessions /\ mine[q] \in Requests /\ mine[q] = lock'[of[q]]
  <2>1. of[q] \in Sessions /\ mine[q] \in Requests /\ mine[q] = lock[of[q]]
    BY <1>7 DEF UsersUseTable
  <2> QED BY <2>1, <1>1
<1>8. ASSUME NEW q \in Requests \ {r}, pc[q] \in Holding  PROVE holder'[mine[q]] = q
  <2>1. mine[q] \in Requests /\ holder[mine[q]] = q
    BY <1>8 DEF UsersUseTable, Active, Holding
  <2> QED BY <2>1, <1>1, <1>2
<1>9. pc'[r] \in Holding => holder'[k] = r
  BY <1>1, <1>2 DEF Active, Holding
<1>10. UsersUseTable'
  BY <1>1, <1>3, <1>7, <1>8, <1>9 DEF UsersUseTable
<1>11. HoldersAreInTurn'
  <2>1. ASSUME NEW q \in Requests, holder[q] # None
        PROVE  holder[q] \in Requests \ {r} /\ pc[holder[q]] \in Holding /\ mine[holder[q]] = q
    BY <2>1, <1>1 DEF HoldersAreInTurn, Active, Holding
  <2>2. CASE holder' = [holder EXCEPT ![k] = r] /\ pc' = [pc EXCEPT ![r] = "opening"]
    BY <2>1, <2>2, <1>1, <1>3 DEF HoldersAreInTurn, Active, Holding
  <2>3. CASE UNCHANGED holder
    BY <2>1, <2>3, <1>3 DEF HoldersAreInTurn
  <2> QED BY <1>2, <2>2, <2>3
<1>12. LocksDistinct'
  <2>1. \A t \in Sessions \ {s} : lock[t] # k
    BY <1>1 DEF LocksDistinct, NewIsUnused
  <2> QED BY <2>1, <1>1 DEF LocksDistinct
<1>13. NewIsUnused'
  BY <1>1, <1>3 DEF NewIsUnused
<1>14. r \notin Users(s) /\ \A t \in Sessions : Users(t)' = IF t = s THEN Users(t) \cup {r} ELSE Users(t)
  BY <1>1, <1>3 DEF Users, Active
<1>15. Cardinality(Users(s) \cup {r}) = Cardinality(Users(s)) + 1
  <2>1. IsFiniteSet(Users(s))
    BY UsersFinite
  <2> QED BY <2>1, <1>14, FS_AddElement
<1>16. ASSUME NEW t \in Sessions
       PROVE  refs'[t] = Cardinality(Users(t)') + leaked'[t] /\ (lock'[t] = None <=> refs'[t] = 0)
  <2>1. /\ refs[t] = Cardinality(Users(t)) + leaked[t] /\ leaked[t] \in Nat /\ leaked'[t] = leaked[t]
        /\ lock[t] = None <=> refs[t] = 0
    BY <1>1 DEF CountsExact
  <2>2. Cardinality(Users(t)) \in Nat
    BY UsersFinite
  <2>3. CASE t = s
    <3>1. refs'[t] = refs[t] + 1 /\ lock'[t] # None
      BY <2>3, <1>1
    <3>2. Cardinality(Users(t)') = Cardinality(Users(t)) + 1
      BY <2>3, <1>14, <1>15
    <3> QED BY <3>1, <3>2, <2>1, <2>2
  <2>4. CASE t # s
    BY <2>1, <2>4, <1>1, <1>14
  <2> QED BY <2>3, <2>4
<1>17. CountsExact'
  BY <1>16 DEF CountsExact
<1>18. calls' \in Seq(Calls)
  <2>1. Append(calls, LoadCall(r)) \in Seq(Calls)
    BY <1>4
  <2> QED BY <1>2, <2>1
<1>19. Shape'
  <2>1. pc' \in [Requests -> Active \cup {"new", "done"}]
    BY <1>2 DEF Active
  <2>2. holder' \in [Requests -> Requests \cup {None}]
    <3>1. [holder EXCEPT ![k] = r] \in [Requests -> Requests \cup {None}]
      BY <1>1
    <3> QED BY <1>2, <3>1
  <2>3. /\ of' \in [Requests -> Sessions \cup {None}] /\ mine' \in [Requests -> Requests \cup {None}]
        /\ lock' \in [Sessions -> Requests \cup {None}] /\ refs' \in [Sessions -> Nat]
    BY <1>1
  <2> QED BY <1>1, <1>6, <1>18, <2>1, <2>2, <2>3
<1> QED
  BY <1>6, <1>10, <1>11, <1>12, <1>13, <1>17, <1>19 DEF Locks

(* The first waiter takes the lock.                                         *)
LEMMA AcquireStep ==
  ASSUME Ind, NEW r \in Requests, Acquire(r)
  PROVE  Locks' /\ Shape'
<1> DEFINE k == mine[r]
<1> USE DEF Ind, Shape
<1>1. /\ pc[r] = "waiting" /\ k \in Requests /\ None \notin Requests
      /\ holder[k] = None /\ queue[k] # <<>> /\ Head(queue[k]) = r
      /\ holder' = [holder EXCEPT ![k] = r] /\ queue' = [queue EXCEPT ![k] = Tail(@)]
      /\ pc' = [pc EXCEPT ![r] = "opening"] /\ calls' = Append(calls, LoadCall(r))
      /\ UNCHANGED <<inorder, of, mine, lock, refs, leaked, runner, mem, store, gone>>
  BY ChatAssumption DEF Acquire, dataVars, UsersUseTable, Active
<1>2. LoadCall(r) \in Calls
  BY DEF LoadCall, Call, Calls, NoTurns, Turns, Absent
<1>3. /\ Tail(queue[k]) \in Seq(Requests) /\ ToSet(Tail(queue[k])) = WaitingFor(k) \ {r}
      /\ IsInjective(Tail(queue[k]))
  BY <1>1, TailOnce DEF QueuesExact
<1>4. WaitingFor(k)' = WaitingFor(k) \ {r} /\ \A q \in Requests : q # k => WaitingFor(q)' = WaitingFor(q)
  BY <1>1 DEF WaitingFor
<1>5. QueuesExact'
  BY <1>1, <1>3, <1>4 DEF QueuesExact
<1>6. \A q \in Requests : /\ pc'[q] \in Active <=> pc[q] \in Active
                          /\ pc'[q] \in Holding <=> pc[q] \in Holding \/ q = r
                          /\ pc'[q] = "new" <=> pc[q] = "new"
  BY <1>1 DEF Active, Holding
<1>7. UsersUseTable'
  BY <1>1, <1>6 DEF UsersUseTable, Active, Holding
<1>8. HoldersAreInTurn'
  BY <1>1, <1>6 DEF HoldersAreInTurn
<1>9. LocksDistinct' /\ NewIsUnused'
  BY <1>1, <1>6 DEF LocksDistinct, NewIsUnused
<1>10. \A s : Users(s)' = Users(s)
  BY <1>1, <1>6 DEF Users
<1>11. CountsExact'
  BY <1>1, <1>10 DEF CountsExact
<1>12. Shape'
  BY <1>1, <1>2, <1>3 DEF Active
<1> QED
  BY <1>5, <1>7, <1>8, <1>9, <1>11, <1>12 DEF Locks

(* A waiter gives up: the queue forgets it, the count does not.             *)
LEMMA LeaveQueueStep ==
  ASSUME Ind, NEW r \in Requests, LeaveQueue(r)
  PROVE  Locks' /\ Shape'
<1> DEFINE k == mine[r]
           s == of[r]
<1> USE DEF Ind, Shape
<1>1. /\ pc[r] = "waiting" /\ k \in Requests /\ s \in Sessions
      /\ pc' = [pc EXCEPT ![r] = "done"] /\ leaked' = [leaked EXCEPT ![s] = @ + 1]
      /\ gone' = gone \cup {r}
      /\ UNCHANGED <<inorder, of, mine, lock, refs, holder, runner, mem, store, calls>>
  BY DEF LeaveQueue, Disconnect, dataVars, UsersUseTable, Active
<1>2. PICK i \in DOMAIN queue[k] :
        queue[k][i] = r /\ queue' = [queue EXCEPT ![k] = RemoveAt(@, i)]
  BY DEF LeaveQueue
<1>3. /\ RemoveAt(queue[k], i) \in Seq(Requests) /\ IsInjective(RemoveAt(queue[k], i))
      /\ ToSet(RemoveAt(queue[k], i)) = WaitingFor(k) \ {r}
  BY <1>1, <1>2, RemoveAtOnce DEF QueuesExact
<1>4. WaitingFor(k)' = WaitingFor(k) \ {r} /\ \A q \in Requests : q # k => WaitingFor(q)' = WaitingFor(q)
  BY <1>1 DEF WaitingFor
<1>5. QueuesExact'
  BY <1>1, <1>2, <1>3, <1>4 DEF QueuesExact
<1>6. \A q \in Requests : /\ pc'[q] \in Active => pc[q] \in Active
                          /\ pc'[q] \in Holding <=> pc[q] \in Holding
                          /\ pc'[q] = "new" <=> pc[q] = "new"
  BY <1>1 DEF Active, Holding
<1>7. UsersUseTable'
  BY <1>1, <1>6 DEF UsersUseTable
<1>8. HoldersAreInTurn'
  BY <1>1, <1>6 DEF HoldersAreInTurn
<1>9. LocksDistinct' /\ NewIsUnused'
  BY <1>1, <1>6 DEF LocksDistinct, NewIsUnused
<1>10. r \in Users(s) /\ Users(s)' = Users(s) \ {r} /\ \A t : t # s => Users(t)' = Users(t)
  BY <1>1 DEF Users, Active
<1>11. Cardinality(Users(s)') = Cardinality(Users(s)) - 1
  BY <1>1, <1>10, CountedUser DEF Active
<1>12. ASSUME NEW t \in Sessions  PROVE refs'[t] = Cardinality(Users(t)') + leaked'[t]
  <2>1. refs[t] = Cardinality(Users(t)) + leaked[t] /\ leaked[t] \in Nat /\ refs' = refs
    BY <1>1 DEF CountsExact
  <2>2. Cardinality(Users(t)) \in Nat
    BY UsersFinite
  <2>3. CASE t = s
    BY <2>1, <2>2, <2>3, <1>1, <1>11
  <2>4. CASE t # s
    BY <2>1, <2>4, <1>1, <1>10
  <2> QED BY <2>3, <2>4
<1>13. CountsExact'
  BY <1>1, <1>12 DEF CountsExact
<1>14. Shape'
  BY <1>1, <1>2, <1>3 DEF Active
<1> QED
  BY <1>5, <1>7, <1>8, <1>9, <1>13, <1>14 DEF Locks

-----------------------------------------------------------------------------
(* Every step *)

(* A call that is over leaves calls behind.                                 *)
LEMMA DoneStep ==
  ASSUME calls \in Seq(Calls), NEW c \in DOMAIN calls, Done(c)
  PROVE  calls' \in Seq(Calls) /\ calls[c].req \in Requests /\ calls[c].turns \in Turns
<1>1. calls' \in Seq(Calls)
  BY RemoveAtFacts DEF Done
<1>2. calls[c] \in Calls
  OBVIOUS
<1> QED
  BY <1>1, <1>2 DEF Calls

LEMMA NextStep == ASSUME Ind, Next  PROVE Ind'
<1> SUFFICES Locks' /\ Shape'
  BY DEF Ind, Locks
<1>1. Shape
  BY DEF Ind
<1>2. ASSUME NEW r \in Requests, NEW s \in Sessions, Arrive(r, s)  PROVE Locks' /\ Shape'
  BY <1>2, ArriveStep
<1>3. ASSUME NEW r \in Requests, Acquire(r)  PROVE Locks' /\ Shape'
  BY <1>3, AcquireStep
<1>4. ASSUME NEW r \in Requests, Answer(r)  PROVE Locks' /\ Shape'
  <2> DEFINE turns == [mem[r] EXCEPT ![r] = Answered]
  <2>1. turns \in Turns
    BY <1>1 DEF Shape, Turns
  <2>2. Call(r, "save", turns) \in Calls
    BY <2>1 DEF Call, Calls
  <2>3. /\ calls' = Append(calls, Call(r, "save", turns)) /\ mem' = [mem EXCEPT ![r] = turns]
        /\ runner' = [runner EXCEPT ![r] = "saving"]
        /\ UNCHANGED <<inorder, pc, of, lockVars, store, gone>>
    BY <1>4 DEF Answer
  <2> HIDE DEF turns
  <2>4. calls' \in Seq(Calls) /\ mem' \in [Requests -> Turns]
    BY <2>1, <2>2, <2>3, <1>1 DEF Shape
  <2>5. Shape'
    BY <2>3, <2>4, <1>1 DEF Shape, lockVars
  <2>6. Locks'
    BY <2>3, TurnStep
  <2> QED BY <2>5, <2>6
<1>5. ASSUME NEW r \in Requests, RunnerFails(r) \/ RunnerCancelled(r)  PROVE Locks' /\ Shape'
  <2>1. /\ runner' = [runner EXCEPT ![r] = "off"]
        /\ UNCHANGED <<inorder, pc, of, lockVars, mem, store, calls, gone>>
    BY <1>5 DEF RunnerFails, RunnerCancelled
  <2>2. Shape'
    BY <2>1, <1>1 DEF Shape, lockVars
  <2>3. Locks'
    BY <2>1, TurnStep
  <2> QED BY <2>2, <2>3
<1>6. ASSUME NEW r \in Requests, SaveTurn(r)  PROVE Locks' /\ Shape'
  <2>1. /\ pc[r] = "running" /\ pc' = [pc EXCEPT ![r] = "saving"]
        /\ calls' = Append(calls, Call(r, "last", mem[r]))
        /\ UNCHANGED <<inorder, of, lockVars, dataVars, gone>>
    BY <1>6 DEF SaveTurn
  <2>2. Call(r, "last", mem[r]) \in Calls
    BY <1>1 DEF Shape, Call, Calls
  <2>3. calls' \in Seq(Calls)
    BY <2>1, <2>2, <1>1 DEF Shape
  <2>4. Shape'
    BY <2>1, <2>3, <1>1 DEF Shape, lockVars, dataVars, Active
  <2>5. Locks'
    BY <2>1, TurnStep DEF Holding, Active
  <2> QED BY <2>4, <2>5
<1>7. ASSUME NEW r \in Requests, pc[r] \in Holding, Release(r), calls' \in Seq(Calls),
             store' \in [Sessions -> Turns], gone' \subseteq Requests, UNCHANGED <<runner, mem>>
      PROVE  Locks' /\ Shape'
  <2>1. Locks' /\ refs' \in [Sessions -> Nat] /\ lock' \in [Sessions -> Requests \cup {None}]
    BY <1>7, ReleaseStep
  <2>2. Shape'
    BY <1>1, <1>7, <2>1 DEF Shape, Release, Active
  <2> QED BY <2>1, <2>2
<1>8. ASSUME NEW r \in Requests, LeaveQueue(r)  PROVE Locks' /\ Shape'
  BY <1>8, LeaveQueueStep
<1>9. ASSUME NEW r \in Requests, LeaveLoading(r)  PROVE Locks' /\ Shape'
  <2>1. /\ pc[r] \in Holding /\ Release(r) /\ gone' = gone \cup {r}
        /\ UNCHANGED <<runner, mem, store>>
    BY <1>9 DEF LeaveLoading, Disconnect, dataVars, Holding, Active
  <2>2. calls' \in Seq(Calls)
    BY <1>9, <1>1, DoneStep DEF LeaveLoading, Shape
  <2> QED BY <2>1, <2>2, <1>1, <1>7 DEF Shape
<1>10. ASSUME NEW r \in Requests, LeaveRunning(r)  PROVE Locks' /\ Shape'
  <2>1. /\ gone' = gone \cup {r}
        /\ UNCHANGED <<inorder, pc, of, lockVars, dataVars, calls>>
    BY <1>10 DEF LeaveRunning, Disconnect
  <2>2. Shape'
    BY <2>1, <1>1 DEF Shape, lockVars, dataVars
  <2>3. Locks'
    BY <2>1, TurnStep
  <2> QED BY <2>2, <2>3
<1>11. ASSUME NEW r \in Requests, LeaveSaving(r)  PROVE Locks' /\ Shape'
  <2>1. /\ pc[r] \in Holding /\ Release(r) /\ gone' = gone \cup {r}
        /\ UNCHANGED <<runner, mem, store, calls>>
    BY <1>11 DEF LeaveSaving, Disconnect, dataVars, Holding, Active
  <2> QED BY <2>1, <1>1, <1>7 DEF Shape
<1>12. ASSUME NEW c \in DOMAIN calls, Land(c)  PROVE Locks' /\ Shape'
  <2> DEFINE r == calls[c].req
  <2>1. Done(c)
    BY <1>12 DEF Land, LandLoad, LoadFails, LandSave, LandLast, LastFails, LandAbandoned
  <2>2. calls' \in Seq(Calls) /\ r \in Requests /\ calls[c].turns \in Turns
    BY <2>1, <1>1, DoneStep DEF Shape
  <2>3. [store EXCEPT ![of[r]] = calls[c].turns] \in [Sessions -> Turns]
    BY <2>2, <1>1 DEF Shape
  <2>4. CASE LandLoad(c)
    <3>1. /\ pc[r] = "opening" /\ pc' = [pc EXCEPT ![r] = "running"]
          /\ UNCHANGED <<inorder, of, lockVars, store, gone>>
      BY <2>4 DEF LandLoad
    <3>2. of[r] \in Sessions
      BY <3>1, <2>2 DEF Ind, UsersUseTable, Active
    <3>3. [store[of[r]] EXCEPT ![r] = Asked] \in Turns /\ store[of[r]] \in Turns
      BY <3>2, <2>2, <1>1 DEF Shape, Turns
    <3>4. mem' \in [Requests -> Turns] /\ runner' \in [Requests -> {"off", "working", "saving"}]
      <4>1. \/ /\ mem' = [mem EXCEPT ![r] = [store[of[r]] EXCEPT ![r] = Asked]]
               /\ runner' = [runner EXCEPT ![r] = "working"]
            \/ mem' = [mem EXCEPT ![r] = store[of[r]]] /\ runner' = runner
        BY <2>4 DEF LandLoad
      <4>2. mem \in [Requests -> Turns] /\ runner \in [Requests -> {"off", "working", "saving"}]
        BY <1>1 DEF Shape
      <4> QED BY <4>1, <4>2, <3>3, <2>2
    <3>5. Shape'
      BY <3>1, <3>4, <2>2, <1>1 DEF Shape, lockVars, Active
    <3>6. Locks'
      BY <3>1, <2>2, TurnStep DEF Holding, Active
    <3> QED BY <3>5, <3>6
  <2>5. CASE LoadFails(c) \/ LastFails(c)
    <3>1. pc[r] \in Holding /\ Release(r) /\ UNCHANGED <<runner, mem, store, gone>>
      BY <2>5 DEF LoadFails, LastFails, dataVars, Holding, Active
    <3> QED BY <3>1, <2>2, <1>1, <1>7 DEF Shape
  <2>6. CASE LandSave(c)
    <3>1. /\ store' \in {store, [store EXCEPT ![of[r]] = calls[c].turns]}
          /\ runner' = [runner EXCEPT ![r] = IF @ = "saving" THEN "off" ELSE @]
          /\ UNCHANGED <<inorder, pc, of, lockVars, mem, gone>>
      BY <2>6 DEF LandSave
    <3>2. store' \in [Sessions -> Turns] /\ runner' \in [Requests -> {"off", "working", "saving"}]
      BY <3>1, <2>3, <2>2, <1>1 DEF Shape
    <3>3. Shape'
      BY <3>1, <3>2, <2>2, <1>1 DEF Shape, lockVars
    <3>4. Locks'
      BY <3>1, TurnStep
    <3> QED BY <3>3, <3>4
  <2>7. CASE LandLast(c)
    <3>1. /\ pc[r] \in Holding /\ Release(r)
          /\ store' = [store EXCEPT ![of[r]] = calls[c].turns]
          /\ UNCHANGED <<runner, mem, gone>>
      BY <2>7 DEF LandLast, Holding, Active
    <3> QED BY <3>1, <2>2, <2>3, <1>1, <1>7 DEF Shape
  <2>8. CASE LandAbandoned(c)
    <3>1. /\ store' \in {store, [store EXCEPT ![of[r]] = calls[c].turns]}
          /\ UNCHANGED <<inorder, pc, of, lockVars, runner, mem, gone>>
      BY <2>8 DEF LandAbandoned
    <3>2. store' \in [Sessions -> Turns]
      BY <3>1, <2>3, <1>1 DEF Shape
    <3>3. Shape'
      BY <3>1, <3>2, <2>2, <1>1 DEF Shape, lockVars
    <3>4. Locks'
      BY <3>1, TurnStep
    <3> QED BY <3>3, <3>4
  <2> QED
    BY <1>12, <2>4, <2>5, <2>6, <2>7, <2>8 DEF Land
<1> QED
  BY <1>2, <1>3, <1>4, <1>5, <1>6, <1>8, <1>9, <1>10, <1>11, <1>12 DEF Next, Leaves

LEMMA InitInd == Init => Ind
<1> SUFFICES ASSUME Init PROVE Ind
  OBVIOUS
<1>1. NoTurns \in Turns
  BY DEF NoTurns, Turns
<1>2. Shape
  BY <1>1, ChatAssumption DEF Init, Shape
<1>3. QueuesExact
  BY EmptyOnce DEF Init, QueuesExact, WaitingFor
<1>4. UsersUseTable /\ HoldersAreInTurn
  BY DEF Init, UsersUseTable, HoldersAreInTurn, Active, Holding
<1>5. LocksDistinct /\ NewIsUnused
  BY ChatAssumption DEF Init, LocksDistinct, NewIsUnused
<1>6. \A s \in Sessions : Users(s) = {}
  BY DEF Init, Users, Active
<1>7. CountsExact
  <2>1. \A s \in Sessions : Cardinality(Users(s)) = 0
    BY <1>6, FS_EmptySet
  <2> QED BY <2>1 DEF Init, CountsExact
<1> QED
  BY <1>2, <1>3, <1>4, <1>5, <1>7 DEF Ind

(* A step that changes nothing the invariant is about.                      *)
LEMMA StutterStep == ASSUME Ind, UNCHANGED vars  PROVE Ind'
<1>1. Locks'
  BY TurnStep DEF vars
<1>2. Shape'
  BY DEF Ind, Shape, vars, lockVars, dataVars
<1> QED
  BY <1>1, <1>2 DEF Ind, Locks

THEOREM Invariance == Spec => []Ind
<1>1. Ind /\ [Next]_vars => Ind'
  BY NextStep, StutterStep
<1> QED
  BY InitInd, <1>1, PTL DEF Spec

-----------------------------------------------------------------------------
(* What follows *)

(* The state keeps its shape, and every queue holds its waiters, each once. *)
THEOREM TypeCorrect == Spec => []TypeOK
<1>1. Ind => TypeOK
  BY DEF Ind, TypeOK, QueuesExact
<1> QED
  BY <1>1, Invariance, PTL

(* Two requests are never both in a turn of one session.                    *)
THEOREM TurnsExclude == Spec => []MutualExclusion
<1>1. Ind => MutualExclusion
  BY DEF Ind, MutualExclusion, UsersUseTable, Active, Holding
<1> QED
  BY <1>1, Invariance, PTL

(* The lock table counts its users and the waiters that were cancelled.     *)
THEOREM TableExact == Spec => []LockTableExact
<1>1. Ind => LockTableExact
  BY DEF Ind, LockTableExact, CountsExact, UsersUseTable, Users
<1> QED
  BY <1>1, Invariance, PTL

-----------------------------------------------------------------------------
(* The lock table implements a line per session *)

(* A session's turn is free exactly when the lock in the table is.          *)
LEMMA FreeTurn ==
  ASSUME Ind, NEW s \in Sessions
  PROVE  Inside[s] = {} <=> (lock[s] = None \/ holder[lock[s]] = None)
<1> USE DEF Ind, Shape
<1>1. Inside[s] = {r \in Requests : of[r] = s /\ pc[r] \in Holding}
  BY DEF Inside
<1>2. ASSUME NEW r \in Inside[s]  PROVE lock[s] # None /\ holder[lock[s]] # None
  BY <1>1, ChatAssumption DEF UsersUseTable, Active, Holding
<1>3. ASSUME lock[s] # None, holder[lock[s]] # None  PROVE Inside[s] # {}
  <2> DEFINE q == holder[lock[s]]
  <2>1. lock[s] \in Requests /\ q \in Requests /\ pc[q] \in Holding /\ mine[q] = lock[s]
    BY <1>3 DEF HoldersAreInTurn
  <2>2. of[q] \in Sessions /\ lock[of[q]] = lock[s]
    BY <2>1 DEF UsersUseTable, Active, Holding
  <2>3. of[q] = s
    BY <2>2, <1>3 DEF LocksDistinct
  <2> QED BY <1>1, <2>1, <2>3
<1> QED
  BY <1>2, <1>3

LEMMA TurnImplements ==
  ASSUME Ind, UNCHANGED <<of, lockVars>>,
         \/ UNCHANGED pc
         \/ \E r \in Requests, p \in Holding : pc[r] \in Holding /\ pc' = [pc EXCEPT ![r] = p]
  PROVE  UNCHANGED <<Inside, Line>>
<1>1. \A r \in Requests : pc'[r] \in Holding <=> pc[r] \in Holding
  BY DEF Ind, Shape
<1>2. Inside' = Inside
  BY <1>1 DEF Inside
<1>3. Line' = Line
  BY DEF Line, lockVars
<1> QED
  BY <1>2, <1>3

LEMMA ReleaseImplements ==
  ASSUME Ind, NEW r \in Requests, pc[r] \in Holding, Release(r)
  PROVE  Promise!Leave(r, of[r])
<1> DEFINE s == of[r]
<1> USE DEF Ind, Shape
<1>1. /\ s \in Sessions /\ mine[r] \in Requests /\ lock[s] = mine[r]
      /\ refs[s] <= 1 => Users(s) = {r}
  BY CountedUser DEF Active, Holding
<1>2. /\ pc' = [pc EXCEPT ![r] = "done"]
      /\ lock' = [lock EXCEPT ![s] = IF refs[s] <= 1 THEN None ELSE @]
      /\ UNCHANGED <<of, queue>>
  BY DEF Release
<1>3. r \in Inside[s]
  BY <1>1 DEF Inside
<1>4. Inside' = [Inside EXCEPT ![s] = @ \ {r}]
  <2>1. \A q \in Requests : pc'[q] \in Holding <=> pc[q] \in Holding /\ q # r
    BY <1>2 DEF Active, Holding
  <2> DEFINE In(t) == {q \in Requests : of[q] = t /\ pc[q] \in Holding}
  <2>2. \A t \in Sessions : In(t)' = IF t = s THEN In(t) \ {r} ELSE In(t)
    BY <2>1, <1>2
  <2>3. Inside = [t \in Sessions |-> In(t)] /\ Inside' = [t \in Sessions |-> In(t)']
    BY DEF Inside
  <2> HIDE DEF In
  <2>4. \A t \in Sessions : Inside'[t] = IF t = s THEN Inside[t] \ {r} ELSE Inside[t]
    BY <2>2, <2>3
  <2>5. /\ Inside = [t \in Sessions |-> Inside[t]]
        /\ Inside' = [t \in Sessions |-> Inside'[t]]
    BY <2>3
  <2> QED BY <2>4, <2>5, <1>1
<1>5. ASSUME refs[s] <= 1  PROVE queue[lock[s]] = <<>>
  <2>1. \A q \in Requests : mine[q] = lock[s] /\ pc[q] = "waiting" => q \in Users(s)
    BY <1>1, ChatAssumption DEF Users, UsersUseTable, LocksDistinct, Active
  <2>2. WaitingFor(lock[s]) = {}
    BY <1>1, <1>5, <2>1 DEF WaitingFor, Active, Holding
  <2>3. queue[lock[s]] \in Seq(Requests) /\ ToSet(queue[lock[s]]) = {}
    BY <1>1, <2>2 DEF QueuesExact
  <2> QED BY <2>3, NoMembers
<1>6. Line' = Line
  BY <1>1, <1>2, <1>5, ChatAssumption DEF Line
<1> QED
  BY <1>3, <1>4, <1>6 DEF Promise!Leave

LEMMA ArriveImplements ==
  ASSUME Ind, NEW r \in Requests, NEW s \in Sessions, Arrive(r, s)
  PROVE  Promise!Ask(r, s)
<1> DEFINE k == IF lock[s] = None THEN r ELSE lock[s]
<1> USE DEF Ind, Shape
<1>1. /\ pc[r] = "new" /\ k \in Requests /\ None \notin Requests
      /\ of' = [of EXCEPT ![r] = s] /\ lock' = [lock EXCEPT ![s] = k]
  BY ChatAssumption DEF Arrive
<1>2. \A q \in Requests : ToSet(queue[q]) = WaitingFor(q) /\ queue[q] \in Seq(Requests)
  BY DEF QueuesExact
<1>3. ASSUME lock[s] = None  PROVE queue[k] = <<>> /\ holder[k] = None /\ Inside[s] = {}
  <2>1. WaitingFor(r) = {} /\ holder[r] = None
    BY <1>1 DEF WaitingFor, NewIsUnused, HoldersAreInTurn
  <2>2. queue[r] = <<>>
    BY <2>1, <1>2, NoMembers
  <2> QED BY <2>1, <2>2, <1>3, FreeTurn
<1>4. Line[s] = queue[k] /\ (Inside[s] = {} <=> holder[k] = None)
  BY <1>3, FreeTurn DEF Line
<1>5. Promise!Unknown(r)
  <2>1. \A t \in Sessions : r \notin Inside[t]
    BY <1>1 DEF Inside, Active, Holding
  <2>2. \A t \in Sessions : r \notin ToSet(Line[t])
    BY <1>1, <1>2, EmptyOnce DEF Line, WaitingFor
  <2> QED BY <2>1, <2>2 DEF Promise!Unknown, Promise!ToSet, ToSet
<1>6. \A t \in Sessions : t # s => lock'[t] = lock[t] /\ lock[t] # k
  BY <1>1 DEF LocksDistinct, NewIsUnused
<1>7. CASE holder[k] = None /\ queue[k] = <<>>
  <2>1. pc' = [pc EXCEPT ![r] = "opening"] /\ queue' = queue
    BY <1>7 DEF Arrive
  <2>2. Inside' = [Inside EXCEPT ![s] = {r}]
    <3>1. \A q \in Requests : pc'[q] \in Holding <=> pc[q] \in Holding \/ q = r
      BY <2>1, <1>1 DEF Active, Holding
    <3> DEFINE In(t) == {q \in Requests : of[q] = t /\ pc[q] \in Holding}
    <3>2. \A t \in Sessions : In(t)' = In(t) \cup (IF t = s THEN {r} ELSE {})
      BY <3>1, <1>1 DEF Active, Holding
    <3>3. Inside = [t \in Sessions |-> In(t)] /\ Inside' = [t \in Sessions |-> In(t)']
      BY DEF Inside
    <3> HIDE DEF In
    <3>4. \A t \in Sessions : Inside'[t] = IF t = s THEN {r} ELSE Inside[t]
      <4>1. \A t \in Sessions : Inside[t] = In(t) /\ Inside'[t] = In(t)'
        BY ONLY <3>3
      <4>2. Inside[s] = {}
        BY ONLY <1>4, <1>7
      <4> QED BY ONLY <3>2, <4>1, <4>2
    <3>5. /\ Inside = [t \in Sessions |-> Inside[t]]
          /\ Inside' = [t \in Sessions |-> Inside'[t]]
      BY <3>3
    <3> QED BY <3>4, <3>5, <1>1
  <2>3. Line' = Line
    BY <2>1, <1>1, <1>4, <1>6 DEF Line
  <2> QED BY <2>2, <2>3, <1>4, <1>5, <1>7 DEF Promise!Ask
<1>8. CASE ~(holder[k] = None /\ queue[k] = <<>>)
  <2>1. pc' = [pc EXCEPT ![r] = "waiting"] /\ queue' = [queue EXCEPT ![k] = Append(@, r)]
    BY <1>8 DEF Arrive
  <2>2. Inside' = Inside
    BY <2>1, <1>1 DEF Inside, Active, Holding
  <2>3. Line' = [Line EXCEPT ![s] = Append(@, r)]
    BY <2>1, <1>1, <1>4, <1>6 DEF Line
  <2> QED BY <2>2, <2>3, <1>4, <1>5, <1>8 DEF Promise!Ask
<1> QED
  BY <1>7, <1>8

LEMMA AcquireImplements ==
  ASSUME Ind, NEW r \in Requests, Acquire(r)
  PROVE  Promise!Grant(of[r])
<1> DEFINE s == of[r]
           k == mine[r]
<1> USE DEF Ind, Shape
<1>1. /\ pc[r] = "waiting" /\ s \in Sessions /\ k \in Requests /\ lock[s] = k
      /\ holder[k] = None /\ queue[k] # <<>> /\ Head(queue[k]) = r
      /\ queue' = [queue EXCEPT ![k] = Tail(@)]
      /\ pc' = [pc EXCEPT ![r] = "opening"] /\ UNCHANGED <<of, lock>>
      /\ None \notin Requests
  BY ChatAssumption DEF Acquire, UsersUseTable, Active
<1>2. Inside[s] = {} /\ Line[s] = queue[k]
  BY <1>1, FreeTurn DEF Line
<1>3. Inside' = [Inside EXCEPT ![s] = {r}]
  <2>1. \A q \in Requests : pc'[q] \in Holding <=> pc[q] \in Holding \/ q = r
    BY <1>1 DEF Active, Holding
  <2> DEFINE In(t) == {q \in Requests : of[q] = t /\ pc[q] \in Holding}
  <2>2. \A t \in Sessions, q \in Requests :
          q \in In(t)' <=> q \in In(t) \/ (t = s /\ q = r)
    BY <2>1, <1>1
  <2>3. \A t \in Sessions : In(t) \subseteq Requests /\ In(t)' \subseteq Requests
    OBVIOUS
  <2>4. Inside = [t \in Sessions |-> In(t)] /\ Inside' = [t \in Sessions |-> In(t)']
    BY DEF Inside
  <2> HIDE DEF In
  <2>5. \A t \in Sessions : In(t)' = In(t) \cup (IF t = s THEN {r} ELSE {})
    BY <2>2, <2>3
  <2>6. ASSUME NEW t \in Sessions  PROVE Inside'[t] = IF t = s THEN {r} ELSE Inside[t]
    <3>1. Inside[t] = In(t) /\ Inside'[t] = In(t)'
      BY Zenon, <2>4
    <3>2. CASE t = s
      <4>1. In(t) = {}
        BY <3>1, <3>2, <1>2
      <4> QED BY <3>1, <3>2, <4>1, <2>5
    <3>3. CASE t # s
      BY <3>1, <3>3, <2>5
    <3> QED BY <3>2, <3>3
  <2>7. /\ Inside = [t \in Sessions |-> Inside[t]]
        /\ Inside' = [t \in Sessions |-> Inside'[t]]
    BY <2>4
  <2> QED BY <2>6, <2>7, <1>1
<1>4. Line' = [Line EXCEPT ![s] = Tail(@)]
  BY <1>1 DEF Line, LocksDistinct
<1> QED
  BY <1>1, <1>2, <1>3, <1>4 DEF Promise!Grant

LEMMA LeaveQueueImplements ==
  ASSUME Ind, NEW r \in Requests, LeaveQueue(r)
  PROVE  Promise!Withdraw(r, of[r])
<1> DEFINE s == of[r]
           k == mine[r]
<1> USE DEF Ind, Shape
<1>1. /\ pc[r] = "waiting" /\ s \in Sessions /\ k \in Requests /\ lock[s] = k
      /\ pc' = [pc EXCEPT ![r] = "done"] /\ UNCHANGED <<of, lock>>
      /\ None \notin Requests
  BY ChatAssumption DEF LeaveQueue, UsersUseTable, Active
<1>2. PICK i \in DOMAIN queue[k] :
        queue[k][i] = r /\ queue' = [queue EXCEPT ![k] = RemoveAt(@, i)]
  BY DEF LeaveQueue
<1>3. Line[s] = queue[k]
  BY <1>1 DEF Line
<1>4. Line' = [Line EXCEPT ![s] = RemoveAt(@, i)]
  <2>1. \A t \in Sessions : lock[t] # None =>
          queue'[lock[t]] = IF t = s THEN RemoveAt(queue[k], i) ELSE queue[lock[t]]
    BY <1>1, <1>2 DEF LocksDistinct
  <2>2. /\ Line = [t \in Sessions |-> Line[t]] /\ Line' = [t \in Sessions |-> Line'[t]]
        /\ \A t \in Sessions : /\ Line[t] = IF lock[t] = None THEN <<>> ELSE queue[lock[t]]
                               /\ Line'[t] = IF lock[t] = None THEN <<>> ELSE queue'[lock[t]]
    BY <1>1 DEF Line
  <2>3. \A t \in Sessions : Line'[t] = IF t = s THEN RemoveAt(Line[s], i) ELSE Line[t]
    BY ONLY <1>1, <1>3, <2>1, <2>2
  <2>4. PICK q : q = RemoveAt(Line[s], i)
    OBVIOUS
  <2>5. [Line EXCEPT ![s] = q] = [t \in Sessions |-> IF t = s THEN q ELSE Line[t]]
    BY ONLY <2>2
  <2>6. Line' = [t \in Sessions |-> IF t = s THEN q ELSE Line[t]]
    BY ONLY <2>2, <2>3, <2>4
  <2> QED BY ONLY <2>4, <2>5, <2>6
<1>5. Inside' = Inside
  BY <1>1 DEF Inside, Active, Holding
<1> QED
  BY <1>2, <1>3, <1>4, <1>5 DEF Promise!Withdraw, Promise!RemoveAt, RemoveAt

LEMMA NextImplements == ASSUME Ind, Next  PROVE Promise!Next \/ UNCHANGED <<Inside, Line>>
<1> DEFINE Goal == Promise!Next \/ UNCHANGED <<Inside, Line>>
<1>1. \A r \in Requests : pc[r] \in Active => of[r] \in Sessions
  BY DEF Ind, UsersUseTable
<1>2. ASSUME NEW r \in Requests, NEW s \in Sessions, Arrive(r, s)  PROVE Goal
  BY <1>2, ArriveImplements DEF Promise!Next
<1>3. ASSUME NEW r \in Requests, Acquire(r)  PROVE Goal
  <2>1. of[r] \in Sessions
    BY <1>1, <1>3 DEF Acquire, Active
  <2> QED BY <2>1, <1>3, AcquireImplements DEF Promise!Next
<1>4. ASSUME NEW r \in Requests, LeaveQueue(r)  PROVE Goal
  <2>1. of[r] \in Sessions
    BY <1>1, <1>4 DEF LeaveQueue, Active
  <2> QED BY <2>1, <1>4, LeaveQueueImplements DEF Promise!Next
<1>5. ASSUME NEW r \in Requests, pc[r] \in Holding, Release(r)  PROVE Goal
  <2>1. of[r] \in Sessions
    BY <1>1, <1>5 DEF Active, Holding
  <2> QED BY <2>1, <1>5, ReleaseImplements DEF Promise!Next
<1>6. ASSUME NEW r \in Requests,
             Answer(r) \/ RunnerFails(r) \/ RunnerCancelled(r) \/ LeaveRunning(r)
      PROVE  Goal
  <2>1. UNCHANGED <<pc, of, lockVars>>
    BY <1>6 DEF Answer, RunnerFails, RunnerCancelled, LeaveRunning
  <2> QED BY <2>1, TurnImplements
<1>7. ASSUME NEW r \in Requests, SaveTurn(r)  PROVE Goal
  <2>1. pc[r] \in Holding /\ pc' = [pc EXCEPT ![r] = "saving"] /\ UNCHANGED <<of, lockVars>>
    BY <1>7 DEF SaveTurn, Active, Holding
  <2>2. "saving" \in Holding
    BY DEF Active, Holding
  <2> QED BY <2>1, <2>2, TurnImplements
<1>8. ASSUME NEW r \in Requests, LeaveLoading(r) \/ LeaveSaving(r)  PROVE Goal
  <2>1. pc[r] \in Holding /\ Release(r)
    BY <1>8 DEF LeaveLoading, LeaveSaving, Active, Holding
  <2> QED BY <2>1, <1>5
<1>9. ASSUME NEW c \in DOMAIN calls, Land(c)  PROVE Goal
  <2> DEFINE r == calls[c].req
  <2>1. r \in Requests
    BY <1>9, DoneStep DEF Ind, Shape, Land, LandLoad, LoadFails, LandSave, LandLast, LastFails,
                          LandAbandoned
  <2>2. CASE LandLoad(c)
    <3>1. pc[r] \in Holding /\ pc' = [pc EXCEPT ![r] = "running"] /\ UNCHANGED <<of, lockVars>>
      BY <2>2 DEF LandLoad, Active, Holding
    <3>2. "running" \in Holding
      BY DEF Active, Holding
    <3> QED BY <3>1, <3>2, <2>1, TurnImplements
  <2>3. CASE LoadFails(c) \/ LandLast(c) \/ LastFails(c)
    <3>1. pc[r] \in Holding /\ Release(r)
      BY <2>3 DEF LoadFails, LandLast, LastFails, Active, Holding
    <3> QED BY <3>1, <2>1, <1>5
  <2>4. CASE LandSave(c) \/ LandAbandoned(c)
    <3>1. UNCHANGED <<pc, of, lockVars>>
      BY <2>4 DEF LandSave, LandAbandoned
    <3> QED BY <3>1, TurnImplements
  <2> QED
    BY <1>9, <2>2, <2>3, <2>4 DEF Land
<1> HIDE DEF Goal
<1>10. Goal
  BY <1>2, <1>3, <1>4, <1>6, <1>7, <1>8, <1>9 DEF Next, Leaves
<1> QED
  BY <1>10 DEF Goal

LEMMA InitImplements == Init => Promise!Init
<1> SUFFICES ASSUME Init PROVE Promise!Init
  OBVIOUS
<1>1. Inside = [s \in Sessions |-> {}]
  BY DEF Init, Inside, Active, Holding
<1>2. Line = [s \in Sessions |-> <<>>]
  BY DEF Init, Line
<1> QED
  BY <1>1, <1>2 DEF Promise!Init

(* Whatever clients do, the requests of each session go through one at a    *)
(* time and in the order in which they came.                                *)
THEOREM TableImplementsLine == Spec => Promise!Init /\ [][Promise!Next]_<<Inside, Line>>
<1>1. Ind /\ [Next]_vars => [Promise!Next]_<<Inside, Line>>
  <2> SUFFICES ASSUME Ind, [Next]_vars  PROVE Promise!Next \/ UNCHANGED <<Inside, Line>>
    OBVIOUS
  <2>1. CASE Next
    BY <2>1, NextImplements
  <2>2. CASE UNCHANGED vars
    BY <2>2, TurnImplements DEF vars
  <2> QED BY <2>1, <2>2
<1> QED
  BY <1>1, InitImplements, Invariance, PTL DEF Spec

-----------------------------------------------------------------------------
(* What was saved stays saved *)

(* What excuses a lost turn: a client of the session went away and its      *)
(* runner outlived its turn, or the store takes calls in any order.         *)
Disturbed(s) == \E q \in gone : of[q] = s /\ (q \in outlived \/ ~inorder)

(* A call to the store is one its request can have under way where it is.   *)
Fits(x, at, on, away) ==
  /\ x.kind = "load" => at[x.req] = "opening"
  /\ x.kind = "save" =>
       /\ at[x.req] \in {"running", "saving", "done"}
       /\ on[x.req] = "saving" \/ (on[x.req] = "off" /\ x.req \in away)
       /\ x.turns[x.req] = Answered
  /\ x.kind = "last" =>
       /\ at[x.req] \in {"saving", "done"}
       /\ at[x.req] = "done" => x.req \in away

Same(x, y) == x.req = y.req /\ x.kind = y.kind

(* Every call fits, and no request has two of a kind under way.             *)
CallsFit ==
  /\ \A c \in DOMAIN calls : Fits(calls[c], pc, runner, gone)
  /\ \A c, d \in DOMAIN calls : c < d => ~ Same(calls[c], calls[d])

(* A runner is on past its request's run only if the client went away, and  *)
(* past its turn only as one that outlived it.                              *)
RunnersFit ==
  /\ saved \in [Requests -> {Absent, Asked, Answered}]
  /\ \A r \in Requests :
       /\ runner[r] # "off" => /\ pc[r] \in {"running", "saving", "done"}
                               /\ pc[r] # "running" => r \in gone
                               /\ pc[r] = "done" => r \in outlived
       /\ pc[r] # "new" => of[r] \in Sessions
       /\ r \in gone => pc[r] # "new"
       /\ saved[r] # Absent => pc[r] = "done"

(* A Context has what the turns of the session saved.                       *)
Covers(turns, s, its, least) ==
  \A p \in Requests : its[p] = s /\ least[p] # Absent => turns[p] >= least[p]

Writes(x, s, its) == x.kind # "load" /\ its[x.req] = s
Loads(x, s, its)  == x.kind = "load" /\ its[x.req] = s

(* The store has what was saved, and so has all that will be written to it: *)
(* the saves under way and the Context of the turn, which is the only one   *)
(* to have saves under way, and was not loaded before a save of another.    *)
Kept(s) ==
  /\ Covers(store[s], s, of, saved)
  /\ \A c \in DOMAIN calls : Writes(calls[c], s, of) => Covers(calls[c].turns, s, of, saved)
  /\ \A r \in Requests : of[r] = s /\ pc[r] \in {"running", "saving"} =>
       /\ Covers(mem[r], s, of, saved)
       /\ \A c \in DOMAIN calls : Writes(calls[c], s, of) => calls[c].req = r
  /\ \A c, d \in DOMAIN calls : c < d => ~ (Loads(calls[c], s, of) /\ Writes(calls[d], s, of))

TurnsKept == \A s \in Sessions : ~ Disturbed(s) => Kept(s)

(* The inductive invariant, on top of Ind.                                  *)
Saves == CallsFit /\ RunnersFit /\ TurnsKept

-----------------------------------------------------------------------------
(* Steps on the calls *)

(* The calls after a step are some of those in D, in their order.           *)
From(D) ==
  /\ \A j \in DOMAIN calls' : \E i \in D : calls'[j] = calls[i]
  /\ \A j, k \in DOMAIN calls' : j < k =>
       \E i, l \in D : i < l /\ calls'[j] = calls[i] /\ calls'[k] = calls[l]

LEMMA DoneLeaves ==
  ASSUME calls \in Seq(Calls), NEW c \in DOMAIN calls, Done(c)
  PROVE  From(DOMAIN calls \ {c})
<1> DEFINE from(j) == IF j < c THEN j ELSE j + 1
           D == DOMAIN calls \ {c}
<1>1. /\ calls' \in Seq(Calls) /\ Len(calls') = Len(calls) - 1
      /\ \A j \in 1 .. Len(calls) - 1 : calls'[j] = calls[from(j)]
  BY RemoveAtFacts DEF Done
<1>2. DOMAIN calls' = 1 .. Len(calls) - 1 /\ c \in 1 .. Len(calls) /\ Len(calls) \in Nat
  BY <1>1
<1>3. \A j \in DOMAIN calls' : from(j) \in D
  BY <1>2
<1>4. \A j, k \in DOMAIN calls' : j < k => from(j) < from(k)
  BY <1>2
<1> HIDE DEF from, D
<1>5. \A j \in DOMAIN calls' : calls'[j] = calls[from(j)]
  BY <1>1, <1>2
<1>6. From(D)
  BY <1>3, <1>4, <1>5 DEF From
<1> QED
  BY <1>6 DEF D

(* The calls after a step are those before it, and x last.                  *)
Plus(x) ==
  /\ \A j \in DOMAIN calls' : (j \in DOMAIN calls /\ calls'[j] = calls[j]) \/ calls'[j] = x
  /\ \A j, k \in DOMAIN calls' : j < k =>
       /\ j \in DOMAIN calls /\ calls'[j] = calls[j]
       /\ (k \in DOMAIN calls /\ calls'[k] = calls[k]) \/ calls'[k] = x

LEMMA AppendAdds ==
  ASSUME calls \in Seq(Calls), NEW x, calls' = Append(calls, x)
  PROVE  Plus(x)
<1>1. /\ Len(calls) \in Nat /\ DOMAIN calls = 1 .. Len(calls) /\ DOMAIN calls' = 1 .. Len(calls) + 1
      /\ calls'[Len(calls) + 1] = x /\ \A j \in 1 .. Len(calls) : calls'[j] = calls[j]
  OBVIOUS
<1> QED
  BY <1>1 DEF Plus

LEMMA StaysDisturbed ==
  ASSUME NEW s, gone \subseteq gone', outlived \subseteq outlived', inorder' = inorder,
         \A q \in gone : of'[q] = of[q], Disturbed(s)
  PROVE  Disturbed(s)'
BY DEF Disturbed

(* Only the request whose turn it is saves, and those that went away.       *)
LEMMA OthersWentAway ==
  ASSUME Ind, RunnersFit, NEW x \in Calls, Fits(x, pc, runner, gone), NEW r \in Requests, pc[r] \in Holding,
         x.kind # "load", of[x.req] = of[r], x.req # r
  PROVE  pc[x.req] = "done" /\ x.req \in gone
<1>1. x.req \in Requests /\ x.kind \in {"save", "last"}
  BY DEF Calls
<1>2. pc[x.req] \notin Holding
  BY <1>1 DEF Ind, UsersUseTable, Active, Holding
<1>3. pc[x.req] = "done"
  BY <1>1, <1>2 DEF Fits, Active, Holding
<1> QED
  BY <1>1, <1>3 DEF Fits, RunnersFit

-----------------------------------------------------------------------------
(* Each kind of step keeps what was saved *)

(* A request comes, to its turn or to the queue, or is let in.              *)
LEMMA EnterKeeps ==
  ASSUME Ind, Saves, NEW r \in Requests, NEW s \in Sessions, pc[r] \in {"new", "waiting"},
         pc[r] = "waiting" => of[r] = s, of' = [of EXCEPT ![r] = s],
         \/ pc' = [pc EXCEPT ![r] = "opening"] /\ calls' = Append(calls, LoadCall(r))
         \/ pc' = [pc EXCEPT ![r] = "waiting"] /\ UNCHANGED calls,
         UNCHANGED <<inorder, dataVars, gone, outlived>>
  PROVE  Saves'
<1> DEFINE x == LoadCall(r)
<1>1. UNCHANGED <<inorder, runner, mem, store, saved, gone, outlived>>
  BY DEF dataVars
<1>2. /\ \A q \in Requests \ {r} : pc'[q] = pc[q] /\ of'[q] = of[q]
      /\ pc'[r] \in {"opening", "waiting"} /\ of'[r] = s
  BY DEF Ind, Shape
<1>3. \A c \in DOMAIN calls : calls[c] \in Calls
  BY DEF Ind, Shape
<1>4. \A u \in Calls : u.req \in Requests /\ (Fits(u, pc, runner, gone) => u.req # r)
  BY DEF Calls, Fits
<1>5. x.req = r /\ x.kind = "load"
  BY DEF LoadCall, Call
<1>6. \/ pc'[r] = "opening" /\ Plus(x)
      \/ pc'[r] = "waiting" /\ UNCHANGED calls
  BY AppendAdds DEF Ind, Shape
<1> HIDE DEF x
<1>7. \A c \in DOMAIN calls : calls[c].req # r /\ Fits(calls[c], pc, runner, gone)
  BY <1>3, <1>4 DEF Saves, CallsFit
<1>8. (\A c \in DOMAIN calls : Fits(calls[c], pc, runner, gone))'
  <2>1. \A u \in Calls : Fits(u, pc, runner, gone) => Fits(u, pc', runner', gone')
    BY <1>1, <1>2, <1>4 DEF Fits
  <2>2. pc'[r] = "opening" => Fits(x, pc', runner', gone')
    BY <1>5 DEF Fits
  <2>3. \A c \in DOMAIN calls : Fits(calls[c], pc', runner', gone')
    BY <2>1, <1>3, <1>7
  <2> QED BY <2>2, <2>3, <1>6 DEF Plus
<1>9. (\A c, d \in DOMAIN calls : c < d => ~ Same(calls[c], calls[d]))'
  <2>1. \A c, d \in DOMAIN calls : c < d => ~ Same(calls[c], calls[d])
    BY DEF Saves, CallsFit
  <2>2. \A c \in DOMAIN calls : ~ Same(calls[c], x)
    BY <1>5, <1>7 DEF Same
  <2> QED BY <2>1, <2>2, <1>6 DEF Plus
<1>10. RunnersFit'
  BY <1>1, <1>2 DEF Saves, RunnersFit
<1>11. saved[r] = Absent
  BY DEF Saves, RunnersFit
<1>12. ASSUME NEW t \in Sessions, ~ Disturbed(t)'  PROVE Kept(t)'
  <2>1. Kept(t)
    <3>1. \A q \in gone : of'[q] = of[q]
      BY <1>1, <1>2 DEF Saves, RunnersFit, Ind, Shape
    <3>2. ~ Disturbed(t)
      BY <1>1, <1>12, <3>1, StaysDisturbed
    <3> QED BY <3>2 DEF Saves, TurnsKept
  <2>2. \A turns : Covers(turns, t, of, saved) => Covers(turns, t, of', saved')
    BY <1>1, <1>2, <1>11 DEF Covers
  <2>3. \A c \in DOMAIN calls : /\ Writes(calls[c], t, of') <=> Writes(calls[c], t, of)
                                /\ Loads(calls[c], t, of') <=> Loads(calls[c], t, of)
    BY <1>2, <1>3, <1>4, <1>7 DEF Writes, Loads
  <2>4. ~ Writes(x, t, of')
    BY <1>5 DEF Writes
  <2>5. Covers(store[t], t, of, saved)'
    BY <2>1, <2>2, <1>1 DEF Kept
  <2>6. (\A c \in DOMAIN calls : Writes(calls[c], t, of) => Covers(calls[c].turns, t, of, saved))'
    BY <2>1, <2>2, <2>3, <2>4, <1>6 DEF Kept, Plus
  <2>7. ASSUME NEW q \in Requests, of'[q] = t, pc'[q] \in {"running", "saving"}
        PROVE  /\ Covers(mem[q], t, of, saved)'
               /\ (\A c \in DOMAIN calls : Writes(calls[c], t, of) => calls[c].req = q)'
    <3>1. of[q] = t /\ pc[q] \in {"running", "saving"}
      BY <2>7, <1>2
    <3>2. Covers(mem[q], t, of, saved)'
      BY <3>1, <2>1, <2>2, <1>1 DEF Kept
    <3>3. (\A c \in DOMAIN calls : Writes(calls[c], t, of) => calls[c].req = q)'
      BY <3>1, <2>1, <2>3, <2>4, <1>6 DEF Kept, Plus
    <3> QED BY <3>2, <3>3
  <2>8. (\A c, d \in DOMAIN calls : c < d => ~ (Loads(calls[c], t, of) /\ Writes(calls[d], t, of)))'
    BY <2>1, <2>3, <2>4, <1>6 DEF Kept, Plus
  <2> QED BY <2>5, <2>6, <2>7, <2>8 DEF Kept
<1> QED
  BY <1>8, <1>9, <1>10, <1>12 DEF Saves, TurnsKept, CallsFit

(* Runners end, and clients leave while waiting or running.                 *)
LEMMA QuietKeeps ==
  ASSUME Ind, Saves, NEW r \in Requests,
         \/ UNCHANGED pc
         \/ pc[r] = "waiting" /\ pc' = [pc EXCEPT ![r] = "done"],
         \/ UNCHANGED runner
         \/ /\ runner[r] = "working" \/ r \in gone
            /\ runner' = [runner EXCEPT ![r] = "off"],
         \/ UNCHANGED gone
         \/ pc[r] # "new" /\ gone' = gone \cup {r},
         UNCHANGED <<inorder, of, mem, store, saved, calls, outlived>>
  PROVE  Saves'
<1>1. /\ \A q \in Requests : pc'[q] = pc[q] \/ (q = r /\ pc[q] = "waiting" /\ pc'[q] = "done")
      /\ \A q \in Requests : \/ runner'[q] = runner[q]
                             \/ runner'[q] = "off" /\ (runner[q] = "working" \/ q \in gone)
      /\ gone \subseteq gone' /\ \A q \in gone' : q \in gone \/ pc[q] # "new"
  BY DEF Ind, Shape
<1>2. \A c \in DOMAIN calls : calls[c] \in Calls
  BY DEF Ind, Shape
<1>3. \A u \in Calls : Fits(u, pc, runner, gone) => Fits(u, pc', runner', gone')
  BY <1>1 DEF Fits, Calls
<1>4. CallsFit'
  BY <1>2, <1>3 DEF Saves, CallsFit
<1>5. RunnersFit'
  BY <1>1 DEF Saves, RunnersFit
<1>6. ASSUME NEW t \in Sessions, ~ Disturbed(t)'  PROVE Kept(t)'
  <2>1. ~ Disturbed(t)
    BY <1>1, <1>6, StaysDisturbed
  <2>2. Kept(t)
    BY <2>1 DEF Saves, TurnsKept
  <2> QED BY <2>2, <1>1 DEF Kept
<1> QED
  BY <1>4, <1>5, <1>6 DEF Saves, TurnsKept

(* The answer is committed, and its save begins.                            *)
LEMMA AnswerKeeps ==
  ASSUME Ind, Saves, NEW r \in Requests, Answer(r)
  PROVE  Saves'
<1> DEFINE turns == [mem[r] EXCEPT ![r] = Answered]
           x == Call(r, "save", turns)
<1>1. /\ runner[r] = "working" /\ mem' = [mem EXCEPT ![r] = turns]
      /\ runner' = [runner EXCEPT ![r] = "saving"]
      /\ UNCHANGED <<inorder, pc, of, store, saved, gone, outlived>>
  BY DEF Answer
<1>2. Plus(x)
  BY AppendAdds DEF Answer, Ind, Shape
<1>3. turns[r] = Answered /\ \A p \in Requests \ {r} : turns[p] = mem[r][p]
  BY DEF Ind, Shape, Turns
<1>4. x.req = r /\ x.kind = "save" /\ x.turns = turns
  BY DEF Call
<1> HIDE DEF x, turns
<1>5. /\ runner'[r] = "saving" /\ \A q \in Requests \ {r} : runner'[q] = runner[q] /\ mem'[q] = mem[q]
      /\ mem'[r] = turns
  BY <1>1 DEF Ind, Shape
<1>6. \A c \in DOMAIN calls : calls[c] \in Calls /\ Fits(calls[c], pc, runner, gone)
  BY DEF Ind, Shape, Saves, CallsFit
<1>7. \A u \in Calls : u.req \in Requests
  BY DEF Calls
<1>8. (\A c \in DOMAIN calls : Fits(calls[c], pc, runner, gone))'
  <2>1. \A u \in Calls : Fits(u, pc, runner, gone) => Fits(u, pc', runner', gone')
    BY <1>1, <1>5, <1>7 DEF Fits
  <2>2. Fits(x, pc', runner', gone')
    BY <1>1, <1>3, <1>4, <1>5 DEF Fits, Saves, RunnersFit
  <2> QED BY <2>1, <2>2, <1>2, <1>6 DEF Plus
<1>9. (\A c, d \in DOMAIN calls : c < d => ~ Same(calls[c], calls[d]))'
  <2>1. \A u : Fits(u, pc, runner, gone) => ~ Same(u, x)
    BY <1>1, <1>4 DEF Fits, Same
  <2>2. \A c, d \in DOMAIN calls : c < d => ~ Same(calls[c], calls[d])
    BY DEF Saves, CallsFit
  <2>3. \A c \in DOMAIN calls : ~ Same(calls[c], x)
    BY <2>1, <1>6
  <2> QED BY <2>2, <2>3, <1>2 DEF Plus
<1>10. RunnersFit'
  BY <1>1, <1>5 DEF Saves, RunnersFit
<1>11. ASSUME NEW t \in Sessions, ~ Disturbed(t)'  PROVE Kept(t)'
  <2>1. ~ Disturbed(t)
    BY <1>1, <1>11, StaysDisturbed
  <2>2. Kept(t)
    BY <2>1 DEF Saves, TurnsKept
  <2>3. ASSUME of[r] = t
        PROVE  /\ Covers(turns, t, of, saved)
               /\ \A q \in Requests : of[q] = t /\ pc[q] \in Holding => q = r
    <3>1. pc[r] \in {"running", "saving"}
      BY <2>3, <1>1, <2>1 DEF Saves, RunnersFit, Disturbed
    <3>2. Covers(mem[r], t, of, saved)
      BY <2>3, <3>1, <2>2 DEF Kept
    <3>3. \A p \in Requests : saved[p] \in {0, 1, 2}
      BY DEF Saves, RunnersFit, Absent, Asked, Answered
    <3>4. Covers(turns, t, of, saved)
      <4> SUFFICES ASSUME NEW p \in Requests, of[p] = t, saved[p] # Absent
                   PROVE  turns[p] >= saved[p]
        BY DEF Covers
      <4>1. CASE p = r
        <5>1. turns[p] = 2 /\ saved[p] \in {0, 1, 2}
          BY <4>1, <3>3, <1>3 DEF Answered
        <5> QED BY <5>1
      <4>2. CASE p # r
        BY <4>2, <3>2, <1>3 DEF Covers
      <4> QED BY <4>1, <4>2
    <3>5. \A q \in Requests : of[q] = t /\ pc[q] \in Holding => q = r
      BY <2>3, <3>1 DEF Ind, UsersUseTable, Active, Holding
    <3> QED BY <3>4, <3>5
  <2>4. Writes(x, t, of) => of[r] = t
    BY <1>4 DEF Writes
  <2>5. Covers(store[t], t, of, saved)'
    BY <2>2, <1>1 DEF Kept
  <2>6. (\A c \in DOMAIN calls : Writes(calls[c], t, of) => Covers(calls[c].turns, t, of, saved))'
    BY <2>2, <2>3, <2>4, <1>1, <1>2, <1>4 DEF Kept, Plus
  <2>7. ASSUME NEW q \in Requests, of[q] = t, pc[q] \in {"running", "saving"}
        PROVE  /\ Covers(mem[q], t, of, saved)'
               /\ (\A c \in DOMAIN calls : Writes(calls[c], t, of) => calls[c].req = q)'
    <3>1. Covers(mem'[q], t, of, saved)
      BY <2>7, <2>2, <2>3, <1>5 DEF Kept
    <3>2. Writes(x, t, of) => x.req = q
      BY <2>7, <2>3, <2>4, <1>4 DEF Active, Holding
    <3>3. (\A c \in DOMAIN calls : Writes(calls[c], t, of) => calls[c].req = q)'
      BY <3>2, <2>7, <2>2, <1>1, <1>2 DEF Kept, Plus
    <3> QED BY <3>1, <3>3, <1>1
  <2>8. ASSUME NEW c \in DOMAIN calls, Loads(calls[c], t, of)  PROVE ~ Writes(x, t, of)
    <3>1. pc[calls[c].req] = "opening" /\ calls[c].req \in Requests /\ of[calls[c].req] = t
      BY <2>8, <1>6, <1>7 DEF Fits, Loads
    <3>2. calls[c].req # r
      BY <3>1, <1>1 DEF Saves, RunnersFit
    <3> QED BY <3>1, <3>2, <2>3, <2>4 DEF Active, Holding
  <2>9. (\A c, d \in DOMAIN calls : c < d => ~ (Loads(calls[c], t, of) /\ Writes(calls[d], t, of)))'
    BY <2>2, <2>8, <1>1, <1>2 DEF Kept, Plus
  <2> QED BY <2>5, <2>6, <2>7, <2>9, <1>1 DEF Kept
<1> QED
  BY <1>8, <1>9, <1>10, <1>11 DEF Saves, TurnsKept, CallsFit

(* The run is over or given up: its Context is written.                     *)
LEMMA SaveTurnKeeps ==
  ASSUME Ind, Saves, NEW r \in Requests, SaveTurn(r)
  PROVE  Saves'
<1> DEFINE x == Call(r, "last", mem[r])
<1>1. /\ pc[r] = "running"
      /\ runner[r] = "off" \/ r \in gone
      /\ UNCHANGED <<inorder, of, runner, mem, store, saved, gone, outlived>>
  BY DEF SaveTurn, dataVars
<1>2. Plus(x)
  BY AppendAdds DEF SaveTurn, Ind, Shape
<1>3. x.req = r /\ x.kind = "last" /\ x.turns = mem[r]
  BY DEF Call
<1> HIDE DEF x
<1>4. pc'[r] = "saving" /\ \A q \in Requests \ {r} : pc'[q] = pc[q]
  BY DEF SaveTurn, Ind, Shape
<1>5. \A c \in DOMAIN calls : calls[c] \in Calls /\ Fits(calls[c], pc, runner, gone)
  BY DEF Ind, Shape, Saves, CallsFit
<1>6. \A u \in Calls : u.req \in Requests
  BY DEF Calls
<1>7. ASSUME NEW u \in Calls, Fits(u, pc, runner, gone)
      PROVE  Fits(u, pc', runner', gone') /\ ~ Same(u, x)
  <2>1. CASE u.req = r
    <3>1. u.kind = "save" /\ r \in gone /\ runner[r] \in {"off", "saving"}
      BY <2>1, <1>1, <1>7 DEF Fits, Calls
    <3> QED BY <3>1, <2>1, <1>1, <1>3, <1>4, <1>7 DEF Fits, Same
  <2>2. CASE u.req # r
    BY <2>2, <1>1, <1>3, <1>4, <1>6, <1>7 DEF Fits, Same
  <2> QED BY <2>1, <2>2
<1>8. (\A c \in DOMAIN calls : Fits(calls[c], pc, runner, gone))'
  <2>1. Fits(x, pc', runner', gone')
    BY <1>3, <1>4 DEF Fits
  <2> QED BY <2>1, <1>2, <1>5, <1>7 DEF Plus
<1>9. (\A c, d \in DOMAIN calls : c < d => ~ Same(calls[c], calls[d]))'
  BY <1>2, <1>5, <1>7 DEF Saves, CallsFit, Plus
<1>10. RunnersFit'
  BY <1>1, <1>4 DEF Saves, RunnersFit
<1>11. ASSUME NEW t \in Sessions, ~ Disturbed(t)'  PROVE Kept(t)'
  <2>1. ~ Disturbed(t)
    BY <1>1, <1>11, StaysDisturbed
  <2>2. Kept(t)
    BY <2>1 DEF Saves, TurnsKept
  <2>3. ASSUME of[r] = t
        PROVE  /\ Covers(mem[r], t, of, saved)
               /\ \A q \in Requests : of[q] = t /\ pc[q] \in Holding => q = r
    BY <2>3, <2>2, <1>1 DEF Kept, Ind, UsersUseTable, Active, Holding
  <2>4. Writes(x, t, of) => of[r] = t
    BY <1>3 DEF Writes
  <2>5. Covers(store[t], t, of, saved)'
    BY <2>2, <1>1 DEF Kept
  <2>6. (\A c \in DOMAIN calls : Writes(calls[c], t, of) => Covers(calls[c].turns, t, of, saved))'
    BY <2>2, <2>3, <2>4, <1>1, <1>2, <1>3 DEF Kept, Plus
  <2>7. ASSUME NEW q \in Requests, of[q] = t, pc'[q] \in {"running", "saving"}
        PROVE  /\ Covers(mem[q], t, of, saved)'
               /\ (\A c \in DOMAIN calls : Writes(calls[c], t, of) => calls[c].req = q)'
    <3>1. pc[q] \in {"running", "saving"}
      BY <2>7, <1>1, <1>4
    <3>2. Writes(x, t, of) => x.req = q
      BY <3>1, <2>7, <2>3, <2>4, <1>3 DEF Active, Holding
    <3>3. (\A c \in DOMAIN calls : Writes(calls[c], t, of) => calls[c].req = q)'
      BY <3>1, <3>2, <2>7, <2>2, <1>1, <1>2 DEF Kept, Plus
    <3>4. Covers(mem[q], t, of, saved)'
      BY <3>1, <2>7, <2>2, <1>1 DEF Kept
    <3> QED BY <3>3, <3>4
  <2>8. ASSUME NEW c \in DOMAIN calls, Loads(calls[c], t, of)  PROVE ~ Writes(x, t, of)
    <3>1. pc[calls[c].req] = "opening" /\ calls[c].req \in Requests /\ of[calls[c].req] = t
      BY <2>8, <1>5, <1>6 DEF Fits, Loads
    <3> QED BY <3>1, <2>3, <2>4, <1>1 DEF Active, Holding
  <2>9. (\A c, d \in DOMAIN calls : c < d => ~ (Loads(calls[c], t, of) /\ Writes(calls[d], t, of)))'
    BY <2>2, <2>8, <1>1, <1>2 DEF Kept, Plus
  <2> QED BY <2>5, <2>6, <2>7, <2>9, <1>1 DEF Kept
<1> QED
  BY <1>8, <1>9, <1>10, <1>11 DEF Saves, TurnsKept, CallsFit

(* Calls that are over change nothing for the others.                       *)
LEMMA FewerCallsOnce ==
  ASSUME Saves, NEW D, D \subseteq DOMAIN calls, From(D)
  PROVE  (\A c, d \in DOMAIN calls : c < d => ~ Same(calls[c], calls[d]))'
<1>1. \A c, d \in D : c < d => ~ Same(calls[c], calls[d])
  BY DEF Saves, CallsFit
<1> QED
  BY <1>1 DEF From

(* No two calls of one kind: the other calls of a request are of others.    *)
LEMMA OtherKinds ==
  ASSUME Ind, Saves, NEW c \in DOMAIN calls, NEW d \in DOMAIN calls, c # d
  PROVE  ~ Same(calls[c], calls[d])
<1>1. c < d \/ d < c
  BY DEF Ind, Shape
<1> QED
  BY <1>1 DEF Saves, CallsFit, Same

(* The session is loaded.                                                   *)
LEMMA LandLoadKeeps ==
  ASSUME Ind, Saves, NEW c \in DOMAIN calls, LandLoad(c)
  PROVE  Saves'
<1> DEFINE r == calls[c].req
           s == of[r]
           D == DOMAIN calls \ {c}
<1>1. \A d \in DOMAIN calls : /\ calls[d] \in Calls /\ calls[d].req \in Requests
                              /\ Fits(calls[d], pc, runner, gone)
  <2>1. \A u \in Calls : u.req \in Requests
    BY DEF Calls
  <2> QED BY <2>1 DEF Ind, Shape, Saves, CallsFit
<1>2. /\ c \in Served /\ calls[c].kind = "load" /\ pc[r] = "opening"
      /\ UNCHANGED <<inorder, of, store, saved, gone, outlived>>
  BY DEF LandLoad
<1>3. From(D)
  BY DoneLeaves DEF LandLoad, Ind, Shape
<1>4. /\ pc'[r] = "running" /\ \A q \in Requests \ {r} : pc'[q] = pc[q]
      /\ \A q \in Requests \ {r} : mem'[q] = mem[q] /\ runner'[q] = runner[q]
      /\ mem'[r] \in {[store[s] EXCEPT ![r] = Asked], store[s]}
  BY <1>1 DEF LandLoad, Ind, Shape
<1>5. \A d \in D : calls[d].req # r
  <2> SUFFICES ASSUME NEW d \in D, calls[d].req = r  PROVE FALSE
    OBVIOUS
  <2>1. calls[d].kind = "load"
    <3>1. calls[d] \in Calls /\ Fits(calls[d], pc, runner, gone)
      BY <1>1
    <3> QED BY <3>1, <1>2 DEF Fits, Calls
  <2>2. Same(calls[c], calls[d])
    BY <2>1, <1>2 DEF Same
  <2> QED BY <2>2, OtherKinds
<1>6. of[r] \in Sessions /\ saved[r] = Absent
  BY <1>1, <1>2 DEF Saves, RunnersFit
<1>7. (\A d \in DOMAIN calls : Fits(calls[d], pc, runner, gone))'
  <2>1. \A u \in Calls : u.req \in Requests \ {r} /\ Fits(u, pc, runner, gone) => Fits(u, pc', runner', gone')
    BY <1>2, <1>4 DEF Fits
  <2>2. \A d \in D : Fits(calls[d], pc', runner', gone')
    BY <2>1, <1>1, <1>5
  <2> QED BY <2>2, <1>3 DEF From
<1>8. (\A d, e \in DOMAIN calls : d < e => ~ Same(calls[d], calls[e]))'
  BY <1>3, FewerCallsOnce
<1>9. RunnersFit'
  BY <1>1, <1>2, <1>4 DEF Saves, RunnersFit
<1>10. ASSUME NEW t \in Sessions, ~ Disturbed(t)'  PROVE Kept(t)'
  <2>1. ~ Disturbed(t)
    BY <1>2, <1>10, StaysDisturbed
  <2>2. Kept(t)
    BY <2>1 DEF Saves, TurnsKept
  <2>3. ASSUME s = t, NEW d \in D  PROVE ~ Writes(calls[d], t, of)
    <3> SUFFICES ASSUME Writes(calls[d], t, of)  PROVE FALSE
      OBVIOUS
    <3>1. calls[d].req \in gone
      BY <1>1, <1>2, <1>5, <2>3, OthersWentAway DEF Writes, Saves, Active, Holding
    <3>2. inorder
      BY <3>1, <2>1 DEF Disturbed, Writes
    <3>3. c = 1 /\ d \in Nat \ {0, 1}
      BY <3>2, <1>2 DEF Served, Ind, Shape
    <3>4. c < d
      BY <3>3
    <3>5. Loads(calls[c], t, of)
      BY <2>3, <1>2 DEF Loads
    <3> QED BY <3>4, <3>5, <2>2 DEF Kept
  <2>4. Covers(store[t], t, of, saved)'
    BY <2>2, <1>2 DEF Kept
  <2>5. (\A d \in DOMAIN calls : Writes(calls[d], t, of) => Covers(calls[d].turns, t, of, saved))'
    BY <2>2, <1>2, <1>3 DEF Kept, From
  <2>6. ASSUME NEW q \in Requests, of[q] = t, pc'[q] \in {"running", "saving"}
        PROVE  /\ Covers(mem[q], t, of, saved)'
               /\ (\A d \in DOMAIN calls : Writes(calls[d], t, of) => calls[d].req = q)'
    <3>1. CASE q = r
      <4>1. \A d \in D : ~ Writes(calls[d], t, of)
        BY <3>1, <2>3, <2>6
      <4>2. Covers(store[t], t, of, saved)
        BY <2>2 DEF Kept
      <4>3. \A p \in Requests \ {r} : mem'[r][p] = store[t][p]
        BY <1>4, <2>6, <3>1 DEF Ind, Shape, Turns
      <4>4. Covers(mem'[r], t, of, saved)
        BY <4>2, <4>3, <1>6 DEF Covers
      <4> QED BY <4>1, <4>4, <3>1, <1>2, <1>3 DEF From
    <3>2. CASE q # r
      <4>1. pc[q] \in {"running", "saving"} /\ mem'[q] = mem[q]
        BY <2>6, <3>2, <1>4
      <4> QED BY <4>1, <2>2, <2>6, <1>2, <1>3 DEF Kept, From
    <3> QED BY <3>1, <3>2
  <2>7. (\A d, e \in DOMAIN calls : d < e => ~ (Loads(calls[d], t, of) /\ Writes(calls[e], t, of)))'
    BY <2>2, <1>2, <1>3 DEF Kept, From
  <2> QED BY <2>4, <2>5, <2>6, <2>7, <1>2 DEF Kept
<1> QED
  BY <1>7, <1>8, <1>9, <1>10 DEF Saves, TurnsKept, CallsFit

(* A save of a runner is written, or one that no one waits for any more.    *)
LEMMA LandSaveKeeps ==
  ASSUME Ind, Saves, NEW c \in DOMAIN calls, LandSave(c) \/ LandAbandoned(c)
  PROVE  Saves'
<1> DEFINE r == calls[c].req
           D == DOMAIN calls \ {c}
<1>1. \A d \in DOMAIN calls : /\ calls[d] \in Calls /\ calls[d].req \in Requests
                              /\ Fits(calls[d], pc, runner, gone)
  <2>1. \A u \in Calls : u.req \in Requests
    BY DEF Calls
  <2> QED BY <2>1 DEF Ind, Shape, Saves, CallsFit
<1>2. /\ calls[c].kind \in {"save", "last"}
      /\ store' \in {store, [store EXCEPT ![of[r]] = calls[c].turns]}
      /\ UNCHANGED <<inorder, pc, of, mem, saved, gone, outlived>>
  BY DEF LandSave, LandAbandoned
<1>3. From(D)
  BY DoneLeaves DEF LandSave, LandAbandoned, Ind, Shape
<1>4. /\ \A q \in Requests : runner'[q] = runner[q] \/ (runner[q] = "saving" /\ runner'[q] = "off")
      /\ \A q \in Requests : runner'[q] = runner[q] \/ (q = r /\ calls[c].kind = "save")
  BY <1>1 DEF LandSave, LandAbandoned, Ind, Shape
<1>5. (\A d \in DOMAIN calls : Fits(calls[d], pc, runner, gone))'
  <2>1. ASSUME NEW d \in D  PROVE Fits(calls[d], pc', runner', gone')
    <3>1. ~ Same(calls[c], calls[d])
      BY OtherKinds
    <3>2. calls[d].kind = "save" => runner'[calls[d].req] = runner[calls[d].req]
      BY <3>1, <1>1, <1>4 DEF Same
    <3>3. Fits(calls[d], pc, runner, gone)
      BY <1>1
    <3> QED BY <3>2, <3>3, <1>2 DEF Fits
  <2> QED BY <2>1, <1>3 DEF From
<1>6. (\A d, e \in DOMAIN calls : d < e => ~ Same(calls[d], calls[e]))'
  BY <1>3, FewerCallsOnce
<1>7. RunnersFit'
  BY <1>2, <1>4 DEF Saves, RunnersFit
<1>8. ASSUME NEW t \in Sessions, ~ Disturbed(t)'  PROVE Kept(t)'
  <2>1. ~ Disturbed(t)
    BY <1>2, <1>8, StaysDisturbed
  <2>2. Kept(t)
    BY <2>1 DEF Saves, TurnsKept
  <2>3. Covers(store[t], t, of, saved)'
    <3>1. of[r] = t => Covers(calls[c].turns, t, of, saved)
      BY <2>2, <1>2 DEF Kept, Writes
    <3>2. store'[t] = store[t] \/ (of[r] = t /\ store'[t] = calls[c].turns)
      BY <1>2 DEF Ind, Shape
    <3>3. Covers(store[t], t, of, saved)
      BY <2>2 DEF Kept
    <3> QED BY <3>1, <3>2, <3>3, <1>2
  <2>4. (\A d \in DOMAIN calls : Writes(calls[d], t, of) => Covers(calls[d].turns, t, of, saved))'
    BY <2>2, <1>2, <1>3 DEF Kept, From
  <2>5. ASSUME NEW q \in Requests, of[q] = t, pc[q] \in {"running", "saving"}
        PROVE  /\ Covers(mem[q], t, of, saved)'
               /\ (\A d \in DOMAIN calls : Writes(calls[d], t, of) => calls[d].req = q)'
    BY <2>5, <2>2, <1>2, <1>3 DEF Kept, From
  <2>6. (\A d, e \in DOMAIN calls : d < e => ~ (Loads(calls[d], t, of) /\ Writes(calls[e], t, of)))'
    BY <2>2, <1>2, <1>3 DEF Kept, From
  <2> QED BY <2>3, <2>4, <2>5, <2>6, <1>2 DEF Kept
<1> QED
  BY <1>5, <1>6, <1>7, <1>8 DEF Saves, TurnsKept, CallsFit

(* The way out of a turn, with what it saved or without.                    *)
LEMMA ReleaseKeeps ==
  ASSUME Ind, Saves, NEW r \in Requests, pc[r] \in {"opening", "saving"}, Release(r),
         UNCHANGED <<runner, mem>>, gone' \in {gone, gone \cup {r}},
         NEW D, D \subseteq DOMAIN calls, From(D),
         \A d \in D : calls[d].req = r =>
           calls[d].kind # "load" /\ (calls[d].kind = "last" => r \in gone'),
         \/ UNCHANGED <<store, saved>>
         \/ \E c \in DOMAIN calls \ D :
              /\ calls[c].req = r /\ calls[c].kind = "last" /\ pc[r] = "saving"
              /\ store' = [store EXCEPT ![of[r]] = calls[c].turns]
              /\ saved' = [saved EXCEPT ![r] = calls[c].turns[r]]
  PROVE  Saves'
<1>1. \A d \in DOMAIN calls : /\ calls[d] \in Calls /\ calls[d].req \in Requests
                              /\ calls[d].turns \in [Requests -> {Absent, Asked, Answered}]
                              /\ Fits(calls[d], pc, runner, gone)
  <2>1. \A u \in Calls : u.req \in Requests /\ u.turns \in [Requests -> {Absent, Asked, Answered}]
    BY DEF Calls, Turns
  <2> QED BY <2>1 DEF Ind, Shape, Saves, CallsFit
<1>2. /\ pc'[r] = "done" /\ \A q \in Requests \ {r} : pc'[q] = pc[q]
      /\ outlived' = IF runner[r] = "off" THEN outlived ELSE outlived \cup {r}
      /\ UNCHANGED <<inorder, of>>
  BY DEF Release, Ind, Shape
<1>3. \A q \in Requests \ {r} : saved'[q] = saved[q]
  BY DEF Saves, RunnersFit
<1>4. saved' \in [Requests -> {Absent, Asked, Answered}] /\ saved'[r] \in {Absent, Asked, Answered}
  <2>1. saved \in [Requests -> {Absent, Asked, Answered}]
    BY DEF Saves, RunnersFit
  <2>2. \A c \in DOMAIN calls : calls[c].turns[r] \in {Absent, Asked, Answered}
    BY <1>1
  <2>3. saved' = saved \/ \E v \in {Absent, Asked, Answered} : saved' = [saved EXCEPT ![r] = v]
    BY <2>2
  <2> QED BY <2>1, <2>3
<1>5. (\A d \in DOMAIN calls : Fits(calls[d], pc, runner, gone))'
  <2>1. ASSUME NEW d \in D  PROVE Fits(calls[d], pc', runner', gone')
    BY <1>1, <1>2 DEF Fits, Saves, RunnersFit
  <2> QED BY <2>1 DEF From
<1>6. (\A d, e \in DOMAIN calls : d < e => ~ Same(calls[d], calls[e]))'
  BY FewerCallsOnce
<1>7. RunnersFit'
  <2>1. \A q \in Requests \ {r} :
          /\ pc'[q] = pc[q] /\ of'[q] = of[q] /\ runner'[q] = runner[q] /\ saved'[q] = saved[q]
          /\ q \in gone' <=> q \in gone
          /\ q \in outlived => q \in outlived'
    BY <1>2, <1>3
  <2>2. /\ runner'[r] # "off" => r \in gone /\ r \in outlived'
        /\ of'[r] \in Sessions
    <3>1. (runner[r] # "off" => r \in gone) /\ of[r] \in Sessions
      BY DEF Saves, RunnersFit
    <3> QED BY <3>1, <1>2
  <2> QED BY <2>1, <2>2, <1>2, <1>4 DEF Saves, RunnersFit
<1>8. ASSUME NEW t \in Sessions, ~ Disturbed(t)'  PROVE Kept(t)'
  <2>1. ~ Disturbed(t)
    BY <1>2, <1>8, StaysDisturbed
  <2>2. Kept(t)
    BY <2>1 DEF Saves, TurnsKept
  <2>3. Covers(store[t], t, of, saved)' /\
        (\A d \in DOMAIN calls : Writes(calls[d], t, of) => Covers(calls[d].turns, t, of, saved))'
    <3>1. CASE UNCHANGED <<store, saved>>
      BY <3>1, <2>2, <1>2 DEF Kept, From
    <3>2. ASSUME NEW c \in DOMAIN calls \ D,
                 calls[c].req = r, calls[c].kind = "last", pc[r] = "saving",
                 store' = [store EXCEPT ![of[r]] = calls[c].turns],
                 saved' = [saved EXCEPT ![r] = calls[c].turns[r]]
          PROVE  Covers(store[t], t, of, saved)' /\
                 (\A d \in DOMAIN calls : Writes(calls[d], t, of) => Covers(calls[d].turns, t, of, saved))'
      <4> DEFINE turns == calls[c].turns
      <4>1. CASE of[r] # t
        <5>1. \A u : Covers(u, t, of, saved) => Covers(u, t, of', saved')
          BY <4>1, <1>2, <1>3 DEF Covers
        <5>2. store'[t] = store[t]
          BY <4>1, <3>2 DEF Ind, Shape
        <5> QED BY <5>1, <5>2, <2>2, <1>2 DEF Kept, From
      <4>2. CASE of[r] = t
        <5>1. Covers(turns, t, of, saved)
          BY <4>2, <3>2, <2>2 DEF Kept, Writes
        <5>2. store'[t] = turns
          BY <4>2, <3>2 DEF Ind, Shape
        <5>3. saved'[r] = turns[r]
          BY <3>2 DEF Saves, RunnersFit
        <5>4. turns[r] \in Int
          BY <1>1 DEF Absent, Asked, Answered
        <5>5. Covers(turns, t, of', saved')
          BY <5>1, <5>3, <5>4, <1>2, <1>3 DEF Covers
        <5>6. ASSUME NEW d \in D, Writes(calls[d], t, of)
              PROVE  Covers(calls[d].turns, t, of', saved')
          <6>1. calls[d].req = r
            BY <5>6, <4>2, <3>2, <2>2 DEF Kept
          <6>2. ~ Same(calls[c], calls[d])
            BY <3>2, OtherKinds
          <6>3. calls[d].kind = "save"
            BY <5>6, <6>1, <6>2, <3>2, <1>1 DEF Writes, Same, Calls
          <6>4. calls[d].turns[r] = 2
            BY <6>1, <6>3, <1>1 DEF Fits, Answered
          <6>5. turns[r] \in {0, 1, 2}
            BY <1>1 DEF Absent, Asked, Answered
          <6>6. calls[d].turns[r] >= saved'[r]
            BY <6>4, <6>5, <5>3
          <6>7. Covers(calls[d].turns, t, of, saved)
            BY <5>6, <2>2 DEF Kept
          <6> QED BY <6>6, <6>7, <1>2, <1>3 DEF Covers
        <5>7. \A d \in D : Writes(calls[d], t, of') => Covers(calls[d].turns, t, of', saved')
          BY <5>6, <1>2
        <5>8. (\A d \in DOMAIN calls : Writes(calls[d], t, of) => Covers(calls[d].turns, t, of, saved))'
          BY <5>7 DEF From
        <5>9. Covers(store[t], t, of, saved)'
          BY <5>2, <5>5
        <5> QED BY <5>8, <5>9
      <4> QED BY <4>1, <4>2
    <3> QED BY <3>1, <3>2
  <2>4. ASSUME NEW q \in Requests, of[q] = t, pc'[q] \in {"running", "saving"}
        PROVE  /\ Covers(mem[q], t, of, saved)'
               /\ (\A d \in DOMAIN calls : Writes(calls[d], t, of) => calls[d].req = q)'
    <3>1. q # r /\ pc[q] \in {"running", "saving"}
      BY <2>4, <1>2
    <3>2. of[r] # t
      BY <3>1, <2>4 DEF Ind, UsersUseTable, Active, Holding
    <3>3. Covers(mem[q], t, of, saved)
      BY <3>1, <2>2, <2>4 DEF Kept
    <3>4. Covers(mem[q], t, of, saved)'
      BY <3>2, <3>3, <1>2, <1>3 DEF Covers
    <3>5. (\A d \in DOMAIN calls : Writes(calls[d], t, of) => calls[d].req = q)'
      BY <3>1, <2>2, <2>4, <1>2 DEF Kept, From
    <3> QED BY <3>4, <3>5
  <2>5. (\A d, e \in DOMAIN calls : d < e => ~ (Loads(calls[d], t, of) /\ Writes(calls[e], t, of)))'
    <3>1. \A d, e \in D : d < e => ~ (Loads(calls[d], t, of) /\ Writes(calls[e], t, of))
      BY <2>2 DEF Kept
    <3> QED BY <3>1, <1>2 DEF From
  <2>6. \A q \in Requests : of'[q] = of[q]
    BY <1>2
  <2> QED BY <2>3, <2>4, <2>5, <2>6 DEF Kept
<1> QED
  BY <1>5, <1>6, <1>7, <1>8 DEF Saves, TurnsKept, CallsFit

LEMMA AllAreFrom == ASSUME UNCHANGED calls  PROVE From(DOMAIN calls)
BY DEF From

(* Clients leave their turn while it loads or saves.                        *)
LEMMA LeaveTurnKeeps ==
  ASSUME Ind, Saves, NEW r \in Requests, LeaveLoading(r) \/ LeaveSaving(r)
  PROVE  Saves'
<1>1. /\ pc[r] \in {"opening", "saving"} /\ Release(r) /\ gone' = gone \cup {r}
      /\ UNCHANGED <<runner, mem, store, saved>>
  BY DEF LeaveLoading, LeaveSaving, Disconnect, dataVars
<1>2. \A u \in Calls : Fits(u, pc, runner, gone) /\ u.req = r /\ u.kind = "load" => pc[r] = "opening"
  BY DEF Fits
<1>3. \A d \in DOMAIN calls : calls[d] \in Calls /\ Fits(calls[d], pc, runner, gone)
  BY DEF Ind, Shape, Saves, CallsFit
<1>4. CASE LeaveSaving(r)
  <2>1. From(DOMAIN calls)
    BY <1>4, AllAreFrom DEF LeaveSaving
  <2>2. \A d \in DOMAIN calls : calls[d].req = r => calls[d].kind # "load"
    BY <1>2, <1>3, <1>4 DEF LeaveSaving
  <2>3. r \in gone'
    BY <1>1
  <2> QED BY <2>1, <2>2, <2>3, <1>1, ReleaseKeeps
<1>5. CASE LeaveLoading(r)
  <2>1. PICK c \in DOMAIN calls : calls[c] = LoadCall(r) /\ Done(c)
    BY <1>5 DEF LeaveLoading
  <2> DEFINE D == DOMAIN calls \ {c}
  <2>2. From(D)
    BY <2>1, DoneLeaves DEF Ind, Shape
  <2>3. \A d \in D : calls[d].req = r => calls[d].kind # "load"
    BY <2>1, OtherKinds DEF Same, LoadCall, Call
  <2>4. r \in gone' /\ D \subseteq DOMAIN calls
    BY <1>1
  <2> HIDE DEF D
  <2> QED BY <2>2, <2>3, <2>4, <1>1, ReleaseKeeps
<1> QED
  BY <1>4, <1>5

(* A load fails, or the last save of a turn is written or fails.            *)
LEMMA EndKeeps ==
  ASSUME Ind, Saves, NEW c \in DOMAIN calls, LoadFails(c) \/ LandLast(c) \/ LastFails(c)
  PROVE  Saves'
<1> DEFINE r == calls[c].req
           D == DOMAIN calls \ {c}
<1>1. /\ pc[r] \in {"opening", "saving"} /\ Release(r)
      /\ calls[c].kind = "load" <=> pc[r] = "opening"
      /\ calls[c].kind \in {"load", "last"}
      /\ UNCHANGED <<runner, mem, gone>>
  BY DEF LoadFails, LandLast, LastFails, dataVars
<1>2. From(D)
  BY DoneLeaves DEF LoadFails, LandLast, LastFails, Ind, Shape
<1>3. /\ r \in Requests
      /\ \A d \in DOMAIN calls : calls[d] \in Calls /\ Fits(calls[d], pc, runner, gone)
  <2>1. \A u \in Calls : u.req \in Requests
    BY DEF Calls
  <2> QED BY <2>1 DEF Ind, Shape, Saves, CallsFit
<1>4. \A d \in D : calls[d].req = r => calls[d].kind # "load" /\ calls[d].kind # "last"
  <2> SUFFICES ASSUME NEW d \in D, calls[d].req = r, calls[d].kind \in {"load", "last"}
               PROVE  FALSE
    OBVIOUS
  <2>1. calls[d].kind = calls[c].kind
    BY <1>1, <1>3 DEF Fits
  <2> QED BY <2>1, OtherKinds DEF Same
<1>5. \/ UNCHANGED <<store, saved>>
      \/ /\ calls[c].kind = "last" /\ pc[r] = "saving"
         /\ store' = [store EXCEPT ![of[r]] = calls[c].turns]
         /\ saved' = [saved EXCEPT ![r] = calls[c].turns[r]]
  BY DEF LoadFails, LandLast, LastFails, dataVars
<1>6. D \subseteq DOMAIN calls /\ c \in DOMAIN calls \ D /\ pc[r] \in Holding
  BY <1>1 DEF Active, Holding
<1> HIDE DEF D
<1> QED
  BY <1>1, <1>2, <1>3, <1>4, <1>5, <1>6, ReleaseKeeps

LEMMA NextKeeps == ASSUME Ind, Saves, Next  PROVE Saves'
<1>1. ASSUME NEW r \in Requests, NEW s \in Sessions, Arrive(r, s)  PROVE Saves'
  BY <1>1, EnterKeeps DEF Arrive
<1>2. ASSUME NEW r \in Requests, Acquire(r)  PROVE Saves'
  <2>1. /\ pc[r] = "waiting" /\ pc' = [pc EXCEPT ![r] = "opening"]
        /\ calls' = Append(calls, LoadCall(r))
        /\ UNCHANGED <<inorder, of, dataVars, gone, outlived>>
    BY <1>2 DEF Acquire
  <2>2. of[r] \in Sessions /\ of' = [of EXCEPT ![r] = of[r]]
    BY <2>1 DEF Saves, RunnersFit, Ind, Shape
  <2> QED BY <2>1, <2>2, EnterKeeps
<1>3. ASSUME NEW r \in Requests, Answer(r)  PROVE Saves'
  BY <1>3, AnswerKeeps
<1>4. ASSUME NEW r \in Requests, RunnerFails(r) \/ RunnerCancelled(r)  PROVE Saves'
  BY <1>4, QuietKeeps DEF RunnerFails, RunnerCancelled
<1>5. ASSUME NEW r \in Requests, SaveTurn(r)  PROVE Saves'
  BY <1>5, SaveTurnKeeps
<1>6. ASSUME NEW r \in Requests, LeaveQueue(r) \/ LeaveRunning(r)  PROVE Saves'
  BY <1>6, QuietKeeps DEF LeaveQueue, LeaveRunning, Disconnect, dataVars
<1>7. ASSUME NEW r \in Requests, LeaveLoading(r) \/ LeaveSaving(r)  PROVE Saves'
  BY <1>7, LeaveTurnKeeps
<1>8. ASSUME NEW c \in DOMAIN calls, Land(c)  PROVE Saves'
  BY <1>8, LandLoadKeeps, LandSaveKeeps, EndKeeps DEF Land
<1> QED
  BY <1>1, <1>2, <1>3, <1>4, <1>5, <1>6, <1>7, <1>8 DEF Next, Leaves

LEMMA InitSaves == Init => Saves
<1> SUFFICES ASSUME Init PROVE Saves
  OBVIOUS
<1>1. CallsFit /\ RunnersFit
  BY DEF Init, CallsFit, RunnersFit, NoTurns
<1>2. \A s \in Sessions : Kept(s)
  BY DEF Init, Kept, Covers, NoTurns
<1> QED
  BY <1>1, <1>2 DEF Saves, TurnsKept

(* A turn that was saved stays saved, unless a client of its session went   *)
(* away and its runner outlived its turn or the store keeps no order.       *)
THEOREM SavedStaysSaved == Spec => []NoLostTurn
<1>1. Ind /\ Saves /\ [Next]_vars => Saves'
  <2>1. ASSUME Saves, UNCHANGED vars  PROVE Saves'
    BY <2>1 DEF Saves, CallsFit, RunnersFit, TurnsKept, Kept, Disturbed, vars, lockVars, dataVars
  <2> QED BY <2>1, NextKeeps
<1>2. Ind /\ Saves => NoLostTurn
  <2> SUFFICES ASSUME Ind, Saves, NEW r \in Requests, saved[r] # Absent,
                      store[of[r]][r] < saved[r]
               PROVE  Disturbed(of[r])
    BY DEF NoLostTurn, Disturbed
  <2>1. of[r] \in Sessions /\ saved[r] \in {0, 1, 2}
    BY DEF Saves, RunnersFit, Absent, Asked, Answered
  <2>2. store[of[r]][r] \in {0, 1, 2}
    BY <2>1 DEF Ind, Shape, Turns, Absent, Asked, Answered
  <2>3. ~ Covers(store[of[r]], of[r], of, saved)
    BY <2>1, <2>2 DEF Covers
  <2> QED BY <2>1, <2>3 DEF Saves, TurnsKept, Kept
<1> QED
  BY <1>1, <1>2, InitSaves, Invariance, PTL DEF Spec
=============================================================================
