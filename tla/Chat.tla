-------------------------------- MODULE Chat --------------------------------
(***************************************************************************)
(* ChatAssistant.stream (reactifact/chat.py): concurrent requests, each    *)
(* one turn of some session.  A request takes the session's lock, loads    *)
(* the session from the store, lets a runner task work on the Context it   *)
(* loaded, saves that Context and releases the lock.  The lock objects     *)
(* are made on demand and dropped when no one counts on them.  Clients     *)
(* disconnect at any point: while waiting, loading, running or saving.     *)
(*                                                                         *)
(* Steps under _locks_guard hold no await, so each is one step.  A load or *)
(* a save is one call of the store; AppendStore has the calls a save is    *)
(* made of.  A lock object is named after the request that made it.        *)
(***************************************************************************)
EXTENDS Integers, Sequences, FiniteSets, SequencesExt

CONSTANTS
  Requests,
  Sessions,
  None,     \* no request, no lock, no session
  MaxGone   \* bound on disconnected requests

ASSUME ChatAssumption ==
  /\ IsFiniteSet(Requests)
  /\ None \notin Requests \cup Sessions
  /\ MaxGone \in Nat

VARIABLES
  inorder,  \* the store takes calls in order (one connection) or in any (files)
  pc,       \* where each request is
  of,       \* its session
  mine,     \* the lock object it waits for or holds
  lock,     \* _session_locks
  refs,     \* _lock_refs
  holder,   \* per lock object: who holds it
  queue,    \* per lock object: its waiters
  runner,   \* the runner task: "off", "working" or "saving"
  mem,      \* the Context it loaded: how far each turn has come in it
  store,    \* per session: the stored Context
  calls,    \* calls to the store under way, oldest first
  gone,     \* the requests whose client went away
  leaked,   \* history: per session, how often a count was not given back
  saved,    \* history: how far a request's turn was when its last save landed
  outlived  \* history: requests that left while their runner was on

lockVars == <<mine, lock, refs, holder, queue, leaked>>
dataVars == <<runner, mem, store, saved>>
vars == <<inorder, pc, of, lockVars, dataVars, calls, gone, outlived>>

Active  == {"waiting", "opening", "running", "saving"}
Holding == Active \ {"waiting"}

(* A turn in a Context: not in it, the message only, message and answer.    *)
Absent   == 0
Asked    == 1
Answered == 2

Turns   == [Requests -> {Absent, Asked, Answered}]
NoTurns == [r \in Requests |-> Absent]

Users(s) == {r \in Requests : of[r] = s /\ pc[r] \in Active}

Calls == [req : Requests, kind : {"load", "save", "last"}, turns : Turns]

Call(r, kind, turns) == [req |-> r, kind |-> kind, turns |-> turns]

LoadCall(r) == Call(r, "load", NoTurns)

-----------------------------------------------------------------------------
(* The lock *)

(* A bug: a lock that is free is taken, also when others were woken for it. *)
ArriveBarging(r, s) ==
  LET k == IF lock[s] = None THEN r ELSE lock[s]
  IN  /\ pc[r] = "new"
      /\ of' = [of EXCEPT ![r] = s]
      /\ mine' = [mine EXCEPT ![r] = k]
      /\ lock' = [lock EXCEPT ![s] = k]
      /\ refs' = [refs EXCEPT ![s] = @ + 1]
      /\ \/ /\ holder[k] = None
            /\ holder' = [holder EXCEPT ![k] = r]
            /\ pc' = [pc EXCEPT ![r] = "opening"]
            /\ calls' = Append(calls, LoadCall(r))
            /\ UNCHANGED queue
         \/ /\ holder[k] # None
            /\ queue' = [queue EXCEPT ![k] = Append(@, r)]
            /\ pc' = [pc EXCEPT ![r] = "waiting"]
            /\ UNCHANGED <<holder, calls>>
      /\ UNCHANGED <<inorder, leaked, dataVars, gone, outlived>>

(* The lock object is found or made and counted on; asyncio.Lock lets no    *)
(* one past its waiters, woken or not.                                      *)
Arrive(r, s) ==
  LET k == IF lock[s] = None THEN r ELSE lock[s]
  IN  /\ pc[r] = "new"
      /\ of' = [of EXCEPT ![r] = s]
      /\ mine' = [mine EXCEPT ![r] = k]
      /\ lock' = [lock EXCEPT ![s] = k]
      /\ refs' = [refs EXCEPT ![s] = @ + 1]
      /\ \/ /\ holder[k] = None /\ queue[k] = <<>>
            /\ holder' = [holder EXCEPT ![k] = r]
            /\ pc' = [pc EXCEPT ![r] = "opening"]
            /\ calls' = Append(calls, LoadCall(r))
            /\ UNCHANGED queue
         \/ /\ holder[k] # None \/ queue[k] # <<>>
            /\ queue' = [queue EXCEPT ![k] = Append(@, r)]
            /\ pc' = [pc EXCEPT ![r] = "waiting"]
            /\ UNCHANGED <<holder, calls>>
      /\ UNCHANGED <<inorder, leaked, dataVars, gone, outlived>>

(* The first waiter of a free lock gets it.                                 *)
Acquire(r) ==
  /\ pc[r] = "waiting"
  /\ holder[mine[r]] = None
  /\ queue[mine[r]] # <<>> /\ Head(queue[mine[r]]) = r
  /\ holder' = [holder EXCEPT ![mine[r]] = r]
  /\ queue' = [queue EXCEPT ![mine[r]] = Tail(@)]
  /\ pc' = [pc EXCEPT ![r] = "opening"]
  /\ calls' = Append(calls, LoadCall(r))
  /\ UNCHANGED <<inorder, of, mine, lock, refs, leaked, dataVars, gone, outlived>>

(* A bug: the lock is dropped without a look at who else counts on it.      *)
ReleaseDropping(r) ==
  /\ pc' = [pc EXCEPT ![r] = "done"]
  /\ refs' = [refs EXCEPT ![of[r]] = @ - 1]
  /\ lock' = [lock EXCEPT ![of[r]] = None]
  /\ holder' = [holder EXCEPT ![mine[r]] = None]
  /\ outlived' = IF runner[r] = "off" THEN outlived ELSE outlived \cup {r}
  /\ UNCHANGED <<inorder, of, mine, queue, leaked>>

(* A bug: the lock is dropped when one request still counts on it.          *)
ReleaseEarly(r) ==
  /\ pc' = [pc EXCEPT ![r] = "done"]
  /\ refs' = [refs EXCEPT ![of[r]] = @ - 1]
  /\ lock' = [lock EXCEPT ![of[r]] = IF refs[of[r]] <= 2 THEN None ELSE @]
  /\ holder' = [holder EXCEPT ![mine[r]] = None]
  /\ outlived' = IF runner[r] = "off" THEN outlived ELSE outlived \cup {r}
  /\ UNCHANGED <<inorder, of, mine, queue, leaked>>

(* The way out of _locked_session: the count is given back, a lock no one   *)
(* counts on is dropped, the lock is free.                                  *)
Release(r) ==
  /\ pc' = [pc EXCEPT ![r] = "done"]
  /\ refs' = [refs EXCEPT ![of[r]] = @ - 1]
  /\ lock' = [lock EXCEPT ![of[r]] = IF refs[of[r]] <= 1 THEN None ELSE @]
  /\ holder' = [holder EXCEPT ![mine[r]] = None]
  /\ outlived' = IF runner[r] = "off" THEN outlived ELSE outlived \cup {r}
  /\ UNCHANGED <<inorder, of, mine, queue, leaked>>

-----------------------------------------------------------------------------
(* Loading *)

Served == IF inorder THEN {1} \cap DOMAIN calls ELSE DOMAIN calls

Done(c) == calls' = RemoveAt(calls, c)

(* The session is loaded; create_message enters the turn and the runner     *)
(* starts, or the hook raises and there is only the fallback reply.         *)
LandLoad(c) ==
  LET r == calls[c].req
  IN  /\ c \in Served /\ calls[c].kind = "load" /\ pc[r] = "opening"
      /\ Done(c)
      /\ pc' = [pc EXCEPT ![r] = "running"]
      /\ \/ /\ mem' = [mem EXCEPT ![r] = [store[of[r]] EXCEPT ![r] = Asked]]
            /\ runner' = [runner EXCEPT ![r] = "working"]
         \/ /\ mem' = [mem EXCEPT ![r] = store[of[r]]]
            /\ UNCHANGED runner
      /\ UNCHANGED <<inorder, of, lockVars, store, saved, gone, outlived>>

(* The store raises: the fallback reply, and the way out.                   *)
LoadFails(c) ==
  /\ c \in Served /\ calls[c].kind = "load" /\ pc[calls[c].req] = "opening"
  /\ Done(c)
  /\ Release(calls[c].req)
  /\ UNCHANGED <<dataVars, gone>>

-----------------------------------------------------------------------------
(* The runner, and what it does once its request is gone *)

(* The agents commit an answer; the session is saved behind a shield.       *)
Answer(r) ==
  LET turns == [mem[r] EXCEPT ![r] = Answered]
  IN  /\ runner[r] = "working"
      /\ mem' = [mem EXCEPT ![r] = turns]
      /\ runner' = [runner EXCEPT ![r] = "saving"]
      /\ calls' = Append(calls, Call(r, "save", turns))
      /\ UNCHANGED <<inorder, pc, of, lockVars, store, saved, gone, outlived>>

RunnerFails(r) ==
  /\ runner[r] = "working"
  /\ runner' = [runner EXCEPT ![r] = "off"]
  /\ UNCHANGED <<inorder, pc, of, lockVars, mem, store, saved, calls, gone, outlived>>

(* The runner of a request that is gone is cancelled; its save goes on.     *)
RunnerCancelled(r) ==
  /\ r \in gone /\ runner[r] # "off"
  /\ runner' = [runner EXCEPT ![r] = "off"]
  /\ UNCHANGED <<inorder, pc, of, lockVars, mem, store, saved, calls, gone, outlived>>

(* The runner's save is written, or fails and so does the run.              *)
LandSave(c) ==
  LET r == calls[c].req
  IN  /\ c \in Served /\ calls[c].kind = "save"
      /\ Done(c)
      /\ store' \in {store, [store EXCEPT ![of[r]] = calls[c].turns]}
      /\ runner' = [runner EXCEPT ![r] = IF @ = "saving" THEN "off" ELSE @]
      /\ UNCHANGED <<inorder, pc, of, lockVars, mem, saved, gone, outlived>>

-----------------------------------------------------------------------------
(* The end of a turn *)

(* A bug: the save is started and not awaited.                              *)
SaveTurnUnawaited(r) ==
  /\ pc[r] = "running"
  /\ runner[r] = "off" \/ r \in gone
  /\ Release(r)
  /\ calls' = Append(calls, Call(r, "last", mem[r]))
  /\ saved' = [saved EXCEPT ![r] = mem[r][r]]
  /\ UNCHANGED <<runner, mem, store, gone>>

(* The run is over, or its client is gone: a cancelled request gives its    *)
(* runner _CANCEL_GRACE_SECONDS, a closed one saves at once.                *)
SaveTurn(r) ==
  /\ pc[r] = "running"
  /\ runner[r] = "off" \/ r \in gone
  /\ pc' = [pc EXCEPT ![r] = "saving"]
  /\ calls' = Append(calls, Call(r, "last", mem[r]))
  /\ UNCHANGED <<inorder, of, lockVars, dataVars, gone, outlived>>

(* The last save of a turn is written, and the turn over.                   *)
LandLast(c) ==
  LET r == calls[c].req
  IN  /\ c \in Served /\ calls[c].kind = "last"
      /\ pc[r] = "saving"
      /\ Done(c)
      /\ Release(r)
      /\ store' = [store EXCEPT ![of[r]] = calls[c].turns]
      /\ saved' = [saved EXCEPT ![r] = calls[c].turns[r]]
      /\ UNCHANGED <<runner, mem, gone>>

(* stream logs the error and goes on.                                       *)
LastFails(c) ==
  /\ c \in Served /\ calls[c].kind = "last"
  /\ pc[calls[c].req] = "saving"
  /\ Done(c)
  /\ Release(calls[c].req)
  /\ UNCHANGED <<dataVars, gone>>

(* The last save of a request cancelled while it was saving.                *)
LandAbandoned(c) ==
  LET r == calls[c].req
  IN  /\ c \in Served /\ calls[c].kind = "last"
      /\ pc[r] = "done"
      /\ Done(c)
      /\ store' \in {store, [store EXCEPT ![of[r]] = calls[c].turns]}
      /\ UNCHANGED <<inorder, pc, of, lockVars, runner, mem, saved, gone, outlived>>

-----------------------------------------------------------------------------
(* Clients that go away *)

Disconnect(r) ==
  /\ r \notin gone /\ Cardinality(gone) < MaxGone
  /\ gone' = gone \cup {r}

(* A bug: a cancelled waiter stays in the queue.                            *)
LeaveQueueStuck(r) ==
  /\ pc[r] = "waiting"
  /\ Disconnect(r)
  /\ pc' = [pc EXCEPT ![r] = "done"]
  /\ leaked' = [leaked EXCEPT ![of[r]] = @ + 1]
  /\ UNCHANGED <<inorder, of, mine, lock, refs, holder, queue, dataVars, calls, outlived>>

(* While waiting: the count taken before `async with lock` is not given     *)
(* back, so the lock object stays in the table for good.                    *)
LeaveQueue(r) ==
  /\ pc[r] = "waiting"
  /\ Disconnect(r)
  /\ pc' = [pc EXCEPT ![r] = "done"]
  /\ \E i \in DOMAIN queue[mine[r]] :
       /\ queue[mine[r]][i] = r
       /\ queue' = [queue EXCEPT ![mine[r]] = RemoveAt(@, i)]
  /\ leaked' = [leaked EXCEPT ![of[r]] = @ + 1]
  /\ UNCHANGED <<inorder, of, mine, lock, refs, holder, dataVars, calls, outlived>>

(* While loading.                                                           *)
LeaveLoading(r) ==
  /\ pc[r] = "opening"
  /\ Disconnect(r)
  /\ Release(r)
  /\ \E c \in DOMAIN calls : calls[c] = LoadCall(r) /\ Done(c)
  /\ UNCHANGED dataVars

(* While running: cancelled, or closed at a yield.                          *)
LeaveRunning(r) ==
  /\ pc[r] = "running"
  /\ Disconnect(r)
  /\ UNCHANGED <<inorder, pc, of, lockVars, dataVars, calls, outlived>>

(* While saving: the await is given up; the store may go on with the call.  *)
LeaveSaving(r) ==
  /\ pc[r] = "saving"
  /\ Disconnect(r)
  /\ Release(r)
  /\ UNCHANGED <<dataVars, calls>>

-----------------------------------------------------------------------------
Init ==
  /\ inorder \in BOOLEAN
  /\ pc = [r \in Requests |-> "new"]
  /\ of = [r \in Requests |-> None]
  /\ mine = [r \in Requests |-> None]
  /\ lock = [s \in Sessions |-> None]
  /\ refs = [s \in Sessions |-> 0]
  /\ holder = [r \in Requests |-> None]
  /\ queue = [r \in Requests |-> <<>>]
  /\ runner = [r \in Requests |-> "off"]
  /\ mem = [r \in Requests |-> NoTurns]
  /\ store = [s \in Sessions |-> NoTurns]
  /\ calls = <<>>
  /\ gone = {}
  /\ leaked = [s \in Sessions |-> 0]
  /\ saved = NoTurns
  /\ outlived = {}

Land(c) ==
  \/ LandLoad(c) \/ LoadFails(c) \/ LandSave(c)
  \/ LandLast(c) \/ LastFails(c) \/ LandAbandoned(c)

Leaves(r) == LeaveQueue(r) \/ LeaveLoading(r) \/ LeaveRunning(r) \/ LeaveSaving(r)

Next ==
  \/ \E r \in Requests :
       \/ \E s \in Sessions : Arrive(r, s)
       \/ Acquire(r) \/ Answer(r) \/ RunnerFails(r) \/ RunnerCancelled(r)
       \/ SaveTurn(r) \/ Leaves(r)
  \/ \E c \in DOMAIN calls : Land(c)

Spec == Init /\ [][Next]_vars

(* The event loop runs what is ready, the store answers every call, and a   *)
(* run comes to an end.                                                     *)
Fairness ==
  /\ WF_vars(\E c \in DOMAIN calls : Land(c))
  /\ \A r \in Requests :
       WF_vars(Acquire(r)) /\ WF_vars(Answer(r) \/ RunnerFails(r)) /\ WF_vars(SaveTurn(r))

FairSpec == Spec /\ Fairness

-----------------------------------------------------------------------------
(* Properties *)

Shape ==
  /\ inorder \in BOOLEAN
  /\ pc \in [Requests -> Active \cup {"new", "done"}]
  /\ of \in [Requests -> Sessions \cup {None}]
  /\ mine \in [Requests -> Requests \cup {None}]
  /\ lock \in [Sessions -> Requests \cup {None}]
  /\ refs \in [Sessions -> Nat]
  /\ leaked \in [Sessions -> Nat]
  /\ holder \in [Requests -> Requests \cup {None}]
  /\ queue \in [Requests -> Seq(Requests)]
  /\ runner \in [Requests -> {"off", "working", "saving"}]
  /\ mem \in [Requests -> Turns]
  /\ store \in [Sessions -> Turns]
  /\ calls \in Seq(Calls)
  /\ gone \subseteq Requests

WaitingFor(k) == {r \in Requests : mine[r] = k /\ pc[r] = "waiting"}

(* The shape of the state, and that the waiters of a lock object are the    *)
(* requests that wait for it, each once.                                    *)
TypeOK ==
  /\ Shape
  /\ \A k \in Requests : ToSet(queue[k]) = WaitingFor(k) /\ IsInjective(queue[k])

(* Two requests are never both in a turn of one session, whichever lock     *)
(* objects they found in the table.                                         *)
MutualExclusion ==
  \A r, q \in Requests :
    pc[r] \in Holding /\ pc[q] \in Holding /\ of[r] = of[q] => r = q

(* The table counts exactly the requests of a session that are not through, *)
(* and those that were cancelled while waiting; a lock is there as long as  *)
(* the count is not zero, and it is the one every request of the session    *)
(* waits for or holds.                                                      *)
LockTableExact ==
  \A s \in Sessions :
    /\ refs[s] = Cardinality(Users(s)) + leaked[s]
    /\ lock[s] = None <=> refs[s] = 0
    /\ \A r \in Users(s) : mine[r] = lock[s]

(* A turn that was saved stays saved, unless a client of the same session   *)
(* went away and either its runner outlived its turn, or the store takes    *)
(* calls in any order.                                                      *)
NoLostTurn ==
  \A r \in Requests :
    saved[r] # Absent /\ store[of[r]][r] < saved[r] =>
      \E q \in gone : of[q] = of[r] /\ (q \in outlived \/ ~inorder)

(* Every request ends: a waiter gets the lock, also after requests before   *)
(* it were cancelled.                                                       *)
EveryRequestEnds == \A r \in Requests : pc[r] = "waiting" ~> pc[r] = "done"

(* The lock table, lock objects and counts implement one line per session.  *)
Inside == [s \in Sessions |-> {r \in Requests : of[r] = s /\ pc[r] \in Holding}]
Line   == [s \in Sessions |-> IF lock[s] = None THEN <<>> ELSE queue[lock[s]]]

Promise == INSTANCE SessionLock WITH inside <- Inside, line <- Line

KeepsPromise == Promise!Spec
=============================================================================
