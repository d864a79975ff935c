----------------------------- MODULE Generation -----------------------------
(***************************************************************************)
(* One generation of a streamed run: Runtime._arun_once_impl from its      *)
(* batch to the end of _dispatch, Runtime._dispatch with its semaphores,   *)
(* Runtime.astream and the EventHub that carries the announcements of the  *)
(* agents to it (reactifact/runtime.py, reactifact/streaming.py).          *)
(*                                                                         *)
(* Workers are named after their place in the work list.  Runtime has what *)
(* comes before and after: budgets, commits, outbox, saves, other          *)
(* generations.  Here the run is over when its generation is.              *)
(***************************************************************************)
EXTENDS WorkList

CONSTANTS
  Limit,           \* Agent.concurrency_limit, 0 for none
  Concurrencies,   \* what Runtime.max_concurrency may be, 0 for none
  HubSize,         \* bound of a subscriber's queue
  RankLimit,       \* Scheduler.rank_limit, None for none
  Batches,         \* what a generation may find in the queue
  Resumes,         \* the sets of its events that may be answered questions
  Caps,            \* what may be left of max_runs
  MaxSaid          \* bound on the announcements of the generation

ASSUME GenerationAssumption ==
  /\ Limit \in [DOMAIN Priority -> Nat]
  /\ Concurrencies \subseteq Nat /\ RankLimit \in Nat \cup {None} /\ Caps \subseteq Nat
  /\ HubSize \in Nat \ {0} /\ MaxSaid \in Nat
  /\ Batches \subseteq Seq([DOMAIN Priority -> {"no", "now", "settle"}])

VARIABLES
  batch,      \* the events and what they match
  resumes,    \* its events that answer a question
  remaining,  \* max_runs minus the runs used
  scheduled,  \* the Runtime has a Scheduler
  isolates,   \* isolate_errors
  most,       \* max_concurrency
  phase,      \* where _arun_once_impl is
  late,       \* the deadline passed while the batch was collected
  met,        \* the part of the batch that was
  work,       \* the work list
  counted,    \* some of the results are counted and applied
  at,         \* per worker: where it is
  got,        \* per worker: how many of the semaphores it needs it holds
  free,       \* per semaphore: _value
  line,       \* per semaphore: _waiters, those woken and not yet resumed too
  cancelled,  \* the turn's task has been cancelled
  done,       \* astream's `done` event
  spc,        \* where astream is
  hub,        \* the queue it subscribed
  item,       \* what its queue.get() has taken
  shown,      \* history: the announcements it yielded
  said,       \* history: the announcements published to it
  lost        \* history: those dropped from the full queue

inputs   == <<batch, resumes, remaining, scheduled, isolates, most>>
semVars  == <<at, got, free, line>>
hubVars  == <<hub, said, lost>>
workVars == <<late, met, work, counted>>
vars == <<inputs, phase, workVars, semVars, cancelled, done, spc, item, shown, hubVars>>

Workers   == DOMAIN work
AgentOf(i) == work[i][1]

(* The semaphores: one for all agents of one limit, and Global.             *)
Global == 0
Sems == {Limit[work[i][1]] : i \in Workers} \cup {Global}

(* The order in which a worker takes them: its tier first, then the global. *)
Needs(i) ==
  (IF Limit[AgentOf(i)] > 0 THEN <<Limit[AgentOf(i)]>> ELSE <<>>)
    \o (IF most > 0 THEN <<Global>> ELSE <<>>)

(* Neither a cap nor a limit: one agent after the other. *)
Sequential == most = 0 /\ \A i \in Workers : Limit[AgentOf(i)] = 0

Over == {"done", "failed", "cancelled"}

Ended == phase \in {"returned", "raised"}

Subscribed == spc \notin {"ended", "failed", "closed"}

-----------------------------------------------------------------------------
(* The work list *)

(* The loops over the batch ask before each agent whether a budget is spent; *)
(* as nothing else runs meanwhile, that can be the deadline only.            *)
CollectWork ==
  /\ phase = "collect"
  /\ phase' = "schedule"
  /\ \/ met' = batch /\ UNCHANGED late
     \/ /\ late' = TRUE
        /\ \E a \in ToSet(Agents), e \in DOMAIN batch : met' = UpTo(batch, a, e)
  /\ work' = Collect(met')
  /\ UNCHANGED <<inputs, counted, semVars, cancelled, done, spc, item, shown, hubVars>>

(* What the Scheduler may answer, if there is one. *)
Chosen == IF scheduled THEN Schedules(work, resumes, RankLimit) ELSE {work}

(* The Scheduler has answered; the cut list is dispatched, if not empty.    *)
Dispatch ==
  /\ phase = "schedule"
  /\ \E w \in Chosen : work' = Slice(w, remaining)
  /\ phase' = IF work' = <<>> THEN "returned" ELSE "dispatch"
  /\ at' = [i \in DOMAIN work' |-> "new"]
  /\ got' = [i \in DOMAIN work' |-> 0]
  /\ free' = [s \in Sems' |-> IF s = Global THEN most ELSE s]
  /\ line' = [s \in Sems' |-> <<>>]
  /\ UNCHANGED <<inputs, late, met, counted, cancelled, done, spc, item, shown, hubVars>>

-----------------------------------------------------------------------------
(* Semaphores (asyncio.Semaphore, which hands a slot to a waiter it wakes)  *)

Sleepers(s) == {n \in DOMAIN line[s] : at[line[s][n]] = "queued"}

FirstSleeper(s) == line[s][Min(Sleepers(s))]

Locked(s, f, ln) == f[s] = 0 \/ ln[s] # <<>>

Waiting == {"queued", "granted"}

(* The workers that use a slot of s: they took it, or were woken for it.    *)
Users(a, g, s) ==
  {i \in Workers : \E k \in 1 .. Len(Needs(i)) :
     Needs(i)[k] = s /\ (k <= g[i] \/ (k = g[i] + 1 /\ a[i] = "granted"))}

(* Worker i goes on from the g semaphores it holds to the first that is     *)
(* locked, or to its agent's run.                                           *)
GoOn(i, g, a, f, ln) ==
  LET need  == Needs(i)
      stops == {k \in g + 1 .. Len(need) : Locked(need[k], f, ln)}
      stop  == IF stops = {} THEN Len(need) + 1 ELSE Min(stops)
      taken == {need[k] : k \in g + 1 .. stop - 1}
  IN  /\ got' = [got EXCEPT ![i] = stop - 1]
      /\ free' = [s \in DOMAIN f |-> IF s \in taken THEN f[s] - 1 ELSE f[s]]
      /\ at' = [a EXCEPT ![i] = IF stops = {} THEN "running" ELSE "queued"]
      /\ line' = IF stops = {} THEN ln ELSE [ln EXCEPT ![need[stop]] = Append(@, i)]

(* gather starts its workers in order. *)
Start(i) ==
  /\ phase = "dispatch"
  /\ at[i] = "new"
  /\ \A j \in 1 .. i - 1 : IF Sequential THEN at[j] \in Over ELSE at[j] # "new"
  /\ GoOn(i, 0, at, free, line)
  /\ UNCHANGED <<inputs, phase, workVars, cancelled, done, spc, item, shown, hubVars>>

(* A woken worker leaves the line; if a slot is free it wakes the next.     *)
Resume(i) ==
  LET s == Needs(i)[got[i] + 1]
  IN  /\ at[i] = "granted"
      /\ \E n \in DOMAIN line[s] :
           /\ line[s][n] = i
           /\ LET ln == [line EXCEPT ![s] = RemoveAt(@, n)]
              IN  IF free[s] > 0 /\ Sleepers(s) # {}
                  THEN GoOn(i, got[i] + 1, [at EXCEPT ![FirstSleeper(s)] = "granted"],
                            [free EXCEPT ![s] = @ - 1], ln)
                  ELSE GoOn(i, got[i] + 1, at, free, ln)
      /\ UNCHANGED <<inputs, phase, workVars, cancelled, done, spc, item, shown, hubVars>>

(* A bug: no finally, so that a worker that fails keeps its slots.          *)
ReleaseOnSuccess(i, end) ==
  LET held  == IF end = "done" THEN {Needs(i)[k] : k \in 1 .. got[i]} ELSE {}
      slept == {s \in held : Sleepers(s) # {}}
      woken == {FirstSleeper(s) : s \in slept}
  IN  /\ at' = [j \in Workers |-> IF j = i THEN end
                                  ELSE IF j \in woken THEN "granted" ELSE at[j]]
      /\ free' = [s \in DOMAIN free |-> IF s \in held \ slept THEN free[s] + 1 ELSE free[s]]
      /\ got' = [got EXCEPT ![i] = 0]
      /\ UNCHANGED line

(* Worker i ends and gives back what it holds: to the first sleeper of each *)
(* line, if there is one.                                                   *)
Release(i, end) ==
  LET held  == {Needs(i)[k] : k \in 1 .. got[i]}
      slept == {s \in held : Sleepers(s) # {}}
      woken == {FirstSleeper(s) : s \in slept}
  IN  /\ at' = [j \in Workers |-> IF j = i THEN end
                                  ELSE IF j \in woken THEN "granted" ELSE at[j]]
      /\ free' = [s \in DOMAIN free |-> IF s \in held \ slept THEN free[s] + 1 ELSE free[s]]
      /\ got' = [got EXCEPT ![i] = 0]
      /\ UNCHANGED line

-----------------------------------------------------------------------------
(* Agents *)

(* An agent's run returns, raises, or unwinds from the cancellation.  With  *)
(* no gather around it, what it raises ends the generation.                 *)
Finish(i, end) ==
  /\ phase = "dispatch"
  /\ at[i] = "running"
  /\ end \in {"done", "failed"} \cup (IF cancelled THEN {"cancelled"} ELSE {})
  /\ Release(i, end)
  /\ phase' = IF Sequential /\ (end = "cancelled" \/ (end = "failed" /\ ~isolates))
              THEN "raised" ELSE phase
  /\ UNCHANGED <<inputs, workVars, cancelled, done, spc, item, shown, hubVars>>

(* context.announce: the hub drops its oldest announcement when it is full. *)
Announce(i) ==
  /\ at[i] = "running"
  /\ Subscribed
  /\ i \notin ToSet(said) /\ Len(said) < MaxSaid
  /\ said' = Append(said, i)
  /\ IF Len(hub) = HubSize
     THEN hub' = Append(Tail(hub), i) /\ lost' = lost \cup {Head(hub)}
     ELSE hub' = Append(hub, i) /\ UNCHANGED lost
  /\ UNCHANGED <<inputs, phase, workVars, semVars, cancelled, done, spc, item, shown>>

(* Whether _get_patches_to_apply counts some of the results: it stops as     *)
(* soon as a budget is spent, at once if the deadline had passed before.     *)
MayCount == IF late THEN {FALSE} ELSE BOOLEAN

(* A bug: gather without return_exceptions raises at the first failure.     *)
GatherFirst ==
  /\ phase = "dispatch"
  /\ \/ \A i \in Workers : at[i] \in Over
     \/ ~isolates /\ \E i \in Workers : at[i] = "failed"
  /\ phase' = IF cancelled \/ (~isolates /\ \E i \in Workers : at[i] = "failed")
              THEN "raised" ELSE "returned"
  /\ counted' \in IF phase' = "raised" THEN {FALSE} ELSE MayCount
  /\ UNCHANGED <<inputs, late, met, work, semVars, cancelled, done, spc, item, shown, hubVars>>

(* All workers are over: the results in work order, or the first exception. *)
Gather ==
  /\ phase = "dispatch"
  /\ \A i \in Workers : at[i] \in Over
  /\ phase' = IF (cancelled /\ ~Sequential)
                 \/ (~isolates /\ \E i \in Workers : at[i] = "failed")
              THEN "raised" ELSE "returned"
  /\ counted' \in IF phase' = "raised" THEN {FALSE} ELSE MayCount
  /\ UNCHANGED <<inputs, late, met, work, semVars, cancelled, done, spc, item, shown, hubVars>>

(* Cancelling the turn ends at once what has not started or is waiting; a    *)
(* slot it was woken for goes back, one it had taken does not, for the       *)
(* acquires stand before the try.  Running agents unwind, or ignore it.      *)
CancelTurn ==
  /\ cancelled' = TRUE
  /\ phase' = IF phase \in {"collect", "schedule"} THEN "raised" ELSE phase
  /\ IF Sequential \/ phase # "dispatch" THEN UNCHANGED semVars
     ELSE /\ at' = [i \in Workers |-> IF at[i] \in {"new"} \cup Waiting
                                      THEN "cancelled" ELSE at[i]]
          /\ free' = [s \in DOMAIN free |->
               free[s] + Cardinality({i \in Workers : /\ at[i] = "granted"
                                                      /\ Needs(i)[got[i] + 1] = s})]
          /\ line' = [s \in DOMAIN line |-> <<>>]
          /\ UNCHANGED got

(* Someone else cancels the run: cancel_run, ashutdown, a deadline.         *)
CancelRun ==
  /\ ~cancelled /\ ~Ended
  /\ CancelTurn
  /\ UNCHANGED <<inputs, workVars, done, spc, item, shown, hubVars>>

RunnerDone ==
  /\ Ended /\ ~done
  /\ done' = TRUE
  /\ UNCHANGED <<inputs, phase, workVars, semVars, cancelled, spc, item, shown, hubVars>>

-----------------------------------------------------------------------------
(* astream *)

(* A bug: the loop ends with the run, whatever is left in the queue.        *)
TurnedLeaving == IF done THEN "joining" ELSE "waiting"

(* The head of the loop. *)
Turned == IF done /\ hub = <<>> THEN "joining" ELSE "waiting"

(* The client takes what was yielded and asks for more. *)
Pull ==
  /\ spc \in {"started", "showing"}
  /\ spc' = Turned
  /\ UNCHANGED <<inputs, phase, workVars, semVars, cancelled, done, item, shown, hubVars>>

(* queue.get() *)
Get ==
  /\ spc = "waiting" /\ item = None /\ hub # <<>>
  /\ item' = Head(hub)
  /\ hub' = Tail(hub)
  /\ UNCHANGED <<inputs, phase, workVars, semVars, cancelled, done, spc, shown, said, lost>>

(* asyncio.wait returns: an announcement is yielded, or the get that has    *)
(* none is cancelled and the loop turns.                                    *)
Wake ==
  /\ spc = "waiting"
  /\ IF item # None
     THEN /\ spc' = "showing"
          /\ shown' = Append(shown, item)
          /\ item' = None
     ELSE /\ done
          /\ spc' = Turned
          /\ UNCHANGED <<shown, item>>
  /\ UNCHANGED <<inputs, phase, workVars, semVars, cancelled, done, hubVars>>

(* `await task`, then run_end or the run's exception. *)
Join ==
  /\ spc = "joining"
  /\ spc' = IF phase = "raised" THEN "failed" ELSE "ended"
  /\ UNCHANGED <<inputs, phase, workVars, semVars, cancelled, done, item, shown, hubVars>>

(* The client closes the stream, or its own task is cancelled. *)
Close ==
  /\ spc \in {"started", "showing", "waiting"}
  /\ spc' = "closing"
  /\ item' = None
  /\ IF Ended THEN UNCHANGED <<cancelled, phase, semVars>> ELSE CancelTurn
  /\ UNCHANGED <<inputs, workVars, done, shown, hubVars>>

(* The runner has ended, or outlives the grace period. *)
Closed ==
  /\ spc = "closing"
  /\ spc' = "closed"
  /\ UNCHANGED <<inputs, phase, workVars, semVars, cancelled, done, item, shown, hubVars>>

-----------------------------------------------------------------------------
Init ==
  /\ batch \in Batches
  /\ resumes \in Resumes
  /\ remaining \in Caps
  /\ scheduled \in BOOLEAN
  /\ isolates \in BOOLEAN
  /\ most \in Concurrencies
  /\ phase = "collect"
  /\ late = FALSE /\ met = <<>>
  /\ work = <<>> /\ counted = FALSE
  /\ at = <<>> /\ got = <<>>
  /\ free = <<>> /\ line = <<>>
  /\ cancelled = FALSE
  /\ done = FALSE
  /\ spc = "started"
  /\ hub = <<>> /\ item = None /\ shown = <<>>
  /\ said = <<>> /\ lost = {}

Worker(i) == Start(i) \/ Resume(i) \/ \E end \in Over : Finish(i, end)

Run == CollectWork \/ Dispatch \/ Gather \/ RunnerDone

Stream == Pull \/ Get \/ Wake \/ Join \/ Closed

Next ==
  \/ Run
  \/ \E i \in DOMAIN at : Worker(i) \/ Announce(i)
  \/ CancelRun
  \/ Stream
  \/ Close

Spec == Init /\ [][Next]_vars

(* The event loop runs what can run, every agent's run ends, and a client   *)
(* that does not close the stream goes on reading it.                       *)
FairSpec ==
  /\ Spec
  /\ WF_vars(Run)
  /\ WF_vars(\E i \in DOMAIN at : Worker(i))
  /\ WF_vars(Get) /\ WF_vars(Pull \/ Wake \/ Join \/ Closed)

-----------------------------------------------------------------------------
(* Properties *)

Running == {i \in DOMAIN at : at[i] = "running"}

(* While it dispatches, a generation runs no more agents than               *)
(* max_concurrency, no more of one limit than that limit, and one at a time *)
(* if nothing is limited; once it has returned or raised, also when an      *)
(* agent failed or the turn was cancelled, no agent of it runs any more.    *)
RunningWithinLimits ==
  /\ phase # "dispatch" => Running = {}
  /\ most > 0 => Cardinality(Running) <= most
  /\ Sequential => Cardinality(Running) <= 1
  /\ \A l \in Sems \ {Global} :
       Cardinality({i \in Running : Limit[AgentOf(i)] = l}) <= l

(* What the collected batch asks for: every agent that matches at once for  *)
(* each of its events, and a debounced one for its last debounced event.    *)
Due ==
  {p \in ToSet(Agents) \X DOMAIN met :
     \/ met[p[2]][p[1]] = "now"
     \/ met[p[2]][p[1]] = "settle" /\ p[2] = Max(SettleEvents(met, p[1]))}

OfResume(p) == p[2] \in resumes

(* The work of a generation is what its whole batch asks for, nothing       *)
(* twice, unless the deadline passed while it was collected: then nothing   *)
(* of the generation is applied.  It is cut by max_runs only, if there is   *)
(* no Scheduler; that drops no agent an answered question wakes, puts those *)
(* before all others, and leaves something to run if something was due --   *)
(* but for rank_limit = 0, with which the list that "is never emptied"      *)
(* (scheduler.py:87) may be.  Agents woken by one event run in the order of *)
(* their priority if no Scheduler orders them.                              *)
DueIsServed ==
  phase \in {"dispatch", "returned"} =>
    /\ met = batch \/ ~counted
    /\ ToSet(work) \subseteq Due /\ IsInjective(work)
    /\ Len(work) <= remaining
    /\ ~scheduled => Len(work) = remaining \/ ToSet(work) = Due
    /\ ~scheduled => \A i, j \in Workers :
         i < j /\ work[i][2] = work[j][2] => Priority[AgentOf(i)] <= Priority[AgentOf(j)]
    /\ scheduled /\ Cardinality(Due) > 1 =>
         /\ \A i, j \in Workers : i < j /\ OfResume(work[j]) => OfResume(work[i])
         /\ \A p \in Due : OfResume(p) =>
              p \in ToSet(work) \/ Len(work) = remaining
    /\ remaining > 0 /\ Due # {} => work # <<>> \/ (scheduled /\ RankLimit = 0)

(* A stream that ends with run_end has shown every announcement of the run, *)
(* in the order they were made, but those the full queue dropped; and no    *)
(* client, however slow, makes the queue hold more than its size.           *)
NothingUnsaid ==
  /\ Len(hub) <= HubSize
  /\ spc = "ended" =>
       /\ ToSet(shown) = ToSet(said) \ lost
       /\ \A m, n \in DOMAIN shown : m < n =>
            \E j, k \in DOMAIN said : j < k /\ said[j] = shown[m] /\ said[k] = shown[n]

(* No line is stuck: the generation ends whatever agents fail and whoever   *)
(* cancels it, and the stream ends after it.                                *)
GenerationEnds == <>Ended /\ <>~Subscribed
=============================================================================
