------------------------------ MODULE Runtime ------------------------------
(***************************************************************************)
(* The turn loop of reactifact/runtime.py over one Context and one session *)
(* (a KVBackend that stores the whole Context under the session's key).    *)
(*                                                                         *)
(* A turn is a sequence of generations.  A generation peeks at the event   *)
(* queue, runs the agents its events wake, applies their patches as        *)
(* commits, consumes the batch, drains the outbox through the dispatcher   *)
(* and saves the session.  Every `await` is a point where the application  *)
(* may touch the Context, the deadline may fire, the task may be cancelled *)
(* or the process may die; the code between two awaits is one action.      *)
(*                                                                         *)
(* Data is abstracted to what the properties tell apart.  An artifact is   *)
(* an item with a version (-1: absent); an event is <<item, version>>, the *)
(* announcement that the item reached the version (created for 0, updated  *)
(* above), so an event has the identity `consume_events` goes by.  The     *)
(* order of the queue is left out: it orders the work of one generation,   *)
(* which no property here depends on, so the slice of the run budget cuts  *)
(* an arbitrary part of the work.                                          *)
(***************************************************************************)
EXTENDS Integers, FiniteSets, FiniteSetsExt, Sequences, SequencesExt

CONSTANTS
  Items,          \* artifact ids
  Actions,        \* the items that are a PendingAction
  External,       \* the items the application itself creates and updates
  Agents,
  Consumes,       \* [Agents -> SUBSET Items]: whose events wake the agent
  Produces,       \* [Agents -> SUBSET Items]: what the agent's patch may write
  HasDispatcher,  \* Runtime(dispatcher=...) was given
  IsolateErrors,  \* Runtime(isolate_errors=...)
  Policies,       \* session_save_policy: a subset of {"per_commit", "per_turn"}
  RunCaps,        \* values of Budget.max_runs the application uses
  MaxIterations,  \* arun(max_iterations=...)
  LimitsTime,     \* Budget.max_seconds is set
  LimitsTokens,   \* Budget.max_tokens or max_cost is set
  HasQuota,       \* RuntimeResources.quota is set
  DrainsEvents,   \* the application or a produce calls context.drain_events
  WritesInOrder,  \* the backend's writes take effect in the order of the calls
  MaxVersion,     \* bound: no patch, update or re-arm starts above this version
  MaxFaults,      \* bound: crashes, cancellations, deadlines, failures, stops
  NoAction        \* "the dispatcher is not performing anything"

ASSUME ItemsAssumption ==
  /\ IsFiniteSet(Items) /\ IsFiniteSet(Agents)
  /\ Actions \subseteq Items
  /\ External \subseteq Items \ Actions
  /\ Consumes \in [Agents -> SUBSET Items]
  /\ Produces \in [Agents -> SUBSET Items]
  /\ NoAction \notin Actions

ASSUME KnobsAssumption ==
  /\ {HasDispatcher, IsolateErrors, LimitsTime, LimitsTokens, HasQuota,
      DrainsEvents, WritesInOrder} \subseteq BOOLEAN
  /\ Policies \subseteq {"per_commit", "per_turn"}
  /\ RunCaps \subseteq Nat
  /\ MaxIterations \in Nat
  /\ MaxVersion \in Nat
  /\ MaxFaults \in Nat

VARIABLES
  ctx,      \* the live Context
  disk,     \* the Context a reopened session would load
  saving,   \* <<>> or <<snapshot>>: the write the turn is waiting for
  stray,    \* writes whose awaiting turn was cancelled, still on their way
  unsaved,  \* history: a save raised and none was begun since
  policy,   \* session_save_policy, fixed
  pc,       \* where the turn is (see Pcs)
  mode,     \* which entry point runs: arun, arun_once, flush_pending_actions
  cap,      \* the active Budget.max_runs
  gen,      \* _generation of this turn
  runs,     \* _runs_used
  ranNow,   \* what the current generation returns
  batch,    \* the events peeked by the current generation
  work,     \* the <<event, agent>> pairs it dispatches
  todo,     \* the actions _drain_actions has not reached yet
  busy,     \* the action whose I/O was performed, dispatcher not yet returned
  spent,    \* which of {"time", "quota", "tokens"} is used up this turn
  stop,     \* _stop_requested
  outcome,  \* Runtime.outcome
  cut,      \* history: the matches the run budget or the clock left out of work
  cutNow,   \* history: some generation of this turn had such a cut
  sends,    \* history: times an action was performed without an excuse
  sent,     \* history: actions ever performed
  faults    \* bound on the environment's misfortunes

batchVars == <<batch, work, cut>>
turnVars  == <<mode, cap, gen, runs, ranNow, batchVars, outcome, cutNow>>
drainVars == <<todo, busy>>
storeVars == <<disk, saving, stray, unsaved>>
worldVars == <<sends, sent>>
vars == <<ctx, storeVars, policy, pc, turnVars, drainVars, spent, stop,
          worldVars, faults>>

Pcs      == {"idle", "generation", "dispatch", "drain", "save", "ending", "endsave"}
Modes    == {"arun", "once", "flush"}
Outcomes == {"completed", "iterations", "stopped", "budget_runs",
             "budget_time", "budget_tokens", "quota"}
Statuses == {"none", "pending", "dispatched", "failed"}

-----------------------------------------------------------------------------
(* The Context *)

Events == Items \X Nat
Pairs  == Events \X Agents

(* `ran` and `shed` are history: which agent ran for which event with its   *)
(* patch committed, and which pairs were knowingly given up (run budget,    *)
(* isolated error, drain_events); `wasted` are those whose agent finished   *)
(* but whose result the runtime threw away; `torn` are the members of `ran` *)
(* whose generation raised while its commits were being applied, so that    *)
(* its batch is queued still.  They travel with the Context: a snapshot     *)
(* remembers exactly the history it reflects.                               *)
Contexts == [version : [Items -> Nat \cup {-1}],
             status  : [Actions -> Statuses],
             queue   : SUBSET Events,
             ran     : SUBSET Pairs,
             shed    : SUBSET Pairs,
             wasted  : SUBSET Pairs,
             torn    : SUBSET Pairs]

EmptyContext == [version |-> [i \in Items |-> -1],
                 status  |-> [x \in Actions |-> "none"],
                 queue   |-> {}, ran |-> {}, shed |-> {}, wasted |-> {},
                 torn |-> {}]

Emitted(c) == UNION {{i} \X (0 .. c.version[i]) : i \in Items}

Matches(evs) == {p \in evs \X Agents : p[1][1] \in Consumes[p[2]]}

(* Context.create of an absent id and Context.update with changed data: the *)
(* next version and the event that announces it.                            *)
Bump(c, i) == [c EXCEPT !.version[i] = @ + 1,
                        !.queue = @ \cup {<<i, c.version[i] + 1>>}]

(* mark_dispatched, mark_failed and retry_action are updates of the action. *)
SetStatus(c, x, s) == [Bump(c, x) EXCEPT !.status[x] = s]

PendingActions(c) == {x \in Actions : c.status[x] = "pending"}

HasPendingActions(c) == HasDispatcher /\ PendingActions(c) # {}

(* A bug: undispatched actions are not work.                                *)
HasPendingEvents(c) == c.queue # {}

HasPendingWork(c) == c.queue # {} \/ HasPendingActions(c)

(* A bug: the queue is cleared, as drain_events would.                      *)
ConsumeEverything(c, evs) == [c EXCEPT !.queue = {}]

(* consume_events: by identity, whatever else happened to the queue.        *)
ConsumeEvents(c, evs) == [c EXCEPT !.queue = @ \ evs]

-----------------------------------------------------------------------------
(* Budgets and the end of a turn *)

(* _budget_exhausted: the checks in the order of the code; "no" is False.   *)
Exhausted ==
  IF "time" \in spent THEN "budget_time"
  ELSE IF "quota" \in spent THEN "quota"
  ELSE IF runs >= cap THEN "budget_runs"
  ELSE IF "tokens" \in spent THEN "budget_tokens"
  ELSE "no"

Misfortune == faults < MaxFaults /\ faults' = faults + 1

(* The locals of _arun_once_impl go with the generation.                    *)
ForgetBatch == batch' = {} /\ work' = {} /\ cut' = {}

(* The turn is over: `finally` runs _end_turn_resources and _exit_turn.     *)
ExitTurn ==
  /\ pc' = "idle"
  /\ ForgetBatch
  /\ UNCHANGED <<mode, cap, gen, runs, ranNow, cutNow>>

(* _run_generations returns; arun goes on with the trace and the last save. *)
LeaveLoop(o) ==
  /\ pc' = "ending"
  /\ outcome' = o
  /\ ForgetBatch
  /\ UNCHANGED <<mode, cap, gen, runs, ranNow, cutNow>>

(* An exception leaves the loop and with it the turn; but arun takes any    *)
(* TimeoutError out of its loop for its own deadline.                       *)
Raised ==
  \/ ExitTurn /\ UNCHANGED outcome
  \/ mode = "arun" /\ pc # "endsave" /\ LeaveLoop("budget_time")

(* A bug: a generation that ran nobody ends the loop, whatever the drain    *)
(* left behind.                                                             *)
AfterGenerationRunsOnly ==
  pc' = IF mode = "once" THEN "idle"
        ELSE IF ranNow = 0 THEN "ending" ELSE "generation"

(* What follows a generation: arun_once returns, the loop of arun stops at  *)
(* quiescence or goes round.                                                *)
AfterGeneration ==
  pc' = IF mode = "once" THEN "idle"
        ELSE IF ranNow = 0 /\ ~HasPendingWork(ctx) THEN "ending"
        ELSE "generation"

-----------------------------------------------------------------------------
(* Entry points *)

(* A bug: _runs_used survives the turn.                                     *)
BeginTurnKeepingRuns(m, c) ==
  /\ pc = "idle"
  /\ pc' = "generation"
  /\ mode' = m
  /\ cap' = c
  /\ gen' = 0
  /\ ranNow' = 0
  /\ outcome' = "completed"
  /\ cutNow' = FALSE
  /\ spent' \in {{}} \cup (IF HasQuota THEN {{"quota"}} ELSE {})
  /\ UNCHANGED <<ctx, storeVars, policy, runs, batchVars, drainVars, stop, worldVars, faults>>

(* arun and arun_once: _enter_turn, then _begin_turn resets the counters    *)
(* and asks the quota once.                                                 *)
BeginTurn(m, c) ==
  /\ pc = "idle"
  /\ pc' = "generation"
  /\ mode' = m
  /\ cap' = c
  /\ gen' = 0
  /\ runs' = 0
  /\ ranNow' = 0
  /\ outcome' = "completed"
  /\ cutNow' = FALSE
  /\ spent' \in {{}} \cup (IF HasQuota THEN {{"quota"}} ELSE {})
  /\ UNCHANGED <<ctx, storeVars, policy, batchVars, drainVars, stop, worldVars, faults>>

(* flush_pending_actions: drains without a generation; with no dispatcher   *)
(* or nothing pending it returns at once.                                   *)
FlushPendingActions ==
  /\ pc = "idle"
  /\ HasPendingActions(ctx)
  /\ pc' = "drain"
  /\ mode' = "flush"
  /\ todo' = PendingActions(ctx)
  /\ UNCHANGED <<ctx, storeVars, policy, cap, gen, runs, ranNow, batchVars,
                 outcome, cutNow, busy, spent, stop, worldVars, faults>>

-----------------------------------------------------------------------------
(* _run_generations: the checks before a generation *)

AtLoopHead == pc = "generation" /\ mode = "arun"

(* The for loop ran out of iterations.                                      *)
IterationsExhausted ==
  /\ AtLoopHead
  /\ gen = MaxIterations
  /\ LeaveLoop(IF outcome = "completed" THEN "iterations" ELSE outcome)
  /\ UNCHANGED <<ctx, storeVars, policy, drainVars, spent, stop, worldVars, faults>>

(* request_stop was called: the boundary ends the turn.                     *)
StopAtBoundary ==
  /\ AtLoopHead
  /\ gen < MaxIterations
  /\ stop
  /\ LeaveLoop("stopped")
  /\ UNCHANGED <<ctx, storeVars, policy, drainVars, spent, stop, worldVars, faults>>

BudgetStopsLoop ==
  /\ AtLoopHead
  /\ gen < MaxIterations
  /\ ~stop
  /\ Exhausted # "no"
  /\ LeaveLoop(Exhausted)
  /\ UNCHANGED <<ctx, storeVars, policy, drainVars, spent, stop, worldVars, faults>>

MayGenerate ==
  /\ pc = "generation"
  /\ mode = "arun" => gen < MaxIterations /\ ~stop /\ Exhausted = "no"

(* _arun_once_impl returns 0 before anything: there is nothing to react to. *)
NothingToDo ==
  /\ MayGenerate
  /\ ~HasPendingWork(ctx)
  /\ pc' = IF mode = "once" THEN "idle" ELSE "ending"
  /\ UNCHANGED <<ctx, storeVars, policy, turnVars, drainVars, spent, stop,
                 worldVars, faults>>

(* arun_once has no loop: its budget check is the one inside.               *)
BudgetStopsOnce ==
  /\ MayGenerate
  /\ mode = "once"
  /\ HasPendingWork(ctx)
  /\ Exhausted # "no"
  /\ outcome' = Exhausted
  /\ ExitTurn
  /\ UNCHANGED <<ctx, storeVars, policy, drainVars, spent, stop, worldVars, faults>>

-----------------------------------------------------------------------------
(* One generation: _arun_once_impl *)

(* Peek at the queue and match: the generation's work.                      *)
Dispatch(w) ==
  /\ MayGenerate
  /\ HasPendingWork(ctx)
  /\ Exhausted = "no"
  /\ w \subseteq Matches(ctx.queue)
  /\ batch' = ctx.queue
  /\ work' = w
  /\ cut' = Matches(ctx.queue) \ w
  /\ cutNow' = (cutNow \/ cut' # {})
  /\ gen' = gen + 1
  /\ pc' = "dispatch"
  /\ UNCHANGED <<ctx, storeVars, policy, mode, cap, runs, ranNow, drainVars,
                 stop, worldVars>>

(* A bug: every generation gets the whole cap.                              *)
WholeCap == cap

RunsLeft == cap - runs

(* The work is sliced to what the run budget leaves.                        *)
StartGeneration(w) ==
  /\ Dispatch(w)
  /\ Cardinality(w) = Min({Cardinality(Matches(ctx.queue)), RunsLeft})
  /\ UNCHANGED <<outcome, spent, faults>>

(* The clock runs out while the triggers are being matched: the loop over   *)
(* the events breaks, what it did not reach is left out.                    *)
ClockExpiresWhileMatching(w) ==
  /\ LimitsTime
  /\ Misfortune
  /\ Dispatch(w)
  /\ Cardinality(w) <= RunsLeft
  /\ spent' = spent \cup {"time"}
  /\ outcome' = "budget_time"

(* The versions after the patches of `kept` were applied in order: each run *)
(* may create or refresh what its agent produces.  effects.act proposes an  *)
(* action only where none exists, so an existing action is left alone.      *)
Writers(kept, i) == Cardinality({p \in kept : i \in Produces[p[2]]})

Growths(kept) ==
  {g \in [Items -> -1 .. MaxVersion + 2] :
     \A i \in Items :
       \/ g[i] = ctx.version[i]
       \/ /\ g[i] \in ctx.version[i] + 1 .. ctx.version[i] + Writers(kept, i)
          /\ g[i] <= MaxVersion
          /\ i \in Actions => g[i] = 0}

NewEvents(g) == UNION {{i} \X (ctx.version[i] + 1 .. g[i]) : i \in Items}

(* _commit_patches_to_apply: every patch becomes a commit, its writes emit  *)
(* the events of the next generation.                                       *)
ApplyPatches(kept, g) ==
  [ctx EXCEPT !.version = g,
              !.status  = [x \in Actions |->
                             IF ctx.version[x] = -1 /\ g[x] = 0
                             THEN "pending" ELSE ctx.status[x]],
              !.queue   = @ \cup NewEvents(g),
              !.ran     = @ \cup kept]

(* What becomes of the consumed batch: `lost` ran and its result was thrown *)
(* away, `given` was knowingly not run or failed in isolation.              *)
Settle(c, given, lost) ==
  [ConsumeEvents(c, batch) EXCEPT !.shed = @ \cup given, !.wasted = @ \cup lost,
                                  !.torn = {p \in @ : p[1] \notin batch}]

(* _drain_actions lists the pending actions once, then awaits each.         *)
EnterDrain(c) ==
  /\ pc' = "drain"
  /\ todo' = IF HasDispatcher THEN PendingActions(c) ELSE {}

(* A bug: the session is saved before the batch is consumed.                *)
SaveThenConsume(failed, g) ==
  /\ pc = "dispatch"
  /\ work = {} \/ Exhausted = "no"
  /\ failed \subseteq work
  /\ IsolateErrors \/ failed = {}
  /\ g \in Growths(work \ failed)
  /\ disk' = ApplyPatches(work \ failed, g)
  /\ ctx' = Settle(ApplyPatches(work \ failed, g), failed \cup cut, {})
  /\ runs' = runs + Cardinality(work)
  /\ ranNow' = Cardinality(work)
  /\ EnterDrain(ctx')
  /\ ForgetBatch
  /\ UNCHANGED <<saving, stray, unsaved, policy, mode, cap, gen, outcome, cutNow, busy,
                 spent, stop, worldVars, faults>>

(* Every agent returned.  _get_patches_to_apply keeps the patches of those  *)
(* that did not fail, the commits are applied, the batch is consumed.       *)
CommitGeneration(failed, g) ==
  /\ pc = "dispatch"
  /\ work = {} \/ Exhausted = "no"
  /\ failed \subseteq work
  /\ IsolateErrors \/ failed = {}
  /\ g \in Growths(work \ failed)
  /\ ctx' = Settle(ApplyPatches(work \ failed, g), failed \cup cut, {})
  /\ runs' = runs + Cardinality(work)
  /\ ranNow' = Cardinality(work)
  /\ EnterDrain(ctx')
  /\ ForgetBatch
  /\ UNCHANGED <<storeVars, policy, mode, cap, gen, outcome, cutNow, busy, spent,
                 stop, worldVars, faults>>

(* Every agent returned, but a budget ran out meanwhile: _get_patches_to_   *)
(* apply breaks before the first result, and the batch is consumed anyway.  *)
DiscardResults ==
  /\ pc = "dispatch"
  /\ work # {}
  /\ Exhausted # "no"
  /\ outcome' = Exhausted
  /\ ctx' = Settle(ctx, cut, work)
  /\ ranNow' = 0
  /\ EnterDrain(ctx')
  /\ ForgetBatch
  /\ UNCHANGED <<storeVars, policy, mode, cap, gen, runs, cutNow, busy, spent,
                 stop, worldVars, faults>>

(* Or the clock runs out while it goes through them: it breaks there, and   *)
(* what it has not reached is thrown away.                                  *)
ClockExpiresInResults ==
  /\ pc = "dispatch"
  /\ LimitsTime
  /\ Exhausted = "no"
  /\ Misfortune
  /\ \E lost \in SUBSET work \ {{}}, failed \in SUBSET work :
       /\ failed \cap lost = {}
       /\ IsolateErrors \/ failed = {}
       /\ \E g \in Growths(work \ (failed \cup lost)) :
            ctx' = Settle(ApplyPatches(work \ (failed \cup lost), g), failed \cup cut, lost)
       /\ runs' = runs + Cardinality(work \ lost)
       /\ ranNow' = Cardinality(work \ lost)
  /\ spent' = spent \cup {"time"}
  /\ outcome' = "budget_time"
  /\ EnterDrain(ctx')
  /\ ForgetBatch
  /\ UNCHANGED <<storeVars, policy, mode, cap, gen, cutNow, busy, stop, worldVars>>

(* An agent raised without isolation, was denied by the authorizer, or its  *)
(* patch was refused: nothing is applied and the batch stays queued.        *)
GenerationRaises ==
  /\ pc = "dispatch"
  /\ work # {}
  /\ Misfortune
  /\ Raised
  /\ UNCHANGED <<ctx, storeVars, policy, drainVars, spent, stop, worldVars>>

(* The commits before the patch that raises, and that patch half applied.   *)
TornCommits ==
  UNION {{[ApplyPatches(applied, g) EXCEPT !.torn = @ \cup applied] :
            g \in UNION {Growths(applied \cup {p}) : p \in work \ applied}} :
         applied \in SUBSET work}

(* A patch raises while it is applied (the application's id_factory, an     *)
(* __eq__ of its data): the commits before it stand and it stays half       *)
(* applied, in no commit, while the batch is queued still: the next turn    *)
(* runs all of its agents, those that committed once more.                  *)
CommitRaises ==
  /\ pc = "dispatch"
  /\ work # {}
  /\ Exhausted = "no"
  /\ Misfortune
  /\ ctx' \in TornCommits
  /\ Raised
  /\ UNCHANGED <<storeVars, policy, drainVars, spent, stop, worldVars>>

-----------------------------------------------------------------------------
(* _drain_actions: the outbox *)

(* The dispatcher is awaited for the next action and does its I/O.          *)
Perform(x) ==
  /\ pc = "drain"
  /\ busy = NoAction
  /\ x \in todo
  /\ busy' = x
  /\ sends' = [sends EXCEPT ![x] = @ + 1]
  /\ sent' = sent \cup {x}
  /\ UNCHANGED <<ctx, storeVars, policy, pc, turnVars, todo, spent, stop, faults>>

(* A bug: nothing is recorded of the success.                               *)
DispatcherReturnsUnmarked ==
  /\ pc = "drain"
  /\ busy # NoAction
  /\ todo' = todo \ {busy}
  /\ busy' = NoAction
  /\ UNCHANGED <<ctx, storeVars, policy, pc, turnVars, spent, stop, worldVars, faults>>

(* It returns: mark_dispatched.                                             *)
DispatcherReturns ==
  /\ pc = "drain"
  /\ busy # NoAction
  /\ ctx' = SetStatus(ctx, busy, "dispatched")
  /\ todo' = todo \ {busy}
  /\ busy' = NoAction
  /\ UNCHANGED <<storeVars, policy, pc, turnVars, spent, stop, worldVars, faults>>

(* A bug: the action is marked in a `finally`, dispatched or not.           *)
DispatcherFailsMarked(x) ==
  /\ pc = "drain"
  /\ x = busy \/ (busy = NoAction /\ x \in todo)
  /\ x # NoAction
  /\ Misfortune
  /\ ctx' = SetStatus(ctx, x, "dispatched")
  /\ todo' = {}
  /\ busy' = NoAction
  /\ ExitTurn
  /\ UNCHANGED <<storeVars, policy, outcome, spent, stop, worldVars>>

(* It raises, having done the I/O or not: mark_failed, and the exception    *)
(* leaves the turn, past the save of the generation.                        *)
DispatcherFails(x) ==
  /\ pc = "drain"
  /\ x = busy \/ (busy = NoAction /\ x \in todo)
  /\ x # NoAction
  /\ Misfortune
  /\ ctx' = SetStatus(ctx, x, "failed")
  /\ todo' = {}
  /\ busy' = NoAction
  /\ Raised
  /\ UNCHANGED <<storeVars, policy, spent, stop, worldVars>>

(* The drain is done.  flush_pending_actions and, under per_commit, the     *)
(* generation save the session now; under per_turn the loop just goes on.   *)
SaveAfterDrain ==
  /\ saving' = <<ctx>>
  /\ unsaved' = FALSE
  /\ pc' = "save"

(* A bug: a generation that ran nobody is not saved.                        *)
DrainDoneSkippingSettled ==
  /\ pc = "drain"
  /\ todo = {}
  /\ IF mode = "flush" \/ (policy = "per_commit" /\ ranNow > 0)
     THEN SaveAfterDrain
     ELSE AfterGeneration /\ UNCHANGED <<saving, unsaved>>
  /\ UNCHANGED <<ctx, disk, stray, policy, turnVars, drainVars, spent, stop,
                 worldVars, faults>>

DrainDone ==
  /\ pc = "drain"
  /\ todo = {}
  /\ IF mode = "flush" \/ policy = "per_commit"
     THEN SaveAfterDrain
     ELSE AfterGeneration /\ UNCHANGED <<saving, unsaved>>
  /\ UNCHANGED <<ctx, disk, stray, policy, turnVars, drainVars, spent, stop,
                 worldVars, faults>>

-----------------------------------------------------------------------------
(* Writes to the backend *)

(* The write the turn waits for takes effect, after those issued before it  *)
(* when the backend keeps their order.                                      *)
LandOwn ==
  /\ pc \in {"save", "endsave"}
  /\ WritesInOrder => stray = <<>>
  /\ disk' = saving[1]
  /\ saving' = <<>>
  /\ IF pc = "endsave" \/ mode = "flush" THEN pc' = "idle" ELSE AfterGeneration
  /\ UNCHANGED <<ctx, stray, unsaved, policy, turnVars, drainVars, spent, stop,
                 worldVars, faults>>

(* Or session.save raises, the write having taken effect or not (its answer *)
(* was lost): the batch is consumed in memory, the exception leaves the     *)
(* turn, and nothing is saved again before a turn finds something to do.    *)
SaveRaises ==
  /\ pc \in {"save", "endsave"}
  /\ Misfortune
  /\ \/ disk' = disk
     \/ (WritesInOrder => stray = <<>>) /\ disk' = saving[1]
  /\ saving' = <<>>
  /\ unsaved' = TRUE
  /\ Raised
  /\ UNCHANGED <<ctx, stray, policy, drainVars, spent, stop, worldVars>>

(* A write whose turn was cancelled takes effect: asyncio.shield and the    *)
(* worker thread keep it going.                                             *)
LandStray(k) ==
  /\ k \in DOMAIN stray
  /\ WritesInOrder => k = 1
  /\ disk' = stray[k]
  /\ stray' = RemoveAt(stray, k)
  /\ UNCHANGED <<ctx, saving, unsaved, policy, pc, turnVars, drainVars, spent, stop,
                 worldVars, faults>>

(* It fails, and no one is left to hear of it.                              *)
StrayRaises(k) ==
  /\ k \in DOMAIN stray
  /\ Misfortune
  /\ stray' = RemoveAt(stray, k)
  /\ unsaved' = (unsaved \/ saving = <<>>)
  /\ UNCHANGED <<ctx, disk, saving, policy, pc, turnVars, drainVars, spent, stop,
                 worldVars>>

(* _arun_impl after the loop: trace, then the one save of per_turn.         *)
EndTurn ==
  /\ pc = "ending"
  /\ IF policy = "per_turn"
     THEN saving' = <<ctx>> /\ unsaved' = FALSE /\ pc' = "endsave"
     ELSE saving' = <<>> /\ UNCHANGED unsaved /\ pc' = "idle"
  /\ UNCHANGED <<ctx, disk, stray, policy, turnVars, drainVars, spent, stop,
                 worldVars, faults>>

-----------------------------------------------------------------------------
(* Cancellation: what every await of a turn is exposed to *)

(* The awaits that suspend: agents, the dispatcher, the backend.            *)
Suspended ==
  \/ pc = "dispatch" /\ work # {}
  \/ pc = "drain" /\ todo # {}
  \/ pc \in {"save", "endsave"}

(* A bug: the save is not shielded, the cancellation drops it.              *)
InterruptUnshielded ==
  /\ stray' = stray
  /\ saving' = <<>>
  /\ todo' = {}
  /\ busy' = NoAction
  /\ sends' = [x \in Actions |-> IF x = busy THEN 0 ELSE sends[x]]

(* The write of a generation is shielded and goes on without its turn; any  *)
(* other write may or may not survive its await.  An action whose           *)
(* dispatcher was interrupted after the I/O is performed again.             *)
Interrupt ==
  /\ \/ stray' = stray \o saving
     \/ (pc = "endsave" \/ mode = "flush") /\ stray' = stray
  /\ saving' = <<>>
  /\ todo' = {}
  /\ busy' = NoAction
  /\ sends' = [x \in Actions |-> IF x = busy THEN 0 ELSE sends[x]]

(* The hard deadline of arun: asyncio.timeout cancels the generation, the   *)
(* turn goes on to its end.                                                 *)
Deadline ==
  /\ mode = "arun"
  /\ "time" \in spent
  /\ Suspended
  /\ pc # "endsave"
  /\ Interrupt
  /\ LeaveLoop("budget_time")
  /\ UNCHANGED <<ctx, disk, unsaved, policy, spent, stop, sent, faults>>

(* cancel_run, or ashutdown at its timeout.                                 *)
Cancel ==
  /\ Suspended
  /\ Misfortune
  /\ Interrupt
  /\ ExitTurn
  /\ UNCHANGED <<ctx, disk, unsaved, policy, outcome, spent, stop, sent>>

(* The wall clock passes the deadline of the active budget.                 *)
ClockExpires ==
  /\ LimitsTime
  /\ Suspended
  /\ mode # "flush" /\ pc # "endsave"
  /\ "time" \notin spent
  /\ Misfortune
  /\ spent' = spent \cup {"time"}
  /\ UNCHANGED <<ctx, storeVars, policy, pc, turnVars, drainVars, stop, worldVars>>

(* The agents' LLM calls use up max_tokens or max_cost.                     *)
TokensRunOut ==
  /\ LimitsTokens
  /\ pc = "dispatch"
  /\ work # {}
  /\ spent' = spent \cup {"tokens"}
  /\ UNCHANGED <<ctx, storeVars, policy, pc, turnVars, drainVars, stop, worldVars,
                 faults>>

-----------------------------------------------------------------------------
(* The application, at any await *)

AtAwait == pc = "idle" \/ Suspended

(* context.create or context.update from outside the runtime.               *)
Submit(i) ==
  /\ AtAwait
  /\ i \in External
  /\ ctx.version[i] < MaxVersion
  /\ ctx' = Bump(ctx, i)
  /\ UNCHANGED <<storeVars, policy, pc, turnVars, drainVars, spent, stop,
                 worldVars, faults>>

(* context.retry_action re-arms the action, whatever it was; a pending one  *)
(* is equal data, so nothing happens.  The application asked for the second *)
(* performance.                                                             *)
RetryAction(x) ==
  /\ AtAwait
  /\ ctx.status[x] \in {"failed", "dispatched"}
  /\ ctx.version[x] <= MaxVersion
  /\ ctx' = SetStatus(ctx, x, "pending")
  /\ sends' = [sends EXCEPT ![x] = 0]
  /\ UNCHANGED <<storeVars, policy, pc, turnVars, drainVars, spent, stop, sent,
                 faults>>

(* context.drain_events, by the application between turns or by a produce.  *)
DrainEvents ==
  /\ DrainsEvents
  /\ pc = "idle" \/ (pc = "dispatch" /\ work # {})
  /\ ctx.queue # {}
  /\ Misfortune
  /\ ctx' = [ctx EXCEPT !.queue = {}, !.shed = @ \cup Matches(ctx.queue)]
  /\ UNCHANGED <<storeVars, policy, pc, turnVars, drainVars, spent, stop,
                 worldVars>>

(* request_stop; nothing ever clears it, the Runtime is done for.           *)
RequestStop ==
  /\ AtAwait
  /\ ~stop
  /\ Misfortune
  /\ stop' = TRUE
  /\ UNCHANGED <<ctx, storeVars, policy, pc, turnVars, drainVars, spent,
                 worldVars>>

(* The application makes a new Runtime over the same Context.               *)
NewRuntime ==
  /\ pc = "idle"
  /\ stop
  /\ stop' = FALSE
  /\ UNCHANGED <<ctx, storeVars, policy, pc, turnVars, drainVars, spent,
                 worldVars, faults>>

(* The process dies and the session is opened again from the backend.       *)
(* Performing an action once more is excused (at-least-once) unless the     *)
(* backend knew it was dispatched.                                          *)
Crash ==
  /\ Misfortune
  /\ ctx' = disk
  /\ saving' = <<>>
  /\ stray' = <<>>
  /\ unsaved' = FALSE
  /\ pc' = "idle"
  /\ todo' = {}
  /\ busy' = NoAction
  /\ stop' = FALSE
  /\ sends' = [x \in Actions |-> IF disk.status[x] = "dispatched"
                                 THEN sends[x] ELSE 0]
  /\ ForgetBatch
  /\ UNCHANGED <<disk, policy, mode, cap, gen, runs, ranNow, outcome, cutNow, spent,
                 sent>>

-----------------------------------------------------------------------------
Init ==
  /\ ctx = EmptyContext
  /\ disk = EmptyContext
  /\ saving = <<>>
  /\ stray = <<>>
  /\ unsaved = FALSE
  /\ policy \in Policies
  /\ pc = "idle"
  /\ mode = "arun"
  /\ cap = 0
  /\ gen = 0
  /\ runs = 0
  /\ ranNow = 0
  /\ batch = {}
  /\ work = {}
  /\ cut = {}
  /\ todo = {}
  /\ busy = NoAction
  /\ spent = {}
  /\ stop = FALSE
  /\ outcome = "completed"
  /\ cutNow = FALSE
  /\ sends = [x \in Actions |-> 0]
  /\ sent = {}
  /\ faults = 0

Boundary == IterationsExhausted \/ StopAtBoundary \/ BudgetStopsLoop
              \/ NothingToDo \/ BudgetStopsOnce

Generation ==
  \/ \E w \in SUBSET Matches(ctx.queue) : StartGeneration(w)
  \/ \E failed \in SUBSET work :
       \E g \in Growths(work \ failed) : CommitGeneration(failed, g)
  \/ DiscardResults

Drain == (\E x \in Actions : Perform(x)) \/ DispatcherReturns \/ DrainDone

(* What the scheduling of the event loop and the I/O it waits for bring     *)
(* about by themselves.                                                     *)
System == Boundary \/ Generation \/ Drain \/ LandOwn \/ EndTurn \/ Deadline

Failure ==
  \/ \E w \in SUBSET Matches(ctx.queue) : ClockExpiresWhileMatching(w)
  \/ ClockExpiresInResults
  \/ GenerationRaises
  \/ CommitRaises
  \/ \E x \in Actions : DispatcherFails(x)
  \/ SaveRaises
  \/ \E k \in DOMAIN stray : StrayRaises(k)
  \/ Cancel
  \/ ClockExpires
  \/ TokensRunOut
  \/ Crash

Application ==
  \/ \E m \in {"arun", "once"}, c \in RunCaps : BeginTurn(m, c)
  \/ FlushPendingActions
  \/ \E i \in Items : Submit(i)
  \/ \E x \in Actions : RetryAction(x)
  \/ DrainEvents
  \/ RequestStop
  \/ NewRuntime

Next ==
  \/ System
  \/ \E k \in DOMAIN stray : LandStray(k)
  \/ Failure
  \/ Application

Spec == Init /\ [][Next]_vars

(* The event loop runs what can run, agents, dispatchers and backends do    *)
(* return, the application keeps starting turns, the quota's window moves   *)
(* on so that it lets turns in again, and a Runtime that was stopped is     *)
(* replaced.                                                                *)
FairSpec ==
  /\ Spec
  /\ WF_vars(System)
  /\ WF_vars(\E k \in DOMAIN stray : LandStray(k))
  /\ SF_vars(\E m \in {"arun", "once"}, c \in RunCaps : BeginTurn(m, c) /\ spent' = {})
  /\ SF_vars(NewRuntime)

-----------------------------------------------------------------------------
(* Properties *)

StoreTyped ==
  /\ ctx \in Contexts
  /\ disk \in Contexts
  /\ saving \in Seq(Contexts) /\ Len(saving) <= 1
  /\ stray \in Seq(Contexts)

TurnTyped ==
  /\ policy \in Policies
  /\ pc \in Pcs
  /\ mode \in Modes
  /\ cap \in Nat /\ gen \in Nat /\ runs \in Nat /\ ranNow \in Nat /\ faults \in Nat
  /\ batch \subseteq Events
  /\ work \subseteq Pairs
  /\ cut \subseteq Pairs
  /\ outcome \in Outcomes
  /\ cutNow \in BOOLEAN /\ stop \in BOOLEAN /\ unsaved \in BOOLEAN
  /\ todo \subseteq Actions
  /\ spent \subseteq {"time", "quota", "tokens"}
  /\ sends \in [Actions -> Nat]
  /\ sent \subseteq Actions

(* Which locals are alive where the turn is.                                *)
PhaseOK ==
  /\ (saving # <<>>) = (pc \in {"save", "endsave"})
  /\ pc # "drain" => todo = {}
  /\ busy \in todo \cup {NoAction}
  /\ pc # "dispatch" => batchVars = <<{}, {}, {}>>

TypeOK == StoreTyped /\ TurnTyped /\ PhaseOK

(* Every Context there is: the live one, the one on disk, those in flight.  *)
Snapshots == {ctx, disk} \cup Range(saving) \cup Range(stray)

(* No agent is silently forgotten: an event is either still queued or every *)
(* agent it wakes ran for it, was knowingly given up, or lost its result to *)
(* an exhausted budget.  It holds of whatever a crash would bring back: the *)
(* queue is peeked at and consumed by identity after the commits, so events *)
(* that arrive, or are drained, while the agents run are not taken along.   *)
NoTriggerLostIn(c) ==
  \A e \in Emitted(c) \ c.queue :
    \A a \in Agents : e[1] \in Consumes[a] => <<e, a>> \in c.ran \cup c.shed \cup c.wasted

NoTriggerLost == \A c \in Snapshots : NoTriggerLostIn(c)

(* No agent is run twice for an event from one history: once its patch is   *)
(* committed the event is out of the queue, in memory and in every snapshot *)
(* the backend is given (the save comes after the consume).  The exception  *)
(* is told by `torn`: a generation that raised between two of its commits   *)
(* keeps the first of them and its batch, until a turn settles that batch.  *)
NoReplayIn(c) == \A p \in c.ran \ c.torn : p[1] \notin c.queue

NoReplay == \A c \in Snapshots : NoReplayIn(c)

(* The outbox performs an action once: neither the next generation, another *)
(* turn, a flush nor a reopened session performs again what was marked      *)
(* dispatched; the exceptions are retry_action and the at-least-once window *)
(* (a dispatcher interrupted, or a crash the backend heard nothing before). *)
OncePerStableId == \A x \in Actions : sends[x] <= 1

(* `dispatched` is never a promise: an action that is recorded so, in any   *)
(* snapshot, has been performed.                                            *)
DispatchedWasPerformed ==
  \A c \in Snapshots, x \in Actions : c.status[x] = "dispatched" => x \in sent

(* arun that reports COMPLETED reached quiescence: no event is queued, no   *)
(* action waits in the outbox and no generation was cut by a budget.        *)
CompletedMeansDone ==
  [][pc # "ending" /\ pc' = "ending" /\ outcome' = "completed"
       => ~HasPendingWork(ctx') /\ ~cutNow']_vars

(* max_runs bounds the agents run by one turn, however they fall on its     *)
(* generations.                                                             *)
RunsWithinCap == pc \in {"generation", "dispatch", "drain"} /\ mode # "flush" => runs <= cap

(* Under per_commit with a backend that keeps the order of its writes, a    *)
(* crash at a generation boundary loses no generation: what the turn has    *)
(* consumed (a generation that ran nobody included) is consumed on disk.    *)
LastGenerationDurable ==
  policy = "per_commit" /\ pc = "generation" /\ gen > 0
    => Emitted(ctx) \ ctx.queue \subseteq Emitted(disk) \ disk.queue

(* Every event is consumed in the end: a failed, denied, cancelled or       *)
(* crashed generation is retried by the next turn, and no counter, flag or  *)
(* budget left over from an earlier turn keeps the queue from moving.       *)
TriggersSettle ==
  \A i \in Items, v \in 0 .. MaxVersion + 2 :
    <<i, v>> \in ctx.queue ~> <<i, v>> \notin ctx.queue

(* No committed action is stranded in the outbox: with no event left, it is *)
(* itself what the next turn has to do.                                     *)
OutboxDrains ==
  \A x \in Actions : ctx.status[x] = "pending" ~> ctx.status[x] # "pending"

(* Under per_commit the session catches up with every committed run, also   *)
(* when the turn that committed it was cancelled before or while it saved,  *)
(* raised in its dispatcher, or between two of its commits.  The exception  *)
(* is a save that raised: the run is committed and its event consumed in    *)
(* memory, and once nothing is queued no later turn saves; as soon as there *)
(* is something to do again, the promise holds again.                       *)
RanBecomesDurable ==
  \A i \in Items, v \in 0 .. MaxVersion + 2, a \in Agents :
    <<<<i, v>>, a>> \in ctx.ran
      ~> \/ <<<<i, v>>, a>> \in disk.ran \/ <<<<i, v>>, a>> \notin ctx.ran
         \/ unsaved /\ ~HasPendingWork(ctx)
=============================================================================
