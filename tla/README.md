# Verification of reactifact

TLA+ models of reactifact, the TLC runs that check them on small instances and
the proofs TLAPS checks for every instance. `PROJECT.json` maps every definition
to the lines it stands for and lists the runs, the mutants that show each
property can fail, the hazards, the findings and the theorems.

## 1. Inventory

reactifact runs agents over a shared `Context` of artifacts. Creating or updating
an artifact queues an event; a turn (`Runtime.arun`) repeats *generations*: peek at
the queue, match events to agents, run the agents concurrently, apply their
patches as commits, consume the batch, perform the outbox, save the session.

| part | state | operations | what is hard | what makes it correct |
|---|---|---|---|---|
| Turn loop `runtime.py` | turn counters, `outcome`, `_stop_requested`, the batch and work list of a generation | `arun`, `arun_once`, `flush_pending_actions`, `request_stop`, `ashutdown`, `cancel_run`, `astream` | every `await` (agents, dispatcher, save) lets the application, a deadline, a cancellation or a crash in | no trigger lost or replayed, outbox once per stable id, budgets hold, outcome honest, per_commit durable |
| Context `context.py` | artifacts, event queue, relations, staleness and type indices, persisted markers | `create`, `update`, `delete`, `link`, `pending_events`/`consume_events`/`drain_events`, `mark_dispatched`/`mark_failed`/`retry_action`, `checkout`, `compact` | indices kept incrementally in one place and rebuilt in another; the queue changes under a running generation | indices equal their definition, consume by identity |
| Commit log `commit_log.py` | commits, version, head, baseline, producer index | `append`, `truncate`, `compact`, `replay_state` | positions relative to the baseline | compaction and serialisation keep what replay yields |
| Persistence `session.py`, `_persistence.py`, `checkpoints.py` | snapshot, append entries, persisted marker per key | `save_session`, `load_session`, `save_append`, `load_append` | multi-step writes, overlapping saves, crash between steps, rollback | a reload yields the last saved state |
| Branching `branching.py` | fork base | `branch`, `merge`, `merge_from`, `BranchStore` | concurrent divergence, outbox actions known to two branches | both sides' changes kept or a conflict raised, the target makes no difference (but to the record of a failed dispatch), `dispatched` survives every merge |
| Dispatch and streaming `runtime.py`, `streaming.py` | tier and global semaphores, subscriber queues | `_dispatch`, `astream`, `announce` | lock order, lost wake-ups, early close | every worker runs, every announcement delivered, close stops the turn |
| Work list `agents.py`, `triggers.py`, `consume.py`, `scheduler.py` | none (pure over the Context) | matching, joins, debounce, priority, scheduler | debounce and top-k drop work whose event is consumed | nothing dropped that must run; HITL candidates first |
| Budget and quota `budget.py`, `quota.py` | per-turn tracker, per-key window | `record`, `exhausted`, `exceeded` | check and record are apart; windows expire | overshoot bounded |
| HITL and outbox records `interrupt.py`, `effects.py` | `PendingQuestion`, `PendingAction` | `ask`, `resume`, `act` | stable ids under retry | one question, one action per id |
| Chat `chat.py` | per-session locks with reference counts, a runner task per request | `stream`, `invoke`, `history` | disconnect at any await, lock dropped while contended, saves left behind | turns of one session exclude each other, no saved turn is lost |
| Reactive tool loop `tool_use.py`, `llm_agent.py` | none in memory: `Observation`, `PendingQuestion` and `ToolAnswer` artifacts per goal | decide, call a tool, ask, request approval, resume, answer | every step is a new run woken by an event; agents that share a goal read each other's artifacts; answers that overtake events | one continuation per conversation, limits hold, an approved call runs once |
| A2A server `a2a/server.py` | bounded task table, a record per task | send, stream, get, cancel, evict | requests overlapping on one task, cancel racing the run, dropped streams, eviction | a task at rest tells the truth about its Context, the longest silent leaves |
| Replay, audit, verify | none | reconstruct, compare hashes | | replay equals the committed state |
| Tracing `tracing/tracer.py`, `store.py`, `postgres.py` | spans of the turn, calls waiting for their span; tables of runs, spans, tags | `begin_turn`, `record_span`, `end_turn`; `export`, `prune`, deletions, tags | agents side by side share one buffer; several threads on one SQLite connection; several transactions on one database | a call in one span, a trace whole or marked, stored whole and until due |
| Evaluation, providers, sources, blocking tool loops, recipes, testing, CLI, web | stores and clients of their own | | mostly I/O and formatting | left aside, see section 7 |

## 2. Modules

| module | what it is |
|---|---|
| `Runtime` | the turn loop over one Context and one session |
| `MC_Runtime` | its instances for TLC, and the view that drops dead counters |
| `Runtime_proofs` | its inductive invariant: types, no trigger lost, none replayed; on top of it the outbox, the run cap, the outcome, durability |
| `WorkList` | which agents a generation runs, for which events, in which order, as operators |
| `Generation` | one streamed generation: work list, scheduler, workers and semaphores, announcements, `astream` |
| `MC_Generation` | its instance for TLC |
| `Generation_proofs` | the inductive invariants of the work list, the semaphores and the stream, and the three properties |
| `CommitLog` | the commit chain as operators: replay, apply, truncate, compact, checkout |
| `AppendStore` | a session on an `AppendBackend`, one action per backend call; uses `CommitLog` |
| `MC_AppendStore` | its instances for TLC |
| `AppendStore_proofs` | the inductive invariants behind its three properties: a bounded log, a reload that is the last save, a rewrite that is repeated |
| `ContextStore` | a Context as a value and its operations: commits with reads, producer index, staleness, rollback, compaction, copies; uses `CommitLog` |
| `Branches` | several Contexts run, rolled back, compacted, reloaded, forked and merged; uses `ContextStore` |
| `VersionedState` | the abstract specification of a Context's history |
| `MC_Branches` | the instance of `Branches` for TLC |
| `Branches_proofs` | two inductive invariants: one behind the outbox under merges, one behind the agreement of live data, producer index, stale set and history with the chain; that `Branches` implements `VersionedState` |
| `Chat` | concurrent requests of `ChatAssistant.stream`: locks, loads, runner tasks, saves, clients that leave |
| `SessionLock` | the abstract specification of the session lock |
| `MC_Chat` | the instance of `Chat` for TLC |
| `Chat_proofs` | the inductive invariant of `Chat`, that it implements `SessionLock`, and that no saved turn is lost |
| `A2ATasks` | the task table of the A2A server and the requests on it |
| `MC_A2ATasks` | its instance for TLC, with the view that drops unreachable records |
| `A2ATasks_proofs` | its inductive invariant and the three properties |
| `ToolLoop` | the reactive tool loop: agents, their questions and the human, over the generations of a Runtime |
| `MC_ToolLoop` | its instances for TLC |
| `ToolLoop_proofs` | the inductive invariants behind `OneRunPerApproval`, `OneThread` and the limits |
| `TraceTables` | the tables of a trace store and the SQL statements, as operators |
| `TraceStore` | the SQLite store: statements of several workers on one connection |
| `PostgresStore` | the Postgres store: concurrent transactions, their waits and failures |
| `TraceStores` | the contract of the two, and the specification that is either of them |
| `MC_TraceStores` | its instance for TLC |
| `TurnTrace` | what a turn leaves in its trace: calls, spans, caps, sinks |
| `MC_TurnTrace` | its instance for TLC |
| `TraceInvariants` | the inductive invariants behind its two properties, and behind `NothingComesBack`, `StoredWhole` and `Retained` of `TraceStores` |
| `Tracing_proofs` | the proofs that they are invariants, and that the properties follow |

How they meet: `Runtime` composes a Context, its outbox and its stored snapshots, with a
save as one blob and a generation's agents as one wait. `AppendStore` opens up the save,
`Generation` (over `WorkList`) the wait, `ContextStore` the Context; `Branches` composes
several Contexts. `Chat` and `A2ATasks` are the two servers above a turn; to them a turn
is a task that works, asks, saves, and ends or fails. `ToolLoop` is one kind of agent above
the generations: to it a generation is a batch, runs, and one commit.
`TurnTrace` watches a turn: it has the points where `Runtime` calls the tracer and leaves out
what the patches do; the trace it delivers is what `TraceStore` and `PostgresStore` store.

### `Runtime`

One action per stretch of code between two awaits, so that whatever the code does
without suspending is one step, and everything an `await` lets in can happen
before the next.

* `BeginTurn`, `FlushPendingActions` are the entry points (`_enter_turn` refuses a
  second turn, hence one `pc`). `IterationsExhausted`, `StopAtBoundary`,
  `BudgetStopsLoop`, `NothingToDo`, `BudgetStopsOnce` are the exits of
  `_run_generations` and the early returns of `_arun_once_impl`, in the code's order.
* `StartGeneration` peeks, matches and slices by what is left of `max_runs`;
  `ClockExpiresWhileMatching` is the `break` of the matching loop. From there the
  generation waits for its agents (`pc = "dispatch"`).
* `CommitGeneration` applies the patches of the agents that did not fail and consumes
  the batch; `DiscardResults` and `ClockExpiresInResults` are the `break` of
  `_get_patches_to_apply`, before the first result or among them;
  `GenerationRaises` is an agent's exception, a denied operation or a guardrail; nothing
  is applied. `CommitRaises` is an exception in `_apply_patch` (the application's
  `id_factory`, an `__eq__` of its data): the commits before it stand, its own patch is half
  applied, and the batch stays queued (`TornCommits`).
* `Perform`, `DispatcherReturns`, `DispatcherFails`, `DrainDone` are the outbox drain:
  the I/O and its record are two steps, because a cancellation or a crash fits between.
* `LandOwn`, `LandStray` are writes taking effect: the one a turn waits for and those
  whose turn was cancelled (`asyncio.shield`, worker threads). `SaveRaises`, `StrayRaises`
  are writes that fail, the first before or after it took effect; `unsaved` remembers that
  no save was begun since.
* `Deadline`, `Cancel`, `Crash`, `ClockExpires`, `TokensRunOut` are the misfortunes;
  `Submit`, `RetryAction`, `DrainEvents`, `RequestStop`, `NewRuntime` the application.

The state of the Context is a record (`Contexts`): a version per artifact, the outbox
status of each `PendingAction`, the queue, and three history sets of
(event, agent) pairs: `ran` (the patch was committed), `shed` (knowingly given up: cut
by a budget, failed in isolation, drained by the application) and `wasted` (the agent
finished and its result was dropped); `torn` are the members of `ran` whose generation
raised between its commits and whose batch has not been settled since. The histories travel with the Context, so what is
on disk remembers the history it reflects and the properties can be stated of every
snapshot alike.

Abstractions, each on the safe side of the properties:

* An event is (artifact, version): the identity `consume_events` compares. The order of
  the queue, priorities, debounce and the scheduler decide in which order, and with
  `max_runs` which, of the work runs; `StartGeneration` takes any part of the right size.
  Without a scheduler and debounce only; both can drop work of their own (`WorkList`).
* Matching is by artifact; conditions and joins are a narrower `Matches`.
* A snapshot is taken when the write is called (`to_dict` runs before the await) and
  takes effect in one step, as `INSERT OR REPLACE` and the file rename do.
* The wall clock is consulted several times per phase in the code; in the model it may
  expire at each phase (`ClockExpires`, `ClockExpiresWhileMatching`).
* A patch that re-proposes an action finds it (`effects.act`), and a pending action is
  re-armed without effect; `DrainEvents` happens between turns or inside a produce.
* One Runtime per Context, as `_enter_turn` enforces for one Runtime.

`Runtime` saves to a `KVBackend`, one blob per save; what an `AppendBackend` makes of the
same call is the subject of `AppendStore`.

### `CommitLog` and `AppendStore`

`CommitLog` has the chain (`floor`, `baseline`, retained `commits`) and keeps the code's two
ways of reading it apart: `ReplayCommit` (`replay_state`, where an Update always counts)
and `ApplyCommit` (`apply_commit`, where an Update of an absent artifact is skipped). They
disagree exactly where the code does. A commit is one operation; items do not influence
each other in any of these functions.

`AppendStore` has the live Context, the persisted marker, the two tables (`snap`,
`entries`) and a set of jobs, the saves and deletions under way.

* `StartSave`, `LandGet`, `LandCount`, `LandSet`, `LandClear`, `LandAppend` are
  `save_append` cut at its awaits. What the code captures before an await is in the job
  (`from`, `taken`); what it reads after it is read from `ctx` when the call lands
  (`Mark` is the version *then*). `StartDelete`, `LandDrop`, `LandDropEntries` are `delete`.
* `line` is the backend's `asyncio.Lock`: calls take effect first come, first served.
* `Abandon` is a cancelled turn whose `asyncio.shield`ed save goes on; `Stop` and
  `StopTooLate` are an unshielded call that is cancelled or fails before or after its
  statement took effect (`asyncio.to_thread` cannot be interrupted); the second disjunct
  of `LandAppend` is `_run` repeating an INSERT; `Crash` reopens the session by
  `load_append`.
* `Touch` (create, update, delete outside the commits) may happen during any save;
  `Commit`, `ConsumeEvents`, `Checkout` and `Compact` are the turn's or the
  application's own next step and so wait for a save it awaits, not for an abandoned one.

`saved` is the history the properties compare with: the Context the last completed write
stands for. `gap` says that a snapshot was replaced and the entries beside it not yet
cleared. The code does not cope with everything, and `Hurts` names what it does not cope
with; each action records the ones it brings about (`hurt`):

| hurt | what happens |
|---|---|
| `torn` | a crash, or a stopped save overlapped by another, between `set` and `clear_entries`: old entries on a new snapshot |
| `orphaned` | a deletion stops halfway, or an abandoned save appends to a deleted session: entries without a snapshot |
| `late` | history is committed, rolled back or compacted while an abandoned save is on its way, which then marks it as saved |
| `hidden` | a rollback goes unnoticed because commits bring the version back to the marker (section 4), or because what it undid was stored by a save cancelled before it could mark |
| `outside` | a commit updates an artifact no commit created (section 4) |
| `undeleted` | a committed artifact deleted outside the commits is back after a reload |
| `reverted` | an artifact changed outside the commits gets back its committed value: the entry's tree leaves it out and the snapshot's stale value stays |
| `repeated` | commits are stored twice (a retried INSERT, or two saves from one marker): same data, wrong version |

A rewrite that stopped between `set` and `clear_entries` is made up for by the next save,
which finds it due again (`StoppedRewriteIsRepeated`), but the property says so for two faults
at most. With more, abandoned saves can overtake the stopped one. With six jobs,
`compact_every` 3 and six faults TLC finds this schedule: a save counts a full log and means to
rewrite; abandoned saves clear the log in its stead, others that counted earlier append to it anew
and set the marker; then the rewrite stores its snapshot and stops. The log is short, the marker is
set, and nothing tells the next save that these entries are older than the snapshot.

The properties say that the list above is complete: without a hurt, and for the data of a session
even with `repeated`, a reload yields exactly the last completed write. Two of the list
(`hidden`, `outside`) contradict what the documentation promises, see section 4.

A commit here is a patch's, or a merge's that updates and deletes. What a merge adopts without
the target having it is logged as a Create that names no artifact. Such commits are left out: once one
is appended there is no reload to compare, because `load_append` raises (section 4).

Abstractions: an event of the queue is the item that changed (emission in `update` and
`create` is what matters to a save, not its multiplicity); relations follow the artifacts'
rules but for the tree's own merge and are left out with the tree's order list and the
artifacts' own version histories; one Context and one process write a session;
`compact_every` is a number (`None` never compacts and bounds nothing).

### `WorkList` and `Generation`

`WorkList` has the collection loop (`Asking` for what matches, `AsMet` for the order in which
the loops meet it: events in order, for each its agents by priority), the debounced runs
(`Debounced`: one per agent, at the place of its first
debounced event, for its last), `Collect`, which sorts only if something is debounced, the
scheduler (`Schedules`: answered questions first; of the rest any part but the empty one,
in any order, cut at `rank_limit`, which may be 0) and `Slice`, `work[:remaining]`. `UpTo` is
the part of a batch the loops have met when the deadline passes and they break. A sort is
`Arranged`: the element at place n is the one with n - 1 before it.

`Generation` runs one of them. A worker is its place in the work list.

* `CollectWork`, `Dispatch`, `Gather`, `RunnerDone` are `_arun_once_impl` between its
  awaits. A collection the deadline stopped (`late`) is dispatched all the same;
  `_get_patches_to_apply` then breaks before its first result (`MayCount`). `Start`, `Resume`, `Finish` are `_worker`: `GoOn` takes the semaphores a worker
  `Needs`, tier before global, up to the first that is locked.
* The semaphores are `asyncio.Semaphore` as it is: a release hands the slot to the first
  sleeper, which stays in `_waiters` until it resumes, may then wake the next, and nobody
  gets past a waiter. Agents of the same `concurrency_limit` share one semaphore, as
  `tier_sems` is keyed by the number.
* `Sequential` (no cap, no limits) is the plain loop: the first exception ends it unless
  `isolate_errors`; `gather(return_exceptions=True)` waits for all workers in any case.
* `CancelRun` (from outside) and `Close` (the client) cancel the turn's task: what waits
  ends at once. A slot it was woken for goes back; one it had taken does not, because the
  acquires stand before the `try` (nobody misses it: the semaphores end with the generation).
  Running agents unwind, or ignore it.
* `Announce` publishes to the bounded queue, which drops its oldest; `Pull`, `Get`,
  `Wake`, `Join`, `Closed` are the loop of `astream`, with `queue.get()` and the run's
  end racing in `asyncio.wait`.

### `ContextStore` and `Branches`

A Context is a record of live artifacts (value and version), its `CommitLog`, the two
halves of the producer index (`reading`, `deps`), the stale set and the fork base. Index
and stale set are maintained by `Patched` and `WithOps` exactly where `context.py` does it
(`IndexCommit`, one `log_commit` or `update` at a time) and rebuilt where it does that
(`Reindexed`, `Recomputed`: after checkout, compaction, load, copy and merge). A read
carries, as history, the data it saw; a commit remembers which reads were behind when it
was logged.

`Branches` has an action per operation: `StartAgent` and `Commit` (an agent reads now and
its patch is committed later, after whatever came between), `Touch` (`create`, `update`,
`delete` by the application), `Dispatch` (`mark_dispatched`), `DispatchFails` (`mark_failed`),
`Retry` (`retry_action`), `Checkout`, `Compact`, `Reload`, `Fork`, `Merge` (three-way, all or
nothing: `Verdict` decides per item) and `MergeFrom` (by version). An outbox action is an
artifact holding `Pending`, `Dispatched` or `Failed`; `Sig` is `_data_sig`, which ignores the
difference. `loose`, `reborn`, `sent`,
`ancestor` and `merged` are histories that no action reads; they name what the code does not
promise:

* live data that no commit accounts for (`loose`) is not what replay yields. A merge logs a
  `Create` without an `artifact_id` for what the target did not have; replay ignores it, so
  an adopted artifact is loose too;
* a version counter that started over (`reborn`: after a deletion, or for what a checkout
  rebuilt) can hide later changes from the staleness test, which compares versions;
* a read already behind when its commit is logged counts as fresh until a reload recomputes
  the stale set, and the deletion of a source takes the derived artifact out of it;
* a checkout past a later write of a performed action brings the action back as pending,
  and so can `merge_from`, which prefers the higher version whatever it holds; both forget
  `sent`;
* `merge_contexts` lets `dispatched` win in either direction and nothing else: of an intent that
  one side failed to send and the other still has pending, the target keeps its own record. So
  merging a into b leaves it to b's outbox and merging b into a does not, or the reverse, and a
  failure that only the other side recorded is not taken over although `docs/en/branching.md`
  adopts what only the other moved. `MergeIsSymmetric` states exactly this exception;
* the base of a merge is the other's `_base`, even if the two did not part there, and a merge
  does not move it: a second merge, or one between cousins, can take over a value the target
  had changed. `MergeKeepsBothSides` is therefore stated of the first merge after a fork.
  `branching.py`'s own description does not make that restriction.

Runs begin with a Context the application seeded, or one in which an agent has derived one
artifact from another, so that few steps reach the interesting states.

### `Chat` and `SessionLock`

One request is `Arrive`, `Acquire`, `LandLoad`, the runner (`Answer`, `LandSave`,
`RunnerFails`, `RunnerCancelled`), `SaveTurn`, `LandLast`. Steps under `_locks_guard` hold
no await and are one step each. `lock` and `refs` are the two dictionaries; a lock object
is named after the request that made it and has a holder and a queue, so that two
objects of one session could exist (whether they do is the question). A call to the store is an element
of `calls`; `inorder` chooses between a store that serves them in order (one connection)
and one that serves them in any (`FileKVBackend`, worker threads). A Context is how far
each turn of the session has come in it, which is what a lost update is about.

`LeaveQueue`, `LeaveLoading`, `LeaveRunning`, `LeaveSaving` are the cancellation (or
closing) of the request at each of its awaits. What they leave behind is in the model:
the shielded save that goes on (`LandAbandoned`, `LandSave` of a dead runner), the runner
that outlives the five seconds it is given and saves after the next turn has begun
(`outlived`), and the count a cancelled waiter never returns (`leaked`:
`_locked_session` increments before `async with lock` and decrements after it), so that a
lock object stays in the table for good although its docstring says it is dropped. What is
not modelled: the same cancellation while loading skips the closing of per-turn resources,
as `_open` catches `Exception` only; `history()` reads without the lock.

`SessionLock` is what callers rely on: per session one line, first come first served, one
inside at a time, and a free turn does not stay free while somebody waits. `KeepsPromise`
is the refinement, with `Inside` and `Line` computed from lock objects, table and states.

### `A2ATasks`

A record is named after the request that made it; `id` is the task id under which a client
finds it. `RecordFor` is `_record_for` with `_evict`: the table is an `OrderedDict`, a
record that is spoken to moves to its end, and a full table drops the first finished
record, else the first. `Send` is `handle_send` up to the run's first await; `OpenStream`,
`Begin`, `Drop`, `DropUnstarted`, `GiveUp` are `stream` and its client; `Seed`
(answer the pending question or start anew), `Ask`, `End`, `Fail` are `_execute` around a
run; `Cancel` is `tasks/cancel`.

Nothing keeps two requests off one task, and the model lets them overlap. It shows what
the code then does, which the property has to allow for:

* `tasks/cancel` changes the record only; a run still under way ends later and overwrites
  `canceled`. After a cancellation the next message reports the old open question again;
* a stream dropped at its first frame, or a run that raises, leaves the record `working`
  for ever (`failed` is never assigned); `cut` remembers these records;
* a second message during a run answers the question the first is answering;
* `handle_send` does not set `working`, so a task that was completed counts as finished
  while it runs again and may be evicted;
* an evicted conversation starts over under its old id, although `docs/en/a2a.md` says that
  the next message with the same `taskId` resumes it.

### `ToolLoop`

`HITLLMAgent` wraps `ToolUseHITL`, which keeps nothing in memory: each step of a
conversation is a run woken by an event (the goal, an `Observation` or a
`PendingQuestion` with the agent's name), reads the goal's artifacts and leaves one new
artifact, whose event wakes the next step.

* `Decide` is a step: at `max_steps` the answer is forced; otherwise the model's choice, which
  is any of an answer, a tool call (`Call`), a clarifying question (`Clarify`) or a call of a
  destructive tool (`Approve`), each with its early returns and limits in the code's order.
* `Resume` is the run for a question's event: nothing while it is open, else the note of the
  human's text, or the execution or refusal of the call. `Effects` is `_resolve`.
* `InVain` is a run that comes to nothing while its event is consumed: it is cut from the work by
  `max_runs` or the clock, it raises and `isolate_errors` is set, or a budget is spent when the
  runtime looks at its result. Calls it executed stay executed. With the turn's tokens used up
  `Call` is always of this kind: the tracker that makes `ToolUseHITL` write its note is the one
  that makes the runtime throw the note away. `dropped` remembers whose step it was.
* `Begin`, `Run`, `Commit` are a generation: the batch is peeked, the runs read the goal's
  artifacts as of the last commit and the questions as the human has answered them by now,
  the effects are committed together and the batch is consumed. `Abort` is any end of a
  generation before its commits (an exception that is not isolated, a cancellation, a crash);
  the events stay, the effects are gone, what was executed
  was executed (`undone` counts these).
* `Submit` and `Reply` are the application and the human. `AnswersAtRest` says when the
  human answers: only between turns with nothing queued, as in the examples and tests, or
  at any time. A question is answered once (`context.resume` does not check that).

Abstractions: texts of tool results, prompts and answers; which of the reasons it is that a run
comes to nothing for (`Runtime` tells them apart); an exception between two commits of a
generation (`CommitRaises` of `Runtime`); a failing or unknown tool gives an Observation like any other; the
three uninformative decisions (none, no text, no tool) are answers, as in the code.

What the model makes visible, and the properties allow for: agents that consume the same goal
look for earlier questions among all agents' artifacts, so an agent about to ask what another
has asked already returns without a trace, and the reply wakes only the asker (`deferred`
remembers these; `OneThread` says that nothing but these and a step the runtime threw away ends
without an answer). They also share
`max_steps`, `max_asks`, `max_approvals` and `max_tool_calls` of the goal, and several that
decide in one generation can each pass a limit by one (`over` in `TypeOK`).

### `TraceTables`, `TraceStore`, `PostgresStore`, `TraceStores`

`Effect` says what a statement does to the tables; a method of a store is a list of
statements (`ExportProgram`, `RenameProgram`, `DeleteRuns`, `AssignTag`, ...) with one step
each, so that the statements of other calls may come between. A trace is its `started_at`, and
no two share one.

* `TraceStore`: `asyncio.to_thread` runs a call in any worker of the pool, on one connection
  and so in one open transaction. `Commit` stores and `Rollback` (of an export alone) drops whatever
  any worker has executed since the last commit. `Locked` is a busy file (another process has
  the lock), at the first write or at the commit; `Unbindable` a span SQLite cannot
  take; `Crash` the end of the process.
* `PostgresStore`: a call has a connection and a transaction of its own. The server is
  modelled as READ COMMITTED demands: `Start` finds the rows of a statement among those committed by
  then, the statement waits while another transaction holds one of them (`Holds`), and `Execute` goes on
  with what is left of them. The foreign keys of `_ensure_schema` appear as waits
  (a reference locks what it refers to), as refusals (`Dangles`) and as cascades (`Through`).
  `Deadlocked` fails one of two that wait for each other; `ConnectionLost` and `AnswerLost` fall before
  and after the commit.

`TraceStores` is what both promise, over one set of variables: a behaviour is one of the SQLite
store with a single worker ("used from a single worker thread", as its documentation has it) where
statements fail and the process dies, of the SQLite store with two workers and no faults, or of the
Postgres store. Its properties are about the committed rows and hold of all three, with what
overlapping calls cost spelled out: in the pool they are stated once every call has returned, when
everything is committed; a deletion that overlaps an export there may leave spans without a run
until the next export sweeps them; exports in several transactions do not see each other's trace
when they prune, so there may be one too many for each (`Surplus`). What the models make visible
beyond that is in section 4.

In the pool no statement fails and no process dies (`MaxFaults <- 0`, `MaxCrashes <- 0`), and nothing is said of
the tags there: section 4 tells what a rollback, or a deletion between the statements of
`tag_runs`, does to the calls of other workers.

Left out: reading (queries change nothing), notes and colours, two traces that began at the same
instant, `max_runs=None`, and SQLite's own threading mode, which serialises single statements.

### `TurnTrace`

`BeginTurn`, `Record` (with `RecordSpan`) and `EndTurn`/`Export` are `RunTracer`'s `begin_turn`,
`record_span` and `end_turn`; the other actions are `Runtime` around them. `Answered` is a
call of `RecordingLLM` that returned or raised: it waits in `pending` under the name its task is
registered for, or under no name if the agent's code made it in a task of its own
(`NameOf`). `Finish` says how an execution ended, `Refuse` that the patch of the
span just recorded was refused, `BudgetOut` that the rest of the results is dropped.
`LoseSpan` is `record_span`'s `except Exception`: an artifact that was read cannot be written as
JSON (`artifact_ref`), after the agent's calls were taken out of the buffer; the span and those calls are
gone, nothing marks the trace, and the patch is committed. `lost` remembers the execution. Turns may
return, raise (`Gather`, `Refuse`, `Unfit`, `NotSaved`), be cancelled or run into the deadline
at the points where they await something.

Left out: text (clipping, redaction), the tools of a span, its references to artifacts and their caps
(`write_refs` and `relation_refs` catch what they raise and leave the span without these),
`CompositeTracer`, a custom tracer's own callbacks (one that raises in `on_span` leaves the span
where it is). A call is one of `complete`: `RecordingLLM.stream` records nothing, although
`docs/en/observability.md` says that "LLM call tracking needs no code"; no agent of the
framework streams.

## 3. Runs

| run | asks | bounds |
|---|---|---|
| `runtime_faults` | is anything lost, replayed, sent twice, or recorded and not done, whatever goes wrong twice? | one request and one action, each reaching version `MaxVersion + 1` or less, two agents in a chain, both save policies, a token budget, no run cap, 3 generations per turn, 2 misfortunes |
| `runtime_liveness` | do the limits hold across generations, is the outcome honest, and does everything queued, pending or committed get through? | the request wakes both agents, which may fail in isolation, `max_runs` 1 and 3, 3 generations per turn, time and quota limits, `per_commit`, one version per item, 2 misfortunes |
| `generation` | does everything due run within its limits, does every line move, and does the stream say all that was announced? | three agents, two events in three batches, the deadline at any point of their collection, `rank_limit` 1, tiers of 2, no cap or a cap of 2, `max_runs` 0 or 3 left, with and without scheduler and isolation, a hub of one, two announcements |
| `contexts` | do replay, index, staleness and merges agree, and does no version ever change? | two items, two Contexts, four values, four steps of any kind, two forks |
| `chat` | is a session one turn at a time, and does everyone get through? | three requests of one session, two clients that leave, both kinds of store |
| `a2a` | is a task at rest what it says, and who is evicted? | four requests, two of them at a time, one runner left behind, a table of two, two questions per task |
| `tool_loop` | does a conversation keep one thread and end, do the limits hold, does an approved call run once? | two agents on one goal, two clarifications, two destructive calls, 4 steps, one question and one approval and one tool call per goal, one aborted generation, two thrown-away runs |
| `tool_loop_early` | does an approved call run once whenever the human answers? (violated) | one agent, one clarification, one destructive call |
| `append_overlap` | is a reload the last completed write, whatever overlaps, stops or crashes? | one item, two values, two jobs, `compact_every` 3, versions to 2, 5 steps of the application and misfortunes together, of them at most 4 and 2 |
| `append_rollback` | does a save notice every rollback? (violated) | 4 application steps, no misfortune |
| `trace_stores` | is a trace stored whole, until it is due, not if its export failed, not after its deletion; does a tag need a run? | three traces with 1, 0 and 1 spans, `max_runs` 1, two tags, two other calls; SQLite: one worker, one fault, one crash, or two workers; Postgres: two transactions, one lost connection, from an empty and from a tagged database |
| `turn_trace` | is a call told once and of its agent, is what is told committed, and is it all there but for a span that could not be built? | two turns, two generations in all, two executions by two agents or by one, two calls, two spans per trace, one call per span, one span that cannot be built, two sinks |

Two items, two agents and two updates per item are enough for what the properties
relate: an event arriving while its agent runs, an agent's write waking another, an
action whose own events wake an agent, a cut that leaves one of two agents out. Two
misfortunes cover failure during recovery (a crash after a cancelled turn, a
cancellation of the retry). `View` removes the counters of a turn that is over;
`_begin_turn` resets them before anything reads them. Deadlock is not checked: with the
bounded application the system may simply be done.

For `AppendStore`, one item suffices since items are independent in every operator; two
values tell an update from its predecessor; two jobs are one save overlapping another or a
deletion; `compact_every` 3 lets both an append and the rewrite that the count forces
happen within two versions. `CONSTRAINT Unhurt` follows no behaviour beyond its first
hurt (but `repeated`), because nothing is promised of it; the state that suffers the hurt is
still generated and its properties evaluated. `AppendStore` states no liveness: no step of
a save waits for anything but the lock.

For `Generation`, two workers share a tier under a global cap of the same size and a third
has no tier, so that slots are handed on in both lines and a waiter can be cancelled after
it was woken; a hub of one overflows with the second announcement. The run ends after its
generation, so deadlock is not checked there either.

For `Branches`, two items make a source and what is derived from it, the values are data,
an intent, and the same intent performed or failed, and four steps from a seeded or derived
Context allow a fork, a change on each side and a merge, or a read, a change, a commit
and a reload. Items and names are interchangeable (`SYMMETRY`; the run checks no liveness).

For `Chat`, one session suffices because no variable of one session is read by another's
steps except the order of `calls`, in which the sessions only delay each other; the proofs
hold for any number. Three requests are a holder, a waiter that leaves and one that comes
later, the smallest case in which a dropped or reused lock object would show. `InOrder`
takes requests in order because they are alike until they arrive.

For `A2ATasks`, two tasks and four requests reach an eviction while conversations are
unfinished and a message to an evicted id; more than two requests in flight add no
pairs. The proofs need none of these bounds.

For `ToolLoop`, two agents on one goal are what makes limits shared and questions each
other's; a second text and a second call tell "asked already" from "limit reached"; 4 steps leave
room for a question, an approval, a nudge and a call before the forced answer, and limits of
one are passed by the second agent of the same generation. Two thrown-away runs (`MaxDrops`) can
end one conversation or both, or fall on an execution and on its asker's next step. Goals do not influence each other.
The conversation ends, so deadlock is not checked.

For the trace stores, three traces with `max_runs` 1 make exports prune and a deletion meet an
export; two other calls are one that overlaps and one that comes later; two workers are enough
since what an overlap breaks is always between two statements of one call; one fault and one
crash, because each is followed by a clean transaction. `Starts` includes a database with more traces
than `max_runs`, as overlapping exports leave it, and `Picks` bounds the runs a reviewer tags at
once in Postgres. For `TurnTrace`, two executions with caps of one and two reach every cap, and two
turns show what one leaves to the next. None of them has to go on: calls and turns run out (no
deadlock check, no liveness).

The type invariants of `Runtime`, `Chat` and `A2ATasks` are not checked again by runs: they are proved
for every instance (`TypeCorrect`).

**Fairness.** `FairSpec` of `Runtime` assumes that the event loop runs what can run and that agents,
dispatchers and backends return (`WF` on `System` and on stray writes), that the
application keeps starting turns and the quota's window moves on, so that again and again one
is let in (`SF` on `BeginTurn`), and that it replaces a Runtime it stopped
(`SF` on `NewRuntime`: nothing in the code clears `_stop_requested`). No fairness is
given to submissions, misfortunes or any other choice of the application.

`Chat` assumes that the store answers calls, that the event loop resumes a waiter that can
have the lock and a request that can save, and that a run ends (an answer or a failure);
`SessionLock`'s own fairness, that a free turn is granted, is then part of what the
refinement shows. `Generation` assumes that the event loop runs what can run (`WF` on the
run and on the workers as a whole), that agents' runs end, and that a client that does
not close its stream goes on reading; nobody has to announce, cancel or close. `Branches`,
`A2ATasks`, `AppendStore`, the trace stores and `TurnTrace` state no liveness. `ToolLoop` assumes that models and tools
return and turns are started while events are queued (`WF` on `Step`) and that the human answers
(`WF` on `Human`); nothing is assumed of what the model decides.

## 4. Findings

* **`append_rollback`.** "A save writes a snapshot ... after a rollback" (`session.py`,
  `_persistence.py`). The test is `persisted > context.version`: commit, save,
  `checkout(0)`, commit again, save, and the version equals the marker. The save appends an
  entry without commits, and a reload replays the commit that was rolled back.
* **`tool_loop_early`.** A test asserts that one approved destructive call is executed once,
  and `runtime.py` names a resume that runs "its consumer twice" as what consuming at each
  boundary prevents. `_resolve` tells a question's creation from its answer only by the data.
  If the answer comes while the creation event is still queued (between two `arun_once` calls, or
  after a turn that stopped at its iteration limit or a budget), the next generation's batch
  has both events, both find the question answered, and the call is executed twice.

Modelling met more places where code and text differ. Most are visible in the models as steps
their properties allow for; no run is kept for them:

* "Branches survive restarts as named keys over the same KV backend", with "the same snapshot +
  append-only commit log as `SessionStore`" (`docs/en/branching.md`). `merge_contexts` logs an artifact
  the target did not have as `Create(other_art.data)`, without `id` or `artifact_id`. A branch that was
  saved or loaded before the merge appends that commit at its next save, and `load_append` meets
  `apply_commit`'s "cannot apply a Create without artifact_id/id": the branch cannot be loaded,
  and neither can a session that merged, until the process that has it rewrites the snapshot (a
  snapshot may hold the commit, since `from_dict` does not replay). `Branches` merges in memory
  ("adopt" in `AdoptOp`); `AppendStore` leaves these commits out;
* `scheduler.py` says of `rank_limit` that "the list is never emptied (at least the top candidate
  survives)", and again where it cuts. Nothing refuses 0, and then it keeps `ranked[:0]`: nothing
  is dispatched and the events are consumed (the exception of `DueIsServed`);
* `docs/en/scheduler-semantics.md` has token and cost budgets stop "the *next* generation or loop
  step, not the in-flight call". `_get_patches_to_apply` asks again before every result of the
  current generation and breaks (`DiscardResults`), so a generation whose own calls reach
  `max_tokens` commits nothing, and its batch is consumed: the work is paid for, dropped and never
  retried (`wasted`, the exception of `NoTriggerLost`). The same happens when `max_seconds` ends
  among the results. A conversation of `ToolLoop` whose step it was stops there, with neither answer
  nor question (`dropped`, the exception of `OneThread` and `ConversationEnds`);
* "Insert and retention commit together: a prune failure rolls the run back", and the connection
  "is used from a single worker thread" (`tracing/store.py`). `asyncio.to_thread` takes any thread
  of a pool, and all share one open transaction: the rollback of an export that fails takes back
  what another call has executed and not yet committed. That call goes on, commits what is
  left of it and returns: an export whose trace is not there, or a deletion whose run is. (With
  faults allowed in it, `TraceStore` with two workers shows it; the pool of `TraceStores` has none);
* "Only real runs are annotated, so a typo'd id can never seed the vocabulary with a tag that
  matches nothing", say both stores of `tag_runs`. SQLite's looks the runs up before it writes, in no
  transaction with it and with no foreign key enforced: a deletion or a prune of another worker in
  between leaves a new tag on a run that is gone, and once its mark is swept the tag stays
  alone. With one worker, and in Postgres, whose foreign key refuses the mark, the promise holds
  (`TagSeedsMark`, which says nothing of the pool);
* `docs/en/durability.md` has `per_commit` persist at each generation boundary. If `session.save`
  raises, the exception leaves the turn with the batch consumed in memory; an `arun` that finds
  nothing queued returns before any save, so the committed runs stay off the backend until there
  is work again (`SaveRaises`; the exception of `RanBecomesDurable`);
* `_commit_patches_to_apply` applies the patches one by one with the batch still queued, "so a
  raise anywhere in dispatch/commit leaves the batch queued and a retry re-runs the work the
  exception would otherwise have silently dropped" (`runtime.py`). The retry also re-runs what
  was committed before the exception (`CommitRaises`; the exception of `NoReplay`);
* "each entry carries the complete current working tree" (`_persistence.py`). An artifact created
  outside the commits and then updated by a commit equals what `replay_state` gives and is
  left out of the tree; on load `apply_commit` skips the Update because nothing created the
  artifact. It is lost (`outside` in `Hurts`);
* "insert and retention commit together" (`tracing/store.py`), in the pool: the commit of any
  other call between an export's insert and its prune stores the trace before retention. A call that
  fails and is not an export leaves its statements in the open transaction, for the next commit to
  store;
* `rename_tag` in `tracing/postgres.py` first drops double assignments "so the update cannot
  violate the primary key", and `docs/en/observability.md` renames a tag "across every run".
  Its four statements each see what has been committed since: a run that is given the new name
  after the first deletion makes the update break the key (`Clashes`); one that is given the
  old name after the update loses it to `ON DELETE CASCADE`;
* "a `RunTrace` is one run of the runtime" (`docs/en/observability.md`). `_pending_llm` is cleared
  by nothing but the next span of the agent: the calls of an execution without a span (it changed
  nothing, its turn was cut short) are told, with their tokens, in a later turn's trace;
* "every run records a trace" (the same page). `end_turn` is reached only if the turn returns or
  meets its deadline; the turn that failed is the one without a trace;
* "the trace for that step is simply dropped" (`tracing/tracer.py`, `_swallow_tracing_error`). The
  calls of an agent wait under its name: when a span cannot be built, those of the agent's other
  executions in the generation go with it, whose spans are then told without them. A trace
  does not say that a span is missing; `trace_truncated` is for the caps, as documented.
  `TraceTellsTurn` holds with just this excepted;
* `TraceLimits` says that a trace is marked when a cap is hit; `record_span` cuts the tools of a
  span without a mark (tools are not in the model).

So are those listed with `Branches`, `Chat`, `A2ATasks` and `ToolLoop` above, and

* the outbox drain is awaited after commit and consume and before the save. A deadline falling
  there leaves `arun` without the save that `docs/en/durability.md` promises at every generation
  boundary under `per_commit`; a later turn's save makes up for it (`RanBecomesDurable`);
* `docs/en/scheduler-semantics.md` says that work and commit order follow priority. Work is
  sorted only when something is debounced; otherwise priority orders the agents of one event
  and events keep the order of the queue. `DueIsServed` states what does hold;
* the same page and `_dispatch` say that the global semaphore is taken before the tier's. It
  is the other way round, consistently, so nothing can wait in a circle (`GenerationEnds`);
* it also says that `concurrency_limit` caps a single agent. Agents with the same number
  share one semaphore, so the cap is of all of them together;
* `budget.py` bounds the overshoot by one call. The sequential path asks no budget between
  the agents of a generation, so several can overshoot;
* `QuotaTracker.record` changes the window it was given and does not `set` it, so a store
  that returns copies would not count; and concurrent turns of one key can all start below
  the limit, since it is checked at the start of a turn only.

## 5. Proofs

Proofs hold for all values of the constants that satisfy the modules' assumptions: any
finite set of requests, jobs, items or agents and none of the bounds of the runs.

**`Runtime`** (assumptions `ItemsAssumption`, `KnobsAssumption`). Every safety property of
its passing runs is proved.

`Runtime_proofs` has `TypeCorrect`, `NoTriggerIsLost` and `NoCommittedRunIsReplayed`.
Neither safety property is inductive: that a batch may be consumed depends on what the
generation knows about it. `Inv` adds to `TypeOK`

* `Sound` of every Context there is (live, on disk, in flight): queued and recorded events
  were emitted, every emitted event is queued or accounted for, no recorded run but the torn is queued;
* `BatchAccounted`: while agents run, the batch holds emitted events only and its matches
  are exactly `work` and `cut`, so whatever the generation's end does with the two
  settles every event it consumes.

`SettleSound` is the heart: applying patches and consuming a batch all of whose matches
are settled keeps a Context sound. Each action then has a lemma for the store and one
for the turn; writes and crashes only move sound Contexts around
(`RangeAppended`, `RangeRemoved`).

The module then keeps `OutboxInv` on top of `Inv`: every Context there is records as
dispatched only what was sent, the action whose I/O is under way was sent, the list being
drained holds pending actions only, and an action that is not under way and not on record
has not been performed by this process. `DispatchedIsTrue` and `PerformedOnce` follow.

It then keeps `BudgetInv`: inside the loop no more runs were charged than
the cap, what is dispatched still fits, and whatever was cut was cut by the cap (so a turn
that cut something cannot report COMPLETED). `CapHolds` and the action property
`CompletedIsHonest` follow. `BoundariesAreDurable` has its own invariant, and
`WritesInOrder` as a hypothesis: without it an abandoned write can land late, and then the
property is false.

**`AppendStore`.** `LogBounded`: for any finite set of jobs, any `compact_every`
and no bound on anything else, `Len(entries) <= CompactEvery - 1 + faults`. The bound is
not inductive, because an append was decided on a count taken earlier. `Inv` charges the
log with every save that is on its way to append (`LogCharged`), and says that there is one
awaited save at most (`OneAwaited`) and no more stray ones than faults (`StraysCharged`);
a save that counts and decides to append therefore finds room for itself and for the
others (`AppendingBounded`). The steps are first reduced to what the invariant can tell
apart (`Seen`), then each class has its lemma. This proof needs no type of Contexts or
commits: it knows of a job its stage and owner only.

`SessionSaved` proves `SessionIsSaved`. That property speaks of the store at rest; which
calls are still to come, and what they captured when, is in `Whole`: types, a lock line that
holds each running job once (`LineOK`), and, as long as nothing but repeated entries came about
(`Calm`), `Held`. Of its parts the one that matters is `StoreOK`: the store has *reached* a
version w of the live chain (`Reached`). No commit above w is marked, no save under way starts
to copy above it, the stored chain replays at its end to what the live chain replays to at w,
and it ends at w unless entries were repeated. An append therefore closes the distance from w
to the version it captured, wherever it started below w: commits that are stored already are
applied once more, and that changes nothing in the end (`AppliedAgain`, see `CommitLog`
below). What was changed outside the commits has no
version; `LooseToAll` says that where the store differs from its own commits and no commit
above w touches the item, the Context and every save on its way still differ too, so the
working tree of the next entry carries it. `Order` keeps a snapshot and an append that were
captured one after the other in the line of the lock in that order. The hypotheses that each
hurt takes away are exactly where the case analysis needs them: `late` in commits under a save
on its way, `outside` in `Grounded`, `reverted` and `undeleted` in `LooseToAll`.

`RewriteRepeated` proves `StoppedRewriteIsRepeated` on top of both invariants. `Repeats`
follows the awaited save from the decision to rewrite to its two calls: what made the rewrite
due is still there, or another save is about to clear the log, or nothing is left to clear. With
one fault before the stop there is one abandoned save at most (`StraysCharged`), and it cannot
both clear the log and write to it; with more it can be two.

**`CommitLog`.** The lemmas the proofs about `AppendStore` and `Branches` rest on are at the
beginning of `AppendStore_proofs`; `Branches_proofs` has those about replaying once more,
since it shares no other module with proofs. What `replay_state` computes is a fold, and no induction theorem can be instantiated here, so the
induction is done by least counterexample: a nonempty set of numbers has a least element
(`LeastNatural`), so if no function computed the fold up to n, or if the fold left its type,
there would be a first index where it happens (`FoldExists`, `FoldRuns`). Replaying then *is* a
run of states, one per commit (`FoldReplays`, `VersionStates`), two runs over the same commits
agree (`ReplaysAgree`), and each operation on the chain has its lemma, for chains of any length:
appending, truncating and compacting keep the states of the versions that stay
(`AppendHistory`, `TruncateHistory`, `CompactHistory`), and an item no later commit touches has
at v the state it has at the end (`UntouchedStays`). The same is done for `apply_commit`, which
a load uses where the chain uses `replay_state` (`FoldApplies`, `FoldAppliesTyped`). What a
state has seen already may be replayed (`ReplayedAgain`) or applied (`AppliedAgain`) once more:
the last commit that names an item decides, provided that no commit updates what none created
(`Grounded`), and an item changed outside the commits keeps its value if none of them names it.

**`Branches`.** Every property of its run is proved. `EitherMayBeTarget` needs no invariant: what a merge decides follows from
the two intents and the base's (`Judged`, `VerdictIs`), and with the roles exchanged it is the
mirrored decision (`VerdictSymmetric`). `SentStaysSent` needs `Inv`:
in every Context an item whose intent was performed is there and says `Dispatched`. The
merge is the interesting step: if the merged value is an action and one side had performed
it, the merged value is the performed one (`MergedPerformed`). Versions come along because
an artifact taken over gets the target's version plus one, which must be a number.

The other four theorems share the invariant `LogInv`: every Context, with the agent under way
in it and its histories, is `Fit`.

* `Matches`: outside `loose` the live data is what the chain replays to. `LiveIsCommitted`
  (`LiveMatchesLog`) is this conjunct. The live rule and the replay rule differ for an update of
  what is not there and for an adopted creation, and those are exactly the items the step makes
  loose.
* `Tracked`: the two halves of the producer index are what folding over the retained commits
  yields (`Exact`), and the stale set is complete and has causes (`StaleComplete`,
  `StaleCaused`). The last two say nothing of a commit not yet made; they are kept because
  everything read is `Honest`: an item whose counter did not start over is still there, at no
  lower a version, and with the data read if the version is the same. It is required of the
  reads in every commit (`HonestCommits`) and of those of the agent under way (`Fit`), since
  they become a commit's reads after any number of other steps. `WrittenLive` says that what a
  commit wrote is there unless it was reborn. `SourcesAreKnown` (`DependenciesTracked`) follows.

Each action has a lemma, over the lemmas of the operation it makes (`WithOps`, `Logged`,
`Patched`, `RolledBack`, `Compacted`, `Copied`, `Forked`, the merges), and says what it did to
the one chain that may have changed (`Evolves`, `ChainStep`). That is what `HistoryIsKept`
needs: every step of `Branches` is one of `VersionedState` or changes no history, a rollback or
compaction because of `TruncateHistory` and `CompactHistory`. `BothSidesAreKept`
(`MergeKeepsBothSides`) is an action property: what a merge writes (`Merges`), case by case of
`Verdict`.

**`Chat`.** `TypeCorrect`, `TurnsExclude`, `TableExact` and `TableImplementsLine`, from
`Ind`: the queue of a lock object is exactly its waiters, each once (`QueuesExact`); all
requests of a session that are not through use the object in the table (`UsersUseTable`);
who is in a turn holds its object (`HoldersAreInTurn`); sessions have different objects
(`LocksDistinct`); what did not arrive is used by nobody (`NewIsUnused`); the counts are
exact (`CountsExact`). Mutual exclusion needs all of them: two requests in a turn hold
their objects, the objects are the table's, and an object has one holder. The fourth
theorem is the safety part of the refinement, `Init` and `[Next]` of `SessionLock`.

`SavedStaysSaved` proves `NoLostTurn`. A save outlives the client that left, so what is saved
of a session is spread over the store, the saves under way and the Context of the turn that
runs. `Saves` says how they go together: `CallsFit`, every store call under way is one its
request waits for or left behind, and no request has two of a kind; `RunnersFit`, a runner is
past its client's turn only if that client is gone; and `TurnsKept`, for a session no
disconnect has disturbed: store, saves under way and the Context of the turn together cover
all that was saved, only the request in its turn has saves under way, and nobody loads before
an earlier turn's save is through. The lock is what makes it inductive: a load starts in a turn,
so `TurnsExclude` and the account of the calls meet there.

**`WorkList` and `Generation`** (assumptions `WorkListAssumption`, `GenerationAssumption`: agents
have integer priorities and are listed once, limits and caps are natural numbers, `rank_limit` is
one or `None`, a queue has room for one). Every safety property of its run is proved.

`SpecServesDue` is about operators. `ArrangedFacts` is the lemma on sorting: arranging a finite
set by a strict total order puts every element in exactly one place, because the number of
elements before it is an injection into the places, hence a bijection. The order of the loops,
the stable sort by priority and the pinning of answered questions are three such orders
(`AsMetFacts`, `ByPriorityFacts`, `PartFacts`). `CollectFacts` then says that the collection
is what is due of the part of the batch that was met, `SchedulesFacts` and `SliceFacts` what the
Scheduler and `max_runs` leave of it, and `WorkInv` carries the work through the phases: what was
met is the whole batch, or the deadline passed and no result counts.

`SpecKeepsLimits` needs more than `RunningWithinLimits`, which says nothing of the slots that are
not in use. `Sound` accounts for every slot of every semaphore: free, taken by a worker, or
handed to one that was woken and has not resumed (`Balanced`). A release hands its slot to who is
first in line, so the lines must be right too: a worker is in the line of exactly the semaphore
it needs next, once, if it waits, and in none otherwise (`Lined`), and how many semaphores it
holds fits where it is (`Placed`). Each step of the semaphores has its lemma; going on is shown
once, from any state with the worker set apart (`GoOnSound`), and used by a start and by a
resumption with or without a further waking. A running worker holds all it needs, so there are at
most as many as slots (`SemLimits`). Without limits there are no semaphores, and `InTurn` is what
keeps one agent at a time.

`SpecLeavesNothingUnsaid`: until the client closes the stream, what has been announced and not
lost is, in order, what was shown, what `queue.get()` has taken and what is queued (`InFlow`).
That nothing is announced behind the end uses `SemInv`: who announces is running, nobody runs
after the dispatch, and the loop ends after that with an empty queue (`Reading`).

**`A2ATasks`.** `TypeCorrect`, `TasksTellTruth` and `LongestLeaves`, from `Ind`, which adds
to the properties that records in the table and in use were made and have distinct ids, and
`TableInOrder`: a record nearer to the front was silent longer, in that the requests that had
come when it last got a message had come for those behind it as well. `EvictFacts` says
which record `_evict` removes; that there is a first finished one is well-foundedness of
the natural numbers.

**`ToolLoop`.** `ApprovedRunsOnce`, with `AnswersAtRest` as a hypothesis, without which it is
false (section 4). `Inv` says that a queued creation is that of an open question and a queued
answer that of an answered one (`InStep`), that every pending and every finished run was woken
by its event and none is both (`Woken`), and relates the counts to the generation: while the
answer's event is queued, the call was executed and not forgotten exactly if the generation
has that result, and it has it once (`RunKnown`). A commit consumes the event with the result,
an abort forgets the result and keeps the event. A run that comes to nothing counts like one that
hands something back, since a call it executed is executed (`Executes`). Finite sets come in because a commit puts the
generation's results in a sequence (`SetToSeqFacts`, `CreatedFinite`).

`OneThreadOnly` proves `OneThread` under the same hypothesis. `ThreadInv` adds to `Inv` that
every agent a batched event wakes has run for it or still has to (`Complete`), with one result
(`Unique`), which is nothing only for a question's creation or when another agent's question is
open (`Sensible`); and it states the sum of `OneThread` as a choice of one out of four, or
none once a step was thrown away (`ThreadAt`), also for goals nobody has asked yet, where there is none. The live event of a
conversation is the only one, so a commit finds at most one result for it (`CameFacts`) and
puts one note, question, answer or deferral in its place, or none and remembers it in `dropped` (`CommitChanges`, `MadeFacts`,
`AddedFacts`). Without answers at rest it fails with `OneRunPerApproval`, for the same reason.

`LimitsHold` proves `TypeOK`, the substance of which is the four limits. None is inductive: the
runs of a generation look at the notes and questions of the last commit, so what is over the
limit is decided before it is there. `LimitsAt` therefore counts, with what is there, the
agents that may still add to it: for calls and questions those with a result that does
(`Askers`); for notes also those with a question open or its answer queued, since the note that
follows is made whatever `max_steps` says (`MayNote`). An agent starts to wait only by a decision
that found the limit not reached (`DecideLimits`, `SpentEntered`), only agents that consume the
goal wait (`ResultIsLive`), and a commit turns each result into one place and makes its agent
stop waiting (`CommitPlaces`, `CommitMayNote`, `SpentTaken`): this is where one thread per
conversation is needed, for an agent with two live events would take two places. The limits
are exceeded by at most the number of further agents on the goal (`Over`, which is 0 for a goal
nobody consumes).

**`TurnTrace`** (assumption `TraceAssumption`: the caps are natural numbers, the work lists
name agents, the sinks are a list). `CallsAreToldOnce` and `TracesTellTurns`, for
every list of work and of sinks and any caps. `CallsPlaced` follows a call from its
answer to the sinks: what waits for a span waits under the name of the task that made it
(`InPlace`), no two spans that a sink has or may still be given tell the same call
(`TellOnce`, `Apart`), and while a turn ends only the sinks behind the one told last may be
given its spans (`ToldLater`). `TurnAccounted`
relates the spans of the turn under way to what its generations did: every span is of this
turn and of a generation that is over or under way (`SpansOfTurn`, `PastOnly`), a span without
error is committed or about to be (`SpanIsCommitted`), and unless the caps cut the trace, what
was committed has or lost its span (`CommitIsSeen`), and a call waits, is told or went with a
lost span of its agent (`CallIsSeen`, for which `CallsPlaced` is needed: what waits under a name
was made by that agent); `TracesTell` keeps it for the traces that were delivered.

**`TraceStores`** (assumptions `StoresAssumption`: the traces are finitely many numbers, caps
and bounds are natural numbers, the Postgres database starts whole, `None` is no call; and, for
`Retained` alone, `RetentionAssumption`: there are finitely many connections, and the Postgres
database holds no more runs at the start than such stores leave).
`SpecBringsNothingBack` proves `NothingComesBack` for each of the three stores. The property is
not inductive: it says nothing of the rows that are on the way, on the shared connection or in
an open transaction. For SQLite, `SQLiteInv` says it of the connection's rows as well as
of the committed ones, so that no commit can bring back what a rollback or a deletion removed,
and adds who may still insert: a run is inserted by the first statement of its own export and no
other (`Programmed`), and what was deleted, has failed or is stored is past that statement
(`Shown`). A deletion's last statement takes its runs away, and they stay away until its commit. With
one worker a failing export has nothing committed (`AloneApart`), which is what its rollback
needs; in the pool nothing raises (`PoolCalm`), and its steps are the single worker's
(`PoolShared`). For Postgres, `PgKept` says that what a transaction inserts is its export's own
(`PgCall`), that no other call exports the same trace, and that what is stored, deleted or failed
has no export under way (`Past`). A deletion has deleted, or its last statement has found,
every run it was for that is committed (`Deletes`): this survives the commits of the others
because runs whose export is over are never inserted again.

`SpecStoresWhole` proves `StoredWhole` for each of the three stores, on top of those invariants.
It is not inductive because the statements of a call leave rows without their run until the
call's last one: `WholeInv` says what is still to be put right. The statements a call has left
come in the order of its method (`Orderly`, `PgOrderly`: which statement may stand before which,
for which rows). With one SQLite worker, every span or mark that is missing or left over on the
connection is owed by a statement the call has still to execute (`Owes`: an insert for each
missing span, the sweeps or the deletion for the others), unless the call is raising, when the
rollback takes back all of it; what is committed is whole (`Whole`), since the last statement
owes nothing. In the pool another worker's call commits the rows of a call that is not finished,
so only the spans of stored traces are claimed, and only at rest: a missing span is promised by
some call (`Promised`), and if the connection is ahead of the committed rows, somebody has still
to commit. A Postgres transaction deletes only rows that are there, refers only to rows that are
there or that it inserts, and inserts a run with all its spans (`PgSound`); and of two open
transactions, neither deletes nor refers to what the other deletes (`Barred`), which is what the
row locks give (`Holds`, `WaitsFor`, `Clashes`). The second is why a commit of one leaves
the other sound. TLC checked `WholeInv` on the instance of `TraceStores_calls` before it was
proved.

`SpecRetains` proves `Retained` for each of the three stores, on top of those too. It is not
inductive because an export inserts first and prunes later: `RetainedInv` says what is still to
go, and why what is gone had to. For SQLite (`SQLiteKept`), unless a call is raising, what is on
the connection is stored or will be (`Said`), what is missing from it was taken by a deletion or
has `MaxRuns` newer ones (`Sure`), and there are too many runs only while some export has its
prune to come (`Excess`); with one worker the committed rows are few at any time (`DiskKept`),
because an insert and its prune commit together. In Postgres each export prunes by what its own
connection sees, so no export alone bounds what is left. `PgRetains` therefore counts for every
set of exports that have chosen what to prune (`Chosen`): the runs that are there once all of
them have committed, without those any of them deletes (`Left`, `Doomed`), are at most `MaxRuns`
and one for each other connection (`FewLeft`). An export joins such a set when its search
finishes: it leaves `MaxRuns` of the runs it sees, and the exports it does not see have inserted
one each. A commit takes an export from the sets without changing what they leave, and the empty
set is the property. What a transaction prunes has `MaxRuns` newer runs stored, its own counted
with them (`Spent`), which is what the second half of `Retained` needs after the commit.
TLC checked `RetainedInv` on the instance of `TraceStores_calls` before it was proved.

Model-checked only:

* liveness and the liveness part of `KeepsPromise` (fairness and `ENABLED` are out of the
  prover's reach);
* `TagSeedsMark` of `TraceStores`.

## 6. Plan

The modules were written in this order: `Runtime`; `CommitLog` and `AppendStore`;
`ContextStore` and `Branches` with `VersionedState`; `Chat` with `SessionLock`;
`WorkList` and `Generation`; `A2ATasks`; `ToolLoop`; the proofs after each; and the
trace stores with `TurnTrace`. What would come next:

1. An abstract durable session (the last completed save wins) that `Runtime`'s store and
   `AppendStore` without hurts both implement.
2. Retained artifact versions and relations in `ContextStore`; `Branches` over
   `AppendStore`'s calls.
3. The quota window, and the blocking tool loops inside one agent run.

## 7. Not modelled

Evaluation, providers, retrieval, the reading side of tracing, the blocking tool loops (`ToolUse`,
`NativeToolUse`, `run_tool_loop`: one run of an agent, nothing kept between turns), recipes, the testing lab, the CLI
and the web front ends are I/O, rendering or data processing around the core; each is
listed with its reason in `PROJECT.json`. They are the larger part of the repository by
lines; their correctness is that of queries, parsers and HTTP calls, which a state machine
says little about. Formatting, logging and metrics are left out
everywhere.

Of the modelled parts, these are left out: artifact relations, views, the type index and the
retained versions of an artifact; retries of a failed dispatch beyond `retry_action`; the
events `astream` wraps around announcements; reply and status hooks, memory agents and
per-turn resources of `ChatAssistant`; the A2A client, its push of messages and the agent
card; conditions and joins of triggers, which narrow what matches and do not change what
happens to it; the metric and model ranking of the scheduler, which appear as any order.
