---------------------------- MODULE AppendStore ----------------------------
(***************************************************************************)
(* A session on an AppendBackend (SQLite, Postgres): save_append and       *)
(* load_append of reactifact/_persistence.py over the backends of          *)
(* reactifact/checkpoints.py.                                              *)
(*                                                                         *)
(* A save writes a snapshot of the whole Context and then clears the       *)
(* entries, or appends one entry: the commits since the last save, the     *)
(* event queue and the working tree (what the commits do not account for). *)
(* Each backend call is a step of its own: the calls of one process queue  *)
(* for the backend's lock and take effect first come, first served, and    *)
(* while a save waits the application may touch the Context.  A turn that  *)
(* is cancelled abandons its shielded save, which goes on beside the next  *)
(* one; a save that is not shielded stops, and its last call may or may    *)
(* not take effect; a crash stops everything and the session is reopened.  *)
(***************************************************************************)
EXTENDS CommitLog, FiniteSets

CONSTANTS
  Jobs,              \* saves and deletions that may overlap
  CompactEvery,      \* SessionStore(compact_every=...)
  RetriesStatements, \* Postgres: a statement whose connection broke runs again
  MaxCommits,        \* bound: no commit is made above this version
  MaxChanges,        \* bound: steps of the application
  MaxFaults          \* bound: abandoned, stopped and retried calls, crashes

ASSUME StoreAssumption ==
  /\ IsFiniteSet(Jobs) /\ Jobs # {}
  /\ CompactEvery \in Nat \ {0}
  /\ RetriesStatements \in BOOLEAN
  /\ {MaxCommits, MaxChanges, MaxFaults} \subseteq Nat

VARIABLES
  ctx,      \* the live Context: artifacts, event queue, commit chain
  marker,   \* persisted_state(key): the version and baseline last saved
  snap,     \* <<>> or <<the Context in kv_entries>>
  entries,  \* the rows of append_entries, oldest first
  job,      \* what each save or deletion is about to do
  line,     \* the jobs queueing for the backend's lock, in order
  saved,    \* history: the Context the last completed write stands for
  gap,      \* history: snap was replaced or dropped, entries not yet cleared
  rolled,   \* history: a checkout went below the marker since it was set
  hurt,     \* history: which of Hurts have happened
  changes,  \* bound on the application's steps
  faults    \* history: abandoned, stopped and retried calls, and crashes

storeVars == <<snap, entries, saved, gap>>
jobVars   == <<job, line>>
vars      == <<ctx, marker, storeVars, jobVars, rolled, hurt, changes, faults>>

-----------------------------------------------------------------------------
(* Contexts *)

Contexts == [art : States, queue : SUBSET Items, log : Logs]

EmptyContext == [art |-> NoArtifacts, queue |-> {}, log |-> EmptyLog]

(* Artifacts and events change together.                                    *)
SetArtifacts(c, art) ==
  [c EXCEPT !.art = art, !.queue = @ \cup {i \in Items : art[i] # c.art[i]}]

(* _working_tree: the artifacts the commits do not account for.             *)
WorkingTree(c) ==
  [i \in Items |-> IF c.art[i] = Committed(c.log)[i] THEN Absent ELSE c.art[i]]

(* The mark of a Context that was never saved, and of one that just was.    *)
NoMark == [version |-> -1, floor |-> 0]
MarkOf(c) == [version |-> Version(c.log), floor |-> c.log.floor]

(* A bug: the first new commit is left out.                                 *)
EntryShort(c, from) == [commits |-> CommitsFrom(c.log, from + 1),
                        queue   |-> c.queue,
                        tree    |-> WorkingTree(c)]

Entry(c, from) == [commits |-> CommitsFrom(c.log, from),
                   queue   |-> c.queue,
                   tree    |-> WorkingTree(c)]

Entries == [commits : Seq(Commits), queue : SUBSET Items, tree : States]

-----------------------------------------------------------------------------
(* load_append *)

ApplyEntry(c, e) ==
  [art   |-> FoldLeft(ApplyCommit, c.art, e.commits),
   queue |-> e.queue,
   log   |-> [c.log EXCEPT !.commits = @ \o e.commits]]

(* _apply_working_tree: drops what neither the commits nor the tree know,   *)
(* then lets the tree win.                                                  *)
ApplyTree(c, tree) ==
  [c EXCEPT !.art = [i \in Items |->
     CASE tree[i] # Absent             -> tree[i]
       [] tree[i] = Absent /\ Committed(c.log)[i] = Absent -> Absent
       [] OTHER                        -> c.art[i]]]

LoadFrom(c, es) ==
  LET replayed == FoldLeft(ApplyEntry, c, es)
  IN  IF es = <<>> THEN replayed ELSE ApplyTree(replayed, Last(es).tree)

Loaded == LoadFrom(snap[1], entries)

Reopened == IF snap = <<>> THEN EmptyContext ELSE Loaded

-----------------------------------------------------------------------------
(* What a reader of a session can tell: its data and pending triggers, and  *)
(* its history.                                                             *)
Data(c)    == [art |-> c.art, queue |-> c.queue]
History(c) == [version |-> Version(c.log), state |-> Committed(c.log)]

(* What the code does not cope with.                                        *)
(*  "torn":       the process dies between the snapshot and clear_entries,  *)
(*                or the save stops there and an overlapping one marks;     *)
(*  "orphaned":   entries are left without a snapshot: a deletion stops     *)
(*                halfway, or an abandoned save appends to what is deleted; *)
(*  "late":       history is written or cut at either end while an          *)
(*                abandoned save is on its way, which then marks as saved   *)
(*                what it never captured;                                   *)
(*  "hidden":     a checkout goes unnoticed: commits bring the version back *)
(*                to the marker before a save, or all it undoes was stored  *)
(*                by a save that was cancelled before it could mark it;     *)
(*  "outside":    a commit updates an artifact that no commit created;      *)
(*  "undeleted":  a committed artifact is deleted outside the commits;      *)
(*  "reverted":   an artifact changed outside the commits gets back the     *)
(*                value they give it;                                       *)
(*  "repeated":   an entry repeats commits the store already has.           *)
Hurts == {"torn", "orphaned", "late", "hidden", "outside", "undeleted", "reverted",
          "repeated"}

Suffer(h) == hurt' = hurt \cup h

Change ==
  /\ changes < MaxChanges
  /\ changes' = changes + 1

Fault ==
  /\ faults < MaxFaults
  /\ faults' = faults + 1

When(condition, h) == IF condition THEN {h} ELSE {}

-----------------------------------------------------------------------------
(* Jobs *)

Stages == {"idle", "get", "count", "set", "clear", "append", "drop", "dropEntries"}

Idle == [at |-> "idle", owned |-> FALSE, from |-> -1, taken |-> EmptyContext]

Running == {s \in Jobs : job[s].at # "idle"}

(* Saves that captured the Context and have not marked it yet.              *)
Captured == {s \in Jobs : job[s].at \in {"set", "clear", "append"}}

(* The turn, or the application, is waiting for a save of its own.          *)
Awaiting == \E s \in Running : job[s].owned

Served(s) == line # <<>> /\ line[1] = s

(* The job's next call joins the queue for the lock.                        *)
Proceed(s, stage) ==
  /\ job' = [job EXCEPT ![s].at = stage]
  /\ line' = Append(Tail(line), s)

(* ... capturing the Context as it is now.                                  *)
ProceedWith(s, stage) ==
  /\ job' = [job EXCEPT ![s].at = stage, ![s].taken = ctx]
  /\ line' = Append(Tail(line), s)

Finish(s) ==
  /\ job' = [job EXCEPT ![s] = Idle]
  /\ line' = Tail(line)

(* mark_persisted records the Context as it is now, not as it was captured. *)
Mark ==
  /\ marker' = MarkOf(ctx)
  /\ rolled' = FALSE

-----------------------------------------------------------------------------
(* The application and the runtime *)

(* create, update and delete outside the commits, at any await.             *)
Touch(i, v) ==
  /\ Change
  /\ v # ctx.art[i]
  /\ ctx' = SetArtifacts(ctx, [ctx.art EXCEPT ![i] = v])
  /\ LET committed == Committed(ctx.log)[i]
     IN  Suffer(When(committed # Absent /\ v = Absent, "undeleted")
                  \cup When(v # Absent /\ v = committed, "reverted"))
  /\ UNCHANGED <<marker, storeVars, jobVars, rolled, faults>>

(* _apply_patch and log_commit; or a merge that updates and deletes.  A     *)
(* merge that adopts what the Context lacks is left out: after its commit   *)
(* is appended no load succeeds, as apply_commit refuses a Create without   *)
(* an artifact_id.                                                          *)
Commit(c) ==
  /\ Change
  /\ ~Awaiting
  /\ Version(ctx.log) < MaxCommits
  /\ ctx' = [SetArtifacts(ctx, ApplyCommit(ctx.art, c))
               EXCEPT !.log = AppendCommit(@, c)]
  /\ Suffer(When(\E i \in DOMAIN c.ops : c.ops[i].kind = "update" /\ Committed(ctx.log)[i] = Absent,
                 "outside")
              \cup When(rolled /\ Version(ctx'.log) >= marker.version, "hidden")
              \cup When(Captured # {}, "late"))
  /\ UNCHANGED <<marker, storeVars, jobVars, rolled, faults>>

(* consume_events, once a generation is committed.                          *)
ConsumeEvents ==
  /\ Change
  /\ ~Awaiting
  /\ ctx.queue # {}
  /\ ctx' = [ctx EXCEPT !.queue = {}]
  /\ UNCHANGED <<marker, storeVars, jobVars, rolled, hurt, faults>>

Checkout(v) ==
  /\ Change
  /\ ~Awaiting
  /\ v \in ctx.log.floor .. Version(ctx.log)
  /\ ctx' = [art   |-> CheckoutState(ctx.art, ctx.log, v),
              queue |-> {},
              log   |-> Truncate(ctx.log, v)]
  /\ ctx' # ctx
  /\ rolled' = (rolled \/ v < marker.version)
  /\ Suffer(When(Running # {}, "late")
              \cup When(marker.version <= v /\ v < Version(Reopened.log), "hidden")
              \cup When(/\ snap # <<>>
                        /\ \E i \in Touched(ctx.log, v) :
                             WorkingTree(snap[1])[i] # Absent, "reverted"))
  /\ UNCHANGED <<marker, storeVars, jobVars, faults>>

(* Context.compact(keep_commits): everything older than the last ones.      *)
Compact(keep) ==
  /\ Change
  /\ ~Awaiting
  /\ keep \in Nat
  /\ Version(ctx.log) - keep > ctx.log.floor
  /\ ctx' = [ctx EXCEPT !.log = CompactTo(@, Version(@) - keep)]
  /\ Suffer(When(Running # {}, "late"))
  /\ UNCHANGED <<marker, storeVars, jobVars, rolled, faults>>

-----------------------------------------------------------------------------
(* save_append *)

RewriteDue ==
  \/ marker.version < 0
  \/ marker.version > Version(ctx.log)
  \/ ctx.log.floor > marker.floor

StartSave(s) ==
  /\ job[s].at = "idle"
  /\ ~Awaiting
  /\ job' = [job EXCEPT ![s] =
       [at    |-> IF RewriteDue THEN "set" ELSE "get",
        owned |-> TRUE,
        from  |-> marker.version,
        taken |-> IF RewriteDue THEN ctx ELSE EmptyContext]]
  /\ line' = Append(line, s)
  /\ UNCHANGED <<ctx, marker, storeVars, rolled, hurt, changes, faults>>

(* `await backend.get(key) is None`: the session was deleted meanwhile.     *)
NothingStored == snap = <<>>

LandGet(s) ==
  /\ Served(s)
  /\ job[s].at = "get"
  /\ IF NothingStored THEN ProceedWith(s, "set") ELSE Proceed(s, "count")
  /\ UNCHANGED <<ctx, marker, storeVars, rolled, hurt, changes, faults>>

(* A bug: one entry too many.                                               *)
LogOverfull == Len(entries) >= CompactEvery

LogFull == Len(entries) + 1 >= CompactEvery

LandCount(s) ==
  /\ Served(s)
  /\ job[s].at = "count"
  /\ ProceedWith(s, IF LogFull THEN "set" ELSE "append")
  /\ UNCHANGED <<ctx, marker, storeVars, rolled, hurt, changes, faults>>

WriteSnapshot(c) ==
  /\ snap' = <<c>>
  /\ gap' = (entries # <<>>)
  /\ saved' = IF entries = <<>> THEN <<c>> ELSE saved
  /\ UNCHANGED entries

(* A bug: marked before the entries are cleared.                            *)
LandSetAndMark(s) ==
  /\ Served(s)
  /\ job[s].at = "set"
  /\ WriteSnapshot(job[s].taken)
  /\ Proceed(s, "clear")
  /\ Mark
  /\ UNCHANGED <<ctx, hurt, changes, faults>>

LandSet(s) ==
  /\ Served(s)
  /\ job[s].at = "set"
  /\ WriteSnapshot(job[s].taken)
  /\ Proceed(s, "clear")
  /\ UNCHANGED <<ctx, marker, rolled, hurt, changes, faults>>

ClearEntries ==
  /\ entries' = <<>>
  /\ gap' = FALSE
  /\ saved' = snap
  /\ UNCHANGED snap

LandClear(s) ==
  /\ Served(s)
  /\ job[s].at = "clear"
  /\ ClearEntries
  /\ Finish(s)
  /\ Mark
  /\ UNCHANGED <<ctx, hurt, changes, faults>>

(* The INSERT takes effect `times` times: twice when the connection broke   *)
(* after the commit and _run ran the statement again.                       *)
WriteEntry(s, times) ==
  LET e == Entry(job[s].taken, job[s].from)
  IN  /\ entries' = entries \o [n \in 1 .. times |-> e]
      /\ saved' = IF snap = <<>> THEN saved ELSE <<job[s].taken>>
      /\ gap' = (gap \/ snap = <<>>)
      /\ Suffer(When(/\ e.commits # <<>>
                     /\ times > 1 \/ job[s].from < Version(Reopened.log), "repeated")
                  \cup When(gap /\ \A t \in Jobs : job[t].at # "clear", "torn")
                  \cup When(snap = <<>>, "orphaned"))
      /\ UNCHANGED snap

LandAppend(s) ==
  /\ Served(s)
  /\ job[s].at = "append"
  /\ \/ WriteEntry(s, 1) /\ UNCHANGED faults
     \/ RetriesStatements /\ WriteEntry(s, 2) /\ Fault
  /\ Finish(s)
  /\ Mark
  /\ UNCHANGED <<ctx, changes>>

-----------------------------------------------------------------------------
(* SessionStore.delete_session: the snapshot, then the entries *)

StartDelete(s) ==
  /\ job[s].at = "idle"
  /\ ~Awaiting
  /\ job' = [job EXCEPT ![s] = [Idle EXCEPT !.at = "drop", !.owned = TRUE]]
  /\ line' = Append(line, s)
  /\ UNCHANGED <<ctx, marker, storeVars, rolled, hurt, changes, faults>>

DropSnapshot ==
  /\ snap' = <<>>
  /\ saved' = <<>>
  /\ gap' = (entries # <<>>)
  /\ UNCHANGED entries

LandDrop(s) ==
  /\ Served(s)
  /\ job[s].at = "drop"
  /\ DropSnapshot
  /\ Proceed(s, "dropEntries")
  /\ UNCHANGED <<ctx, marker, rolled, hurt, changes, faults>>

LandDropEntries(s) ==
  /\ Served(s)
  /\ job[s].at = "dropEntries"
  /\ ClearEntries
  /\ Finish(s)
  /\ UNCHANGED <<ctx, marker, rolled, hurt, changes, faults>>

-----------------------------------------------------------------------------
(* Cancellation, failure, crash *)

(* The turn is cancelled; asyncio.shield lets its save go on.               *)
Abandon(s) ==
  /\ Fault
  /\ job[s].owned
  /\ job[s].at \in {"get", "count", "set", "clear", "append"}
  /\ job' = [job EXCEPT ![s].owned = FALSE]
  /\ UNCHANGED <<ctx, marker, storeVars, line, rolled, hurt, changes>>

Leave(s) ==
  /\ job' = [job EXCEPT ![s] = Idle]
  /\ \E n \in DOMAIN line : line[n] = s /\ line' = RemoveAt(line, n)

(* An unshielded save or deletion is cancelled, or its call fails: nothing  *)
(* is marked, and the call it was waiting for did not take effect ...       *)
Stop(s) ==
  /\ Fault
  /\ job[s].owned
  /\ Leave(s)
  /\ Suffer(When(job[s].at = "dropEntries" /\ entries # <<>>, "orphaned"))
  /\ UNCHANGED <<ctx, marker, storeVars, rolled, changes>>

(* ... or did, in the thread or the server that had already begun it.       *)
StopTooLate(s) ==
  /\ Fault
  /\ job[s].owned
  /\ Served(s)
  /\ \/ /\ job[s].at = "set"
        /\ WriteSnapshot(job[s].taken)
        /\ UNCHANGED hurt
     \/ /\ job[s].at = "append"
        /\ WriteEntry(s, 1)
     \/ /\ job[s].at \in {"clear", "dropEntries"}
        /\ ClearEntries
        /\ UNCHANGED hurt
     \/ /\ job[s].at = "drop"
        /\ DropSnapshot
        /\ Suffer(When(entries # <<>>, "orphaned"))
  /\ Leave(s)
  /\ UNCHANGED <<ctx, marker, rolled, changes>>

(* The process dies and the session is opened again.                        *)
Crash ==
  /\ Fault
  /\ job' = [s \in Jobs |-> Idle]
  /\ line' = <<>>
  /\ ctx' = Reopened
  /\ marker' = IF snap = <<>> THEN NoMark ELSE MarkOf(Reopened)
  /\ rolled' = FALSE
  /\ Suffer(When(gap /\ snap # <<>>, "torn"))
  /\ UNCHANGED <<storeVars, changes>>

-----------------------------------------------------------------------------
Init ==
  /\ ctx = EmptyContext
  /\ marker = NoMark
  /\ snap = <<>>
  /\ entries = <<>>
  /\ job = [s \in Jobs |-> Idle]
  /\ line = <<>>
  /\ saved = <<>>
  /\ gap = FALSE
  /\ rolled = FALSE
  /\ hurt = {}
  /\ changes = 0
  /\ faults = 0

Application ==
  \/ \E i \in Items, v \in Vals \cup {Absent} : Touch(i, v)
  \/ \E c \in Commits : Commit(c)
  \/ ConsumeEvents
  \/ \E v \in 0 .. MaxCommits : Checkout(v)
  \/ \E keep \in 0 .. MaxCommits : Compact(keep)

Save(s) ==
  \/ LandGet(s)
  \/ LandCount(s)
  \/ LandSet(s)
  \/ LandClear(s)
  \/ LandAppend(s)

Delete(s) ==
  \/ LandDrop(s)
  \/ LandDropEntries(s)

Next ==
  \/ Application
  \/ \E s \in Jobs :
       \/ StartSave(s)
       \/ StartDelete(s)
       \/ Save(s)
       \/ Delete(s)
       \/ Abandon(s)
       \/ Stop(s)
       \/ StopTooLate(s)
  \/ Crash

Spec == Init /\ [][Next]_vars

-----------------------------------------------------------------------------
(* Properties *)

SavedIsLoaded(Reads(_)) ==
  /\ snap = <<>> <=> saved = <<>>
  /\ snap # <<>> => Reads(Loaded) = Reads(saved[1])

(* Reopening a session yields exactly the artifacts and the pending         *)
(* triggers of the last save that completed, whatever mix of snapshot,      *)
(* replayed commits and working tree it is put together from and however    *)
(* saves overlapped or were cut short -- unless one of Hurts came about; an *)
(* entry written twice does no harm here (_persistence.py:27-147).          *)
ReloadIsLastSave ==
  ~gap /\ hurt \subseteq {"repeated"} => SavedIsLoaded(Data)

(* ... and its commit chain: the version, and the state it replays to,      *)
(* which diff, checkout and the next working tree are computed from.        *)
HistoryIsLastSave ==
  ~gap /\ hurt = {} => SavedIsLoaded(History)

(* What the Context takes for saved is saved: no commit at or below the     *)
(* marker is left out of the store, so that no later append can skip one,   *)
(* unless a rollback makes the next save a rewrite (mark_persisted,         *)
(* _persistence.py:50 and 71).                                              *)
MarkedIsStored ==
  hurt = {} /\ snap # <<>> =>
    \/ marker.version <= Version(Loaded.log)
    \/ marker.version > Version(ctx.log)

(* What a session is saved for: its data, its history and the marker that   *)
(* decides what the next save appends (the three parts above).              *)
SessionIsSaved == ReloadIsLastSave /\ HistoryIsLastSave /\ MarkedIsStored

(* A rewrite stopped between the snapshot and clear_entries is repeated by  *)
(* the next save, which must not append to entries older than the snapshot. *)
(* That is so while faults are few.  It fails once several abandoned saves  *)
(* overtake the rewrite: they clear the log it found full, begin it anew    *)
(* and mark, and nothing is left to tell the next save of the one stopped.  *)
StoppedRewriteIsRepeated ==
  faults <= 2 /\ gap /\ hurt = {} =>
    \/ \E s \in Jobs : job[s].at \in {"clear", "dropEntries"}
    \/ RewriteDue \/ NothingStored \/ LogFull

(* compact_every bounds the append log: it is exceeded by no more entries   *)
(* than saves were abandoned, each of which may have counted before the     *)
(* next one appended, and statements run twice (session.py:46-49,           *)
(* _persistence.py:41-46).                                                  *)
EntriesBounded == Len(entries) <= CompactEvery - 1 + faults

-----------------------------------------------------------------------------
(* A promise of the documentation that one of Hurts breaks                  *)

(* "a save writes a snapshot only on the first save, after a compaction, or *)
(* after a rollback" (session.py:39-41): a reopened session does not show   *)
(* history that was rolled back before the last save.                       *)
RollbackIsRewritten ==
  ~gap /\ hurt \subseteq {"hidden"} => SavedIsLoaded(History)
=============================================================================
