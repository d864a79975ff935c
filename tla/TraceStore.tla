----------------------------- MODULE TraceStore -----------------------------
(***************************************************************************)
(* The SQLite trace sink, reactifact/tracing/store.py: one connection,     *)
(* opened with check_same_thread=False, and asyncio.to_thread, which runs  *)
(* a call in whichever worker of the default pool is free.                 *)
(*                                                                         *)
(* A call is the list of its statements; any other worker may have its own *)
(* statement executed between two of them.  They all act on the one open   *)
(* transaction of the connection: what a worker commits is everything that *)
(* was executed since the last commit, and what it rolls back too.  Only   *)
(* an export rolls back when it fails; the statements of another call that *)
(* fails stay in the transaction for whoever commits next.                 *)
(*                                                                         *)
(* A call may fail where a busy file shows (another process has the lock): *)
(* at the first write of a transaction and at its commit; an export also   *)
(* at a span whose text cannot be bound.                                   *)
(***************************************************************************)
EXTENDS TraceTables

CONSTANTS
  Workers,     \* threads of the pool that run calls of the store
  MaxCalls,    \* bound on the calls that are not exports
  MaxFaults,   \* bound on the statements and commits that fail
  MaxCrashes,  \* bound on the crashes of the process
  None         \* a worker without a call

VARIABLES
  disk,      \* the committed rows
  conn,      \* what the connection sees: these and the open transaction
  open,      \* the connection has a transaction open
  calls,     \* per worker: its call
  sent,      \* history: the traces whose export began
  stored,    \* history: those whose export returned
  failed,    \* history: those whose export raised
  asked,     \* history: those a deletion was to take
  gone,      \* history: those a deletion that returned has taken
  used,      \* the calls made that are not exports
  faults, crashes

history == <<sent, stored, failed, asked, gone>>
vars == <<disk, conn, open, calls, history, used, faults, crashes>>

(* op: the method; on: the runs it is for; rest: the statements to come,    *)
(* then comes the commit.  `raising`: an export's `except` is to come.      *)
Call(op, on, rest) == [op |-> op, on |-> on, rest |-> rest, raising |-> FALSE]

(* A SELECT of tag_runs. *)
Finds == [do : {"find"}, rows : SUBSET Traces, tag : Tags]

Calls == [op : Methods, on : SUBSET Traces, rest : Seq(Statements \cup Finds), raising : BOOLEAN]

-----------------------------------------------------------------------------
(* Calls that begin *)

(* _prune_sync: runs first, then the rows that have lost theirs. *)
Prune(keep) ==
  <<Statement("keep_newest", keep), Statement("sweep_spans", {}), Statement("sweep_marks", {})>>

ExportProgram(r) == InsertTrace(r) \o Prune(MaxRuns)

Export(w, r) ==
  /\ calls[w] = None /\ r \notin sent
  /\ calls' = [calls EXCEPT ![w] = Call("export", {r}, ExportProgram(r))]
  /\ sent' = sent \cup {r}
  /\ UNCHANGED <<disk, conn, open, stored, failed, asked, gone, used, faults, crashes>>

Begin(w, op, on, program) ==
  /\ calls[w] = None /\ used < MaxCalls
  /\ calls' = [calls EXCEPT ![w] = Call(op, on, program)]
  /\ used' = used + 1
  /\ UNCHANGED <<disk, conn, open, sent, stored, failed, gone, faults, crashes>>

(* delete_run and delete_session look for their runs first, and return at   *)
(* once where there are none.                                               *)
Delete(w, R) ==
  /\ R # {}
  /\ Begin(w, "delete", R, DeleteRuns(R))
  /\ asked' = asked \cup R

DeleteRun(w, r) == Delete(w, {r} \cap conn.runs)

DeleteSession(w, s) == Delete(w, {r \in conn.runs : SessionOf[r] = s})

PruneTo(w, keep) ==
  /\ Begin(w, "prune", {}, Prune(keep))
  /\ UNCHANGED asked

(* The runs to tag are looked up one by one. *)
TagRuns(w, R, tag) ==
  /\ R # {}
  /\ Begin(w, "tag", R, InOrder({[do |-> "find", rows |-> {r}, tag |-> tag] : r \in R}))
  /\ UNCHANGED asked

UntagRuns(w, R, tag) ==
  /\ R # {}
  /\ Begin(w, "untag", R, <<Statement("unmark", R \X {tag})>>)
  /\ UNCHANGED asked

RenameProgram(old, new) ==
  <<Statement("copy_tag", {<<old, new>>}), Statement("move_marks", {<<old, new>>}),
    Statement("delete_tag", {old})>>

RenameTag(w, old, new) ==
  /\ old # new
  /\ Begin(w, "rename", {}, RenameProgram(old, new))
  /\ UNCHANGED asked

SetTagColor(w, tag) ==
  /\ Begin(w, "color", {}, <<Statement("insert_tag", {tag})>>)
  /\ UNCHANGED asked

DeleteTag(w, tag) ==
  /\ Begin(w, "delete_tag", {}, <<Statement("unmark", Traces \X {tag}),
                                  Statement("delete_tag", {tag})>>)
  /\ UNCHANGED asked

-----------------------------------------------------------------------------
(* Calls that go on *)

Now(w) == Head(calls[w].rest)

Works(w) == calls[w] # None /\ ~calls[w].raising

Writes(w) == Works(w) /\ calls[w].rest # <<>> /\ Now(w).do # "find"

(* What a prune takes was to go by the caller's word or by max_runs. *)
Execute(w) ==
  /\ Writes(w)
  /\ conn' = Effect(conn, Now(w))
  /\ open' = TRUE
  /\ calls' = [calls EXCEPT ![w].rest = Tail(@)]
  /\ asked' = IF calls[w].op = "prune" THEN asked \cup (conn.runs \ conn'.runs) ELSE asked
  /\ UNCHANGED <<disk, sent, stored, failed, gone, used, faults, crashes>>

(* One SELECT of tag_runs; the last one decides what is written, if at all. *)
Find(w) ==
  /\ Works(w) /\ calls[w].rest # <<>> /\ Now(w).do = "find"
  /\ LET rest  == Tail(calls[w].rest)
         found == calls[w].on \ (Now(w).rows \ conn.runs)
     IN  calls' = [calls EXCEPT ![w] =
           IF rest = <<>> /\ found = {} THEN None
           ELSE [@ EXCEPT !.on = found,
                          !.rest = IF rest # <<>> THEN rest
                                   ELSE AssignTag(InOrder(found), Now(w).tag)]]
  /\ UNCHANGED <<disk, conn, open, history, used, faults, crashes>>

(* The call returns. *)
Commit(w) ==
  /\ Works(w) /\ calls[w].rest = <<>>
  /\ disk' = conn
  /\ open' = FALSE
  /\ stored' = IF calls[w].op = "export" THEN stored \cup calls[w].on ELSE stored
  /\ gone' = IF calls[w].op = "delete" THEN gone \cup calls[w].on ELSE gone
  /\ calls' = [calls EXCEPT ![w] = None]
  /\ UNCHANGED <<conn, sent, failed, asked, used, faults, crashes>>

(* The statement, or the commit, raises: an export goes to its `except`,    *)
(* any other call is over.                                                  *)
Raise(w) ==
  /\ faults < MaxFaults
  /\ faults' = faults + 1
  /\ calls' = [calls EXCEPT ![w] =
                 IF @.op = "export" THEN [@ EXCEPT !.raising = TRUE] ELSE None]
  /\ UNCHANGED <<disk, conn, open, history, used, crashes>>

Locked(w) ==
  /\ \/ Writes(w) /\ ~open
     \/ Works(w) /\ calls[w].rest = <<>> /\ open
  /\ Raise(w)

Unbindable(w) ==
  /\ Writes(w) /\ Now(w).do = "insert_span"
  /\ Raise(w)

(* A bug: the exception is passed on and the transaction left open. *)
RollbackForgotten(w) ==
  /\ calls[w] # None /\ calls[w].raising
  /\ failed' = failed \cup calls[w].on
  /\ calls' = [calls EXCEPT ![w] = None]
  /\ UNCHANGED <<disk, conn, open, sent, stored, asked, gone, used, faults, crashes>>

Rollback(w) ==
  /\ calls[w] # None /\ calls[w].raising
  /\ conn' = disk
  /\ open' = FALSE
  /\ failed' = failed \cup calls[w].on
  /\ calls' = [calls EXCEPT ![w] = None]
  /\ UNCHANGED <<disk, sent, stored, asked, gone, used, faults, crashes>>

(* The process dies and another opens the file. *)
Crash ==
  /\ crashes < MaxCrashes
  /\ crashes' = crashes + 1
  /\ conn' = disk
  /\ open' = FALSE
  /\ calls' = [w \in Workers |-> None]
  /\ UNCHANGED <<disk, history, used, faults>>

Next ==
  \/ \E w \in Workers :
       \/ \E r \in Traces : Export(w, r) \/ DeleteRun(w, r)
       \/ \E s \in Sessions : DeleteSession(w, s)
       \/ \E keep \in 0 .. MaxRuns : PruneTo(w, keep)
       \/ \E R \in SUBSET Traces, tag \in Tags : TagRuns(w, R, tag) \/ UntagRuns(w, R, tag)
       \/ \E old, new \in Tags : RenameTag(w, old, new)
       \/ \E tag \in Tags : SetTagColor(w, tag) \/ DeleteTag(w, tag)
       \/ Execute(w) \/ Find(w) \/ Commit(w) \/ Locked(w) \/ Unbindable(w) \/ Rollback(w)
  \/ Crash

Init ==
  /\ disk = NoRows /\ conn = NoRows /\ open = FALSE
  /\ calls = [w \in Workers |-> None]
  /\ sent = {} /\ stored = {} /\ failed = {} /\ asked = {} /\ gone = {}
  /\ used = 0 /\ faults = 0 /\ crashes = 0
=============================================================================
