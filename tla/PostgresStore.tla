--------------------------- MODULE PostgresStore ---------------------------
(***************************************************************************)
(* The Postgres trace sink, reactifact/tracing/postgres.py: every call     *)
(* opens a connection of its own, so its statements are one transaction    *)
(* that ends with commit(), or is dropped with close() when one raises.    *)
(*                                                                         *)
(* The server is external: READ COMMITTED, where a statement sees the      *)
(* committed rows and its own transaction's; row locks, which make a       *)
(* statement wait for the transaction that changes or references the rows  *)
(* it is to change; the foreign keys of _ensure_schema, whose check locks  *)
(* the row referred to.  A wait that closes a circle is broken by failing  *)
(* one of the statements.                                                  *)
(***************************************************************************)
EXTENDS TraceTables

CONSTANTS
  Workers,    \* calls that may be under way at once
  Picks,      \* the runs a reviewer may pick at once
  Starts,     \* what the database may hold already
  MaxCalls,   \* bound on the calls that are not exports
  MaxFaults,  \* bound on the connections lost
  None        \* a worker without a call, a statement that has not started

VARIABLES
  rows,     \* the committed rows
  calls,    \* per worker: its call, with its transaction
  sent,     \* history: the traces whose export began
  stored,   \* history: those whose export has committed
  failed,   \* history: those whose export was dropped
  asked,    \* history: those a deletion was to take
  gone,     \* history: those a deletion that has committed was to take
  used, faults

history == <<sent, stored, failed, asked, gone>>
vars == <<rows, calls, history, used, faults>>

(* rest: the statements to come, then the commit; aim: the rows the first   *)
(* of them found when it started; ins, del, upd: what the transaction has   *)
(* inserted, deleted, and updated in place.                                 *)
Call(op, on, rest) ==
  [op |-> op, on |-> on, rest |-> rest, aim |-> None,
   ins |-> NoRows, del |-> NoRows, upd |-> {}]

Calls ==
  [op : Methods, on : SUBSET Traces, rest : Seq(Statements), aim : Rows \cup {None},
   ins : Tables, del : Tables, upd : SUBSET (Traces \X Tags)]

Busy == {w \in Workers : calls[w] # None}

Others(w) == Busy \ {w}

(* A SELECT; what comes after it depends on what it finds. *)
Select(find, ask) == [do |-> find, rows |-> ask]

-----------------------------------------------------------------------------
(* Calls that begin *)

ExportProgram(r) == InsertTrace(r) \o <<Select("select_old", MaxRuns)>>

Export(w, r) ==
  /\ calls[w] = None /\ r \notin sent
  /\ calls' = [calls EXCEPT ![w] = Call("export", {r}, ExportProgram(r))]
  /\ sent' = sent \cup {r}
  /\ UNCHANGED <<rows, stored, failed, asked, gone, used, faults>>

Begin(w, op, on, program) ==
  /\ calls[w] = None /\ used < MaxCalls
  /\ calls' = [calls EXCEPT ![w] = Call(op, on, program)]
  /\ used' = used + 1
  /\ UNCHANGED <<rows, sent, stored, failed, gone, faults>>

(* delete_run and delete_session select their runs first, and return where  *)
(* there are none.                                                          *)
Delete(w, R) ==
  /\ R # {}
  /\ Begin(w, "delete", R, DeleteRuns(R))
  /\ asked' = asked \cup R

DeleteRun(w, r) == Delete(w, {r} \cap rows.runs)

DeleteSession(w, s) == Delete(w, {r \in rows.runs : SessionOf[r] = s})

PruneTo(w, keep) ==
  /\ Begin(w, "prune", {}, <<Select("select_old", keep)>>)
  /\ UNCHANGED asked

(* A bug: the call goes on where no run was found. *)
TagRunsBlind(w, R, tag) ==
  /\ R # {}
  /\ \E existing \in Orders(R \cap rows.runs) : Begin(w, "tag", R, AssignTag(existing, tag))
  /\ UNCHANGED asked

(* "Only real runs are annotated": the others are left out at once; the     *)
(* server returns the others in any order.                                  *)
TagRuns(w, R, tag) ==
  /\ R \cap rows.runs # {}
  /\ \E existing \in Orders(R \cap rows.runs) : Begin(w, "tag", R, AssignTag(existing, tag))
  /\ UNCHANGED asked

UntagRuns(w, R, tag) ==
  /\ R # {}
  /\ Begin(w, "untag", R, <<Statement("unmark", R \X {tag})>>)
  /\ UNCHANGED asked

RenameProgram(old, new) ==
  <<Statement("copy_tag", {<<old, new>>}), Statement("drop_doubles", {<<old, new>>}),
    Statement("move_marks", {<<old, new>>}), Statement("delete_tag", {old})>>

RenameTag(w, old, new) ==
  /\ old # new
  /\ Begin(w, "rename", {}, RenameProgram(old, new))
  /\ UNCHANGED asked

SetTagColor(w, tag) ==
  /\ Begin(w, "color", {}, <<Statement("insert_tag", {tag})>>)
  /\ UNCHANGED asked

DeleteTag(w, tag) ==
  /\ Begin(w, "delete_tag", {}, <<Statement("delete_tag", {tag})>>)
  /\ UNCHANGED asked

-----------------------------------------------------------------------------
(* The server: what a statement sees, waits for and does *)

Seen(w) ==
  [t \in DOMAIN NoRows |-> (rows[t] \ calls[w].del[t]) \cup calls[w].ins[t]]

(* The rows a statement is to insert, and those of its kind it is to delete *)
(* or replace, as it finds them.                                            *)
Found(w, s) ==
  LET db == Seen(w)
      n  == CHOOSE p \in s.rows : TRUE
      marked(tag) == {m \in db.marks : m[2] = tag}
  IN  CASE s.do \in {"insert_run", "insert_span", "insert_tag", "insert_mark"} -> s.rows
        [] s.do = "copy_tag"     -> IF n[1] \in db.tags THEN {n[2]} ELSE {}
        [] s.do = "delete_runs"  -> s.rows \cap db.runs
        [] s.do = "delete_spans" -> SpansIn(s.rows) \cap db.spans
        [] s.do = "delete_marks" -> {m \in db.marks : m[1] \in s.rows}
        [] s.do = "unmark"       -> s.rows \cap db.marks
        [] s.do = "drop_doubles" -> {m \in marked(n[1]) : <<m[1], n[2]>> \in db.marks}
        [] s.do = "move_marks"   -> marked(n[1])
        [] s.do = "delete_tag"   -> s.rows \cap db.tags
        [] s.do = "select_old"   -> db.runs \ Newest(db.runs, s.rows)

(* Does u's transaction hold a row that s, aiming at `aim`, has to have?    *)
(* Deleting or changing a row; inserting one that another transaction       *)
(* inserts or deletes; a reference to a run or a tag locks it for deletion. *)
Holds(u, s, aim) ==
  LET c == calls[u]
      touched == c.ins.marks \cup c.del.marks \cup c.upd
  IN  CASE s.do \in {"insert_tag", "copy_tag"} ->
             aim \cap (c.ins.tags \cup c.del.tags) # {}
        [] s.do = "insert_mark" ->
             \E m \in aim : m[1] \in c.del.runs \/ m[2] \in c.del.tags \/ m \in touched
        [] s.do \in {"delete_marks", "unmark", "drop_doubles"} -> aim \cap touched # {}
        [] s.do = "move_marks" ->
             \E m \in aim, n \in s.rows :
               m \in touched \/ n[2] \in c.del.tags \/ <<m[1], n[2]>> \in touched
        [] s.do = "delete_runs" ->
             \E r \in aim : r \in c.del.runs \/ \E m \in touched : m[1] = r
        [] s.do = "delete_tag" ->
             \E n \in aim : n \in c.del.tags \/ \E m \in touched : m[2] = n
        [] s.do = "delete_spans" -> aim \cap c.del.spans # {}
        [] OTHER -> FALSE

Running(w) == calls[w] # None /\ calls[w].rest # <<>>

Now(w) == Head(calls[w].rest)

WaitsFor(w) ==
  IF Running(w) /\ calls[w].aim # None
  THEN {u \in Others(w) : Holds(u, Now(w), calls[w].aim)} ELSE {}

(* A foreign key would refer to nothing; a primary key is taken. *)
Dangles(w) ==
  LET db == Seen(w)
  IN  CASE Now(w).do = "insert_mark" ->
             \E m \in calls[w].aim : m[1] \notin db.runs \/ m[2] \notin db.tags
        [] Now(w).do = "move_marks" ->
             \E m \in calls[w].aim \cap db.marks, n \in Now(w).rows : n[2] \notin db.tags
        [] Now(w).do = "delete_runs" -> SpansIn(calls[w].aim) \cap db.spans # {}
        [] OTHER -> FALSE

Clashes(w) ==
  /\ Now(w).do = "move_marks"
  /\ \E m \in calls[w].aim \cap Seen(w).marks, n \in Now(w).rows :
       <<m[1], n[2]>> \in Seen(w).marks

(* The call's record once its statement is through: a deletion takes the    *)
(* rows that refer to it along (ON DELETE CASCADE).                         *)
Put(c, t, new) ==
  [c EXCEPT !.ins[t] = @ \cup (new \ (rows[t] \ c.del[t])), !.rest = Tail(@), !.aim = None]

Take(c, t, old) ==
  [c EXCEPT !.ins[t] = @ \ old, !.del[t] = @ \cup (old \cap rows[t])]

Through(w) ==
  LET c   == calls[w]
      s   == Now(w)
      aim == c.aim
      db  == Seen(w)
      over(d) == [d EXCEPT !.rest = Tail(@), !.aim = None]
  IN  CASE s.do = "insert_run"  -> Put(c, "runs", aim)
        [] s.do = "insert_span" -> Put(c, "spans", aim)
        [] s.do \in {"insert_tag", "copy_tag"} -> Put(c, "tags", aim)
        [] s.do = "insert_mark" -> [Put(c, "marks", aim) EXCEPT !.upd = @ \cup (aim \cap rows.marks)]
        [] s.do = "delete_spans" -> over(Take(c, "spans", aim))
        [] s.do \in {"delete_marks", "unmark", "drop_doubles"} -> over(Take(c, "marks", aim))
        [] s.do = "move_marks" ->
             LET moved == aim \cap db.marks
                 new   == {<<m[1], (CHOOSE n \in s.rows : TRUE)[2]>> : m \in moved}
             IN  Put(Take(c, "marks", moved), "marks", new)
        [] s.do = "delete_runs" ->
             over(Take(Take(c, "runs", aim), "marks", {m \in db.marks : m[1] \in aim}))
        [] s.do = "delete_tag" ->
             over(Take(Take(c, "tags", aim), "marks", {m \in db.marks : m[2] \in aim}))
        [] s.do = "select_old" ->
             [c EXCEPT !.rest = (IF aim = {} THEN <<>> ELSE DeleteRuns(aim)) \o Tail(@),
                       !.aim = None]

-----------------------------------------------------------------------------
(* Calls that go on *)

Start(w) ==
  /\ Running(w) /\ calls[w].aim = None
  /\ calls' = [calls EXCEPT ![w].aim = Found(w, Now(w))]
  /\ UNCHANGED <<rows, history, used, faults>>

Committed(w) ==
  [t \in DOMAIN NoRows |-> (rows[t] \ calls[w].del[t]) \cup calls[w].ins[t]]

(* A bug: autocommit, every statement is a transaction. *)
ExecuteAutocommit(w) ==
  /\ Running(w) /\ calls[w].aim # None
  /\ WaitsFor(w) = {} /\ ~Dangles(w) /\ ~Clashes(w)
  /\ LET c == Through(w)
     IN  /\ rows' = [t \in DOMAIN NoRows |-> (rows[t] \ c.del[t]) \cup c.ins[t]]
         /\ calls' = [calls EXCEPT ![w] = [c EXCEPT !.ins = NoRows, !.del = NoRows, !.upd = {}]]
  /\ UNCHANGED <<history, used, faults>>

Execute(w) ==
  /\ Running(w) /\ calls[w].aim # None
  /\ WaitsFor(w) = {} /\ ~Dangles(w) /\ ~Clashes(w)
  /\ calls' = [calls EXCEPT ![w] = Through(w)]
  /\ asked' = IF calls[w].op = "prune" /\ Now(w).do = "select_old"
              THEN asked \cup calls[w].aim ELSE asked
  /\ UNCHANGED <<rows, sent, stored, failed, gone, used, faults>>

Land(w) ==
  /\ calls[w] # None /\ calls[w].rest = <<>>
  /\ rows' = Committed(w)
  /\ stored' = IF calls[w].op = "export" THEN stored \cup calls[w].on ELSE stored
  /\ gone' = IF calls[w].op = "delete" THEN gone \cup calls[w].on ELSE gone
  /\ calls' = [calls EXCEPT ![w] = None]
  /\ UNCHANGED <<sent, failed, asked, used>>

Commit(w) ==
  /\ Land(w)
  /\ UNCHANGED faults

(* The call raises; close() drops its transaction. *)
Drop(w) ==
  /\ failed' = IF calls[w].op = "export" THEN failed \cup calls[w].on ELSE failed
  /\ calls' = [calls EXCEPT ![w] = None]
  /\ UNCHANGED <<rows, sent, stored, asked, gone, used>>

Refused(w) ==
  /\ Running(w) /\ calls[w].aim # None /\ WaitsFor(w) = {}
  /\ Dangles(w) \/ Clashes(w)
  /\ Drop(w)
  /\ UNCHANGED faults

(* Two that wait for each other: one is chosen to fail. *)
Deadlocked(w) ==
  /\ \E u \in WaitsFor(w) : w \in WaitsFor(u)
  /\ Drop(w)
  /\ UNCHANGED faults

ConnectionLost(w) ==
  /\ calls[w] # None /\ faults < MaxFaults
  /\ faults' = faults + 1
  /\ Drop(w)

(* The commit is done and its answer lost: the call raises all the same.    *)
AnswerLost(w) ==
  /\ faults < MaxFaults
  /\ Land(w)
  /\ faults' = faults + 1

Next ==
  \E w \in Workers :
    \/ \E r \in Traces : Export(w, r) \/ DeleteRun(w, r)
    \/ \E s \in Sessions : DeleteSession(w, s)
    \/ \E keep \in 0 .. MaxRuns : PruneTo(w, keep)
    \/ \E R \in Picks, tag \in Tags : TagRuns(w, R, tag) \/ UntagRuns(w, R, tag)
    \/ \E old, new \in Tags : RenameTag(w, old, new)
    \/ \E tag \in Tags : SetTagColor(w, tag) \/ DeleteTag(w, tag)
    \/ Start(w) \/ Execute(w) \/ Commit(w)
    \/ Refused(w) \/ Deadlocked(w) \/ ConnectionLost(w) \/ AnswerLost(w)

Init ==
  /\ rows \in Starts
  /\ calls = [w \in Workers |-> None]
  /\ sent = rows.runs /\ stored = rows.runs
  /\ failed = {} /\ asked = {} /\ gone = {}
  /\ used = 0 /\ faults = 0
=============================================================================
