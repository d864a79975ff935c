---------------------------- MODULE TraceTables ----------------------------
(***************************************************************************)
(* The tables of a trace store, reactifact/tracing/store.py, and the SQL   *)
(* statements its calls are made of.  TraceStore and PostgresStore         *)
(* interleave them, each in the transactions its driver opens; TraceStores *)
(* says what both promise.                                                 *)
(*                                                                         *)
(* A trace is a number, its started_at: a larger one is of a later turn.   *)
(* Of a span only its place in the trace is kept; notes, colours and the   *)
(* texts of a trace are left out.                                          *)
(***************************************************************************)
EXTENDS Integers, FiniteSets, Sequences

CONSTANTS
  Traces,     \* the traces to be exported
  Sessions,   \* the sessions
  SessionOf,  \* whose turn a trace is of
  SpansOf,    \* how many spans it has
  Tags,       \* names of tags
  MaxRuns     \* max_runs

SpanIds == UNION {{r} \X (1 .. SpansOf[r]) : r \in Traces}

Tables == [runs  : SUBSET Traces,
           spans : SUBSET SpanIds,
           marks : SUBSET (Traces \X Tags),   \* the table run_tags
           tags  : SUBSET Tags]

NoRows == [runs |-> {}, spans |-> {}, marks |-> {}, tags |-> {}]

SpansIn(R) == {s \in SpanIds : s[1] \in R}

(* A bug: ORDER BY started_at, without DESC. *)
NewestAscending(R, n) == {r \in R : Cardinality({q \in R : q < r}) < n}

(* ORDER BY started_at DESC LIMIT n *)
Newest(R, n) == {r \in R : Cardinality({q \in R : q > r}) < n}

(* Every row is of a stored run, with all its spans, or of a known tag.     *)
Whole(db) ==
  /\ db.spans = SpansIn(db.runs)
  /\ db.marks \subseteq db.runs \X db.tags

-----------------------------------------------------------------------------
(* Statements: what they do, to which runs, spans or tags.                  *)

Statement(do, rows) == [do |-> do, rows |-> rows]

Rows ==
  (SUBSET Traces) \cup (SUBSET SpanIds) \cup (SUBSET Tags)
    \cup (SUBSET (Traces \X Tags)) \cup (SUBSET (Tags \X Tags))

Kinds ==
  {"insert_run", "insert_span", "insert_tag", "insert_mark", "delete_runs", "delete_spans",
   "delete_marks", "unmark", "delete_tag", "copy_tag", "drop_doubles", "move_marks",
   "keep_newest", "sweep_spans", "sweep_marks", "select_old"}

Statements == [do : Kinds, rows : Rows \cup Nat]

(* The methods of a store. *)
Methods == {"export", "delete", "prune", "tag", "untag", "rename", "color", "delete_tag"}

Renamed(tag, names) ==
  LET to == {n \in names : n[1] = tag} IN IF to = {} THEN tag ELSE (CHOOSE n \in to : TRUE)[2]

Effect(db, s) ==
  LET rows == s.rows
  IN  CASE s.do = "insert_run"   -> [db EXCEPT !.runs = @ \cup rows]
        [] s.do = "insert_span"  -> [db EXCEPT !.spans = @ \cup rows]
        [] s.do = "insert_tag"   -> [db EXCEPT !.tags = @ \cup rows]
        [] s.do = "insert_mark"  -> [db EXCEPT !.marks = @ \cup rows]
        [] s.do = "delete_runs"  -> [db EXCEPT !.runs = @ \ rows]
        [] s.do = "delete_spans" -> [db EXCEPT !.spans = @ \ SpansIn(rows)]
        [] s.do = "delete_marks" -> [db EXCEPT !.marks = {m \in @ : m[1] \notin rows}]
        [] s.do = "unmark"       -> [db EXCEPT !.marks = @ \ rows]
        [] s.do = "delete_tag"   -> [db EXCEPT !.tags = @ \ rows]
        [] s.do = "copy_tag"     -> [db EXCEPT !.tags = @ \cup
                                       {n[2] : n \in {o \in rows : o[1] \in @}}]
        [] s.do = "move_marks"   ->
             [db EXCEPT !.marks = {<<m[1], Renamed(m[2], rows)>> : m \in @}]
        [] s.do = "keep_newest"  -> [db EXCEPT !.runs = Newest(@, rows)]
        [] s.do = "sweep_spans"  -> [db EXCEPT !.spans = @ \cap SpansIn(db.runs)]
        [] s.do = "sweep_marks"  -> [db EXCEPT !.marks = {m \in @ : m[1] \in db.runs}]

(* The rows of a trace, the run before its spans. *)
InsertTrace(r) ==
  <<Statement("insert_run", {r})>>
    \o [k \in 1 .. SpansOf[r] |-> Statement("insert_span", {<<r, k>>})]

DeleteRuns(R) ==
  <<Statement("delete_spans", R), Statement("delete_marks", R), Statement("delete_runs", R)>>

(* The orders in which the members of a set may come, and one of them.      *)
Orders(S) ==
  {f \in [1 .. Cardinality(S) -> S] : \A i, j \in 1 .. Cardinality(S) : i # j => f[i] # f[j]}

InOrder(S) == CHOOSE f \in Orders(S) : TRUE

(* `existing` is a sequence of runs. *)
AssignTag(existing, tag) ==
  <<Statement("insert_tag", {tag})>>
    \o [k \in DOMAIN existing |-> Statement("insert_mark", {<<existing[k], tag>>})]
=============================================================================
