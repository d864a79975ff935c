--------------------------- MODULE TraceInvariants --------------------------
(***************************************************************************)
(* The invariants behind what TurnTrace and TraceStores promise, as        *)
(* Tracing_proofs proves them, and the vocabulary of those proofs.         *)
(*                                                                         *)
(* A call is told once, and a delivered trace tells what its turn          *)
(* committed.  Both need to know where a call is between its answer and    *)
(* the sinks: CallsPlaced follows the calls, TurnAccounted relates the     *)
(* spans of the turn under way to what its generations did.                *)
(*                                                                         *)
(* A trace that was deleted, or whose export failed, does not come back.   *)
(* That needs to know who may still insert a trace: SQLiteInv keeps apart  *)
(* the traces that can only go (Shown) from those whose export is about to *)
(* insert them; PgKept the traces whose export is over (Past) from those   *)
(* a transaction may still commit.                                         *)
(*                                                                         *)
(* Stored traces are whole.  Between two statements they are not, so       *)
(* WholeInv says what each call has still to put right: with SQLite on the *)
(* shared connection (Owes, Promised), with Postgres in its transaction    *)
(* (PgSound), and what the row locks keep apart (Barred).                  *)
(*                                                                         *)
(* Retention holds.  An export inserts, then prunes, so RetainedInv says   *)
(* what is still to go: of SQLite's connection, that too many runs are     *)
(* there only while a call has to prune (SQLiteKept), and of its committed *)
(* rows that they are few (DiskKept); of Postgres, for every set of        *)
(* exports that know what they prune, how many runs their commits would    *)
(* leave (PgRetains).                                                      *)
(***************************************************************************)
EXTENDS TurnTrace, TraceStores

Names == Agents \cup {Nobody}

Execs == Nat \X Nat \X Nat

SpanRecs == [exec : Execs, agent : Agents, llm_calls : Seq(Nat), error : BOOLEAN]

CallRecs == [exec : Execs, agent : Agents, spawned : BOOLEAN]

TraceRecs == [turn : Nat, spans : Seq(SpanRecs), trace_truncated : BOOLEAN]

TypeOK ==
  /\ turn \in Nat /\ gens \in Nat /\ told \in Nat /\ next \in Nat \ {0}
  /\ phase \in {"idle", "open", "agents", "record", "apply", "ending"}
  /\ work \in Seq(Agents)
  /\ at \in [DOMAIN work -> {"running", "patch", "empty", "error", "raised", "dropped"}]
  /\ pending \in [Names -> Seq(Nat)]
  /\ spans \in Seq(SpanRecs) /\ truncated \in BOOLEAN
  /\ calls \in Seq(CallRecs) /\ commits \subseteq Execs
  /\ sunk \in [DOMAIN Sinks -> Seq(TraceRecs)]
  /\ lost \subseteq [exec : Execs, agent : Agents]

-----------------------------------------------------------------------------
(* Where the calls are *)

(* What waits under a name was made by the task registered for that agent,  *)
(* or by a task that is registered for none.                                *)
InPlace ==
  \A a \in Names : \A c \in ToSet(pending[a]) :
    /\ c \in DOMAIN calls
    /\ calls[c].spawned = (a = Nobody)
    /\ a # Nobody => calls[c].agent = a

Waits(c, buffers) == \E a \in Names : c \in ToSet(buffers[a])

(* The spans ss tell no call twice, none that still waits, and each under   *)
(* its agent.                                                               *)
TellOnce(ss, made, buffers) ==
  /\ \A k \in DOMAIN ss : \A c \in ToSet(ss[k].llm_calls) :
       c \in DOMAIN made /\ made[c].agent = ss[k].agent /\ ~Waits(c, buffers)
  /\ \A k, l \in DOMAIN ss :
       k # l => ToSet(ss[k].llm_calls) \cap ToSet(ss[l].llm_calls) = {}

Apart(ss, tt) == CallsIn(ss) \cap CallsIn(tt) = {}

(* Sink s may still be given the spans of the turn under way. *)
ToldLater(s) == phase # "idle" /\ (phase = "ending" => told < s)

CallsPlaced ==
  /\ InPlace
  /\ TellOnce(spans, calls, pending)
  /\ \A s \in DOMAIN Sinks :
       /\ \A k \in DOMAIN sunk[s] : TellOnce(sunk[s][k].spans, calls, pending)
       /\ \A k, l \in DOMAIN sunk[s] : k # l => Apart(sunk[s][k].spans, sunk[s][l].spans)
       /\ ToldLater(s) => \A k \in DOMAIN sunk[s] : Apart(spans, sunk[s][k].spans)

-----------------------------------------------------------------------------
(* What the turn has told so far *)

Seen(ss) == {ss[k].exec : k \in DOMAIN ss}

(* The calls that the tasks of the executions in ss made are in ss, but for *)
(* those lost with a span in missed.                                        *)
TellsCalls(ss, made, missed) ==
  \A c \in DOMAIN made :
    made[c].exec \in Seen(ss) /\ ~made[c].spawned => c \in CallsIn(ss) \/ LostWith(made[c], missed)

(* TraceTellsTurn of one trace. *)
TraceTells(tr, made, done, missed) ==
  /\ \A k \in DOMAIN tr.spans : ~tr.spans[k].error => tr.spans[k].exec \in done
  /\ ~tr.trace_truncated =>
       /\ {x \in done : x[1] = tr.turn} \subseteq Seen(tr.spans) \cup LostExecs(missed)
       /\ TellsCalls(tr.spans, made, missed)

(* Nothing is of a turn or a generation that is yet to come; and until the  *)
(* present generation has results, there is no span of it.                  *)
SpansOfTurn ==
  \A k \in DOMAIN spans :
    /\ spans[k].exec[1] = turn /\ spans[k].exec[2] <= gens
    /\ phase = "agents" => spans[k].exec[2] < gens

PastOnly ==
  /\ \A x \in commits : x[1] <= turn
  /\ \A c \in DOMAIN calls : calls[c].exec[2] <= gens

(* A span without an error is of an execution that has committed, or whose  *)
(* turn to be applied is yet to come in this generation.                    *)
SpanIsCommitted ==
  phase # "idle" =>
    \A k \in DOMAIN spans :
      \/ spans[k].error \/ spans[k].exec \in commits
      \/ \E i \in DOMAIN work :
           /\ spans[k].exec = Exec(i) /\ at[i] = "patch"
           /\ \/ phase = "record" /\ i < next
              \/ phase = "apply" /\ next <= i

(* While nothing was cut off: the commits of the turn, and the patches of   *)
(* this generation that are through record_span, have or lost their spans.  *)
CommitIsSeen ==
  phase # "idle" /\ ~truncated =>
    /\ {x \in commits : x[1] = turn} \subseteq Seen(spans) \cup LostExecs(lost)
    /\ \A i \in DOMAIN work :
         /\ at[i] = "patch"
         /\ phase = "apply" \/ (phase = "record" /\ i < next)
         => Exec(i) \in Seen(spans) \cup LostExecs(lost)

(* And the calls of this generation wait for their span, are in one or went *)
(* with one that was lost.                                                  *)
CallIsSeen ==
  phase # "idle" /\ ~truncated =>
    /\ TellsCalls(spans, calls, lost)
    /\ phase \in {"agents", "record"} =>
         \A c \in DOMAIN calls : \A i \in DOMAIN work :
           calls[c].exec = Exec(i) /\ ~calls[c].spawned =>
             c \in ToSet(pending[work[i]]) \cup CallsIn(spans) \/ LostWith(calls[c], lost)

(* The traces of earlier turns, and of this one if it is over. *)
TracesTell ==
  \A s \in DOMAIN Sinks : \A k \in DOMAIN sunk[s] :
    LET tr == sunk[s][k]
    IN  /\ tr.turn <= turn
        /\ tr.turn = turn => phase \in {"idle", "ending"}
        /\ \A l \in DOMAIN tr.spans : tr.spans[l].exec[1] = tr.turn
        /\ TraceTells(tr, calls, commits, lost)

TurnAccounted ==
  SpansOfTurn /\ PastOnly /\ SpanIsCommitted /\ CommitIsSeen /\ CallIsSeen /\ TracesTell

Inv == TypeOK /\ CallsPlaced /\ TurnAccounted

-----------------------------------------------------------------------------
(* The programs of the SQLite stores *)

Sweeping(n) ==
  <<Statement("keep_newest", n), Statement("sweep_spans", {}), Statement("sweep_marks", {})>>

Exporting(r) == InsertTrace(r) \o Sweeping(MaxRuns)

Renaming(old, new) ==
  <<Statement("copy_tag", {<<old, new>>}), Statement("move_marks", {<<old, new>>}),
    Statement("delete_tag", {old})>>

Dropping(tag) == <<Statement("unmark", Traces \X {tag}), Statement("delete_tag", {tag})>>

Join(S, s, m, t, n) ==
  /\ s \o t \in Seq(S) /\ Len(s \o t) = m + n
  /\ \A i \in 1 .. m : (s \o t)[i] = s[i]
  /\ \A i \in 1 .. n : (s \o t)[i + m] = t[i]

-----------------------------------------------------------------------------
(* Nothing comes back: the invariant of the SQLite stores.                  *)

(* What a store's connection may be told to do. *)
Known == Kinds \ {"drop_doubles", "select_old"}

Shaped(db) == DOMAIN db = {"runs", "spans", "marks", "tags"}

(* A run is inserted by the first statement of its export and no other; the *)
(* last of a deletion takes its runs away.                                  *)
Programmed(op, on, rest) ==
  /\ \A i \in 1 .. Len(rest) :
       /\ rest[i].do \in Known \/ (op = "tag" /\ rest[i].do = "find")
       /\ rest[i].do = "insert_run" => i = 1 /\ op = "export" /\ rest[i].rows = on
  /\ op = "delete" /\ rest # <<>> =>
       rest[Len(rest)].do = "delete_runs" /\ rest[Len(rest)].rows = on

Awaits(c, r) == c.rest # <<>> /\ Head(c.rest).do = "insert_run" /\ r \in c.on

(* The traces that can only go: no call is going to insert them. *)
Shown ==
  {r \in sent : \A w \in DOMAIN active : active[w] # None => ~Awaits(active[w], r)}

CallKept(c) ==
  /\ Programmed(c.op, c.on, c.rest)
  /\ c.op = "export" => c.on \subseteq sent
  /\ c.op = "delete" => c.on \subseteq Shown /\ (c.rest = <<>> => c.on \cap conn.runs = {})
  /\ c.raising => c.op = "export"

Exports(w, r) == active[w] # None /\ active[w].op = "export" /\ r \in active[w].on

Alike(W) ==
  /\ Shaped(disk) /\ Shaped(conn)
  /\ active \in [W -> Alone!Calls \cup {None}]
  /\ sent \in SUBSET Traces

NoneBack(W) ==
  /\ gone \cup failed \subseteq Shown
  /\ conn.runs \cup disk.runs \subseteq Shown
  /\ \A r \in gone \cup failed : r \notin conn.runs /\ r \notin disk.runs
  /\ \A w \in W : active[w] # None => CallKept(active[w])
  /\ \A w, u \in W, r \in Traces : Exports(w, r) /\ Exports(u, r) => w = u

SQLiteInv(W) == Alike(W) /\ NoneBack(W)

(* A program without an insertion of a run. *)
Quiet(op, prog) ==
  /\ prog \in Seq(Statements \cup Alone!Finds)
  /\ \A i \in 1 .. Len(prog) :
       prog[i].do # "insert_run" /\ (prog[i].do \in Known \/ (op = "tag" /\ prog[i].do = "find"))

(* Worker w's call becomes c: what of the invariant is left to be shown. *)
Turns(W, w, c) ==
  /\ c \in Alone!Calls \cup {None} /\ active' = [active EXCEPT ![w] = c]
  /\ Shaped(disk') /\ Shaped(conn') /\ sent' \in SUBSET Traces /\ sent \subseteq sent'
  /\ \A r \in Shown : c # None => ~Awaits(c, r)
  /\ Shown \subseteq Shown' =>
       /\ gone' \cup failed' \subseteq Shown'
       /\ conn'.runs \cup disk'.runs \subseteq Shown'
       /\ c # None /\ c.op = "delete" => c.on \subseteq Shown'
  /\ \A r \in gone' \cup failed' : r \notin conn'.runs /\ r \notin disk'.runs
  /\ \A r \in conn'.runs : r \in Shown => r \in conn.runs
  /\ c # None => /\ Programmed(c.op, c.on, c.rest)
                 /\ c.op = "export" => c.on \subseteq sent'
                 /\ c.op = "delete" /\ c.rest = <<>> => c.on \cap conn'.runs = {}
                 /\ c.raising => c.op = "export"
  /\ \A u \in W, r \in Traces : u # w /\ c # None /\ c.op = "export" /\ r \in c.on => ~Exports(u, r)

-----------------------------------------------------------------------------
(* The steps of both SQLite stores *)

Shared(w) ==
  \/ \E r \in Traces : Alone!Export(w, r) \/ Alone!DeleteRun(w, r)
  \/ \E s \in Sessions : Alone!DeleteSession(w, s)
  \/ \E n \in 0 .. MaxRuns : Alone!PruneTo(w, n)
  \/ \E R \in SUBSET Traces, t \in Tags : Alone!TagRuns(w, R, t) \/ Alone!UntagRuns(w, R, t)
  \/ \E o, n \in Tags : Alone!RenameTag(w, o, n)
  \/ \E t \in Tags : Alone!SetTagColor(w, t) \/ Alone!DeleteTag(w, t)
  \/ Alone!Execute(w) \/ Alone!Find(w) \/ Alone!Commit(w)

(* What such a step makes of its worker's call. *)
GoesOn(w) ==
  /\ faults' = faults /\ crashes' = crashes
  /\ \E c : /\ active' = [active EXCEPT ![w] = c]
            /\ c = None \/ ~c.raising
            /\ c = None \/ c.op # "export" \/ \A r \in c.on : Exports(w, r) \/ r \notin sent
            /\ c = None \/ disk' = disk

AloneApart == \A w \in Single, r \in Traces : Exports(w, r) => r \notin disk.runs

PoolCalm ==
  /\ \A w \in Several : active[w] # None => ~active[w].raising
  /\ faults \in Nat /\ crashes \in Nat

-----------------------------------------------------------------------------
(* Nothing comes back: the Postgres store.  What a transaction inserts is   *)
(* its export's own, and a deletion deletes every run it was for that is    *)
(* stored by then.                                                          *)

PgKnown == Kinds \ {"keep_newest", "sweep_spans", "sweep_marks"}

(* The order of a call's statements. *)
Ordered(op, on, rest) ==
  /\ \A i \in 1 .. Len(rest) :
       /\ rest[i].do \in PgKnown
       /\ rest[i].do = "insert_run" => op = "export" /\ rest[i].rows = on
       /\ rest[i].do = "select_old" => i = Len(rest) /\ op # "delete"
       /\ op = "delete" /\ rest[i].do = "delete_runs" => rest[i].rows = on
  /\ op = "delete" /\ rest # <<>> => rest[Len(rest)].do = "delete_runs"

PgShape(c) ==
  /\ DOMAIN c = {"op", "on", "rest", "aim", "ins", "del", "upd"}
  /\ Shaped(c.ins) /\ Shaped(c.del)

PgCall(c) ==
  /\ PgShape(c) /\ c.on \in SUBSET Traces /\ c.rest \in Seq(Statements)
  /\ Ordered(c.op, c.on, c.rest)
  /\ \A r \in c.ins.runs : c.op = "export" /\ r \in c.on
  /\ c.rest # <<>> /\ c.aim # None =>
       /\ Head(c.rest).do = "insert_run" => c.aim = c.on
       /\ Head(c.rest).do = "select_old" => c.aim \in SUBSET Traces

(* A deletion has deleted its runs, or is about to. *)
Deletes(c, db) ==
  c.op = "delete" =>
    /\ c.rest = <<>> => \A r \in c.on : r \in db.runs => r \in c.del.runs
    /\ c.rest # <<>> /\ c.aim # None /\ Head(c.rest).do = "delete_runs" =>
         \A r \in c.on : r \in db.runs => r \in c.aim \/ r \in c.del.runs

(* The traces whose export is over, one way or the other. *)
Past == {r \in sent : \A u \in DOMAIN active : ~Exports(u, r)}

PgKept ==
  /\ Shaped(disk) /\ DOMAIN active = Several /\ sent \in SUBSET Traces
  /\ gone \cup failed \subseteq Past /\ disk.runs \subseteq Past
  /\ \A r \in gone \cup failed : r \notin disk.runs
  /\ \A w \in Several : active[w] # None =>
       /\ PgCall(active[w]) /\ Deletes(active[w], disk)
       /\ active[w].op = "export" => active[w].on \subseteq sent
       /\ active[w].op = "delete" => active[w].on \subseteq Past
  /\ \A w, u \in Several, r \in Traces : Exports(w, r) /\ Exports(u, r) => w = u

TableNames == {"runs", "spans", "marks", "tags"}

(* What a statement that goes through makes of its call. *)
GoneThrough(c, s, d) ==
  /\ PgShape(d) /\ d.op = c.op /\ d.on = c.on /\ d.aim = None
  /\ s.do # "select_old" => d.rest = Tail(c.rest)
  /\ s.do = "select_old" => d.rest = (IF c.aim = {} THEN <<>> ELSE DeleteRuns(c.aim)) \o Tail(c.rest)
  /\ s.do \notin {"insert_run", "delete_runs"} => d.ins.runs = c.ins.runs /\ d.del.runs = c.del.runs
  /\ s.do = "insert_run" => /\ d.ins.runs = c.ins.runs \cup (c.aim \ (disk.runs \ c.del.runs))
                            /\ d.del.runs = c.del.runs
  /\ s.do = "delete_runs" => /\ d.ins.runs = c.ins.runs \ c.aim
                             /\ d.del.runs = c.del.runs \cup (c.aim \cap disk.runs)

(* The first of a call's statements, and those after it. *)
OrderedOn(op, on, rest) ==
  /\ Ordered(op, on, Tail(rest))
  /\ Head(rest).do \in PgKnown
  /\ Head(rest).do = "insert_run" => op = "export" /\ Head(rest).rows = on
  /\ Head(rest).do = "select_old" => Tail(rest) = <<>> /\ op # "delete"
  /\ op = "delete" /\ Head(rest).do = "delete_runs" => Head(rest).rows = on
  /\ op = "delete" /\ Tail(rest) = <<>> => Head(rest).do = "delete_runs"

(* A program that inserts and looks for no run. *)
Plain(prog) ==
  /\ prog \in Seq(Statements)
  /\ \A i \in 1 .. Len(prog) :
       /\ prog[i].do \in PgKnown /\ prog[i].do # "insert_run"
       /\ prog[i].do = "select_old" => i = Len(prog)

PgNew(c, op, on, prog) ==
  /\ PgCall(c) /\ c.op = op /\ c.on = on /\ c.rest = prog /\ c.aim = None
  /\ prog # <<>> => \A db : Deletes(c, db)

PgOthers(w) ==
  \/ \E n \in 0 .. MaxRuns : Postgres!PruneTo(w, n)
  \/ \E R \in SUBSET Traces, t \in Tags : Postgres!TagRuns(w, R, t) \/ Postgres!UntagRuns(w, R, t)
  \/ \E o, n \in Tags : Postgres!RenameTag(w, o, n)
  \/ \E t \in Tags : Postgres!SetTagColor(w, t) \/ Postgres!DeleteTag(w, t)

-----------------------------------------------------------------------------
(* Nothing comes back, in whichever store *)

BackInv ==
  /\ store \in {"alone", "pool", "postgres"}
  /\ store = "alone" => SQLiteInv(Single) /\ AloneApart
  /\ store = "pool" => SQLiteInv(Several) /\ PoolCalm
  /\ store = "postgres" => PgKept

-----------------------------------------------------------------------------
(* Stored whole: what each call has still to put right before it commits,   *)
(* in the order of its statements.                                          *)

(* The statements a call has still to execute. *)
Ahead(rest) == {rest[i] : i \in 1 .. Len(rest)}

Later(rest, i) == {rest[j] : j \in {k \in 1 .. Len(rest) : k > i}}

(* What each method's statements do, in the SQLite stores. *)
Does ==
  [export     |-> {"insert_run", "insert_span", "keep_newest", "sweep_spans", "sweep_marks"},
   delete     |-> {"delete_spans", "delete_marks", "delete_runs"},
   prune      |-> {"keep_newest", "sweep_spans", "sweep_marks"},
   tag        |-> {"find", "insert_tag", "insert_mark"},
   untag      |-> {"unmark"},
   rename     |-> {"copy_tag", "move_marks", "delete_tag"},
   color      |-> {"insert_tag"},
   delete_tag |-> {"unmark", "delete_tag"}]

(* What a statement says of the rows, and of the statements after it; and   *)
(* which may come before it.                                                *)
Fits(s, then, on) ==
  /\ s.do = "insert_run" => \A x \in SpansIn(on) : Statement("insert_span", {x}) \in then
  /\ s.do = "insert_span" => (\E x \in SpanIds : s.rows = {x}) /\ (\E d \in then : d.do = "sweep_spans")
  /\ s.do = "keep_newest" => (\E d \in then : d.do = "sweep_spans") /\ (\E d \in then : d.do = "sweep_marks")
  /\ s.do = "delete_spans" => s.rows = on /\ (\E d \in then : d.do = "delete_runs")
  /\ s.do = "delete_marks" => s.rows = on
  /\ s.do = "delete_runs" => s.rows = on /\ then = {}
  /\ s.do = "copy_tag" => \E o, n \in Tags : s.rows = {<<o, n>>}
  /\ s.do = "move_marks" => \E o, n \in Tags : o # n /\ s.rows = {<<o, n>>}
  /\ s.do = "delete_tag" => \E t \in Tags : s.rows = {t}
  /\ s.do = "insert_mark" => \E m \in Traces \X Tags : s.rows = {m}
  /\ \A d \in then : d.do = "find" <=> s.do = "find"

Follows(p, s) ==
  /\ s.do = "move_marks" => p = Statement("copy_tag", s.rows)
  /\ s.do = "delete_tag" =>
       \E t \in Tags : /\ s.rows = {t}
                       /\ \/ p = Statement("unmark", Traces \X {t})
                          \/ \E n \in Tags : n # t /\ p = Statement("move_marks", {<<t, n>>})

Orderly(op, on, rest) ==
  \A i \in 1 .. Len(rest) :
    rest[i].do \in Does[op] /\ Fits(rest[i], Later(rest, i), on) /\ (i > 1 => Follows(rest[i - 1], rest[i]))

(* What a call has still to put right.  On: its runs; ahead: its statements *)
(* to come; head: the first of them.                                        *)
Todo(ahead, do) == \E d \in ahead : d.do = do

OweSpans(on, ahead, db) ==
  \A x \in SpansIn(db.runs) :
    \/ x \in db.spans \/ Statement("insert_span", {x}) \in ahead
    \/ Todo(ahead, "delete_runs") /\ x[1] \in on

OweSweep(ahead, db) ==
  /\ \A x \in db.spans : x[1] \in db.runs \/ Todo(ahead, "sweep_spans")
  /\ \A m \in db.marks : m[2] \in db.tags /\ (m[1] \in db.runs \/ Todo(ahead, "sweep_marks"))

OweDelete(on, ahead, db) ==
  Todo(ahead, "delete_runs") =>
    /\ \A x \in db.spans : x[1] \notin on \/ Todo(ahead, "delete_spans")
    /\ \A m \in db.marks : m[1] \notin on \/ Todo(ahead, "delete_marks")

OweTags(ahead, head, db) ==
  ahead # {} =>
    /\ head.do = "delete_tag" => \A m \in db.marks : m[2] \notin head.rows
    /\ head.do = "move_marks" => \A n \in head.rows : n[1] \in db.tags => n[2] \in db.tags

OweMarks(on, ahead, head, db) ==
  /\ \A d \in ahead : d.do = "insert_mark" =>
       \A m \in d.rows : m[1] \in db.runs /\ (m[2] \in db.tags \/ head = Statement("insert_tag", {m[2]}))
  /\ Todo(ahead, "find") => \A r \in on : r \in db.runs \/ \E d \in ahead : d.rows = {r}

Owed(on, ahead, head, db) ==
  /\ OweSpans(on, ahead, db) /\ OweSweep(ahead, db) /\ OweDelete(on, ahead, db)
  /\ OweTags(ahead, head, db) /\ OweMarks(on, ahead, head, db)

Owes(c, db) == Owed(c.on, Ahead(c.rest), Head(c.rest), db)

Typed(db) == db.spans \subseteq SpanIds /\ db.marks \subseteq Traces \X Tags

OrderlyCalls(W) == \A w \in W : active[w] # None => Orderly(active[w].op, active[w].on, active[w].rest)

AloneWhole ==
  /\ Typed(conn) /\ Typed(disk) /\ Whole(disk) /\ (open \/ conn = disk)
  /\ \A w \in Single :
       /\ active[w] = None => Whole(conn)
       /\ active[w] # None /\ ~active[w].raising => Owes(active[w], conn)

Promised(x) ==
  \E w \in Several :
    /\ active[w] # None
    /\ \/ Statement("insert_span", {x}) \in Ahead(active[w].rest)
       \/ x[1] \in active[w].on /\ \E d \in Ahead(active[w].rest) : d.do = "delete_runs"

PoolWhole ==
  /\ \A x \in SpansIn(conn.runs) : x \in conn.spans \/ Promised(x)
  /\ disk # conn => \E w \in Several : active[w] # None /\ \A d \in Ahead(active[w].rest) : d.do # "find"

-----------------------------------------------------------------------------
(* The statements ahead *)

(* The first of a call's statements, and those after it. *)
Foremost(op, on, rest) ==
  /\ Head(rest).do \in Does[op] /\ Fits(Head(rest), Ahead(Tail(rest)), on)
  /\ Tail(rest) # <<>> => Follows(Head(rest), Head(Tail(rest)))

-----------------------------------------------------------------------------
(* The programs of the SQLite stores are in order *)

(* A program as its call begins. *)
Opens(op, on, prog) ==
  /\ Orderly(op, on, prog) /\ prog # <<>>
  /\ Head(prog).do \notin {"delete_tag", "move_marks"}
  /\ \A d \in Ahead(prog) : d.do # "insert_mark"
  /\ op = "delete" => \A do \in {"delete_spans", "delete_marks"} : \E d \in Ahead(prog) : d.do = do
  /\ op = "tag" => \A r \in on : \E d \in Ahead(prog) : d.do = "find" /\ d.rows = {r}

(* The statements of a tagging: the tag first, then the marks. *)
Tagging(p, on, R, t) ==
  /\ Orderly("tag", on, p) /\ p \in Seq(Statements)
  /\ p # <<>> /\ Head(p) = Statement("insert_tag", {t})
  /\ \A d \in Ahead(p) : \/ d = Statement("insert_tag", {t})
                        \/ \E r \in R : d = Statement("insert_mark", {<<r, t>>})

-----------------------------------------------------------------------------
(* What a statement changes *)

Changed(db, e, t, new) ==
  Shaped(e) /\ e[t] = new /\ \A u \in TableNames : u # t => e[u] = db[u]

-----------------------------------------------------------------------------
(* Calls of the SQLite stores, and what they have still to put right *)

(* Worker w begins a call. *)
Begun(w) ==
  /\ active[w] = None
  /\ disk' = disk /\ conn' = conn /\ open' = open
  /\ \E op \in Methods, on \in SUBSET Traces, prog \in Seq(Statements \cup Alone!Finds) :
       Opens(op, on, prog) /\ active' = [active EXCEPT ![w] = Alone!Call(op, on, prog)]

(* What one worker's call promises the others. *)
Promises(c, x) ==
  \/ Statement("insert_span", {x}) \in Ahead(c.rest)
  \/ x[1] \in c.on /\ \E d \in Ahead(c.rest) : d.do = "delete_runs"

-----------------------------------------------------------------------------
(* The same of the Postgres store: every call is a transaction of its own.  *)
PgDoes ==
  [export     |-> {"insert_run", "insert_span", "select_old", "delete_spans", "delete_marks", "delete_runs"},
   delete     |-> {"delete_spans", "delete_marks", "delete_runs"},
   prune      |-> {"select_old", "delete_spans", "delete_marks", "delete_runs"},
   tag        |-> {"insert_tag", "insert_mark"},
   untag      |-> {"unmark"},
   rename     |-> {"copy_tag", "drop_doubles", "move_marks", "delete_tag"},
   color      |-> {"insert_tag"},
   delete_tag |-> {"delete_tag"}]

PgFits(s, then, on) ==
  /\ s.do = "insert_run" => \A x \in SpansIn(on) : Statement("insert_span", {x}) \in then
  /\ s.do = "insert_span" => \E x \in SpanIds : s.rows = {x} /\ x[1] \in on
  /\ s.do = "delete_spans" => \E d \in then : d.do = "delete_runs" /\ d.rows = s.rows
  /\ s.do \in {"delete_runs", "delete_tag", "select_old"} => then = {}
  /\ s.do = "move_marks" => \E o, n \in Tags : s.rows = {<<o, n>>}
  /\ s.do = "insert_mark" => \E m \in Traces \X Tags : s.rows = {m}
  /\ \A d \in then : d.do # "insert_run"

PgOrderly(op, on, rest) ==
  \A i \in 1 .. Len(rest) : rest[i].do \in PgDoes[op] /\ PgFits(rest[i], Later(rest, i), on)

(* The rows a transaction has changed, or has a reference in. *)
Touched(c) == c.ins.marks \cup c.del.marks \cup c.upd

Leaves(ahead, r) == \E d \in ahead : d.do = "delete_runs" /\ r \in d.rows

(* What a transaction is to insert and to delete together. *)
PgSpans(c, ahead, head) ==
  /\ c.ins.spans \subseteq SpanIds
  /\ \A x \in SpanIds : x[1] \in c.del.runs => x \in c.del.spans
  /\ \A x \in c.ins.spans : x[1] \in c.ins.runs
  /\ \A d \in ahead : d.do = "insert_span" => head.do = "insert_run" \/ \A x \in d.rows : x[1] \in c.ins.runs
  /\ \A x \in SpansIn(c.ins.runs) :
       x \in c.ins.spans \/ Statement("insert_span", {x}) \in ahead \/ Leaves(ahead, x[1])
  /\ \A x \in c.del.spans : x[1] \in c.del.runs \/ Leaves(ahead, x[1])

PgMarks(c) ==
  /\ c.ins.marks \subseteq Traces \X Tags
  /\ \A m \in c.ins.marks : m[1] \notin c.del.runs /\ m[2] \notin c.del.tags

(* It deletes rows that are there, and refers to such rows. *)
PgMeets(c, db) ==
  /\ c.del.runs \subseteq db.runs /\ c.del.spans \subseteq db.spans
  /\ \A m \in c.ins.marks : m[1] \in db.runs \cup c.ins.runs /\ m[2] \in db.tags \cup c.ins.tags
  /\ \A m \in db.marks : m[1] \in c.del.runs \/ m[2] \in c.del.tags => m \in c.del.marks

(* What the statement that has started aims at. *)
PgAims(c, head) ==
  /\ c.del.runs = {} /\ c.del.tags = {}
  /\ c.aim # None =>
       /\ head.do \in {"insert_span", "insert_mark"} => c.aim = head.rows
       /\ head.do = "delete_spans" => \A x \in c.aim : x[1] \in head.rows
       /\ head.do = "delete_runs" =>
            \A r \in head.rows : r \in c.ins.runs \/ (\E x \in c.del.spans : x[1] = r) => r \in c.aim

PgSound(c, db) ==
  /\ c.op \in Methods /\ PgOrderly(c.op, c.on, c.rest)
  /\ PgSpans(c, Ahead(c.rest), Head(c.rest)) /\ PgMarks(c) /\ PgMeets(c, db)
  /\ c.rest # <<>> => PgAims(c, Head(c.rest))

(* What row locks keep apart: d neither deletes nor refers to what c        *)
(* deletes.                                                                 *)
Barred(c, d) ==
  /\ \A x \in c.del.spans : x \notin d.del.spans
  /\ \A r \in c.del.runs : r \notin d.del.runs
  /\ \A m \in Touched(d) : m[1] \notin c.del.runs /\ m[2] \notin c.del.tags

PgWhole ==
  /\ Whole(disk)
  /\ \A w \in Several : active[w] # None => PgSound(active[w], disk)
  /\ \A w, u \in Several : w # u /\ active[w] # None /\ active[u] # None => Barred(active[w], active[u])

WholeInv ==
  /\ store = "alone" => OrderlyCalls(Single) /\ AloneWhole
  /\ store = "pool" => OrderlyCalls(Several) /\ PoolWhole
  /\ store = "postgres" => PgWhole

-----------------------------------------------------------------------------
(* The Postgres store's programs *)

(* A program as its call begins. *)
PgOpens(op, on, prog) ==
  /\ PgOrderly(op, on, prog) /\ prog # <<>>
  /\ op = "export" => Head(prog).do = "insert_run"

-----------------------------------------------------------------------------
(* What a statement makes of a transaction *)

(* A transaction that is to execute s, and then the others. *)
PgReady(c, s, then, db) ==
  /\ Whole(db) /\ db.runs \subseteq Traces /\ c.aim # None
  /\ PgSpans(c, {s} \cup then, s) /\ PgMarks(c) /\ PgMeets(c, db) /\ PgAims(c, s)
  /\ PgFits(s, then, c.on)
  /\ \A r \in c.ins.runs : r \notin db.runs
  /\ s.do = "insert_run" => c.aim = c.on /\ \A r \in c.on : r \notin db.runs

(* Once it has. *)
PgDone(d, then, db) ==
  /\ \A after : PgSpans(d, then, after)
  /\ PgMarks(d) /\ PgMeets(d, db)
  /\ then # {} => d.del.runs = {} /\ d.del.tags = {}

(* Another's, and what the row locks have kept it from. *)
PgApart(c, e, db) == PgMeets(e, db) /\ Barred(c, e) /\ Barred(e, c)

SameRuns(c, d) == d.ins.runs = c.ins.runs /\ d.del.runs = c.del.runs

SameSpans(c, d) == d.ins.spans = c.ins.spans /\ d.del.spans = c.del.spans

SameMarks(c, d) == d.ins.marks = c.ins.marks /\ d.del.marks = c.del.marks /\ d.upd = c.upd

SameTags(c, d) == d.ins.tags = c.ins.tags /\ d.del.tags = c.del.tags

(* From c to d, the marks moved become marks under the name n, the new ones. *)
Moves(c, d, db, n, moved, new) ==
  /\ \A m : m \in moved <=> m \in c.aim /\ m \in (db.marks \ c.del.marks) \cup c.ins.marks
  /\ \A p : p \in new => \E m \in moved : p = <<m[1], n>>
  /\ SameRuns(c, d) /\ SameSpans(c, d) /\ SameTags(c, d) /\ d.upd = c.upd
  /\ d.del.marks = c.del.marks \cup (moved \cap db.marks)
  /\ d.ins.marks = (c.ins.marks \ moved) \cup (new \ (db.marks \ d.del.marks))
  /\ moved # {} => n \in db.tags \cup c.ins.tags

-----------------------------------------------------------------------------
(* Each statement of the Postgres store *)

(* The statement's own lock, and its foreign keys. *)
PgFree(w, c, s) ==
  /\ \A u \in Several : u # w /\ active[u] # None =>
       PgApart(c, active[u], disk) /\ ~Postgres!Holds(u, s, c.aim)
  /\ ~Postgres!Dangles(w)

PgExecutes(w, c, s, then) ==
  /\ c = active[w] /\ c # None /\ PgShape(c) /\ s = Head(c.rest) /\ s.do \in PgDoes[c.op] /\ s.do \in PgKnown
  /\ PgReady(c, s, then, disk) /\ PgFree(w, c, s)
  /\ \A a \in then : a.do = "insert_span" => \E x \in SpanIds : a.rows = {x} /\ x[1] \in c.on

(* What is then so of the transaction, and between it and the others. *)
PgOutcome(w, d, then) ==
  /\ PgDone(d, then, disk)
  /\ \A u \in Several : u # w /\ active[u] # None => PgApart(d, active[u], disk)

-----------------------------------------------------------------------------
(* Retention: how many runs there are.                                      *)

(* So many of S are newer than r. *)
Many(S, r) == Cardinality({q \in S : q > r}) >= MaxRuns

-----------------------------------------------------------------------------
(* Retention: the invariant of the SQLite stores.                           *)

(* A trace may be missing: a deletion was to take it, or of S so many are   *)
(* newer.                                                                   *)
Sure(S, r) == r \in asked \/ Many(S, r)

(* The traces that are stored, or will be if nothing raises. *)
Said == {r \in sent : r \in stored \/ \E w \in DOMAIN active : Exports(w, r)}

(* An export prunes after it has inserted, and down to max_runs. *)
Pruning(c, taken) ==
  /\ c.op = "export" => \A a \in Ahead(c.rest) : a.do = "keep_newest" => a.rows = MaxRuns
  /\ c.rest # <<>> /\ Head(c.rest).do = "insert_run" => Todo(Ahead(c.rest), "keep_newest")
  /\ c.op = "delete" => c.on \subseteq taken

(* Its prune is yet to come. *)
Excess(c) == c # None /\ c.op = "export" /\ Todo(Ahead(c.rest), "keep_newest")

(* The connection's rows, while no export is to be rolled back. *)
ConnKept(W) ==
  /\ conn.runs \subseteq Said
  /\ \A r \in Said : r \in Shown => r \in conn.runs \/ Sure(Said, r)
  /\ Cardinality(conn.runs) <= MaxRuns \/ \E w \in W : Excess(active[w])

Calm(W) == \A w \in W : active[w] # None => ~active[w].raising

SQLiteKept(W) ==
  /\ stored \subseteq sent
  /\ \A w \in W : active[w] # None => Pruning(active[w], asked)
  /\ Calm(W) => ConnKept(W)

(* The committed rows, with one worker. *)
DiskKept ==
  /\ disk.runs \subseteq stored /\ Cardinality(disk.runs) <= MaxRuns
  /\ \A r \in stored : r \in disk.runs \/ Sure(stored, r)

(* An export of c's. *)
Tells(c, r) == c # None /\ c.op = "export" /\ r \in c.on

(* A step of worker w, whose call becomes c: what of the invariant is left  *)
(* to be shown of the connection's rows.                                    *)
RowsTurn(w, c) ==
  /\ \A r : Exports(w, r) => r \in stored' \/ Tells(c, r)
  /\ \A r : Tells(c, r) => Exports(w, r) \/ Awaits(c, r)
  /\ \A r \in stored' : r \in stored \/ Exports(w, r)
  /\ \A r \in conn'.runs : r \in conn.runs \/ Tells(c, r)
  /\ \A r \in conn.runs : r \in conn'.runs \/ r \in asked' \/ Many(conn.runs, r)
  /\ \A r : active[w] # None /\ Awaits(active[w], r) => (c # None /\ Awaits(c, r)) \/ r \in conn'.runs
  /\ \/ Cardinality(conn'.runs) <= MaxRuns
     \/ Excess(c)
     \/ conn'.runs \subseteq conn.runs /\ (Excess(active[w]) => Excess(c))

-----------------------------------------------------------------------------
(* Retention: the invariant of the Postgres store.  Exports of several      *)
(* connections prune by what each of them sees.                             *)

Own(c) == {r \in Traces : c.op = "export" /\ r \in c.on}

(* A search for the runs to prune has found them. *)
Looks(c) == c.rest # <<>> /\ Head(c.rest).do = "select_old" /\ c.aim # None

(* The runs that a transaction has deleted, or will. *)
Doomed(c) ==
  {r \in Traces : \/ r \in c.del.runs \/ Leaves(Ahead(c.rest), r)
                  \/ c.op = "export" /\ Looks(c) /\ r \in c.aim}

(* An export that knows what it is to prune. *)
Chosen(c) == c.op = "export" /\ (Looks(c) \/ ~Todo(Ahead(c.rest), "select_old"))

(* In T, the traces stored, or taken by a deletion. *)
Spent(T, taken, r) == r \in taken \/ Many(T, r)

(* What a transaction deletes was asked for, or so many newer ones are      *)
(* stored once the transaction is; an export prunes after it has inserted,  *)
(* and down to max_runs.                                                    *)
PgPruning(c, T, taken, runs) ==
  /\ c.op = "export" => /\ \A a \in Ahead(c.rest) : a.do = "select_old" => a.rows = MaxRuns
                        /\ \A q, r \in c.on : q = r
  /\ \A r \in Own(c) : r \notin T
  /\ Todo(Ahead(c.rest), "insert_run") => Todo(Ahead(c.rest), "select_old")
  /\ Looks(c) => c.aim \subseteq T \cup Own(c)
  /\ \A r \in Doomed(c) : r \in T \cup Own(c) /\ Spent(T \cup Own(c), taken, r)
  /\ \A r \in Own(c) :
       Todo(Ahead(c.rest), "insert_run") \/ r \in c.ins.runs \/ Spent(T \cup Own(c), taken, r)
  /\ c.rest # <<>> /\ Head(c.rest).do = "delete_runs" /\ c.aim # None =>
       /\ \A r \in c.aim : r \in Head(c.rest).rows
       /\ \A r \in Head(c.rest).rows : r \in runs => r \in c.aim

(* The runs there will be once the exports of Q have committed. *)
Left(Q, a, runs) ==
  {r \in Traces : /\ r \in runs \/ \E w \in Q : r \in a[w].ins.runs
                  /\ \A w \in Q : r \notin Doomed(a[w])}

Choosing(Q, a) == \A w \in Q : a[w] # None /\ Chosen(a[w])

FewLeft(a, runs) ==
  \A Q \in SUBSET Several : Choosing(Q, a) => Cardinality(Left(Q, a, runs)) <= MaxRuns + Cardinality(Several) - 1

PgRetains ==
  /\ disk.runs \subseteq stored /\ stored \subseteq sent
  /\ \A r \in stored : r \in disk.runs \/ Spent(stored, asked, r)
  /\ \A w \in Several : active[w] # None => PgPruning(active[w], stored, asked, disk.runs)
  /\ FewLeft(active, disk.runs)

(* A statement that starts: what it finds. *)
PgFinds(c, s, aim, d, seen) ==
  /\ d.op = c.op /\ d.on = c.on /\ d.rest = c.rest /\ d.aim = aim /\ d.ins = c.ins /\ d.del = c.del
  /\ c.rest \in Seq(Statements) /\ c.rest # <<>> /\ s = Head(c.rest) /\ c.aim = None
  /\ s.do = "delete_runs" => aim = s.rows \cap seen
  /\ s.do = "select_old" => aim = seen \ Newest(seen, s.rows) /\ Ahead(c.rest) = {s}
  /\ seen = disk.runs \cup c.ins.runs /\ seen \subseteq stored \cup Own(c)
  /\ PgPruning(c, stored, asked, disk.runs)

(* A statement that goes through, and those that are then to come. *)
PgGoes(c, s, d, then) ==
  /\ d.op = c.op /\ d.on = c.on /\ d.aim = None /\ then = Ahead(d.rest)
  /\ c.rest # <<>> /\ s = Head(c.rest) /\ c.aim # None /\ \A r \in c.ins.runs : r \in Own(c)
  /\ s.do # "select_old" => Ahead(c.rest) = {s} \cup then
  /\ s.do = "select_old" => /\ Ahead(c.rest) = {s} /\ c.op \in {"export", "prune"}
                            /\ \A a \in then : a.do \notin {"insert_run", "select_old"}
                            /\ \A r : Leaves(then, r) <=> r \in c.aim
  /\ s.do \notin {"insert_run", "delete_runs"} => d.ins.runs = c.ins.runs /\ d.del.runs = c.del.runs
  /\ s.do = "insert_run" => /\ c.op = "export" /\ d.del.runs = c.del.runs
                            /\ \A r \in c.ins.runs \cup c.on : r \in d.ins.runs
  /\ s.do = "delete_runs" => /\ d.ins.runs = c.ins.runs \ c.aim
                             /\ d.del.runs = c.del.runs \cup (c.aim \cap disk.runs)
                             /\ \A r \in s.rows : r \in c.ins.runs => r \in c.aim

-----------------------------------------------------------------------------
(* Retention, in whichever store *)

RetainedInv ==
  /\ store = "alone" => SQLiteKept(Single) /\ DiskKept
  /\ store = "pool" => SQLiteKept(Several)
  /\ store = "postgres" => PgRetains
=============================================================================
