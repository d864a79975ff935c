------------------------------ MODULE A2ATasks ------------------------------
(***************************************************************************)
(* _A2AServer (reactifact/a2a/server.py): a bounded table of tasks, each   *)
(* one conversation over a Context, and the requests that work on them:    *)
(* message/send, message/stream and tasks/cancel.  Nothing keeps two       *)
(* requests off one task; tasks/cancel does not stop a run; a client that  *)
(* drops its stream does.                                                  *)
(*                                                                         *)
(* A task record is named after the request that made it, a task's id      *)
(* after the request that was first given it: a client that names an id    *)
(* that was evicted gets a new record under the old id.  tasks/get only    *)
(* reads and has no action.                                                *)
(***************************************************************************)
EXTENDS Integers, Sequences, FiniteSets, FiniteSetsExt, SequencesExt

CONSTANTS
  Requests,      \* the message/send and message/stream requests
  None,          \* no task id, no record
  MaxTasks,      \* _MAX_TASKS
  MaxQuestions   \* bound on the questions a task asks

ASSUME A2AAssumption ==
  /\ IsFiniteSet(Requests)
  /\ None \notin Requests
  /\ MaxTasks \in Nat \ {0}
  /\ MaxQuestions \in Nat

VARIABLES
  table,     \* _tasks: records, longest silent first
  id,        \* per record: its task id, None before it is made
  state,     \* per record: record.state
  pending,   \* per record: record.pending_id, 0 for ""
  asked,     \* per record: how many questions its Context holds
  answered,  \* per record: those of them that are answered
  pc,        \* where each request is
  home,      \* per request: the record it works on, None before and after
  strays,    \* streams given up after the grace period, their runner still on
  cut,       \* history: records a run was cut short on, and none ended since
  talk       \* history: per record: who had come in when it last got a message

recordVars  == <<id, state, pending, asked, answered>>
requestVars == <<pc, home, strays>>
vars == <<table, recordVars, requestVars, cut, talk>>

Finished == {"completed", "canceled", "failed", "rejected"}
States   == Finished \cup {"submitted", "working", "input-required"}

(* A message/send is sending.  A message/stream is opened once its first    *)
(* frame is out, streaming while its run is on, and closing when its client *)
(* is gone and it waits for the run it has cancelled.                       *)
Running  == {"sending", "streaming", "closing"}
InFlight == Running \cup {"opened"}

Made == {k \in Requests : id[k] # None}

Questions == 1 .. MaxQuestions

(* context.pending_questions() *)
Open(k) == (1 .. asked[k]) \ answered[k]

Came == {r \in Requests : pc[r] # "new"}

Users(k) == {r \in Requests : home[r] = k /\ pc[r] \in InFlight}

-----------------------------------------------------------------------------
(* The table *)

(* _evict: the oldest finished record goes, or else the oldest.             *)
Evict(t, st) ==
  IF Len(t) <= MaxTasks THEN t
  ELSE LET done == {i \in DOMAIN t : st[t[i]] \in Finished}
       IN  RemoveAt(t, IF done # {} THEN Min(done) ELSE 1)

NewRecord(r, i) ==
  /\ \A k \in ToSet(table) : i = None \/ id[k] # i
  /\ id' = [id EXCEPT ![r] = IF i = None THEN r ELSE i]
  /\ table' = Evict(Append(table, r), state)
  /\ home' = [home EXCEPT ![r] = r]
  /\ talk' = [talk EXCEPT ![r] = Came \cup {r}]

Known(r, i, k) ==
  /\ i # None /\ id[k] = i
  /\ home' = [home EXCEPT ![r] = k]
  /\ talk' = [talk EXCEPT ![k] = Came \cup {r}]
  /\ UNCHANGED id

(* A bug: a record that is spoken to again keeps its place. *)
RecordForInPlace(r, i) ==
  \/ \E n \in DOMAIN table : Known(r, i, table[n]) /\ UNCHANGED table
  \/ NewRecord(r, i)

(* _record_for: the record under the id the message names, now the last to  *)
(* be evicted, or a new record, under that id or a fresh one.               *)
RecordFor(r, i) ==
  \/ \E n \in DOMAIN table :
       Known(r, i, table[n]) /\ table' = Append(RemoveAt(table, n), table[n])
  \/ NewRecord(r, i)

-----------------------------------------------------------------------------
(* Requests.  A client names no task, or one it has heard of. *)

(* The head of _execute: context.resume(pending_id), or a new message. *)
Seed(k) ==
  answered' = IF pending[k] = 0 THEN answered
              ELSE [answered EXCEPT ![k] = @ \cup {pending[k]}]

(* handle_send up to the first await of the run. *)
Send(r, i) ==
  /\ pc[r] = "new"
  /\ RecordFor(r, i)
  /\ Seed(home'[r])
  /\ pc' = [pc EXCEPT ![r] = "sending"]
  /\ UNCHANGED <<state, pending, asked, strays, cut>>

(* stream up to its first frame, which the client may never take. *)
OpenStream(r, i) ==
  /\ pc[r] = "new"
  /\ RecordFor(r, i)
  /\ state' = [state EXCEPT ![home'[r]] = "working"]
  /\ pc' = [pc EXCEPT ![r] = "opened"]
  /\ UNCHANGED <<pending, asked, answered, strays, cut>>

(* The stream's run task starts _execute. *)
Begin(r) ==
  /\ pc[r] = "opened"
  /\ Seed(home[r])
  /\ pc' = [pc EXCEPT ![r] = "streaming"]
  /\ UNCHANGED <<table, id, state, pending, asked, home, strays, cut, talk>>

(* A generation of the run commits a PendingQuestion. *)
Ask(r) ==
  /\ pc[r] \in Running \/ r \in strays
  /\ asked[home[r]] < MaxQuestions
  /\ asked' = [asked EXCEPT ![home[r]] = @ + 1]
  /\ UNCHANGED <<table, id, state, pending, answered, requestVars, cut, talk>>

Leave(r) ==
  /\ pc' = [pc EXCEPT ![r] = "ended"]
  /\ home' = [home EXCEPT ![r] = None]

(* A bug: the answered question's id is kept when the task completes. *)
EndKeepingPending(r) ==
  LET k == home[r]
      open == Open(k)
  IN  /\ pc[r] \in Running
      /\ state' = [state EXCEPT
           ![k] = IF open = {} THEN "completed" ELSE "input-required"]
      /\ pending' = [pending EXCEPT ![k] = IF open = {} THEN @ ELSE Min(open)]
      /\ Leave(r)
      /\ cut' = cut \ {k}
      /\ UNCHANGED <<table, id, asked, answered, strays, talk>>

(* The run ends (also one that ignored its cancellation) and _execute sets  *)
(* the state by the questions then open, whatever the state was.            *)
End(r) ==
  LET k == home[r]
      open == Open(k)
  IN  /\ pc[r] \in Running
      /\ state' = [state EXCEPT
           ![k] = IF open = {} THEN "completed" ELSE "input-required"]
      /\ pending' = [pending EXCEPT ![k] = IF open = {} THEN 0 ELSE Min(open)]
      /\ Leave(r)
      /\ cut' = cut \ {k}
      /\ UNCHANGED <<table, id, asked, answered, strays, talk>>

(* The run raises, or unwinds from its cancellation.                        *)
Fail(r) ==
  /\ pc[r] \in Running
  /\ Leave(r)
  /\ cut' = cut \cup {home[r]}
  /\ UNCHANGED <<table, recordVars, strays, talk>>

(* astream gives up on a runner that outlives its cancellation by the grace *)
(* period; the runner stays on and goes on changing the Context.            *)
GiveUp(r) ==
  /\ pc[r] = "closing"
  /\ pc' = [pc EXCEPT ![r] = "ended"]
  /\ strays' = strays \cup {r}
  /\ cut' = cut \cup {home[r]}
  /\ UNCHANGED <<table, recordVars, home, talk>>

(* The client of a stream goes away: the run is cancelled if there is one.  *)
DropUnstarted(r) ==
  /\ pc[r] = "opened"
  /\ Leave(r)
  /\ cut' = cut \cup {home[r]}
  /\ UNCHANGED <<table, recordVars, strays, talk>>

Drop(r) ==
  /\ pc[r] = "streaming"
  /\ pc' = [pc EXCEPT ![r] = "closing"]
  /\ UNCHANGED <<table, recordVars, home, strays, cut, talk>>

(* tasks/cancel *)
Cancel(k) ==
  /\ k \in ToSet(table)
  /\ state[k] \notin Finished
  /\ state' = [state EXCEPT ![k] = "canceled"]
  /\ pending' = [pending EXCEPT ![k] = 0]
  /\ UNCHANGED <<table, id, asked, answered, requestVars, cut, talk>>

-----------------------------------------------------------------------------
Init ==
  /\ table = <<>>
  /\ id = [k \in Requests |-> None]
  /\ state = [k \in Requests |-> "submitted"]
  /\ pending = [k \in Requests |-> 0]
  /\ asked = [k \in Requests |-> 0]
  /\ answered = [k \in Requests |-> {}]
  /\ pc = [r \in Requests |-> "new"]
  /\ home = [r \in Requests |-> None]
  /\ strays = {}
  /\ cut = {}
  /\ talk = [k \in Requests |-> {}]

Next ==
  \/ \E r \in Requests, i \in {None} \cup {id[k] : k \in Made} :
       Send(r, i) \/ OpenStream(r, i)
  \/ \E r \in Requests :
       \/ Begin(r) \/ Ask(r) \/ End(r) \/ Fail(r)
       \/ DropUnstarted(r) \/ Drop(r) \/ GiveUp(r)
  \/ \E k \in Requests : Cancel(k)

Spec == Init /\ [][Next]_vars

-----------------------------------------------------------------------------
(* Properties *)

Shape ==
  /\ id \in [Requests -> Requests \cup {None}]
  /\ state \in [Requests -> States]
  /\ pending \in [Requests -> {0} \cup Questions]
  /\ asked \in [Requests -> {0} \cup Questions]
  /\ answered \in [Requests -> SUBSET Questions]
  /\ pc \in [Requests -> {"new", "ended"} \cup InFlight]
  /\ home \in [Requests -> Requests \cup {None}]
  /\ strays \subseteq Requests
  /\ cut \subseteq Requests
  /\ talk \in [Requests -> SUBSET Requests]

(* The state keeps its shape; the table stays within its limit, holds no    *)
(* record twice and no two records under one id.                            *)
TypeOK ==
  /\ Shape
  /\ table \in Seq(Requests)
  /\ Len(table) <= MaxTasks
  /\ \A i, j \in DOMAIN table : id[table[i]] = id[table[j]] => i = j

(* No request works on the record, and the last that did came to its end.   *)
Settled(k) ==
  /\ k \in Made
  /\ Users(k) = {}
  /\ k \notin cut
  /\ \A r \in strays : home[r] # k

TellsTruth(k) ==
  CASE state[k] = "canceled"       -> pending[k] = 0
    [] state[k] = "completed"      -> pending[k] = 0 /\ Open(k) = {}
    [] state[k] = "input-required" -> Open(k) # {} /\ pending[k] = Min(Open(k))
    [] OTHER                       -> FALSE

(* What a task says of itself when nothing works on it is true of its       *)
(* Context, however its requests overlapped: it is input-required exactly   *)
(* while a question is open, and then the id it keeps is the first open     *)
(* one's, so that the next message answers that and never one already       *)
(* answered; else it is completed.  Only tasks/cancel may say otherwise.    *)
SettledIsTrue == \A k \in Requests : Settled(k) => TellsTruth(k)

LongestSilentLeave ==
  \A k \in ToSet(table) \ ToSet(table') :
    LET done   == {l \in ToSet(table) : state[l] \in Finished}
        rivals == IF done # {} THEN done ELSE ToSet(table)
    IN  /\ Len(table) = MaxTasks
        /\ k \in rivals
        /\ \A l \in rivals : talk[k] \subseteq talk[l]

(* A task leaves the table only when a new one fills it, and the one that   *)
(* leaves was silent for longer than any other: than any other finished one *)
(* while some task is finished, so that an unfinished conversation goes     *)
(* only when all are unfinished.                                            *)
LongestSilentLeaves == [][LongestSilentLeave]_vars
=============================================================================
