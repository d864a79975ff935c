---------------------------- MODULE TraceStores ----------------------------
(***************************************************************************)
(* What a trace store promises, whichever of the two it is: the tables as  *)
(* they are committed, under the calls of                                  *)
(*   - the SQLite store one after the other ("used from a single worker    *)
(*     thread", as its documentation has it), with failures and crashes;   *)
(*   - the SQLite store in several workers, as asyncio.to_thread runs it,  *)
(*     where nothing fails;                                                *)
(*   - the Postgres store from several tasks, with failures.               *)
(* A behaviour is of one of them.                                          *)
(***************************************************************************)
EXTENDS TraceTables

CONSTANTS
  Single,     \* the one worker thread
  Several,    \* workers, or connections
  Picks,      \* the runs a reviewer may pick at once, in Postgres
  Starts,     \* what the Postgres database may hold already
  MaxEdits,   \* bound on the calls that are not exports
  MaxFaults,  \* bound on the statements, commits and connections that fail
  MaxCrashes, \* bound on the crashes of the process
  None

VARIABLES
  store,  \* which of the three it is
  disk, conn, open, active, sent, stored, failed, asked, gone, used, faults, crashes

storeVars == <<store, disk, conn, open, active, sent, stored, failed, asked, gone, used, faults, crashes>>

Alone == INSTANCE TraceStore WITH Workers <- Single, MaxCalls <- MaxEdits, calls <- active

Pool == INSTANCE TraceStore WITH Workers <- Several, MaxCalls <- MaxEdits, calls <- active,
                               MaxFaults <- 0, MaxCrashes <- 0

Postgres == INSTANCE PostgresStore WITH rows <- disk, Workers <- Several, MaxCalls <- MaxEdits,
                                      calls <- active

ASSUME StoresAssumption ==
  /\ Traces \subseteq Nat /\ IsFiniteSet(Traces)
  /\ SessionOf \in [Traces -> Sessions]
  /\ SpansOf \in [Traces -> Nat]
  /\ {MaxEdits, MaxFaults, MaxCrashes} \subseteq Nat /\ MaxRuns \in Nat \ {0}
  /\ \E w \in Single : Single = {w}
  /\ Picks \subseteq SUBSET Traces
  /\ Starts \subseteq {db \in Tables : Whole(db)}
  /\ None \notin Alone!Calls

(* What the Postgres database holds already is what such stores have left.  *)
ASSUME RetentionAssumption ==
  /\ IsFiniteSet(Several)
  /\ \A db \in Starts : Cardinality(db.runs) <= MaxRuns + Cardinality(Several) - 1

StoreInit ==
  \/ store = "alone" /\ Alone!Init
  \/ store = "pool" /\ Pool!Init
  \/ store = "postgres" /\ Postgres!Init /\ conn = NoRows /\ open = FALSE /\ crashes = 0

StoreNext ==
  \/ store = "alone" /\ Alone!Next /\ UNCHANGED store
  \/ store = "pool" /\ Pool!Next /\ UNCHANGED store
  \/ store = "postgres" /\ Postgres!Next /\ UNCHANGED <<store, conn, open, crashes>>

StoreSpec == StoreInit /\ [][StoreNext]_storeVars

-----------------------------------------------------------------------------
(* Properties *)

AtRest == \A w \in DOMAIN active : active[w] = None

(* A trace is stored with all its spans or not at all, no row is left of a  *)
(* trace that was deleted or pruned, and no note hangs on a tag that is not *)
(* in the vocabulary, whatever overlaps, fails or crashes.  The statements  *)
(* of several workers are one transaction: there this is said of the spans  *)
(* of stored traces and once every call has returned, when everything is    *)
(* committed (rows a deletion has left behind are swept by a later export). *)
StoredWhole ==
  /\ store # "pool" => Whole(disk)
  /\ store = "pool" /\ AtRest => disk = conn /\ SpansIn(disk.runs) \subseteq disk.spans

(* Retention: "insert and retention commit together" (_export_sync), so     *)
(* there are never more traces than max_runs, and none is missing that an   *)
(* export has stored before a deletion was to take it or max_runs later     *)
(* ones were stored.  Exports of several connections do not see each other, *)
(* and may leave one too many each.                                         *)
Due(r) == r \in asked \/ Cardinality({q \in stored : q > r}) >= MaxRuns

Surplus == IF store = "postgres" THEN Cardinality(Several) - 1 ELSE 0

Retained ==
  store # "pool" \/ AtRest =>
    /\ Cardinality(disk.runs) <= MaxRuns + Surplus
    /\ \A r \in stored : r \in disk.runs \/ Due(r)

(* "A prune failure rolls the run back": an export that raised has left     *)
(* nothing, now or by a later commit of another call; and a run whose       *)
(* deletion has returned does not come back, with an export that overlapped *)
(* it for one.  (An export whose commit was done and its answer lost is not *)
(* among the failed.)  Of the pool this says the latter only: nothing fails *)
(* there, or a rollback would take along what other calls have executed, a  *)
(* deletion that then returns included.                                     *)
NothingComesBack == (failed \cup gone) \cap disk.runs = {}

(* tag_runs, in either store: "Only real runs are annotated, so a typo'd   *)
(* id can never seed the vocabulary with a tag that matches nothing", also  *)
(* when the run is deleted while it is being tagged.  A call that adds to   *)
(* the vocabulary leaves a mark on a stored run it was for -- in Postgres,  *)
(* whose transactions do not mix, with each tag it adds; in SQLite a failed *)
(* call may have left tags of its own.  In the pool it is not so: between   *)
(* the SELECTs and the writes, which are in no transaction with them, other *)
(* workers may delete the runs, and the tag stays alone.                    *)
TagSeedsMark ==
  [][\A w \in DOMAIN active :
       /\ store # "pool"
       /\ active[w] # None /\ active[w].op = "tag" /\ active'[w] = None
       =>
       \A tag \in disk'.tags \ disk.tags : \E m \in disk'.marks :
         /\ m[1] \in active[w].on \cap disk'.runs
         /\ store = "postgres" => m[2] = tag]_storeVars
=============================================================================
