----------------------------- MODULE TurnTrace -----------------------------
(***************************************************************************)
(* What a turn leaves in its trace: RunTracer and RecordingLLM             *)
(* (reactifact/tracing/tracer.py) at the points where Runtime calls them,  *)
(* _execute, _get_patches_to_apply, _commit_patches_to_apply and           *)
(* _arun_impl (reactifact/runtime.py), and Tracer.on_turn_end with its     *)
(* sinks.                                                                  *)
(*                                                                         *)
(* One Runtime runs one turn after the other.  A generation is a list of   *)
(* executions that run side by side and call the provider; an answered     *)
(* call waits under the name of the agent its task is registered for, until*)
(* the next span of that agent.  Calls and executions are numbered.        *)
(***************************************************************************)
EXTENDS Integers, FiniteSets, Sequences, SequencesExt, FiniteSetsExt

CONSTANTS
  Agents,    \* names of agents
  Works,     \* the work lists a generation may have, sequences of agents
  Sinks,     \* the sinks of the Tracer, a sequence
  MaxSpans,  \* TraceLimits.max_spans
  MaxLlm,    \* TraceLimits.max_llm_calls_per_span
  MaxTurns, MaxGenerations, MaxCalls, MaxLost,  \* bounds
  Nobody     \* no agent: the name of a task that is not registered

ASSUME TraceAssumption ==
  /\ Works \subseteq Seq(Agents) /\ Nobody \notin Agents
  /\ Sinks \in Seq(ToSet(Sinks))
  /\ {MaxSpans, MaxLlm, MaxTurns, MaxGenerations, MaxCalls, MaxLost} \subseteq Nat

VARIABLES
  turn,       \* the turn under way, or the last one
  gens,       \* generations begun so far
  phase,      \* where the turn is
  work,       \* the executions of the generation
  at,         \* per execution: where it is
  next,       \* the result to be turned into a span, or the patch to apply
  pending,    \* _pending_llm
  spans,      \* RunTracer.spans
  truncated,  \* RunTracer.truncated
  told,       \* how many sinks on_turn_end is through with
  calls,      \* history: per answered call, its turn, execution and agent
  commits,    \* history: the executions whose patch was committed
  sunk,       \* history: per place in Sinks, the traces its sink took
  lost        \* history: the executions whose span could not be built

genVars == <<work, at, next>>
vars == <<turn, gens, phase, genVars, pending, spans, truncated, told, calls, commits, sunk, lost>>

(* Execution i of the present generation. *)
Exec(i) == <<turn, gens, i>>

-----------------------------------------------------------------------------
(* The turn and its generations *)

(* begin_turn: what the last turn left in _pending_llm stays there. *)
BeginTurn ==
  /\ phase = "idle" /\ turn < MaxTurns
  /\ turn' = turn + 1
  /\ phase' = "open"
  /\ spans' = <<>> /\ truncated' = FALSE
  /\ UNCHANGED <<gens, genVars, pending, told, calls, commits, sunk, lost>>

Dispatch(w) ==
  /\ phase = "open" /\ gens < MaxGenerations
  /\ gens' = gens + 1
  /\ phase' = "agents"
  /\ work' = w
  /\ at' = [i \in DOMAIN w |-> "running"]
  /\ UNCHANGED <<turn, next, pending, spans, truncated, told, calls, commits, sunk, lost>>

(* _current_agent_name: the agent the asking task is registered for; a task *)
(* that the agent's own code has spawned is not.                            *)
NameOf(i, spawned) == IF spawned THEN Nobody ELSE work[i]

(* complete has answered, or raised: _record, on_call.  (What an agent      *)
(* streams, RecordingLLM.stream hands on and does not record.)              *)
Answered(i, spawned) ==
  /\ phase = "agents" /\ at[i] = "running"
  /\ Len(calls) < MaxCalls
  /\ calls' = Append(calls, [exec |-> Exec(i), agent |-> work[i], spawned |-> spawned])
  /\ pending' = [pending EXCEPT ![NameOf(i, spawned)] = Append(@, Len(calls'))]
  /\ UNCHANGED <<turn, gens, phase, genVars, spans, truncated, told, commits, sunk, lost>>

(* An agent ends: with a patch, with none or an empty one, with an error    *)
(* that isolate_errors holds back, or with one that is raised.              *)
Finish(i, end) ==
  /\ phase = "agents" /\ at[i] = "running"
  /\ end \in {"patch", "empty", "error", "raised"}
  /\ at' = [at EXCEPT ![i] = end]
  /\ UNCHANGED <<turn, gens, phase, work, next, pending, spans, truncated, told,
                 calls, commits, sunk, lost>>

(* The generation is over, or left: its locals are gone. *)
Forget == work' = <<>> /\ at' = <<>> /\ next' = 1

(* The turn is over. *)
Leave ==
  /\ phase' = "idle"
  /\ Forget
  /\ UNCHANGED <<turn, gens, pending, spans, truncated, told, calls, commits, sunk, lost>>

(* It is over and its trace is to be delivered: end_turn. *)
ToEnd ==
  /\ phase' = "ending" /\ told' = 0
  /\ Forget
  /\ UNCHANGED <<turn, gens, pending, spans, truncated, calls, commits, sunk, lost>>

Gather ==
  /\ phase = "agents" /\ \A i \in DOMAIN work : at[i] # "running"
  /\ IF \E i \in DOMAIN work : at[i] = "raised" THEN Leave
     ELSE /\ phase' = "record" /\ next' = 1
          /\ UNCHANGED <<turn, gens, work, at, pending, spans, truncated, told,
                         calls, commits, sunk, lost>>

-----------------------------------------------------------------------------
(* record_span *)

Cut(s, n) == IF Len(s) > n THEN SubSeq(s, 1, n) ELSE s

AgentSpan(i, llm) ==
  [exec |-> Exec(i), agent |-> work[i], llm_calls |-> Cut(llm, MaxLlm),
   error |-> at[i] = "error"]

(* A bug: the calls are read and left where they are. *)
KeepSpanReading(i) ==
  /\ spans' = Append(spans, AgentSpan(i, pending[work[i]]))
  /\ truncated' = (truncated \/ Len(pending[work[i]]) > MaxLlm)
  /\ UNCHANGED <<pending, lost>>

KeepSpan(i) ==
  /\ spans' = Append(spans, AgentSpan(i, pending[work[i]]))
  /\ pending' = [pending EXCEPT ![work[i]] = <<>>]
  /\ truncated' = (truncated \/ Len(pending[work[i]]) > MaxLlm)
  /\ UNCHANGED lost

(* "the trace for that step is simply dropped": artifact_ref raises on an   *)
(* artifact that json cannot write.  The calls are out of the buffer by     *)
(* then, those of the agent's other executions too; only a warning is       *)
(* logged, truncated tells of the caps alone, and the patch is applied.     *)
LoseSpan(i) ==
  /\ Cardinality(lost) < MaxLost
  /\ lost' = lost \cup {[exec |-> Exec(i), agent |-> work[i]]}
  /\ pending' = [pending EXCEPT ![work[i]] = <<>>]
  /\ truncated' = (truncated \/ Len(pending[work[i]]) > MaxLlm)
  /\ UNCHANGED spans

(* A bug: the cap is not told. *)
RecordSpanQuietly(i) ==
  IF Len(spans) >= MaxSpans THEN UNCHANGED <<spans, pending, truncated, lost>>
  ELSE KeepSpan(i) \/ LoseSpan(i)

(* A span over the cap is not built, and its calls are not taken.           *)
RecordSpan(i) ==
  IF Len(spans) >= MaxSpans THEN truncated' = TRUE /\ UNCHANGED <<spans, pending, lost>>
  ELSE KeepSpan(i) \/ LoseSpan(i)

-----------------------------------------------------------------------------
(* _get_patches_to_apply and _commit_patches_to_apply *)

Recording(end) ==
  /\ phase = "record" /\ next \in DOMAIN work
  /\ at[next] \in end

(* The one result after the other, the generation's budget allowing. *)
Record ==
  /\ Recording({"patch", "error"})
  /\ RecordSpan(next)
  /\ next' = next + 1
  /\ UNCHANGED <<turn, gens, phase, work, at, told, calls, commits, sunk>>

(* "Executions that changed nothing are not applied and not traced." *)
Skip ==
  /\ Recording({"empty"})
  /\ next' = next + 1
  /\ UNCHANGED <<turn, gens, phase, work, at, pending, spans, truncated, told,
                 calls, commits, sunk, lost>>

(* The patch, traced by now, is refused: by its types, by the               *)
(* authorization or by a guardrail.                                         *)
Refuse ==
  /\ phase = "record" /\ next > 1 /\ at[next - 1] = "patch"
  /\ Leave

(* The budget is used up: the results from here on are dropped.             *)
BudgetOut ==
  /\ phase = "record" /\ next \in DOMAIN work
  /\ at' = [i \in DOMAIN at |-> IF i >= next THEN "dropped" ELSE at[i]]
  /\ next' = Len(work) + 1
  /\ UNCHANGED <<turn, gens, phase, work, pending, spans, truncated, told, calls,
                 commits, sunk, lost>>

Apply ==
  /\ phase = "record" /\ next > Len(work)
  /\ phase' = "apply" /\ next' = 1
  /\ UNCHANGED <<turn, gens, work, at, pending, spans, truncated, told, calls,
                 commits, sunk, lost>>

Commit ==
  /\ phase = "apply" /\ next \in DOMAIN work
  /\ next' = next + 1
  /\ commits' = IF at[next] = "patch" THEN commits \cup {Exec(next)} ELSE commits
  /\ UNCHANGED <<turn, gens, phase, work, at, pending, spans, truncated, told,
                 calls, sunk, lost>>

(* _apply_patch raises: the patch's operations do not fit. *)
Unfit ==
  /\ phase = "apply" /\ next \in DOMAIN work /\ at[next] = "patch"
  /\ Leave

EndGeneration ==
  /\ phase = "apply" /\ next > Len(work)
  /\ phase' = "open"
  /\ Forget
  /\ UNCHANGED <<turn, gens, pending, spans, truncated, told, calls, commits, sunk, lost>>

-----------------------------------------------------------------------------
(* The end of the turn *)

(* No more work, a limit, or a stop between two generations. *)
EndTurn == phase = "open" /\ ToEnd

(* The deadline runs out while agents run: they are cancelled, with the     *)
(* calls they wait for.                                                     *)
Deadline == phase = "agents" /\ ToEnd

(* The turn's task is cancelled; the session cannot be saved.               *)
Cancelled == phase \in {"open", "agents", "ending"} /\ Leave

NotSaved == phase = "open" /\ Leave

RunTrace == [turn |-> turn, spans |-> spans, trace_truncated |-> truncated]

(* The next sink takes the trace, or fails and is passed over.              *)
Export(ok) ==
  /\ phase = "ending" /\ told < Len(Sinks)
  /\ told' = told + 1
  /\ sunk' = IF ok THEN [sunk EXCEPT ![told + 1] = Append(@, RunTrace)] ELSE sunk
  /\ UNCHANGED <<turn, gens, phase, genVars, pending, spans, truncated, calls, commits, lost>>

Return == phase = "ending" /\ told = Len(Sinks) /\ Leave

Next ==
  \/ BeginTurn
  \/ \E w \in Works : Dispatch(w)
  \/ \E i \in DOMAIN work :
       \/ \E spawned \in BOOLEAN : Answered(i, spawned)
       \/ \E end \in {"patch", "empty", "error", "raised"} : Finish(i, end)
  \/ Gather \/ Record \/ Skip \/ Refuse \/ BudgetOut
  \/ Apply \/ Commit \/ Unfit \/ EndGeneration
  \/ EndTurn \/ Deadline \/ Cancelled \/ NotSaved \/ (\E ok \in BOOLEAN : Export(ok)) \/ Return

Init ==
  /\ turn = 0 /\ gens = 0 /\ phase = "idle"
  /\ work = <<>> /\ at = <<>> /\ next = 1
  /\ pending = [a \in Agents \cup {Nobody} |-> <<>>]
  /\ spans = <<>> /\ truncated = FALSE /\ told = 0
  /\ calls = <<>> /\ commits = {} /\ lost = {}
  /\ sunk = [s \in DOMAIN Sinks |-> <<>>]

Spec == Init /\ [][Next]_vars

-----------------------------------------------------------------------------
(* Properties *)

Delivered == UNION {ToSet(sunk[s]) : s \in DOMAIN Sinks}

CallsIn(ss) == UNION {ToSet(ss[k].llm_calls) : k \in DOMAIN ss}

(* A call is told once: of a sink's traces, in one span of one, and that is *)
(* of the agent that made it, also when agents run side by side and calls   *)
(* come between; a call that still waits is in none.                        *)
CallToldOnce ==
  \A s \in DOMAIN Sinks :
    LET places == {p \in (DOMAIN sunk[s]) \X (1 .. MaxSpans) : p[2] \in DOMAIN sunk[s][p[1]].spans}
        span(p) == sunk[s][p[1]].spans[p[2]]
    IN  \A p \in places :
          /\ \A c \in ToSet(span(p).llm_calls) : calls[c].agent = span(p).agent
          /\ \A q \in places \ {p} : ToSet(span(p).llm_calls) \cap ToSet(span(q).llm_calls) = {}
          /\ \A a \in DOMAIN pending : ToSet(pending[a]) \cap ToSet(span(p).llm_calls) = {}

LostExecs(gone) == {x.exec : x \in gone}

(* A span of the call's agent was lost, with its calls, in the generation   *)
(* that made the call.                                                      *)
LostWith(call, gone) == \E x \in gone : x.agent = call.agent /\ x.exec[2] = call.exec[2]

(* A delivered trace tells what its turn committed: a span without an error *)
(* is of an execution whose patch was committed (what was refused is in no  *)
(* trace), and a trace that does not say it is truncated has a span of every*)
(* execution that changed the context in its turn, with every call that     *)
(* such an execution's own task made.  Tracing is best effort: excepted are *)
(* the executions whose own span could not be built, and of the calls those *)
(* made beside such an execution by the same agent, in the same generation. *)
TraceTellsTurn ==
  \A tr \in Delivered :
    LET seen == {tr.spans[k].exec : k \in DOMAIN tr.spans}
    IN  /\ \A k \in DOMAIN tr.spans : ~tr.spans[k].error => tr.spans[k].exec \in commits
        /\ ~tr.trace_truncated =>
             /\ {x \in commits : x[1] = tr.turn} \subseteq seen \cup LostExecs(lost)
             /\ \A c \in DOMAIN calls :
                  calls[c].exec \in seen /\ ~calls[c].spawned =>
                    c \in CallsIn(tr.spans) \/ LostWith(calls[c], lost)
=============================================================================
