------------------------------ MODULE ToolLoop ------------------------------
(***************************************************************************)
(* The reactive tool loop: ToolUseHITL (reactifact/tool_use.py) inside the *)
(* HITLLMAgents (reactifact/llm_agent.py) of one Runtime, and the human    *)
(* who answers their questions.                                            *)
(*                                                                         *)
(* Every agent that consumes a goal has a conversation about it, but       *)
(* nothing of a conversation is kept in memory: each step is a run woken   *)
(* by an event, which reads the goal's Observations and PendingQuestions   *)
(* -- those of the other agents too -- and leaves one artifact behind, the *)
(* event of which wakes the next step.  The runs of a generation read the  *)
(* Context as it was when the generation began, plus the human's answers;  *)
(* their effects are committed together, and the batch that woke them is   *)
(* consumed -- also for those whose result the runtime throws away, because *)
(* a budget ran out or they raised in isolation (see Runtime).             *)
(***************************************************************************)
EXTENDS Integers, Sequences, FiniteSets, FiniteSetsExt, SequencesExt

CONSTANTS
  Agents,          \* names of the HITLLMAgents
  Goals,           \* the artifacts the application asks something with
  Consumes,        \* [Agents -> SUBSET Goals]
  Clarifications,  \* texts of clarifying questions
  Destructive,     \* calls, name and arguments, of destructive tools
  MaxSteps,        \* ToolUseHITL.max_steps
  MaxAsks,         \* ToolUseHITL.max_asks
  MaxApprovals,    \* ToolUseHITL.max_approvals
  MaxToolCalls,    \* Budget.max_tool_calls
  AnswersAtRest,   \* the human answers when no turn runs and no event is queued
  MaxAborts,       \* bound: generations that raise, are cancelled or crash
  MaxDrops         \* bound: runs whose result is thrown away

ASSUME ToolLoopAssumption ==
  /\ IsFiniteSet(Agents) /\ IsFiniteSet(Goals)
  /\ Consumes \in [Agents -> SUBSET Goals]
  /\ Clarifications \cap Destructive = {}
  /\ MaxSteps \in Nat \ {0}
  /\ {MaxAsks, MaxApprovals, MaxToolCalls, MaxAborts, MaxDrops} \subseteq Nat
  /\ AnswersAtRest \in BOOLEAN

VARIABLES
  asked,      \* the goals the application has created
  notes,      \* per goal: its Observations
  questions,  \* per goal: its PendingQuestions
  answers,    \* per goal and agent: how many ToolAnswers
  queue,      \* the events of the Context
  batch,      \* the events the current generation has peeked at
  todo,       \* the <<agent, event>> pairs it still has to run
  results,    \* the effects of its finished runs, not yet committed
  deferred,   \* history: <<agent, goal>> left waiting on another's question
  dropped,    \* history: <<agent, goal>> whose next step was thrown away
  aborts, drops

contextVars    == <<notes, questions, answers>>
generationVars == <<batch, todo, results>>
historyVars    == <<deferred, dropped>>
vars == <<asked, contextVars, queue, generationVars, historyVars, aborts, drops>>

-----------------------------------------------------------------------------
(* Artifacts and events *)

(* What an Observation tells of: a human's clarification, an executed call  *)
(* of a safe tool, an executed or a refused call of a destructive one, or a *)
(* nudge -- that something was asked already, or that a limit is reached.   *)
Contents == {"human", "call", "approved", "refused", "nudge"}

(* Observation.source = "tool" *)
ToolNotes(g) == {n \in DOMAIN notes[g] : notes[g][n].content # "human"}

(* kind="approve" for a destructive call, kind="clarify" for a text. *)
Approvals(g) == {n \in DOMAIN questions[g] : questions[g][n].about \in Destructive}

About(g, x) == {n \in DOMAIN questions[g] : questions[g][n].about = x}

Open(g) == {n \in DOMAIN questions[g] : questions[g][n].reply = "none"}

(* A created goal, a created Observation, a created PendingQuestion, an     *)
(* answered one; n is the place among the goal's artifacts of that type.    *)
Event(what, g, n) == [what |-> what, goal |-> g, n |-> n]

(* Mutant: the consumes do not look at the agent's name. *)
WakesEveryone(e, a) == e.goal \in Consumes[a]

(* Consume(goal), and Consume by the agent's name of its own Observations   *)
(* and PendingQuestions.                                                    *)
Wakes(e, a) ==
  CASE e.what = "goal" -> e.goal \in Consumes[a]
    [] e.what = "note" -> notes[e.goal][e.n].agent = a
    [] OTHER           -> questions[e.goal][e.n].agent = a

-----------------------------------------------------------------------------
(* One run: its effects, as records [do, what] *)

Answer       == [do |-> "answer", what |-> ""]
Nothing      == [do |-> "nothing", what |-> ""]
Observe(c)   == [do |-> "note", what |-> c]
Question(x)  == [do |-> "question", what |-> x]

(* What a run did that its result will not tell of: an approved call, or    *)
(* nothing that lasts.                                                      *)
Lost(what)   == [do |-> "lost", what |-> what]

(* Mutant: max_asks is not looked at. *)
ClarifyUnlimited(g, x) ==
  IF About(g, x) = {} THEN Question(x)
  ELSE IF About(g, x) \subseteq Open(g) THEN Nothing ELSE Observe("nudge")

(* type:"ask".  The question is looked for, and the questions are counted,  *)
(* among those of every agent and kind.                                     *)
Clarify(g, x) ==
  IF About(g, x) # {}
  THEN IF About(g, x) \subseteq Open(g) THEN Nothing ELSE Observe("nudge")
  ELSE IF Len(questions[g]) >= MaxAsks THEN Observe("nudge")
  ELSE Question(x)

(* type:"tool_call" of a destructive tool. *)
Approve(g, x) ==
  IF About(g, x) # {}
  THEN IF About(g, x) \cap Open(g) # {} THEN Nothing ELSE Observe("nudge")
  ELSE IF Cardinality(Approvals(g)) >= MaxApprovals THEN Observe("nudge")
  ELSE Question(x)

(* type:"tool_call" of any other tool.  If the turn's tokens are used up it *)
(* is a nudge, which the runtime throws away for the same reason: Lost.     *)
Call(g) ==
  IF Cardinality(ToolNotes(g)) >= MaxToolCalls THEN Observe("nudge") ELSE Observe("call")

(* The model's decision, or none of use, which is an answer as well; at the *)
(* step limit the answer is forced.                                         *)
Decide(g) ==
  IF Len(notes[g]) >= MaxSteps THEN {Answer}
  ELSE {Answer, Call(g)}
       \cup {Clarify(g, x) : x \in Clarifications}
       \cup {Approve(g, x) : x \in Destructive}

(* Mutant: the question's "answered" is not looked at. *)
ResumeAnyway(q) ==
  IF q.about \in Clarifications THEN Observe("human")
  ELSE IF q.reply = "yes" THEN Observe("approved") ELSE Observe("refused")

(* A question's event: nothing while it is open; a clarification is noted;  *)
(* an approved call is executed, a refused one is not.                      *)
Resume(q) ==
  IF q.reply = "none" THEN Nothing
  ELSE IF q.about \in Clarifications THEN Observe("human")
  ELSE IF q.reply = "yes" THEN Observe("approved") ELSE Observe("refused")

(* _resolve and what follows from it. *)
Effects(e) ==
  IF e.what \in {"goal", "note"} THEN Decide(e.goal)
  ELSE {Resume(questions[e.goal][e.n])}

(* A run comes to nothing though its event is consumed: it raises and       *)
(* isolate_errors is set, it is cut from the work by max_runs or the clock, *)
(* or a budget is used up when its result is looked at.                     *)
InVain(e) ==
  {Lost("")} \cup {Lost(effect.what) : effect \in Effects(e) \cap {Observe("approved")}}

Outcomes(e) == Effects(e) \cup (IF drops < MaxDrops THEN InVain(e) ELSE {})

-----------------------------------------------------------------------------
(* The application and the human *)

Submit(g) ==
  /\ g \notin asked
  /\ asked' = asked \cup {g}
  /\ queue' = queue \cup {Event("goal", g, 0)}
  /\ UNCHANGED <<contextVars, generationVars, historyVars, aborts, drops>>

AtRest == queue = {} /\ batch = {}

(* context.resume, of a question that is open. *)
Reply(g, n, reply) ==
  /\ AnswersAtRest => AtRest
  /\ n \in Open(g)
  /\ questions' = [questions EXCEPT ![g][n].reply = reply]
  /\ queue' = queue \cup {Event("answered", g, n)}
  /\ UNCHANGED <<asked, notes, answers, generationVars, historyVars, aborts, drops>>

Replies(q) == IF q.about \in Destructive THEN {"yes", "no"} ELSE {"text"}

-----------------------------------------------------------------------------
(* The generations of the Runtime *)

Begin ==
  /\ batch = {} /\ queue # {}
  /\ batch' = queue
  /\ todo' = {w \in Agents \X queue : Wakes(w[2], w[1])}
  /\ UNCHANGED <<asked, contextVars, queue, results, historyVars, aborts, drops>>

Executes(effect) == effect \in {Observe("approved"), Lost("approved")}

(* An agent runs for an event, up to what becomes of the effects it hands   *)
(* back.                                                                    *)
Run(a, e, effect) ==
  /\ <<a, e>> \in todo
  /\ effect \in Outcomes(e)
  /\ todo' = todo \ {<<a, e>>}
  /\ results' = results \cup {[agent |-> a, event |-> e, effect |-> effect]}
  /\ questions' = IF Executes(effect)
                  THEN [questions EXCEPT ![e.goal][e.n].ran = @ + 1] ELSE questions
  /\ drops' = IF effect.do = "lost" THEN drops + 1 ELSE drops
  /\ UNCHANGED <<asked, notes, answers, queue, batch, historyVars, aborts>>

(* The generation's effects of one kind on a goal, in the order they are    *)
(* committed in.                                                            *)
Made(g, do) == SetToSeq({r \in results : r.event.goal = g /\ r.effect.do = do})

NewNotes(g) ==
  LET made == Made(g, "note")
  IN  [i \in DOMAIN made |-> [agent |-> made[i].agent, content |-> made[i].effect.what]]

NewQuestions(g) ==
  LET made == Made(g, "question")
  IN  [i \in DOMAIN made |->
        [agent |-> made[i].agent, about |-> made[i].effect.what,
         reply |-> "none", ran |-> 0, undone |-> 0]]

Created(what, old, new) ==
  UNION {{Event(what, g, n) : n \in DOMAIN new[g] \ DOMAIN old[g]} : g \in Goals}

(* Every run is done: the effects are committed, but for what is thrown     *)
(* away; the batch is consumed, and the events of the commits are left for  *)
(* the next generation.                                                     *)
Commit ==
  /\ batch # {} /\ todo = {}
  /\ notes' = [g \in Goals |-> notes[g] \o NewNotes(g)]
  /\ questions' = [g \in Goals |-> questions[g] \o NewQuestions(g)]
  /\ answers' = [g \in Goals |-> [a \in Agents |-> answers[g][a] +
       Cardinality({r \in results : r.event.goal = g /\ r.agent = a /\ r.effect = Answer})]]
  /\ queue' = (queue \ batch) \cup Created("note", notes, notes')
                              \cup Created("asked", questions, questions')
  /\ deferred' = deferred \cup
       {<<r.agent, r.event.goal>> : r \in
          {s \in results : s.event.what \in {"goal", "note"} /\ s.effect = Nothing}}
  /\ dropped' = dropped \cup
       {<<r.agent, r.event.goal>> : r \in
          {s \in results : s.event.what # "asked" /\ s.effect.do = "lost"}}
  /\ batch' = {} /\ results' = {}
  /\ UNCHANGED <<asked, todo, aborts, drops>>

(* Mutant: the batch is consumed before the agents are awaited. *)
AbortConsuming ==
  /\ batch # {} /\ aborts < MaxAborts
  /\ aborts' = aborts + 1
  /\ queue' = queue \ batch
  /\ batch' = {} /\ todo' = {} /\ results' = {}
  /\ UNCHANGED <<asked, contextVars, historyVars, drops>>

(* Something raises that is not isolated, the turn is cancelled or the      *)
(* process dies before the commit: the events stay, the effects are gone,   *)
(* what ran has run.                                                        *)
Abort ==
  /\ batch # {} /\ aborts < MaxAborts
  /\ aborts' = aborts + 1
  /\ questions' = [g \in Goals |-> [n \in DOMAIN questions[g] |->
       [questions[g][n] EXCEPT !.undone = @ + Cardinality({r \in results :
          /\ r.event.goal = g /\ r.event.n = n
          /\ Executes(r.effect)})]]]
  /\ batch' = {} /\ todo' = {} /\ results' = {}
  /\ UNCHANGED <<asked, notes, answers, queue, historyVars, drops>>

-----------------------------------------------------------------------------
Init ==
  /\ asked = {}
  /\ notes = [g \in Goals |-> <<>>]
  /\ questions = [g \in Goals |-> <<>>]
  /\ answers = [g \in Goals |-> [a \in Agents |-> 0]]
  /\ queue = {}
  /\ batch = {} /\ todo = {} /\ results = {}
  /\ deferred = {} /\ dropped = {}
  /\ aborts = 0 /\ drops = 0

Step ==
  \/ Begin \/ Commit
  \/ \E w \in todo : \E effect \in Outcomes(w[2]) : Run(w[1], w[2], effect)

Human ==
  \E g \in Goals : \E n \in Open(g) : \E reply \in Replies(questions[g][n]) : Reply(g, n, reply)

Next == Step \/ Human \/ Abort \/ \E g \in Goals : Submit(g)

Spec == Init /\ [][Next]_vars

(* Models, tools and turns come to an end, the application runs turns while *)
(* events are queued, and the human answers.                                *)
FairSpec == Spec /\ WF_vars(Step) /\ WF_vars(Human)

-----------------------------------------------------------------------------
(* Properties *)

Listeners(g) == {a \in Agents : g \in Consumes[a]}

Conversations == {c \in Agents \X asked : c[2] \in Consumes[c[1]]}

(* Who may pass a limit after the first that does.                          *)
Over(g) == IF Listeners(g) = {} THEN 0 ELSE Cardinality(Listeners(g)) - 1

(* The state keeps its shape, and max_steps, max_asks, max_approvals and    *)
(* max_tool_calls hold for each goal, up to one step of each further agent  *)
(* that decided in the same generation.                                     *)
TypeOK ==
  /\ asked \subseteq Goals
  /\ \A g \in Goals :
       LET over == Over(g)
       IN  /\ ToSet(notes[g]) \subseteq [agent : Listeners(g), content : Contents]
           /\ ToSet(questions[g]) \subseteq
                [agent : Listeners(g), about : Clarifications \cup Destructive,
                 reply : {"none", "text", "yes", "no"}, ran : Nat, undone : 0 .. MaxAborts]
           /\ Len(notes[g]) <= MaxSteps + over
           /\ Cardinality({i \in DOMAIN notes[g] : notes[g][i].content = "call"})
                <= MaxToolCalls + over
           /\ Cardinality(Approvals(g)) <= MaxApprovals + over
           /\ Cardinality(DOMAIN questions[g] \ Approvals(g)) <= MaxAsks + over
  /\ batch \subseteq queue
  /\ todo \subseteq Agents \X batch
  /\ \A r \in results : <<r.agent, r.event>> \in (Agents \X batch) \ todo
  /\ aborts \in 0 .. MaxAborts /\ drops \in 0 .. MaxDrops

(* What keeps a conversation going, each on its own: an event its agent     *)
(* will act on, a question it waits for the reply to, its answer, or        *)
(* another agent's question it has left the matter to.                      *)
Threads(a, g) ==
    Cardinality({e \in queue : e.goal = g /\ e.what # "asked" /\ Wakes(e, a)})
  + Cardinality({n \in Open(g) : questions[g][n].agent = a})
  + answers[g][a]
  + (IF <<a, g>> \in deferred THEN 1 ELSE 0)

(* A conversation does not fork, and it gets lost only with a step that the *)
(* runtime threw away: there is always exactly one thing that keeps it      *)
(* going, and none after such a step, so that it ends in one answer and no  *)
(* limit is used up twice as fast.  Only an agent that shares its goal may  *)
(* leave the matter to another's question.                                  *)
OneThread ==
  /\ \A c \in Conversations : Threads(c[1], c[2]) = IF c \in dropped THEN 0 ELSE 1
  /\ \A c \in deferred : \E q \in ToSet(questions[c[2]]) : q.agent # c[1]

(* "the call only runs once a human resolves it with an affirmative answer" *)
(* (tool_use.py:382-383): a destructive call is executed for no other       *)
(* reply.  And it is executed once for that one, as the tests have it       *)
(* (test_tools.py:604), apart from executions an aborted generation forgot. *)
OneRunPerApproval ==
  \A g \in Goals : \A q \in ToSet(questions[g]) :
    q.ran <= q.undone + (IF q.about \in Destructive /\ q.reply = "yes" THEN 1 ELSE 0)

(* If the human answers what is asked, every conversation comes to its      *)
(* answer, whatever the model decides, or was left to another agent's       *)
(* question, or lost a step that the runtime threw away.                    *)
ConversationEnds ==
  \A a \in Agents, g \in Goals :
    <<a, g>> \in Conversations ~>
      answers[g][a] > 0 \/ <<a, g>> \in deferred \cup dropped
=============================================================================
