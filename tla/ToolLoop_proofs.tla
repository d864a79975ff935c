-------------------------- MODULE ToolLoop_proofs --------------------------
(***************************************************************************)
(* What TLAPS proves of ToolLoop: if the human answers at rest, a          *)
(* destructive call is executed for an affirmative reply only, and once;   *)
(* every conversation has exactly one thing that keeps it going; and the   *)
(* limits hold, up to one step of each further agent on the goal.          *)
(*                                                                         *)
(* The argument for the first: a question's creation finds it open and     *)
(* does nothing; its answer is one event, which one agent reacts to; and   *)
(* while that event is queued, the call was executed (and not forgotten by *)
(* an abort) exactly if the current generation has the result.             *)
(***************************************************************************)
EXTENDS ToolLoop, FiniteSetTheorems, SequenceTheorems, TLAPS

Texts == Clarifications \cup Destructive

NoteRecs == [agent : Agents, content : Contents]

QuestionRecs == [agent : Agents, about : Texts,
                 reply : {"none", "text", "yes", "no"}, ran : Nat, undone : Nat]

EffectRecs ==
  {Answer, Nothing, Lost(""), Lost("approved")}
    \cup {Observe(c) : c \in Contents} \cup {Question(x) : x \in Texts}

(* An event tells of something there is. *)
OfSomething(e) ==
  \E g \in Goals :
    \/ e = Event("goal", g, 0)
    \/ \E n \in DOMAIN notes[g] : e = Event("note", g, n)
    \/ \E n \in DOMAIN questions[g] : e \in {Event("asked", g, n), Event("answered", g, n)}

Typed ==
  /\ asked \subseteq Goals
  /\ notes \in [Goals -> Seq(NoteRecs)]
  /\ questions \in [Goals -> Seq(QuestionRecs)]
  /\ IsFiniteSet(queue) /\ \A e \in queue : OfSomething(e)
  /\ batch \subseteq queue
  /\ todo \subseteq Agents \X batch
  /\ IsFiniteSet(results)
  /\ results \subseteq [agent : Agents, event : batch, effect : EffectRecs]

(* Who runs for an event is woken by it, and either has run or has to.      *)
Woken ==
  /\ \A w \in todo : Wakes(w[2], w[1])
  /\ \A r \in results : Wakes(r.event, r.agent) /\ <<r.agent, r.event>> \notin todo

(* A creation that is queued is that of an open question, an answer that is *)
(* queued that of an answered one.                                          *)
InStep ==
  \A e \in queue :
    /\ e.what = "asked" => questions[e.goal][e.n].reply = "none"
    /\ e.what = "answered" => questions[e.goal][e.n].reply # "none"

(* The executions of a question's call that are not committed yet.          *)
Executed(g, n) ==
  {r \in results : r.event.goal = g /\ r.event.n = n /\ Executes(r.effect)}

Approved(q) == q.reply = "yes" /\ q.about \notin Clarifications

ExecutedForAnswers ==
  \A r \in results : Executes(r.effect) =>
    r.event.what = "answered" /\ Approved(questions[r.event.goal][r.event.n])

(* A call runs once for its answer, and while the answer is queued it is    *)
(* known whether it has run.                                                *)
RunsOnce(q) == q.ran <= q.undone + 1 /\ (~Approved(q) => q.ran = q.undone)

RunKnown(q, executed) ==
  \/ executed = {} /\ q.ran = q.undone
  \/ \E r : executed = {r} /\ q.ran = q.undone + 1

Counted ==
  \A g \in Goals : \A n \in DOMAIN questions[g] :
    /\ RunsOnce(questions[g][n])
    /\ Event("answered", g, n) \in queue => RunKnown(questions[g][n], Executed(g, n))

Inv == Typed /\ Woken /\ InStep /\ ExecutedForAnswers /\ Counted

-----------------------------------------------------------------------------
(* Finite sets and sequences *)

(* The values a function takes on a finite set are finitely many.           *)
LEMMA FiniteRange ==
  ASSUME NEW S, IsFiniteSet(S), NEW f, DOMAIN f = S, f = [x \in S |-> f[x]]
  PROVE  IsFiniteSet({f[x] : x \in S})
<1> DEFINE T == {f[x] : x \in S}
<1>1. f \in Surjection(S, T)
  BY DEF Surjection
<1> QED
  BY <1>1, FS_Surjection

(* Finitely many artifacts are created by a generation.                     *)
LEMMA CreatedFinite ==
  ASSUME NEW what, NEW old, NEW new, \A g \in Goals : \E k \in Nat : DOMAIN new[g] = 1 .. k
  PROVE  IsFiniteSet(Created(what, old, new))
<1> DEFINE Of(g) == {Event(what, g, n) : n \in DOMAIN new[g] \ DOMAIN old[g]}
           f == [g \in Goals |-> Of(g)]
<1>1. ASSUME NEW g \in Goals  PROVE IsFiniteSet(Of(g))
  <2> DEFINE S == DOMAIN new[g] \ DOMAIN old[g]
             h == [n \in S |-> Event(what, g, n)]
  <2>1. PICK k \in Nat : DOMAIN new[g] = 1 .. k
    OBVIOUS
  <2>2. IsFiniteSet(S)
    BY <2>1, FS_Interval, FS_Subset
  <2>3. IsFiniteSet({h[n] : n \in S})
    <3> HIDE DEF S
    <3> QED BY <2>2, FiniteRange
  <2>4. {h[n] : n \in S} = Of(g)
    OBVIOUS
  <2> QED BY <2>3, <2>4
<1>2. IsFiniteSet({f[g] : g \in Goals})
  <2>1. DOMAIN f = Goals /\ f = [g \in Goals |-> f[g]]
    OBVIOUS
  <2> HIDE DEF f
  <2> QED BY <2>1, FiniteRange, ToolLoopAssumption
<1>3. IsFiniteSet(UNION {f[g] : g \in Goals})
  BY <1>1, <1>2, FS_UNION
<1>4. Created(what, old, new) = UNION {f[g] : g \in Goals}
  BY DEF Created
<1> QED
  BY <1>3, <1>4

(* A finite set put in a sequence: every element once. *)
LEMMA SetToSeqFacts ==
  ASSUME NEW S, IsFiniteSet(S)
  PROVE  \E k \in Nat :
           /\ SetToSeq(S) \in [1 .. k -> S]
           /\ \A i, j \in 1 .. k : SetToSeq(S)[i] = SetToSeq(S)[j] => i = j
           /\ \A x \in S : \E i \in 1 .. k : SetToSeq(S)[i] = x
<1> DEFINE k == Cardinality(S)
           s == SetToSeq(S)
<1>1. k \in Nat /\ ExistsBijection(1 .. k, S)
  BY FS_CardinalityType
<1>2. PICK f \in Bijection(1 .. k, S) : TRUE
  BY <1>1 DEF ExistsBijection
<1>3. f \in [1 .. k -> S] /\ IsInjective(f)
  BY <1>2 DEF Bijection, Injection, IsInjective
<1>4. s \in [1 .. k -> S] /\ IsInjective(s)
  BY <1>3 DEF SetToSeq
<1>5. IsFiniteSet(1 .. k) /\ Cardinality(1 .. k) = k
  BY <1>1, FS_Interval
<1>6. s \in Injection(1 .. k, S)
  <2> HIDE DEF s
  <2> QED BY <1>4 DEF Injection, IsInjective
<1>7. s \in Surjection(1 .. k, S)
  <2> HIDE DEF s
  <2> QED BY <1>5, <1>6, FS_Injection
<1>8. \A x \in S : \E i \in 1 .. k : s[i] = x
  <2> HIDE DEF s
  <2> QED BY <1>7 DEF Surjection
<1>9. \A i, j \in 1 .. k : s[i] = s[j] => i = j
  <2> HIDE DEF s
  <2> QED BY <1>4 DEF IsInjective
<1> HIDE DEF k
<1> QED
  BY <1>1, <1>4, <1>8, <1>9

(* The places an agent's elements have in a sequence, and those they get    *)
(* when it is added to another: none if there are none, one if there is one.*)
Places(t, a) == {i \in DOMAIN t : t[i].agent = a}

Added(s, t, a) == {n \in DOMAIN (s \o t) \ DOMAIN s : (s \o t)[n].agent = a}

LEMMA AddedFacts ==
  ASSUME NEW R, NEW s \in Seq(R), NEW t \in Seq(R), NEW a
  PROVE  /\ Places(t, a) = {} => Added(s, t, a) = {}
         /\ \A i : Places(t, a) = {i} => \E n : Added(s, t, a) = {n}
<1>1. /\ DOMAIN (s \o t) = 1 .. Len(s) + Len(t) /\ Len(s) \in Nat /\ Len(t) \in Nat
      /\ DOMAIN s = 1 .. Len(s) /\ DOMAIN t = 1 .. Len(t)
      /\ \A i \in 1 .. Len(s) + Len(t) : (s \o t)[i] = IF i <= Len(s) THEN s[i] ELSE t[i - Len(s)]
  OBVIOUS
<1>2. \A n \in Added(s, t, a) : n - Len(s) \in Places(t, a) /\ n \in Nat
  BY <1>1 DEF Added, Places
<1>3. \A i \in Places(t, a) : i + Len(s) \in Added(s, t, a) /\ i \in Nat
  BY <1>1 DEF Added, Places
<1>4. ASSUME NEW i, Places(t, a) = {i}  PROVE Added(s, t, a) = {i + Len(s)}
  <2>1. i \in Nat /\ i + Len(s) \in Added(s, t, a)
    BY <1>3, <1>4
  <2>2. \A n \in Added(s, t, a) : n = i + Len(s)
    BY <1>1, <1>2, <1>4, <2>1
  <2> QED BY <2>1, <2>2
<1> QED
  BY <1>2, <1>4

(* The places of an agent's results among those of one kind on a goal.      *)
LEMMA MadeFacts ==
  ASSUME IsFiniteSet(results), NEW g, NEW do, NEW a,
         NEW S, S = {r \in results : r.event.goal = g /\ r.effect.do = do /\ r.agent = a}
  PROVE  /\ S = {} => Places(Made(g, do), a) = {}
         /\ \A r : S = {r} => \E i : Places(Made(g, do), a) = {i}
<1> DEFINE T == {r \in results : r.event.goal = g /\ r.effect.do = do}
           m == Made(g, do)
<1>1. IsFiniteSet(T) /\ m = SetToSeq(T)
  BY FS_Subset DEF Made
<1>2. PICK k \in Nat :
        /\ m \in [1 .. k -> T]
        /\ \A i, j \in 1 .. k : m[i] = m[j] => i = j
        /\ \A x \in T : \E i \in 1 .. k : m[i] = x
  <2> HIDE DEF T
  <2>1. \E k \in Nat :
          /\ SetToSeq(T) \in [1 .. k -> T]
          /\ \A i, j \in 1 .. k : SetToSeq(T)[i] = SetToSeq(T)[j] => i = j
          /\ \A x \in T : \E i \in 1 .. k : SetToSeq(T)[i] = x
    BY <1>1, SetToSeqFacts
  <2> HIDE DEF m
  <2> QED BY <1>1, <2>1
<1>3. S = {r \in T : r.agent = a}
  OBVIOUS
<1> HIDE DEF T, m
<1>4. S = {} => Places(m, a) = {}
  BY <1>2, <1>3 DEF Places
<1>5. ASSUME NEW r, S = {r}  PROVE \E i : Places(m, a) = {i}
  <2>1. r \in T /\ r.agent = a
    BY <1>3, <1>5
  <2>2. PICK i \in 1 .. k : m[i] = r
    BY <1>2, <2>1
  <2>3. \A j \in Places(m, a) : m[j] = r /\ j \in 1 .. k
    BY <1>2, <1>3, <1>5 DEF Places
  <2>4. Places(m, a) = {i}
    BY <1>2, <2>1, <2>2, <2>3 DEF Places
  <2> QED BY <2>4
<1> QED
  BY <1>4, <1>5 DEF m

-----------------------------------------------------------------------------
(* Events and effects *)

(* What an event of something looks like.                                   *)
LEMMA EventFacts ==
  ASSUME Typed, NEW e, OfSomething(e)
  PROVE  /\ e.goal \in Goals
         /\ e = Event(e.what, e.goal, e.n)
         /\ e.what \in {"goal", "note", "asked", "answered"}
         /\ e.what \in {"asked", "answered"} =>
              /\ e.n \in DOMAIN questions[e.goal]
              /\ questions[e.goal][e.n] \in QuestionRecs
<1>1. \A g \in Goals : \A n \in DOMAIN questions[g] : questions[g][n] \in QuestionRecs
  BY DEF Typed
<1> QED
  BY <1>1 DEF OfSomething, Event

(* What a step of the model may come to: never an execution.                *)
LEMMA DecideFacts ==
  ASSUME NEW g, NEW effect \in Decide(g)
  PROVE  effect \in EffectRecs /\ ~Executes(effect)
<1>1. \A x \in Clarifications : Clarify(g, x) \in {Nothing, Observe("nudge"), Question(x)}
  BY DEF Clarify
<1>2. \A x \in Destructive : Approve(g, x) \in {Nothing, Observe("nudge"), Question(x)}
  BY DEF Approve
<1>3. Call(g) \in {Observe("nudge"), Observe("call")}
  BY DEF Call
<1>4. effect \in {Answer, Nothing, Observe("nudge"), Observe("call")} \cup {Question(x) : x \in Texts}
  BY <1>1, <1>2, <1>3 DEF Decide, Texts
<1>5. \A x : ~Executes(Question(x))
  BY DEF Question, Observe, Lost, Executes
<1>6. \A x \in {Answer, Nothing, Observe("nudge"), Observe("call")} : ~Executes(x)
  <2>1. ~Executes(Answer) /\ ~Executes(Nothing)
    BY DEF Answer, Nothing, Observe, Lost, Executes
  <2>2. ~Executes(Observe("nudge")) /\ ~Executes(Observe("call"))
    BY DEF Observe, Lost, Executes
  <2> QED BY <2>1, <2>2
<1> QED
  BY <1>4, <1>5, <1>6 DEF EffectRecs, Contents

LEMMA LostFacts ==
  /\ \A x, y : /\ Lost(x) # Answer /\ Lost(x) # Nothing
               /\ Lost(x) # Observe(y) /\ Lost(x) # Question(y)
  /\ \A x : Lost(x).do = "lost" /\ Observe(x).do # "lost" /\ Question(x).do # "lost"
  /\ Answer.do # "lost" /\ Nothing.do = "nothing" /\ \A y : Observe(y) # Nothing
  /\ Executes(Observe("approved")) /\ Executes(Lost("approved")) /\ ~Executes(Lost(""))
BY DEF Lost, Answer, Nothing, Observe, Question, Executes

(* Only an Observation is a note, and only a question a question.           *)
LEMMA EffectRecFacts ==
  ASSUME NEW f \in EffectRecs
  PROVE  /\ f.do = "note" => f.what \in Contents /\ f = Observe(f.what)
         /\ f.do = "question" => f.what \in Texts /\ f = Question(f.what)
<1>1. CASE f \in {Answer, Nothing, Lost(""), Lost("approved")}
  <2>1. /\ Answer.do = "answer" /\ Nothing.do = "nothing"
        /\ \A x : Lost(x).do = "lost"
    BY DEF Answer, Nothing, Lost
  <2>2. f.do \in {"answer", "nothing", "lost"}
    BY ONLY <1>1, <2>1
  <2> QED BY ONLY <2>2
<1>2. ASSUME NEW c \in Contents, f = Observe(c)
      PROVE  f.do = "note" /\ f.what = c
  BY ONLY <1>2 DEF Observe
<1>3. ASSUME NEW x \in Texts, f = Question(x)
      PROVE  f.do = "question" /\ f.what = x
  BY ONLY <1>3 DEF Question
<1>4. \/ f \in {Answer, Nothing, Lost(""), Lost("approved")}
      \/ \E c \in Contents : f = Observe(c)
      \/ \E x \in Texts : f = Question(x)
  BY DEF EffectRecs
<1> QED
  BY <1>1, <1>2, <1>3, <1>4

(* What a run comes to is what its agent hands back, or it is lost.         *)
LEMMA OutcomeFacts ==
  ASSUME NEW e, NEW effect \in Outcomes(e)
  PROVE  /\ effect.do = "lost" => effect \in {Lost(""), Lost("approved")} /\ drops < MaxDrops
         /\ effect.do # "lost" => effect \in Effects(e)
         /\ effect = Lost("approved") => Observe("approved") \in Effects(e)
         /\ effect \in Effects(e) \/ effect = Lost("") \/ effect = Lost("approved")
<1>1. ASSUME NEW f \in Effects(e)  PROVE f.do # "lost"
  <2>1. ASSUME NEW g, f \in Decide(g)  PROVE f.do # "lost"
    <3>1. /\ \A x : Clarify(g, x) \in {Nothing, Observe("nudge"), Question(x)}
          /\ \A x : Approve(g, x) \in {Nothing, Observe("nudge"), Question(x)}
      BY DEF Clarify, Approve
    <3>2. Call(g) \in {Observe("nudge"), Observe("call")}
      BY DEF Call
    <3> QED BY <2>1, <3>1, <3>2, LostFacts DEF Decide
  <2>2. \A q : Resume(q).do # "lost"
    BY LostFacts DEF Resume
  <2> QED BY <2>1, <2>2 DEF Effects
<1>2. Observe("approved").what = "approved"
  BY DEF Observe
<1>3. effect \in Effects(e) \/ (drops < MaxDrops /\ effect \in InVain(e))
  BY DEF Outcomes
<1>4. ASSUME effect \in InVain(e), effect # Lost("")
      PROVE  effect = Lost("approved") /\ Observe("approved") \in Effects(e)
  <2>1. effect \in {Lost(f.what) : f \in Effects(e) \cap {Observe("approved")}}
    BY <1>4 DEF InVain
  <2>2. PICK f \in Effects(e) \cap {Observe("approved")} : effect = Lost(f.what)
    BY ONLY <2>1
  <2> QED BY <1>2, <2>2
<1>5. Lost("") # Lost("approved")
  BY DEF Lost
<1> QED
  BY <1>1, <1>3, <1>4, <1>5, LostFacts

(* A run executes a destructive call for a question that is answered with   *)
(* yes, and in no other case.                                               *)
LEMMA EffectFacts ==
  ASSUME Typed, NEW e, OfSomething(e), NEW effect \in Outcomes(e)
  PROVE  /\ effect \in EffectRecs
         /\ Executes(effect) =>
              /\ e.what \in {"asked", "answered"}
              /\ Approved(questions[e.goal][e.n])
<1>1. ASSUME NEW f \in Effects(e)
      PROVE  /\ f \in EffectRecs
             /\ Executes(f) => /\ e.what \in {"asked", "answered"}
                               /\ Approved(questions[e.goal][e.n])
  <2>1. CASE e.what \in {"goal", "note"}
    BY <1>1, <2>1, DecideFacts DEF Effects
  <2>2. CASE e.what \notin {"goal", "note"}
    <3> DEFINE q == questions[e.goal][e.n]
    <3>1. f = Resume(q) /\ e.what \in {"asked", "answered"}
      BY <1>1, <2>2, EventFacts DEF Effects
    <3>2. Resume(q) \in {Nothing, Observe("human"), Observe("approved"), Observe("refused")}
      BY DEF Resume
    <3>3. Executes(Resume(q)) => Approved(q)
      BY DEF Resume, Approved, Nothing, Observe, Lost, Executes
    <3> QED
      BY <3>1, <3>2, <3>3 DEF EffectRecs, Contents
  <2> QED BY <2>1, <2>2
<1>2. CASE effect \in Effects(e)
  BY <1>1, <1>2
<1>3. CASE effect \in {Lost(""), Lost("approved")}
  BY <1>1, <1>3, OutcomeFacts, LostFacts DEF EffectRecs
<1> QED
  BY <1>2, <1>3, OutcomeFacts

(* A question's events wake the agent that asked it only.                   *)
LEMMA AskerOnly ==
  ASSUME NEW e, e.what \in {"asked", "answered"}, NEW a, Wakes(e, a)
  PROVE  a = questions[e.goal][e.n].agent
BY DEF Wakes

(* What was executed and is not committed yet was executed by the asker for *)
(* the answer, and is one result at most.                                   *)
LEMMA ExecutedOnce ==
  ASSUME Typed, Woken, ExecutedForAnswers, NEW g, NEW n, NEW r \in Executed(g, n)
  PROVE  /\ r.event = Event("answered", g, n) /\ r.event \in batch
         /\ r.agent = questions[g][n].agent
<1>1. r \in results /\ r.event.goal = g /\ r.event.n = n /\ r.event.what = "answered"
  BY DEF Executed, ExecutedForAnswers
<1>2. r.event \in batch /\ OfSomething(r.event)
  BY <1>1 DEF Typed
<1>3. r.event = Event("answered", g, n)
  BY <1>1, <1>2, EventFacts
<1>4. Wakes(r.event, r.agent)
  BY <1>1 DEF Woken
<1> QED
  BY <1>1, <1>2, <1>3, <1>4, AskerOnly

-----------------------------------------------------------------------------
(* The steps *)

LEMMA InitInv == Init => Inv
<1> SUFFICES ASSUME Init PROVE Inv
  OBVIOUS
<1>1. Typed
  BY FS_EmptySet DEF Init, Typed
<1> QED
  BY <1>1 DEF Init, Inv, Woken, InStep, ExecutedForAnswers, Counted

(* What does not touch notes and questions wakes the same agents.           *)
LEMMA SameContext ==
  ASSUME UNCHANGED <<notes, questions>>
  PROVE  /\ \A e : OfSomething(e) => OfSomething(e)'
         /\ \A e, a : Wakes(e, a) => Wakes(e, a)'
BY DEF OfSomething, Wakes

LEMMA SubmitStep ==
  ASSUME Inv, NEW g \in Goals, Submit(g)
  PROVE  Inv'
<1> USE DEF Inv
<1> DEFINE e == Event("goal", g, 0)
<1>1. /\ UNCHANGED <<notes, questions, batch, todo, results>>
      /\ queue' = queue \cup {e} /\ asked' = asked \cup {g}
  BY DEF Submit, contextVars, generationVars
<1>2. OfSomething(e)'
  BY DEF OfSomething
<1>3. Typed'
  BY <1>1, <1>2, SameContext, FS_AddElement DEF Typed
<1>4. Woken'
  BY <1>1, SameContext DEF Woken
<1>5. InStep' /\ e.what = "goal"
  BY <1>1 DEF InStep, Event
<1>6. ExecutedForAnswers'
  BY <1>1 DEF ExecutedForAnswers, Approved
<1>7. Counted'
  <2>1. \A h, n : Event("answered", h, n) # e
    BY DEF Event
  <2>2. \A h, n : Executed(h, n)' = Executed(h, n)
    BY <1>1 DEF Executed
  <2>3. \A h, n : Event("answered", h, n) \in queue' => Event("answered", h, n) \in queue
    BY <1>1, <2>1
  <2> HIDE DEF e
  <2>4. Counted
    OBVIOUS
  <2>5. questions' = questions
    BY <1>1
  <2> QED BY ONLY <2>2, <2>3, <2>4, <2>5 DEF Counted
<1> QED
  BY <1>3, <1>4, <1>5, <1>6, <1>7

LEMMA BeginStep ==
  ASSUME Inv, Begin
  PROVE  Inv'
<1> USE DEF Inv
<1>1. /\ UNCHANGED <<asked, notes, questions, queue, results>>
      /\ batch = {} /\ batch' = queue
      /\ todo' = {w \in Agents \X queue : Wakes(w[2], w[1])}
  BY DEF Begin, contextVars
<1>2. results = {}
  BY <1>1 DEF Typed
<1>3. Typed'
  BY <1>1, <1>2, SameContext DEF Typed
<1>4. Woken'
  BY <1>1, <1>2, SameContext DEF Woken
<1>5. InStep' /\ ExecutedForAnswers'
  BY <1>1 DEF InStep, ExecutedForAnswers, Approved
<1>6. Counted'
  <2>1. \A h, n : Executed(h, n)' = Executed(h, n)
    BY <1>1 DEF Executed
  <2> QED BY <1>1, <2>1 DEF Counted, RunsOnce, RunKnown, Approved
<1> QED
  BY <1>3, <1>4, <1>5, <1>6

(* A question changes, and no other.                                        *)
LEMMA OneChanged ==
  ASSUME Typed, NEW g \in Goals, NEW n \in DOMAIN questions[g], NEW q \in QuestionRecs,
         questions' = [questions EXCEPT ![g] = [@ EXCEPT ![n] = q]]
  PROVE  /\ questions' \in [Goals -> Seq(QuestionRecs)]
         /\ \A h \in Goals : DOMAIN questions'[h] = DOMAIN questions[h]
         /\ \A h \in Goals : \A m \in DOMAIN questions[h] :
              questions'[h][m] = IF h = g /\ m = n THEN q ELSE questions[h][m]
<1>1. questions \in [Goals -> Seq(QuestionRecs)]
  BY DEF Typed
<1> DEFINE qs == [questions[g] EXCEPT ![n] = q]
<1>2. qs \in Seq(QuestionRecs) /\ DOMAIN qs = DOMAIN questions[g]
  BY <1>1
<1>3. \A m \in DOMAIN questions[g] : qs[m] = IF m = n THEN q ELSE questions[g][m]
  BY <1>1
<1>4. questions' = [questions EXCEPT ![g] = qs]
  OBVIOUS
<1> HIDE DEF qs
<1>5. questions' \in [Goals -> Seq(QuestionRecs)]
  BY <1>1, <1>2, <1>4
<1>6. \A h \in Goals : questions'[h] = IF h = g THEN qs ELSE questions[h]
  BY <1>1, <1>4
<1> QED
  BY <1>2, <1>3, <1>5, <1>6

(* What is kept when notes stay and no question is withdrawn or handed over.*)
LEMMA SameAskers ==
  ASSUME Typed, notes' = notes,
         \A h \in Goals : DOMAIN questions'[h] = DOMAIN questions[h],
         \A h \in Goals : \A m \in DOMAIN questions[h] :
           questions'[h][m].agent = questions[h][m].agent
  PROVE  \A e : OfSomething(e) =>
           OfSomething(e)' /\ \A a : Wakes(e, a) => Wakes(e, a)'
<1> SUFFICES ASSUME NEW e, OfSomething(e)
             PROVE  OfSomething(e)' /\ \A a : Wakes(e, a) => Wakes(e, a)'
  OBVIOUS
<1>1. OfSomething(e)'
  BY DEF OfSomething
<1>2. /\ e.goal \in Goals
      /\ e.what \in {"goal", "note", "asked", "answered"}
      /\ e.what \in {"asked", "answered"} => e.n \in DOMAIN questions[e.goal]
  BY EventFacts
<1> QED
  BY <1>1, <1>2 DEF Wakes

LEMMA ReplyStep ==
  ASSUME Inv, AnswersAtRest, NEW g \in Goals, NEW n \in Open(g),
         NEW reply \in Replies(questions[g][n]), Reply(g, n, reply)
  PROVE  Inv'
<1> USE DEF Inv
<1> DEFINE old == questions[g][n]
           new == [old EXCEPT !.reply = reply]
           e == Event("answered", g, n)
<1>1. /\ UNCHANGED <<asked, notes, batch, todo, results>>
      /\ queue = {} /\ batch = {} /\ queue' = queue \cup {e}
      /\ questions' = [questions EXCEPT ![g] = [@ EXCEPT ![n] = new]]
  BY DEF Reply, AtRest, generationVars
<1>2. n \in DOMAIN questions[g] /\ old.reply = "none" /\ old \in QuestionRecs
  BY DEF Open, Typed
<1>3. reply \in {"text", "yes", "no"} /\ (old.about \notin Destructive => reply # "yes")
  BY DEF Replies
<1>4. new \in QuestionRecs /\ new.agent = old.agent /\ new.about = old.about
      /\ new.reply = reply /\ new.ran = old.ran /\ new.undone = old.undone
  BY <1>2, <1>3 DEF QuestionRecs
<1> HIDE DEF new
<1>5. /\ questions' \in [Goals -> Seq(QuestionRecs)]
      /\ \A h \in Goals : DOMAIN questions'[h] = DOMAIN questions[h]
      /\ \A h \in Goals : \A m \in DOMAIN questions[h] :
           questions'[h][m] = IF h = g /\ m = n THEN new ELSE questions[h][m]
  BY <1>1, <1>2, <1>4, OneChanged
<1>6. results = {} /\ todo = {}
  BY <1>1 DEF Typed
<1>7. Typed'
  <2>1. OfSomething(e)'
    BY <1>2, <1>5 DEF OfSomething
  <2>2. IsFiniteSet(queue')
    <3> HIDE DEF e
    <3> QED BY <1>1, FS_AddElement DEF Typed
  <2> QED BY <1>1, <1>5, <1>6, <2>1, <2>2 DEF Typed
<1>8. Woken' /\ ExecutedForAnswers'
  BY <1>1, <1>6 DEF Woken, ExecutedForAnswers
<1>9. InStep'
  BY <1>1, <1>2, <1>3, <1>4, <1>5 DEF InStep, Event
<1>10. Counted'
  <2> SUFFICES ASSUME NEW h \in Goals, NEW m \in DOMAIN questions'[h]
               PROVE  /\ RunsOnce(questions'[h][m])
                      /\ Event("answered", h, m) \in queue' =>
                           RunKnown(questions'[h][m], Executed(h, m)')
    BY DEF Counted, RunsOnce, RunKnown, Approved
  <2>1. Executed(h, m)' = {}
    BY <1>1, <1>6 DEF Executed
  <2>2. CASE h = g /\ m = n
    <3>1. old.ran = old.undone
      BY <1>2 DEF Counted, RunsOnce, RunKnown, Approved
    <3> QED BY <2>1, <2>2, <3>1, <1>2, <1>4, <1>5 DEF RunsOnce, RunKnown, QuestionRecs
  <2>3. CASE ~(h = g /\ m = n)
    <3>1. questions'[h][m] = questions[h][m] /\ m \in DOMAIN questions[h]
      BY <2>3, <1>5
    <3>2. Event("answered", h, m) \notin queue'
      BY <1>1, <2>3 DEF Event
    <3> QED BY <3>1, <3>2 DEF Counted, RunsOnce, RunKnown
  <2> QED BY <2>2, <2>3
<1> QED
  BY <1>7, <1>8, <1>9, <1>10

LEMMA RunStep ==
  ASSUME Inv, NEW a, NEW e, NEW effect, Run(a, e, effect)
  PROVE  Inv'
<1> USE DEF Inv
<1> DEFINE g == e.goal
           n == e.n
           old == questions[g][n]
           new == [old EXCEPT !.ran = @ + 1]
           mine == [agent |-> a, event |-> e, effect |-> effect]
           approved == Executes(effect)
<1>1. /\ UNCHANGED <<asked, notes, queue, batch>>
      /\ <<a, e>> \in todo /\ effect \in Outcomes(e)
      /\ todo' = todo \ {<<a, e>>}
      /\ results' = results \cup {mine}
      /\ questions' = IF approved THEN [questions EXCEPT ![g] = [@ EXCEPT ![n] = new]] ELSE questions
  BY DEF Run
<1>2. a \in Agents /\ e \in batch /\ e \in queue /\ OfSomething(e) /\ Wakes(e, a)
  BY <1>1 DEF Typed, Woken
<1>3. effect \in EffectRecs
  BY <1>1, <1>2, EffectFacts
<1>4. approved => /\ g \in Goals /\ n \in DOMAIN questions[g] /\ old \in QuestionRecs
                  /\ e = Event("answered", g, n) /\ Approved(old) /\ a = old.agent
  <2> SUFFICES ASSUME approved
               PROVE  /\ g \in Goals /\ n \in DOMAIN questions[g] /\ old \in QuestionRecs
                      /\ e = Event("answered", g, n) /\ Approved(old) /\ a = old.agent
    OBVIOUS
  <2>1. e.what \in {"asked", "answered"} /\ Approved(old)
    BY <1>1, <1>2, EffectFacts
  <2>2. e.what = "answered"
    BY <1>2, <2>1 DEF InStep, Approved
  <2>3. a = old.agent
    BY <1>2, <2>1, AskerOnly
  <2> QED BY <1>2, <2>1, <2>2, <2>3, EventFacts
<1>5. approved => /\ new \in QuestionRecs /\ new.agent = old.agent /\ new.about = old.about
                  /\ new.reply = old.reply /\ new.ran = old.ran + 1 /\ new.undone = old.undone
  BY <1>4 DEF QuestionRecs
<1> HIDE DEF new
<1>6. /\ questions' \in [Goals -> Seq(QuestionRecs)]
      /\ \A h \in Goals : DOMAIN questions'[h] = DOMAIN questions[h]
      /\ \A h \in Goals : \A m \in DOMAIN questions[h] :
           questions'[h][m] = IF approved /\ h = g /\ m = n THEN new ELSE questions[h][m]
  <2>1. CASE approved
    BY <2>1, <1>1, <1>4, <1>5, OneChanged
  <2>2. CASE ~approved
    BY <2>2, <1>1 DEF Typed
  <2> QED BY <2>1, <2>2
<1>7. \A h \in Goals : \A m \in DOMAIN questions[h] :
        /\ questions'[h][m].agent = questions[h][m].agent
        /\ questions'[h][m].reply = questions[h][m].reply
        /\ questions'[h][m].about = questions[h][m].about
        /\ questions'[h][m].undone = questions[h][m].undone
        /\ ~(approved /\ h = g /\ m = n) => questions'[h][m].ran = questions[h][m].ran
  BY <1>5, <1>6
<1>8. \A d \in queue : OfSomething(d)' /\ \A b : Wakes(d, b) => Wakes(d, b)'
  BY <1>1, <1>6, <1>7, SameAskers DEF Typed
<1>9. Typed'
  <2>1. results' \subseteq [agent : Agents, event : batch', effect : EffectRecs]
    BY <1>1, <1>2, <1>3 DEF Typed
  <2>2. IsFiniteSet(results')
    <3> HIDE DEF mine
    <3> QED BY <1>1, FS_AddElement DEF Typed
  <2> QED BY <1>1, <1>6, <1>8, <2>1, <2>2 DEF Typed
<1>10. Woken'
  <2>1. \A w \in todo : w[2] \in queue
    BY DEF Typed
  <2>2. \A r \in results : r.event \in queue
    BY DEF Typed
  <2> QED BY <1>1, <1>2, <1>8, <2>1, <2>2 DEF Woken
<1>11. InStep'
  BY <1>1, <1>7, EventFacts DEF InStep, Typed
<1>12. ExecutedForAnswers'
  <2> SUFFICES ASSUME NEW r \in results', Executes(r.effect)
               PROVE  r.event.what = "answered" /\ Approved(questions'[r.event.goal][r.event.n])
    BY DEF ExecutedForAnswers, Approved
  <2>1. CASE r \in results
    <3>1. r.event \in queue /\ OfSomething(r.event)
      BY <2>1 DEF Typed
    <3>2. r.event.what = "answered" /\ Approved(questions[r.event.goal][r.event.n])
      BY <2>1 DEF ExecutedForAnswers
    <3> QED BY <3>1, <3>2, <1>7, EventFacts DEF Approved
  <2>2. CASE r = mine
    BY <2>2, <1>4, <1>7 DEF Approved, Event
  <2> QED BY <2>1, <2>2, <1>1
<1>13. \A h, m : Executed(h, m)' = Executed(h, m) \cup (IF approved /\ h = g /\ m = n THEN {mine} ELSE {})
  BY <1>1 DEF Executed
<1>14. approved => Executed(g, n) = {}
  <2> SUFFICES ASSUME approved, NEW r \in Executed(g, n)  PROVE FALSE
    OBVIOUS
  <2>1. r.event = e /\ r.agent = a
    BY <1>4, ExecutedOnce
  <2> QED BY <2>1, <1>1 DEF Woken, Executed
<1>15. Counted'
  <2> SUFFICES ASSUME NEW h \in Goals, NEW m \in DOMAIN questions'[h]
               PROVE  /\ RunsOnce(questions'[h][m])
                      /\ Event("answered", h, m) \in queue' =>
                           RunKnown(questions'[h][m], Executed(h, m)')
    BY DEF Counted, RunsOnce, RunKnown, Approved
  <2>1. CASE approved /\ h = g /\ m = n
    <3>1. old.ran = old.undone
      BY <2>1, <1>2, <1>4, <1>14 DEF Counted, RunsOnce, RunKnown
    <3>2. Executed(h, m)' = {mine}
      BY <2>1, <1>13, <1>14
    <3>3. new.ran = new.undone + 1 /\ new.undone \in Nat /\ Approved(new)
      BY <2>1, <3>1, <1>4, <1>5 DEF Approved, QuestionRecs
    <3>4. questions'[h][m] = new
      BY <2>1, <1>6
    <3>5. RunsOnce(new)
      BY <3>3 DEF RunsOnce
    <3>6. RunKnown(new, {mine})
      BY <3>3 DEF RunKnown
    <3> HIDE DEF mine
    <3> QED BY <3>2, <3>4, <3>5, <3>6
  <2>2. CASE ~(approved /\ h = g /\ m = n)
    <3>1. m \in DOMAIN questions[h]
      BY <1>6
    <3>2. questions'[h][m] = questions[h][m]
      BY <2>2, <3>1, <1>6
    <3>3. Executed(h, m)' = Executed(h, m)
      BY <2>2, <1>13
    <3>4. /\ RunsOnce(questions[h][m])
          /\ Event("answered", h, m) \in queue => RunKnown(questions[h][m], Executed(h, m))
      BY <3>1 DEF Counted
    <3> QED BY <3>2, <3>3, <3>4, <1>1
  <2> QED BY <2>1, <2>2
<1> QED
  BY <1>9, <1>10, <1>11, <1>12, <1>15

LEMMA AbortStep ==
  ASSUME Inv, Abort
  PROVE  Inv'
<1> USE DEF Inv
<1> DEFINE new(g, n) == [questions[g][n] EXCEPT !.undone = @ + Cardinality(Executed(g, n))]
<1>1. /\ UNCHANGED <<asked, notes, queue>>
      /\ batch' = {} /\ todo' = {} /\ results' = {}
      /\ questions' = [g \in Goals |-> [n \in DOMAIN questions[g] |-> new(g, n)]]
  BY DEF Abort, Executed
<1>2. ASSUME NEW g \in Goals, NEW n \in DOMAIN questions[g]
      PROVE  /\ questions[g][n] \in QuestionRecs
             /\ Cardinality(Executed(g, n)) \in Nat
             /\ RunsOnce(questions[g][n])
             /\ ~Approved(questions[g][n]) => Cardinality(Executed(g, n)) = 0
             /\ Event("answered", g, n) \in queue =>
                  questions[g][n].ran = questions[g][n].undone + Cardinality(Executed(g, n))
  <2>1. questions[g][n] \in QuestionRecs /\ RunsOnce(questions[g][n])
    BY DEF Typed, Counted
  <2>2. Executed(g, n) # {} => Event("answered", g, n) \in queue /\ Approved(questions[g][n])
    <3> SUFFICES ASSUME NEW r \in Executed(g, n)
                 PROVE  Event("answered", g, n) \in queue /\ Approved(questions[g][n])
      OBVIOUS
    <3>1. r.event = Event("answered", g, n) /\ r.event \in batch
      BY ExecutedOnce
    <3>2. Approved(questions[g][n])
      BY DEF Executed, ExecutedForAnswers
    <3> QED BY <3>1, <3>2 DEF Typed
  <2>3. CASE Executed(g, n) = {}
    <3>1. Cardinality(Executed(g, n)) = 0
      BY <2>3, FS_EmptySet
    <3>2. Event("answered", g, n) \in queue => questions[g][n].ran = questions[g][n].undone
      BY <2>3 DEF Counted, RunKnown
    <3> QED BY <2>1, <3>1, <3>2 DEF QuestionRecs
  <2>4. CASE Executed(g, n) # {}
    <3>1. PICK r : Executed(g, n) = {r} /\ questions[g][n].ran = questions[g][n].undone + 1
      BY <2>2, <2>4 DEF Counted, RunKnown
    <3>2. Cardinality(Executed(g, n)) = 1
      BY <3>1, FS_Singleton
    <3> QED BY <2>1, <2>2, <2>4, <3>1, <3>2
  <2> QED BY <2>3, <2>4
<1>3. ASSUME NEW g \in Goals, NEW n \in DOMAIN questions[g]
      PROVE  LET q == questions[g][n]  k == Cardinality(Executed(g, n))
             IN  /\ new(g, n) \in QuestionRecs /\ new(g, n).undone = q.undone + k
                 /\ new(g, n).agent = q.agent /\ new(g, n).about = q.about
                 /\ new(g, n).reply = q.reply /\ new(g, n).ran = q.ran
  BY <1>2 DEF QuestionRecs
<1> HIDE DEF new
<1>4. ASSUME NEW g \in Goals
      PROVE  /\ questions'[g] \in Seq(QuestionRecs)
             /\ DOMAIN questions'[g] = DOMAIN questions[g]
             /\ \A n \in DOMAIN questions[g] : questions'[g][n] = new(g, n)
  <2>1. questions[g] \in Seq(QuestionRecs)
    BY DEF Typed
  <2>2. DOMAIN questions[g] = 1 .. Len(questions[g]) /\ Len(questions[g]) \in Nat
    BY <2>1
  <2>3. questions'[g] = [n \in 1 .. Len(questions[g]) |-> new(g, n)]
    BY <1>1, <2>2
  <2>4. \A n \in 1 .. Len(questions[g]) : new(g, n) \in QuestionRecs
    BY <1>3, <2>2
  <2> QED BY <2>2, <2>3, <2>4
<1>5. \A e \in queue : OfSomething(e)'
  <2>1. \A g \in Goals : \A n \in DOMAIN questions[g] : questions'[g][n].agent = questions[g][n].agent
    BY <1>3, <1>4
  <2> QED BY <1>1, <1>4, <2>1, SameAskers DEF Typed
<1>6. Typed'
  <2>1. questions' \in [Goals -> Seq(QuestionRecs)]
    BY <1>1, <1>4
  <2> QED BY <1>1, <1>5, <2>1, FS_EmptySet DEF Typed
<1>7. Woken' /\ ExecutedForAnswers'
  BY <1>1 DEF Woken, ExecutedForAnswers
<1>8. InStep'
  <2> SUFFICES ASSUME NEW e \in queue, e.what \in {"asked", "answered"}
               PROVE  questions'[e.goal][e.n].reply = questions[e.goal][e.n].reply
    BY <1>1 DEF InStep
  <2>1. e.goal \in Goals /\ e.n \in DOMAIN questions[e.goal]
    BY EventFacts DEF Typed
  <2> QED BY <2>1, <1>3, <1>4
<1>9. Counted'
  <2> SUFFICES ASSUME NEW g \in Goals, NEW n \in DOMAIN questions[g]
               PROVE  /\ RunsOnce(new(g, n))
                      /\ Event("answered", g, n) \in queue => new(g, n).ran = new(g, n).undone
    <3>1. \A g, n : Executed(g, n)' = {}
      BY <1>1 DEF Executed
    <3> QED BY <1>1, <1>4, <3>1 DEF Counted, RunKnown
  <2>1. Approved(new(g, n)) <=> Approved(questions[g][n])
    BY <1>3 DEF Approved
  <2> QED BY <2>1, <1>2, <1>3 DEF RunsOnce, QuestionRecs
<1> QED
  BY <1>6, <1>7, <1>8, <1>9

(* What a generation's commits add to a goal.                               *)
LEMMA NewFacts ==
  ASSUME Typed, NEW g \in Goals
  PROVE  /\ NewNotes(g) \in Seq(NoteRecs)
         /\ NewQuestions(g) \in Seq(QuestionRecs)
         /\ \A i \in DOMAIN NewQuestions(g) :
              NewQuestions(g)[i].reply = "none" /\ NewQuestions(g)[i].ran = NewQuestions(g)[i].undone
<1> DEFINE of(do) == {r \in results : r.event.goal = g /\ r.effect.do = do}
<1>1. \A do : \E k \in Nat : Made(g, do) \in [1 .. k -> of(do)]
  <2> SUFFICES ASSUME NEW do  PROVE \E k \in Nat : Made(g, do) \in [1 .. k -> of(do)]
    OBVIOUS
  <2>1. IsFiniteSet(of(do))
    BY FS_Subset DEF Typed
  <2> QED BY <2>1, SetToSeqFacts DEF Made
<1>2. \A r \in results : r.agent \in Agents /\ r.effect \in EffectRecs
  BY DEF Typed
<1>3. \A f \in EffectRecs : /\ f.do = "note" => f.what \in Contents
                            /\ f.do = "question" => f.what \in Texts
  BY EffectRecFacts
<1>4. /\ \A r \in of("note") : r.agent \in Agents /\ r.effect.what \in Contents
      /\ \A r \in of("question") : r.agent \in Agents /\ r.effect.what \in Texts
  BY <1>2, <1>3
<1> HIDE DEF of
<1>5. NewNotes(g) \in Seq(NoteRecs)
  <2>1. PICK k \in Nat : Made(g, "note") \in [1 .. k -> of("note")]
    BY <1>1
  <2>2. NewNotes(g) \in [1 .. k -> NoteRecs]
    BY <1>4, <2>1 DEF NewNotes, NoteRecs
  <2> QED BY <2>2
<1>6. /\ NewQuestions(g) \in Seq(QuestionRecs)
      /\ \A i \in DOMAIN NewQuestions(g) :
           NewQuestions(g)[i].reply = "none" /\ NewQuestions(g)[i].ran = NewQuestions(g)[i].undone
  <2>1. PICK k \in Nat : Made(g, "question") \in [1 .. k -> of("question")]
    BY <1>1
  <2>2. NewQuestions(g) \in [1 .. k -> QuestionRecs]
    BY <1>4, <2>1 DEF NewQuestions, QuestionRecs
  <2>3. \A i \in 1 .. k :
          NewQuestions(g)[i].reply = "none" /\ NewQuestions(g)[i].ran = NewQuestions(g)[i].undone
    BY <2>1 DEF NewQuestions
  <2> QED BY <2>2, <2>3
<1> QED
  BY <1>5, <1>6

LEMMA CommitStep ==
  ASSUME Inv, Commit
  PROVE  Inv'
<1> USE DEF Inv
<1>1. /\ asked' = asked /\ todo' = todo /\ todo = {} /\ batch' = {} /\ results' = {}
      /\ notes' = [g \in Goals |-> notes[g] \o NewNotes(g)]
      /\ questions' = [g \in Goals |-> questions[g] \o NewQuestions(g)]
      /\ queue' = (queue \ batch) \cup Created("note", notes, notes')
                                  \cup Created("asked", questions, questions')
  BY DEF Commit
<1>2. ASSUME NEW g \in Goals
      PROVE  /\ notes'[g] \in Seq(NoteRecs)
             /\ DOMAIN notes[g] \subseteq DOMAIN notes'[g]
             /\ \A n \in DOMAIN notes[g] : notes'[g][n] = notes[g][n]
             /\ \E k \in Nat : DOMAIN notes'[g] = 1 .. k
  <2>1. notes[g] \in Seq(NoteRecs) /\ NewNotes(g) \in Seq(NoteRecs)
    BY NewFacts DEF Typed
  <2> HIDE DEF Inv
  <2> QED BY <1>1, <2>1, ConcatProperties, LenProperties
<1>3. ASSUME NEW g \in Goals
      PROVE  /\ questions'[g] \in Seq(QuestionRecs)
             /\ DOMAIN questions[g] \subseteq DOMAIN questions'[g]
             /\ \A n \in DOMAIN questions[g] : questions'[g][n] = questions[g][n]
             /\ \A n \in DOMAIN questions'[g] \ DOMAIN questions[g] :
                  questions'[g][n].reply = "none" /\ questions'[g][n].ran = questions'[g][n].undone
             /\ \E k \in Nat : DOMAIN questions'[g] = 1 .. k
  <2> DEFINE s == questions[g]
             t == NewQuestions(g)
  <2>1. /\ s \in Seq(QuestionRecs) /\ t \in Seq(QuestionRecs)
        /\ \A i \in DOMAIN t : t[i].reply = "none" /\ t[i].ran = t[i].undone
    BY NewFacts DEF Typed
  <2>2. questions'[g] = s \o t
    BY <1>1
  <2> HIDE DEF s, t
  <2>3. /\ s \o t \in Seq(QuestionRecs) /\ DOMAIN (s \o t) = 1 .. Len(s) + Len(t)
        /\ DOMAIN s = 1 .. Len(s) /\ DOMAIN t = 1 .. Len(t)
        /\ Len(s) \in Nat /\ Len(t) \in Nat
        /\ \A i \in 1 .. Len(s) + Len(t) : (s \o t)[i] = IF i <= Len(s) THEN s[i] ELSE t[i - Len(s)]
    BY <2>1
  <2>4. \A n \in DOMAIN (s \o t) \ DOMAIN s : n - Len(s) \in DOMAIN t /\ (s \o t)[n] = t[n - Len(s)]
    BY <2>3
  <2>5. /\ \A n \in DOMAIN s : (s \o t)[n] = s[n]
        /\ DOMAIN s \subseteq DOMAIN (s \o t) /\ Len(s) + Len(t) \in Nat
    BY <2>3
  <2> QED BY <2>1, <2>2, <2>3, <2>4, <2>5 DEF s
<1>4. \A e \in queue' :
        \/ e \in queue \ batch
        \/ e.what # "answered" /\ \E g \in Goals : \E n \in DOMAIN notes'[g] : e = Event("note", g, n)
        \/ e.what # "answered" /\ \E g \in Goals : \E n \in DOMAIN questions'[g] \ DOMAIN questions[g] :
              e = Event("asked", g, n)
  BY <1>1 DEF Created, Event
<1>5. \A e \in queue' : OfSomething(e)'
  <2>1. \A e \in queue : OfSomething(e)'
    BY <1>2, <1>3 DEF Typed, OfSomething
  <2> QED BY <1>4, <2>1 DEF OfSomething
<1>6. Typed'
  <2>1. IsFiniteSet(Created("note", notes, notes')) /\ IsFiniteSet(Created("asked", questions, questions'))
    BY <1>2, <1>3, CreatedFinite
  <2>2. IsFiniteSet(queue \ batch)
    BY FS_Subset DEF Typed
  <2>3. IsFiniteSet(queue')
    BY <1>1, <2>1, <2>2, FS_Union
  <2>4. notes' \in [Goals -> Seq(NoteRecs)] /\ questions' \in [Goals -> Seq(QuestionRecs)]
    BY <1>1, <1>2, <1>3
  <2> QED BY <1>1, <1>5, <2>3, <2>4, FS_EmptySet DEF Typed
<1>7. Woken' /\ ExecutedForAnswers'
  BY <1>1 DEF Woken, ExecutedForAnswers
<1>8. InStep'
  <2> SUFFICES ASSUME NEW e \in queue', e.what \in {"asked", "answered"}
               PROVE  /\ e.what = "asked" => questions'[e.goal][e.n].reply = "none"
                      /\ e.what = "answered" => questions'[e.goal][e.n].reply # "none"
    BY DEF InStep
  <2>1. CASE e \in queue
    <3>1. e.goal \in Goals /\ e.n \in DOMAIN questions[e.goal]
      BY <2>1, EventFacts DEF Typed
    <3> QED BY <2>1, <3>1, <1>3 DEF InStep
  <2>2. CASE e \notin queue
    <3>1. PICK g \in Goals : \E n \in DOMAIN questions'[g] \ DOMAIN questions[g] : e = Event("asked", g, n)
      BY <2>2, <1>4 DEF Event
    <3> QED BY <3>1, <1>3 DEF Event
  <2> QED BY <2>1, <2>2
<1>9. Counted'
  <2> SUFFICES ASSUME NEW g \in Goals, NEW n \in DOMAIN questions'[g]
               PROVE  /\ RunsOnce(questions'[g][n])
                      /\ Event("answered", g, n) \in queue' => questions'[g][n].ran = questions'[g][n].undone
    <3>1. \A g, n : Executed(g, n)' = {}
      BY <1>1 DEF Executed
    <3> QED BY <3>1 DEF Counted, RunKnown
  <2>1. CASE n \in DOMAIN questions[g]
    <3>1. questions'[g][n] = questions[g][n]
      BY <2>1, <1>3
    <3>2. RunsOnce(questions[g][n])
      BY <2>1 DEF Counted
    <3>3. Event("answered", g, n) \in queue' => Event("answered", g, n) \in queue \ batch
      BY <1>4 DEF Event
    <3>4. ASSUME Event("answered", g, n) \in queue \ batch
          PROVE  questions[g][n].ran = questions[g][n].undone
      <4>1. Executed(g, n) = {}
        BY <3>4, ExecutedOnce
      <4> QED BY <2>1, <3>4, <4>1 DEF Counted, RunKnown
    <3> QED BY <3>1, <3>2, <3>3, <3>4
  <2>2. CASE n \notin DOMAIN questions[g]
    <3>1. questions'[g][n].ran = questions'[g][n].undone /\ questions'[g][n] \in QuestionRecs
      BY <2>2, <1>3
    <3> QED BY <3>1 DEF RunsOnce, QuestionRecs
  <2> QED BY <2>1, <2>2
<1> QED
  BY <1>6, <1>7, <1>8, <1>9

-----------------------------------------------------------------------------
(* The theorem *)

LEMMA NextInv ==
  ASSUME Inv, AnswersAtRest, [Next]_vars
  PROVE  Inv'
<1>1. CASE Begin
  BY <1>1, BeginStep
<1>2. CASE Commit
  BY <1>2, CommitStep
<1>3. CASE Abort
  BY <1>3, AbortStep
<1>4. ASSUME NEW w \in todo, NEW effect \in Outcomes(w[2]), Run(w[1], w[2], effect)
      PROVE  Inv'
  BY <1>4, RunStep
<1>5. ASSUME NEW g \in Goals, NEW n \in Open(g), NEW reply \in Replies(questions[g][n]),
             Reply(g, n, reply)
      PROVE  Inv'
  BY <1>5, ReplyStep
<1>6. ASSUME NEW g \in Goals, Submit(g)  PROVE Inv'
  BY <1>6, SubmitStep
<1>7. CASE UNCHANGED vars
  <2>1. UNCHANGED <<asked, notes, questions, queue, batch, todo, results>>
    BY <1>7 DEF vars, contextVars, generationVars
  <2>2. Typed' /\ Woken'
    BY <2>1, SameContext DEF Inv, Typed, Woken
  <2>3. InStep' /\ ExecutedForAnswers'
    BY <2>1 DEF Inv, InStep, ExecutedForAnswers
  <2>4. \A g, n : Executed(g, n)' = Executed(g, n)
    BY <2>1 DEF Executed
  <2>5. Counted'
    BY <2>1, <2>4 DEF Inv, Counted
  <2> QED BY <2>2, <2>3, <2>5 DEF Inv
<1> QED
  BY <1>1, <1>2, <1>3, <1>4, <1>5, <1>6, <1>7 DEF Next, Step, Human

LEMMA InvRunsOnce == Inv => OneRunPerApproval
<1> SUFFICES ASSUME Inv, NEW g \in Goals, NEW q \in ToSet(questions[g])
             PROVE  q.ran <= q.undone + (IF q.about \in Destructive /\ q.reply = "yes" THEN 1 ELSE 0)
  BY DEF OneRunPerApproval
<1>1. PICK n \in DOMAIN questions[g] : q = questions[g][n]
  BY DEF ToSet
<1>2. q \in QuestionRecs /\ RunsOnce(q)
  BY <1>1 DEF Inv, Typed, Counted
<1> QED
  BY <1>2 DEF RunsOnce, Approved, QuestionRecs, Texts

(* A destructive call is executed for no reply but an affirmative one, and  *)
(* for that one once, apart from executions an aborted generation forgot:   *)
(* for any number of agents, goals, questions and aborts, whatever the      *)
(* models decide (tool_use.py:449-476), if the human answers at rest.       *)
THEOREM ApprovedRunsOnce ==
  ASSUME AnswersAtRest
  PROVE  Spec => []OneRunPerApproval
<1>1. Init => Inv
  BY InitInv
<1>2. Inv /\ [Next]_vars => Inv'
  BY NextInv
<1>3. Inv => OneRunPerApproval
  BY InvRunsOnce
<1> QED
  BY <1>1, <1>2, <1>3, PTL DEF Spec

-----------------------------------------------------------------------------
(***************************************************************************)
(* One thread.  An agent's conversation about a goal is kept going by one  *)
(* of four things, and the generation that takes the first of them, a live *)
(* event, has one result for it, which puts one of the four in its place.  *)
(***************************************************************************)

Live(a, g) == {e \in queue : e.goal = g /\ e.what # "asked" /\ Wakes(e, a)}

Mine(a, g) == {n \in Open(g) : questions[g][n].agent = a}

OneOf(live, mine, answered, left) ==
  \/ (\E e : live = {e}) /\ mine = {} /\ answered = 0 /\ ~left
  \/ live = {} /\ (\E n : mine = {n}) /\ answered = 0 /\ ~left
  \/ live = {} /\ mine = {} /\ answered = 1 /\ ~left
  \/ live = {} /\ mine = {} /\ answered = 0 /\ left

ThreadAt(a, g) ==
  IF g \in asked /\ g \in Consumes[a] /\ <<a, g>> \notin dropped
  THEN OneOf(Live(a, g), Mine(a, g), answers[g][a], <<a, g>> \in deferred)
  ELSE Live(a, g) = {} /\ Mine(a, g) = {} /\ answers[g][a] = 0 /\ <<a, g>> \notin deferred

Threaded == \A a \in Agents, g \in Goals : ThreadAt(a, g)

Counters ==
  /\ answers \in [Goals -> [Agents -> Nat]]
  /\ deferred \subseteq Agents \X Goals
  /\ dropped \subseteq Agents \X asked

(* Every agent an event of the batch wakes runs for it, once.               *)
Complete ==
  \A a \in Agents, e \in batch :
    Wakes(e, a) => <<a, e>> \in todo \/ \E r \in results : r.agent = a /\ r.event = e

Unique ==
  \A r, s \in results : r.agent = s.agent /\ r.event = s.event => r = s

OpenElsewhere(a, g) == \E n \in Open(g) : questions[g][n].agent # a

(* A creation's run does nothing, any other only if another's question is   *)
(* open or its result is thrown away.                                       *)
Sensible ==
  \A r \in results :
    /\ r.event.what = "asked" => r.effect \in {Nothing, Lost("")}
    /\ r.effect = Nothing /\ r.event.what # "asked" =>
         r.event.what \in {"goal", "note"} /\ OpenElsewhere(r.agent, r.event.goal)

LeftToOthers == \A c \in deferred : \E q \in ToSet(questions[c[2]]) : q.agent # c[1]

ThreadInv ==
  /\ Inv /\ Counters /\ Complete /\ Unique /\ Sensible /\ LeftToOthers /\ Threaded

(* An agent with a live event has no question open.                         *)
LEMMA LiveMeansNoneOpen ==
  ASSUME Threaded, NEW a \in Agents, NEW g \in Goals, NEW e \in Live(a, g)
  PROVE  Mine(a, g) = {} /\ Live(a, g) = {e} /\ answers[g][a] = 0 /\ <<a, g>> \notin deferred
         /\ g \in asked /\ g \in Consumes[a] /\ <<a, g>> \notin dropped
BY DEF Threaded, ThreadAt, OneOf

LEMMA InitThread == Init => ThreadInv
<1> SUFFICES ASSUME Init PROVE ThreadInv
  OBVIOUS
<1>1. Inv
  BY InitInv
<1>2. \A a \in Agents, g \in Goals : Live(a, g) = {} /\ Mine(a, g) = {}
  BY DEF Init, Live, Mine, Open
<1>3. Threaded
  BY <1>2 DEF Init, Threaded, ThreadAt
<1> QED
  BY <1>1, <1>3 DEF Init, ThreadInv, Counters, Complete, Unique, Sensible, LeftToOthers

(* A step that changes nothing a thread consists of.                        *)
LEMMA SameThreads ==
  ASSUME Inv, Threaded, Counters, LeftToOthers,
         UNCHANGED <<asked, notes, answers, queue, deferred, dropped>>,
         \A g \in Goals : DOMAIN questions'[g] = DOMAIN questions[g],
         \A g \in Goals : \A n \in DOMAIN questions[g] :
           /\ questions'[g][n].agent = questions[g][n].agent
           /\ questions'[g][n].reply = questions[g][n].reply
  PROVE  /\ Threaded' /\ Counters' /\ LeftToOthers'
         /\ \A a, g : g \in Goals /\ OpenElsewhere(a, g) => OpenElsewhere(a, g)'
<1>1. \A g \in Goals : Open(g)' = Open(g)
  BY DEF Open
<1>2. \A a, g : g \in Goals => Mine(a, g)' = Mine(a, g)
  BY <1>1 DEF Mine, Open
<1>3. \A e \in queue, a \in Agents : Wakes(e, a)' <=> Wakes(e, a)
  <2> SUFFICES ASSUME NEW e \in queue, NEW a \in Agents  PROVE Wakes(e, a)' <=> Wakes(e, a)
    OBVIOUS
  <2>1. /\ e.goal \in Goals
        /\ e.what \in {"goal", "note", "asked", "answered"}
        /\ e.what \in {"asked", "answered"} => e.n \in DOMAIN questions[e.goal]
    BY EventFacts DEF Inv, Typed
  <2> QED BY <2>1 DEF Wakes
<1>4. \A a \in Agents, g \in Goals : Live(a, g)' = Live(a, g)
  BY <1>3 DEF Live
<1>5. Threaded'
  <2> SUFFICES ASSUME NEW a \in Agents, NEW g \in Goals  PROVE ThreadAt(a, g)'
    BY DEF Threaded
  <2>1. Live(a, g)' = Live(a, g) /\ Mine(a, g)' = Mine(a, g)
    BY <1>2, <1>4
  <2>2. ThreadAt(a, g)
    BY DEF Threaded
  <2> QED BY <2>1, <2>2 DEF ThreadAt, OneOf
<1>6. LeftToOthers'
  BY DEF LeftToOthers, ToSet, Counters
<1>7. \A a, g : g \in Goals /\ OpenElsewhere(a, g) => OpenElsewhere(a, g)'
  BY <1>1 DEF OpenElsewhere, Open
<1> QED
  BY <1>5, <1>6, <1>7 DEF Counters

LEMMA BeginThread ==
  ASSUME ThreadInv, Begin
  PROVE  ThreadInv'
<1> USE DEF ThreadInv
<1>1. Inv'
  BY BeginStep
<1>2. /\ UNCHANGED <<asked, notes, questions, answers, queue, results, deferred, dropped>>
      /\ batch = {} /\ batch' = queue
      /\ todo' = {w \in Agents \X queue : Wakes(w[2], w[1])}
  BY DEF Begin, contextVars, historyVars
<1>3. results = {}
  BY <1>2 DEF Inv, Typed
<1>4. Threaded' /\ Counters' /\ LeftToOthers'
  BY <1>2, SameThreads
<1>5. Complete'
  BY <1>2 DEF Complete, Wakes
<1>6. Unique' /\ Sensible'
  BY <1>2, <1>3 DEF Unique, Sensible
<1> QED
  BY <1>1, <1>4, <1>5, <1>6

LEMMA AbortThread ==
  ASSUME ThreadInv, Abort
  PROVE  ThreadInv'
<1> USE DEF ThreadInv
<1>1. Inv'
  BY AbortStep
<1>2. /\ UNCHANGED <<asked, notes, answers, queue, deferred, dropped>>
      /\ batch' = {} /\ results' = {}
      /\ questions' = [g \in Goals |-> [n \in DOMAIN questions[g] |->
           [questions[g][n] EXCEPT !.undone = @ + Cardinality(Executed(g, n))]]]
  BY DEF Abort, Executed, historyVars
<1>3. \A g \in Goals : DOMAIN questions'[g] = DOMAIN questions[g]
  BY <1>2
<1>4. \A g \in Goals : \A n \in DOMAIN questions[g] : questions[g][n] \in QuestionRecs
  BY DEF Inv, Typed
<1>5. \A g \in Goals : \A n \in DOMAIN questions[g] :
        /\ questions'[g][n].agent = questions[g][n].agent
        /\ questions'[g][n].reply = questions[g][n].reply
  BY <1>2, <1>4 DEF QuestionRecs
<1>6. Threaded' /\ Counters' /\ LeftToOthers'
  BY <1>2, <1>3, <1>5, SameThreads
<1>7. Complete' /\ Unique' /\ Sensible'
  BY <1>2 DEF Complete, Unique, Sensible
<1> QED
  BY <1>1, <1>6, <1>7

LEMMA SubmitThread ==
  ASSUME ThreadInv, NEW g \in Goals, Submit(g)
  PROVE  ThreadInv'
<1> USE DEF ThreadInv
<1> DEFINE e == Event("goal", g, 0)
<1>1. Inv'
  BY SubmitStep
<1>2. /\ UNCHANGED <<notes, questions, answers, batch, todo, results, deferred, dropped>>
      /\ g \notin asked /\ asked' = asked \cup {g} /\ queue' = queue \cup {e}
  BY DEF Submit, contextVars, generationVars, historyVars
<1>3. \A d, a : Wakes(d, a)' <=> Wakes(d, a)
  BY <1>2 DEF Wakes
<1>4. \A a : Wakes(e, a) <=> g \in Consumes[a]
  BY DEF Wakes, Event
<1>5. e.goal = g /\ e.what = "goal"
  BY DEF Event
<1>6. Counters' /\ Complete' /\ Unique' /\ LeftToOthers'
  BY <1>2, <1>3 DEF Counters, Complete, Unique, LeftToOthers
<1>7. Sensible'
  BY <1>2 DEF Sensible, OpenElsewhere, Open
<1> HIDE DEF e
<1>8. Threaded'
  <2> SUFFICES ASSUME NEW a \in Agents, NEW h \in Goals  PROVE ThreadAt(a, h)'
    BY DEF Threaded
  <2>1. ThreadAt(a, h)
    BY DEF Threaded
  <2>2. Mine(a, h)' = Mine(a, h)
    BY <1>2 DEF Mine, Open
  <2>3. CASE h = g /\ g \in Consumes[a]
    <3>1. Live(a, h) = {} /\ Mine(a, h) = {} /\ answers[h][a] = 0 /\ <<a, h>> \notin deferred
      BY <1>2, <2>1, <2>3 DEF ThreadAt
    <3>2. Live(a, h)' = {e}
      BY <1>2, <1>3, <1>4, <1>5, <2>3, <3>1 DEF Live
    <3>3. <<a, h>> \notin dropped'
      BY <1>2, <2>3 DEF Counters
    <3> QED BY <1>2, <2>2, <2>3, <3>1, <3>2, <3>3 DEF ThreadAt, OneOf
  <2>4. CASE ~(h = g /\ g \in Consumes[a])
    <3>1. Live(a, h)' = Live(a, h)
      BY <1>2, <1>3, <1>4, <1>5, <2>4 DEF Live
    <3>2. h \in asked' /\ h \in Consumes[a] <=> h \in asked /\ h \in Consumes[a]
      BY <1>2, <2>4
    <3> QED BY <1>2, <2>1, <2>2, <3>1, <3>2 DEF ThreadAt, OneOf
  <2> QED BY <2>3, <2>4
<1> QED
  BY <1>1, <1>6, <1>7, <1>8

LEMMA ReplyThread ==
  ASSUME ThreadInv, AnswersAtRest, NEW g \in Goals, NEW n \in Open(g),
         NEW reply \in Replies(questions[g][n]), Reply(g, n, reply)
  PROVE  ThreadInv'
<1> USE DEF ThreadInv
<1> DEFINE old == questions[g][n]
           new == [old EXCEPT !.reply = reply]
           e == Event("answered", g, n)
<1>1. Inv'
  BY ReplyStep
<1>2. /\ UNCHANGED <<asked, notes, answers, batch, todo, results, deferred, dropped>>
      /\ queue = {} /\ batch = {} /\ queue' = {e}
      /\ questions' = [questions EXCEPT ![g] = [@ EXCEPT ![n] = new]]
  BY DEF Reply, AtRest, generationVars, historyVars
<1>3. n \in DOMAIN questions[g] /\ old \in QuestionRecs /\ old.reply = "none"
  BY DEF Inv, Typed, Open
<1>4. reply \in {"text", "yes", "no"}
  BY DEF Replies
<1>5. new \in QuestionRecs /\ new.agent = old.agent /\ new.reply = reply
  BY <1>3, <1>4 DEF QuestionRecs
<1> HIDE DEF new
<1>6. /\ \A h \in Goals : DOMAIN questions'[h] = DOMAIN questions[h]
      /\ \A h \in Goals : \A m \in DOMAIN questions[h] :
           questions'[h][m] = IF h = g /\ m = n THEN new ELSE questions[h][m]
  BY <1>2, <1>3, <1>5, OneChanged DEF Inv
<1>7. results = {}
  BY <1>2 DEF Inv, Typed
<1>8. Counters' /\ Complete' /\ Unique' /\ Sensible'
  BY <1>2, <1>7 DEF Counters, Complete, Unique, Sensible
<1>9. LeftToOthers'
  <2>1. \A h \in Goals : \A m \in DOMAIN questions[h] : questions'[h][m].agent = questions[h][m].agent
    BY <1>5, <1>6
  <2> QED BY <1>2, <1>6, <2>1 DEF LeftToOthers, Counters, ToSet
<1>10. e.goal = g /\ e.what = "answered" /\ e.n = n
  BY DEF Event
<1>11. \A a : Wakes(e, a)' <=> a = old.agent
  BY <1>3, <1>5, <1>6, <1>10 DEF Wakes
<1> HIDE DEF e
<1>12. Threaded'
  <2> SUFFICES ASSUME NEW a \in Agents, NEW h \in Goals  PROVE ThreadAt(a, h)'
    BY DEF Threaded
  <2>1. ThreadAt(a, h)
    BY DEF Threaded
  <2>2. Live(a, h) = {}
    BY <1>2 DEF Live
  <2>3. CASE h = g /\ a = old.agent
    <3>1. n \in Mine(a, h)
      BY <1>3, <2>3 DEF Mine
    <3>2. /\ Mine(a, h) = {n} /\ answers[h][a] = 0 /\ <<a, h>> \notin deferred
          /\ h \in asked /\ h \in Consumes[a] /\ <<a, h>> \notin dropped
      BY <2>1, <3>1 DEF ThreadAt, OneOf
    <3>3. Live(a, h)' = {e}
      BY <1>2, <1>10, <1>11, <2>3 DEF Live
    <3>4. Mine(a, h)' = {}
      <4> SUFFICES ASSUME NEW m \in Mine(a, h)'  PROVE FALSE
        OBVIOUS
      <4>1. m \in DOMAIN questions[h] /\ questions'[h][m].reply = "none" /\ questions'[h][m].agent = a
        BY <1>6 DEF Mine, Open
      <4>2. CASE m = n
        BY <4>1, <4>2, <1>4, <1>5, <1>6, <2>3
      <4>3. CASE m # n
        <5>1. m \in Mine(a, h)
          BY <4>1, <4>3, <1>6 DEF Mine, Open
        <5> QED BY <5>1, <3>2, <4>3
      <4> QED BY <4>2, <4>3
    <3> QED BY <1>2, <3>2, <3>3, <3>4 DEF ThreadAt, OneOf
  <2>4. CASE ~(h = g /\ a = old.agent)
    <3>1. Live(a, h)' = {}
      BY <1>2, <1>10, <1>11, <2>4 DEF Live
    <3>2. Mine(a, h)' = Mine(a, h)
      BY <1>3, <1>5, <1>6, <2>4 DEF Mine, Open
    <3> QED BY <1>2, <2>1, <2>2, <3>1, <3>2 DEF ThreadAt, OneOf
  <2> QED BY <2>3, <2>4
<1> QED
  BY <1>1, <1>8, <1>9, <1>12

(* When a step of the model comes to nothing, a question is open.           *)
LEMMA NothingMeansOpen ==
  ASSUME NEW g, Nothing \in Decide(g)
  PROVE  Open(g) # {}
<1>1. Nothing # Call(g) /\ Nothing # Answer
  BY DEF Call, Nothing, Answer, Observe
<1>2. \A x : Nothing # Question(x) /\ Nothing # Observe(x)
  BY DEF Nothing, Question, Observe
<1>3. \A x : Clarify(g, x) = Nothing => Open(g) # {}
  BY <1>2 DEF Clarify
<1>4. \A x : Approve(g, x) = Nothing => Open(g) # {}
  BY <1>2 DEF Approve
<1> QED
  BY <1>1, <1>3, <1>4 DEF Decide

LEMMA RunThread ==
  ASSUME ThreadInv, NEW a, NEW e, NEW effect, Run(a, e, effect)
  PROVE  ThreadInv'
<1> USE DEF ThreadInv
<1> DEFINE mine == [agent |-> a, event |-> e, effect |-> effect]
           new == [questions[e.goal][e.n] EXCEPT !.ran = @ + 1]
           approved == Executes(effect)
<1>1. Inv'
  BY RunStep
<1>2. /\ UNCHANGED <<asked, notes, answers, queue, batch, deferred, dropped>>
      /\ <<a, e>> \in todo /\ effect \in Outcomes(e)
      /\ todo' = todo \ {<<a, e>>}
      /\ results' = results \cup {mine}
      /\ questions' = IF approved THEN [questions EXCEPT ![e.goal] = [@ EXCEPT ![e.n] = new]] ELSE questions
  BY DEF Run, historyVars
<1>3. a \in Agents /\ e \in batch /\ e \in queue /\ OfSomething(e) /\ Wakes(e, a)
  BY <1>2 DEF Inv, Typed, Woken
<1>4. /\ e.goal \in Goals /\ e.what \in {"goal", "note", "asked", "answered"}
      /\ e.what \in {"asked", "answered"} =>
           e.n \in DOMAIN questions[e.goal] /\ questions[e.goal][e.n] \in QuestionRecs
  BY <1>3, EventFacts DEF Inv
<1>5. approved => e.n \in DOMAIN questions[e.goal] /\ questions[e.goal][e.n] \in QuestionRecs
  BY <1>2, <1>3, <1>4, EffectFacts DEF Inv
<1>6. approved => /\ new \in QuestionRecs /\ new.agent = questions[e.goal][e.n].agent
                  /\ new.reply = questions[e.goal][e.n].reply
  BY <1>5 DEF QuestionRecs
<1> HIDE DEF new
<1>7. /\ \A h \in Goals : DOMAIN questions'[h] = DOMAIN questions[h]
      /\ \A h \in Goals : \A m \in DOMAIN questions[h] :
           /\ questions'[h][m].agent = questions[h][m].agent
           /\ questions'[h][m].reply = questions[h][m].reply
  <2>1. CASE approved
    <3>1. /\ \A h \in Goals : DOMAIN questions'[h] = DOMAIN questions[h]
          /\ \A h \in Goals : \A m \in DOMAIN questions[h] :
               questions'[h][m] = IF h = e.goal /\ m = e.n THEN new ELSE questions[h][m]
      BY <2>1, <1>2, <1>4, <1>5, <1>6, OneChanged DEF Inv
    <3> QED BY <2>1, <3>1, <1>6
  <2>2. CASE ~approved
    BY <2>2, <1>2
  <2> QED BY <2>1, <2>2
<1>8. /\ Threaded' /\ Counters' /\ LeftToOthers'
      /\ \A b, g : g \in Goals /\ OpenElsewhere(b, g) => OpenElsewhere(b, g)'
  BY <1>2, <1>7, SameThreads
<1>9. mine.agent = a /\ mine.event = e /\ mine.effect = effect
  OBVIOUS
<1>10. Unique'
  <2>1. \A r \in results : ~(r.agent = a /\ r.event = e)
    BY <1>2 DEF Inv, Woken
  <2> HIDE DEF mine
  <2> QED BY <1>2, <1>9, <2>1 DEF Unique
<1>11. Complete'
  <2> SUFFICES ASSUME NEW b \in Agents, NEW d \in batch, Wakes(d, b)'
               PROVE  <<b, d>> \in todo' \/ \E r \in results' : r.agent = b /\ r.event = d
    BY <1>2 DEF Complete
  <2>1. /\ d.goal \in Goals /\ d.what \in {"goal", "note", "asked", "answered"}
        /\ d.what \in {"asked", "answered"} => d.n \in DOMAIN questions[d.goal]
    BY EventFacts DEF Inv, Typed
  <2>2. Wakes(d, b)
    BY <2>1, <1>2, <1>7 DEF Wakes
  <2> HIDE DEF mine
  <2> QED BY <2>2, <1>2, <1>9 DEF Complete
<1>12. Sensible'
  <2>1. e.what = "asked" => effect \in {Nothing, Lost("")}
    <3>1. e.what = "asked" => Effects(e) = {Nothing}
      BY <1>3 DEF Effects, Inv, InStep, Resume
    <3>2. e.what = "asked" => effect \in Effects(e) \/ effect = Lost("")
      BY <1>2, <3>1, OutcomeFacts, LostFacts
    <3> QED BY <3>1, <3>2
  <2>2. effect = Nothing /\ e.what # "asked" =>
          e.what \in {"goal", "note"} /\ OpenElsewhere(a, e.goal)
    <3> SUFFICES ASSUME effect = Nothing, e.what # "asked"
                 PROVE  e.what \in {"goal", "note"} /\ OpenElsewhere(a, e.goal)
      OBVIOUS
    <3>0. effect \in Effects(e)
      BY <1>2, OutcomeFacts, LostFacts
    <3>1. e.what # "answered"
      <4> SUFFICES ASSUME e.what = "answered" PROVE FALSE
        OBVIOUS
      <4>1. questions[e.goal][e.n].reply # "none"
        BY <1>3 DEF Inv, InStep
      <4>2. effect = Resume(questions[e.goal][e.n])
        BY <3>0 DEF Effects
      <4>3. \A c : Nothing # Observe(c)
        BY DEF Nothing, Observe
      <4> HIDE DEF ThreadInv
      <4> QED BY <4>1, <4>2, <4>3 DEF Resume
    <3>2. e.what \in {"goal", "note"}
      BY <1>4, <3>1
    <3>3. Open(e.goal) # {}
      BY <3>0, <3>2, NothingMeansOpen DEF Effects
    <3>4. e \in Live(a, e.goal)
      BY <1>3 DEF Live
    <3>5. Mine(a, e.goal) = {}
      BY <1>3, <1>4, <3>4, LiveMeansNoneOpen
    <3> QED BY <3>2, <3>3, <3>5 DEF OpenElsewhere, Mine
  <2>3. \A r \in results : r.event.goal \in Goals
    <3>1. \A r \in results : r.event \in queue
      BY DEF Inv, Typed
    <3> QED BY <3>1, EventFacts DEF Inv, Typed
  <2> HIDE DEF mine
  <2> QED BY <1>2, <1>4, <1>8, <1>9, <2>1, <2>2, <2>3 DEF Sensible
<1> QED
  BY <1>1, <1>8, <1>10, <1>11, <1>12

(* What the agents' runs for one conversation have come to.                 *)
Came(a, g) ==
  {r \in results : r.agent = a /\ r.event.goal = g /\ r.event.what # "asked"}

(* The one live event of a conversation, once it has been run for, has one  *)
(* result.                                                                  *)
LEMMA CameFacts ==
  ASSUME ThreadInv, NEW a \in Agents, NEW g \in Goals, todo = {}
  PROVE  /\ Came(a, g) = {} => Live(a, g) \ batch = Live(a, g)
         /\ \A r \in Came(a, g) :
              /\ Came(a, g) = {r} /\ Live(a, g) \ batch = {}
              /\ Mine(a, g) = {} /\ answers[g][a] = 0 /\ <<a, g>> \notin deferred
              /\ g \in asked /\ g \in Consumes[a] /\ <<a, g>> \notin dropped
<1> USE DEF ThreadInv
<1>1. Came(a, g) = {} => Live(a, g) \ batch = Live(a, g)
  BY DEF Came, Live, Complete
<1>2. \A r \in Came(a, g) : r.event \in Live(a, g) /\ r.event \in batch
  BY DEF Came, Live, Inv, Typed, Woken
<1>3. ASSUME NEW r \in Came(a, g)
      PROVE  /\ Came(a, g) = {r} /\ Live(a, g) \ batch = {}
             /\ Mine(a, g) = {} /\ answers[g][a] = 0 /\ <<a, g>> \notin deferred
             /\ g \in asked /\ g \in Consumes[a] /\ <<a, g>> \notin dropped
  <2>1. /\ Mine(a, g) = {} /\ Live(a, g) = {r.event} /\ answers[g][a] = 0
        /\ <<a, g>> \notin deferred /\ g \in asked /\ g \in Consumes[a]
        /\ <<a, g>> \notin dropped
    BY <1>2, LiveMeansNoneOpen
  <2>2. \A s \in Came(a, g) : s = r
    <3>1. \A s \in Came(a, g) : s.event = r.event /\ s.agent = r.agent /\ s \in results
      BY <1>2, <2>1 DEF Came
    <3> QED BY <3>1 DEF Unique
  <2> QED BY <1>2, <2>1, <2>2
<1> QED
  BY <1>1, <1>3

(* What the commits make of one conversation.                               *)
LEMMA CommitChanges ==
  ASSUME ThreadInv, Commit, NEW a \in Agents, NEW g \in Goals
  PROVE  /\ Live(a, g)' = (Live(a, g) \ batch)
                          \cup {Event("note", g, n) : n \in Added(notes[g], NewNotes(g), a)}
         /\ Mine(a, g)' = Mine(a, g) \cup Added(questions[g], NewQuestions(g), a)
         /\ answers'[g][a] = answers[g][a] + Cardinality({r \in Came(a, g) : r.effect = Answer})
         /\ <<a, g>> \in deferred' <=>
              <<a, g>> \in deferred \/ \E r \in Came(a, g) : r.effect = Nothing
         /\ <<a, g>> \in dropped' <=>
              <<a, g>> \in dropped \/ \E r \in Came(a, g) : r.effect.do = "lost"
<1> USE DEF ThreadInv
<1>1. /\ notes' = [h \in Goals |-> notes[h] \o NewNotes(h)]
      /\ questions' = [h \in Goals |-> questions[h] \o NewQuestions(h)]
      /\ answers' = [h \in Goals |-> [b \in Agents |-> answers[h][b] +
           Cardinality({r \in results : r.event.goal = h /\ r.agent = b /\ r.effect = Answer})]]
      /\ queue' = (queue \ batch) \cup Created("note", notes, notes')
                                  \cup Created("asked", questions, questions')
      /\ deferred' = deferred \cup
           {<<r.agent, r.event.goal>> : r \in
              {s \in results : s.event.what \in {"goal", "note"} /\ s.effect = Nothing}}
      /\ dropped' = dropped \cup
           {<<r.agent, r.event.goal>> : r \in
              {s \in results : s.event.what # "asked" /\ s.effect.do = "lost"}}
  BY DEF Commit
<1>2. \A h \in Goals : notes[h] \in Seq(NoteRecs) /\ NewNotes(h) \in Seq(NoteRecs)
                     /\ questions[h] \in Seq(QuestionRecs) /\ NewQuestions(h) \in Seq(QuestionRecs)
  BY NewFacts DEF Inv, Typed
<1>3. ASSUME NEW h \in Goals
      PROVE  /\ \A n \in DOMAIN notes[h] : n \in DOMAIN notes'[h] /\ notes'[h][n] = notes[h][n]
             /\ \A n \in DOMAIN questions[h] :
                  n \in DOMAIN questions'[h] /\ questions'[h][n] = questions[h][n]
  <2>1. notes'[h] = notes[h] \o NewNotes(h) /\ questions'[h] = questions[h] \o NewQuestions(h)
    BY <1>1
  <2>2. ASSUME NEW S, NEW old \in Seq(S), NEW more \in Seq(S), NEW n \in DOMAIN old
        PROVE  n \in DOMAIN (old \o more) /\ (old \o more)[n] = old[n]
    BY ONLY <2>2, ConcatProperties, LenProperties
  <2> QED BY ONLY <1>2, <2>1, <2>2, h \in Goals
<1>4. \A n \in DOMAIN NewQuestions(g) : NewQuestions(g)[n].reply = "none"
  BY NewFacts DEF Inv
<1>5. \A e \in queue, b \in Agents : Wakes(e, b)' <=> Wakes(e, b)
  <2> SUFFICES ASSUME NEW e \in queue, NEW b \in Agents  PROVE Wakes(e, b)' <=> Wakes(e, b)
    OBVIOUS
  <2>1. /\ e.goal \in Goals
        /\ e.what \in {"goal", "note", "asked", "answered"}
        /\ e.what = "note" => e.n \in DOMAIN notes[e.goal]
        /\ e.what \in {"asked", "answered"} => e.n \in DOMAIN questions[e.goal]
    <3>1. OfSomething(e)
      BY DEF Inv, Typed
    <3> QED BY <3>1 DEF OfSomething, Event
  <2> QED BY <2>1, <1>3 DEF Wakes
<1>6. Live(a, g)' = (Live(a, g) \ batch)
                   \cup {Event("note", g, n) : n \in Added(notes[g], NewNotes(g), a)}
  <2> DEFINE new == {Event("note", g, n) : n \in Added(notes[g], NewNotes(g), a)}
  <2>1. notes'[g] = notes[g] \o NewNotes(g)
    BY <1>1
  <2>2. \A e \in Created("asked", questions, questions') : e.what = "asked"
    BY DEF Created, Event
  <2>3. ASSUME NEW e, e \in Created("note", notes, notes'), e.goal = g, Wakes(e, a)'
        PROVE  e \in new
    <3>1. PICK n \in DOMAIN notes'[g] \ DOMAIN notes[g] : e = Event("note", g, n)
      BY <2>3 DEF Created, Event
    <3>2. notes'[g][n].agent = a
      BY <2>3, <3>1 DEF Wakes, Event
    <3> QED BY <2>1, <3>1, <3>2 DEF Added
  <2>4. ASSUME NEW e \in new
        PROVE  e \in Created("note", notes, notes') /\ e.goal = g /\ e.what = "note" /\ Wakes(e, a)'
    <3>1. PICK n \in Added(notes[g], NewNotes(g), a) : e = Event("note", g, n)
      OBVIOUS
    <3>2. n \in DOMAIN notes'[g] \ DOMAIN notes[g] /\ notes'[g][n].agent = a
      BY <2>1 DEF Added
    <3> QED BY <3>1, <3>2 DEF Created, Event, Wakes
  <2>5. \A e \in Live(a, g) \ batch : e \in Live(a, g)'
    BY <1>1, <1>5 DEF Live
  <2>6. \A e \in new : e \in Live(a, g)'
    <3> HIDE DEF new
    <3> QED BY <2>4, <1>1 DEF Live
  <2>7. \A e \in Live(a, g)' : e \in (Live(a, g) \ batch) \cup new
    <3> HIDE DEF new
    <3> QED BY <1>1, <1>5, <2>2, <2>3 DEF Live
  <2> HIDE DEF new
  <2>8. Live(a, g)' = (Live(a, g) \ batch) \cup new
    BY <2>5, <2>6, <2>7
  <2> QED BY <2>8 DEF new
<1>7. Mine(a, g)' = Mine(a, g) \cup Added(questions[g], NewQuestions(g), a)
  <2>1. questions'[g] = questions[g] \o NewQuestions(g)
    BY <1>1
  <2>2. \A n \in DOMAIN questions'[g] \ DOMAIN questions[g] : questions'[g][n].reply = "none"
    <3> DEFINE s == questions[g]
               t == NewQuestions(g)
    <3>1. s \in Seq(QuestionRecs) /\ t \in Seq(QuestionRecs)
      BY <1>2
    <3> HIDE DEF s, t
    <3>2. \A n \in DOMAIN (s \o t) \ DOMAIN s : n - Len(s) \in DOMAIN t /\ (s \o t)[n] = t[n - Len(s)]
      BY <3>1
    <3> QED BY <1>4, <2>1, <3>2 DEF s, t
  <2>3. \A n : n \in Added(questions[g], NewQuestions(g), a) <=>
               n \in DOMAIN questions'[g] \ DOMAIN questions[g] /\ questions'[g][n].agent = a
    BY <2>1 DEF Added
  <2> QED BY <1>3, <2>2, <2>3 DEF Mine, Open
<1>8. \A r \in results : r.event.what = "asked" => r.effect # Answer
  <2>1. Answer # Nothing /\ Answer # Lost("")
    BY LostFacts DEF Answer, Nothing
  <2> QED BY <2>1 DEF Sensible
<1>9. answers'[g][a] = answers[g][a] + Cardinality({r \in Came(a, g) : r.effect = Answer})
  <2>2. {r \in results : r.event.goal = g /\ r.agent = a /\ r.effect = Answer}
          = {r \in Came(a, g) : r.effect = Answer}
    BY <1>8 DEF Came
  <2> QED BY <1>1, <2>2
<1>10. <<a, g>> \in deferred' <=>
         <<a, g>> \in deferred \/ \E r \in Came(a, g) : r.effect = Nothing
  <2>1. \A r \in results : r.event.what # "asked" /\ r.effect = Nothing => r.event.what \in {"goal", "note"}
    BY DEF Sensible
  <2> QED BY <1>1, <2>1 DEF Came
<1>11. <<a, g>> \in dropped' <=>
         <<a, g>> \in dropped \/ \E r \in Came(a, g) : r.effect.do = "lost"
  BY <1>1 DEF Came
<1> QED
  BY <1>6, <1>7, <1>9, <1>10, <1>11

(* The commits keep a conversation to one thread: its one result becomes a  *)
(* note, a question, an answer or a deferral, or ends it.                   *)
LEMMA CommitThreadAt ==
  ASSUME ThreadInv, Commit, NEW a \in Agents, NEW g \in Goals
  PROVE  ThreadAt(a, g)'
<1> USE DEF ThreadInv
<1> DEFINE moreNotes == Added(notes[g], NewNotes(g), a)
           moreQuestions == Added(questions[g], NewQuestions(g), a)
           made(do) == {r \in results : r.event.goal = g /\ r.effect.do = do /\ r.agent = a}
           given == {r \in Came(a, g) : r.effect = Answer}
<1>1. /\ Live(a, g)' = (Live(a, g) \ batch) \cup {Event("note", g, n) : n \in moreNotes}
      /\ Mine(a, g)' = Mine(a, g) \cup moreQuestions
      /\ answers'[g][a] = answers[g][a] + Cardinality(given)
      /\ <<a, g>> \in deferred' <=> <<a, g>> \in deferred \/ \E r \in Came(a, g) : r.effect = Nothing
      /\ <<a, g>> \in dropped' <=> <<a, g>> \in dropped \/ \E r \in Came(a, g) : r.effect.do = "lost"
      /\ asked' = asked
  BY CommitChanges DEF Commit
<1>2. /\ Came(a, g) = {} => Live(a, g) \ batch = Live(a, g)
      /\ \A r \in Came(a, g) :
           /\ Came(a, g) = {r} /\ Live(a, g) \ batch = {}
           /\ Mine(a, g) = {} /\ answers[g][a] = 0 /\ <<a, g>> \notin deferred
           /\ g \in asked /\ g \in Consumes[a] /\ <<a, g>> \notin dropped
  BY CameFacts DEF Commit
<1>3. \A do \in {"note", "question"} : made(do) = {r \in Came(a, g) : r.effect.do = do}
  <2>1. \A r \in results : r.event.what = "asked" => r.effect.do \in {"nothing", "lost"}
    <3>1. Nothing.do = "nothing" /\ Lost("").do = "lost"
      BY DEF Nothing, Lost
    <3>2. Sensible
      OBVIOUS
    <3> HIDE DEF ThreadInv
    <3> QED BY <3>1, <3>2 DEF Sensible
  <2> HIDE DEF ThreadInv
  <2> QED BY <2>1 DEF Came
<1>4. /\ notes[g] \in Seq(NoteRecs) /\ NewNotes(g) \in Seq(NoteRecs)
      /\ questions[g] \in Seq(QuestionRecs) /\ NewQuestions(g) \in Seq(QuestionRecs)
      /\ IsFiniteSet(results)
  BY NewFacts DEF Inv, Typed
<1>5. /\ Places(NewNotes(g), a) = Places(Made(g, "note"), a)
      /\ Places(NewQuestions(g), a) = Places(Made(g, "question"), a)
  BY DEF Places, NewNotes, NewQuestions
<1>6. \A do : /\ made(do) = {} => Places(Made(g, do), a) = {}
              /\ \A r : made(do) = {r} => \E i : Places(Made(g, do), a) = {i}
  <2> HIDE DEF ThreadInv
  <2> QED BY <1>4, MadeFacts
<1> HIDE DEF made
<1>7. /\ made("note") = {} => moreNotes = {}
      /\ \A r : made("note") = {r} => \E n : moreNotes = {n}
  <2> HIDE DEF ThreadInv
  <2>1. /\ Places(NewNotes(g), a) = {} => moreNotes = {}
        /\ \A i : Places(NewNotes(g), a) = {i} => \E n : moreNotes = {n}
    BY <1>4, AddedFacts
  <2> HIDE DEF moreNotes
  <2> QED BY <1>5, <1>6, <2>1
<1>8. /\ made("question") = {} => moreQuestions = {}
      /\ \A r : made("question") = {r} => \E n : moreQuestions = {n}
  <2> HIDE DEF ThreadInv
  <2>1. /\ Places(NewQuestions(g), a) = {} => moreQuestions = {}
        /\ \A i : Places(NewQuestions(g), a) = {i} => \E n : moreQuestions = {n}
    BY <1>4, AddedFacts
  <2> HIDE DEF moreQuestions
  <2> QED BY <1>5, <1>6, <2>1
<1>9. answers[g][a] \in Nat /\ ThreadAt(a, g)
  BY DEF Counters, Threaded
<1> HIDE DEF ThreadInv, moreNotes, moreQuestions
<1>10. CASE Came(a, g) = {}
  <2>1. moreNotes = {} /\ moreQuestions = {} /\ given = {}
    BY <1>10, <1>3, <1>7, <1>8
  <2>2. Cardinality(given) = 0
    BY <2>1, FS_EmptySet
  <2> HIDE DEF given
  <2>3. /\ Live(a, g)' = Live(a, g) /\ Mine(a, g)' = Mine(a, g) /\ answers'[g][a] = answers[g][a]
        /\ <<a, g>> \in deferred' <=> <<a, g>> \in deferred
        /\ <<a, g>> \in dropped' <=> <<a, g>> \in dropped
    BY <1>1, <1>2, <1>9, <1>10, <2>1, <2>2
  <2> QED BY <1>1, <1>9, <2>3 DEF ThreadAt, OneOf
<1>11. ASSUME NEW r \in Came(a, g)  PROVE ThreadAt(a, g)'
  <2> DEFINE d == r.effect.do
  <2>1. /\ Came(a, g) = {r} /\ Live(a, g) \ batch = {} /\ Mine(a, g) = {}
        /\ answers[g][a] = 0 /\ <<a, g>> \notin deferred /\ g \in asked /\ g \in Consumes[a]
        /\ <<a, g>> \notin dropped
    BY <1>2
  <2>2. \/ d = "note" /\ r.effect # Answer /\ r.effect # Nothing
        \/ d = "question" /\ r.effect # Answer /\ r.effect # Nothing
        \/ d = "answer" /\ r.effect = Answer /\ r.effect # Nothing
        \/ d = "nothing" /\ r.effect # Answer /\ r.effect = Nothing
        \/ d = "lost" /\ r.effect # Answer /\ r.effect # Nothing
    <3>1. r.effect \in EffectRecs
      BY DEF Came, ThreadInv, Inv, Typed
    <3>2. /\ Answer.do = "answer" /\ Nothing.do = "nothing"
          /\ \A x : Observe(x).do = "note" /\ Question(x).do = "question" /\ Lost(x).do = "lost"
      BY DEF Answer, Nothing, Observe, Question, Lost
    <3> QED BY <3>1, <3>2 DEF EffectRecs
  <2>3. /\ made("note") = IF d = "note" THEN {r} ELSE {}
        /\ made("question") = IF d = "question" THEN {r} ELSE {}
    BY <1>3, <2>1
  <2>4. given = IF r.effect = Answer THEN {r} ELSE {}
    BY <2>1
  <2>5. Cardinality(given) = IF r.effect = Answer THEN 1 ELSE 0
    BY <2>4, FS_EmptySet, FS_Singleton
  <2> HIDE DEF d, given
  <2>6. /\ answers'[g][a] = IF r.effect = Answer THEN 1 ELSE 0
        /\ <<a, g>> \in deferred' <=> r.effect = Nothing
        /\ <<a, g>> \in dropped' <=> r.effect.do = "lost"
        /\ Mine(a, g)' = moreQuestions
        /\ Live(a, g)' = {Event("note", g, n) : n \in moreNotes}
    BY <1>1, <2>1, <2>5
  <2>7. /\ d = "note" => \E e : Live(a, g)' = {e}
        /\ d # "note" => Live(a, g)' = {}
    <3>1. \A n : {Event("note", g, m) : m \in {n}} = {Event("note", g, n)}
      OBVIOUS
    <3> QED BY <1>7, <2>3, <2>6, <3>1
  <2>8. /\ d = "question" => \E n : Mine(a, g)' = {n}
        /\ d # "question" => Mine(a, g)' = {}
    BY <1>8, <2>3, <2>6
  <2>9. CASE d = "lost"
    <3>1. /\ Live(a, g)' = {} /\ Mine(a, g)' = {} /\ answers'[g][a] = 0
          /\ <<a, g>> \notin deferred' /\ <<a, g>> \in dropped'
      BY <2>2, <2>6, <2>7, <2>8, <2>9 DEF d
    <3> QED BY <3>1 DEF ThreadAt
  <2>10. CASE d # "lost"
    <3>1. OneOf(Live(a, g)', Mine(a, g)', answers'[g][a], <<a, g>> \in deferred')
      BY <2>2, <2>6, <2>7, <2>8, <2>10 DEF OneOf
    <3>2. <<a, g>> \notin dropped'
      BY <2>6, <2>10 DEF d
    <3> QED BY <1>1, <2>1, <3>1, <3>2 DEF ThreadAt, OneOf
  <2> QED BY <2>9, <2>10
<1> QED
  BY <1>10, <1>11

LEMMA CommitThread ==
  ASSUME ThreadInv, Commit
  PROVE  ThreadInv'
<1>1. Inv'
  BY CommitStep DEF ThreadInv
<1>2. Threaded'
  BY CommitThreadAt DEF Threaded
<1>3. /\ batch' = {} /\ results' = {}
      /\ questions' = [h \in Goals |-> questions[h] \o NewQuestions(h)]
      /\ answers' = [h \in Goals |-> [b \in Agents |-> answers[h][b] +
           Cardinality({r \in results : r.event.goal = h /\ r.agent = b /\ r.effect = Answer})]]
      /\ deferred' = deferred \cup
           {<<r.agent, r.event.goal>> : r \in
              {s \in results : s.event.what \in {"goal", "note"} /\ s.effect = Nothing}}
      /\ dropped' = dropped \cup
           {<<r.agent, r.event.goal>> : r \in
              {s \in results : s.event.what # "asked" /\ s.effect.do = "lost"}}
      /\ asked' = asked
  BY DEF Commit
<1>4. Complete' /\ Unique' /\ Sensible'
  BY <1>3 DEF Complete, Unique, Sensible
<1>5. \A r \in results : r.agent \in Agents /\ r.event.goal \in Goals
  <2>1. \A r \in results : r.agent \in Agents /\ OfSomething(r.event)
    BY DEF ThreadInv, Inv, Typed
  <2> QED BY <2>1, EventFacts DEF ThreadInv, Inv
<1>6. Counters'
  <2>1. ASSUME NEW h, NEW b
        PROVE  Cardinality({r \in results : r.event.goal = h /\ r.agent = b /\ r.effect = Answer}) \in Nat
    <3>1. IsFiniteSet({r \in results : r.event.goal = h /\ r.agent = b /\ r.effect = Answer})
      BY FS_Subset DEF ThreadInv, Inv, Typed
    <3> QED BY <3>1, FS_CardinalityType
  <2>2. answers' \in [Goals -> [Agents -> Nat]]
    <3> DEFINE k(h, b) == Cardinality({r \in results : r.event.goal = h /\ r.agent = b /\ r.effect = Answer})
    <3>1. \A h \in Goals, b \in Agents : k(h, b) \in Nat /\ answers[h][b] \in Nat
      <4>1. \A h, b : k(h, b) \in Nat
        BY <2>1
      <4> HIDE DEF k
      <4> QED BY <4>1 DEF ThreadInv, Counters
    <3>2. answers' = [h \in Goals |-> [b \in Agents |-> answers[h][b] + k(h, b)]]
      BY <1>3
    <3> HIDE DEF k
    <3> QED BY <3>1, <3>2
  <2>3. deferred' \subseteq Agents \X Goals
    BY <1>3, <1>5 DEF ThreadInv, Counters
  <2>4. dropped' \subseteq Agents \X asked'
    <3>1. ASSUME NEW r \in results, r.event.what # "asked", r.effect.do = "lost"
          PROVE  r.agent \in Agents /\ r.event.goal \in asked
      <4>1. Came(r.agent, r.event.goal) # {}
        BY <3>1 DEF Came
      <4> QED BY <1>5, <4>1, CameFacts DEF Commit
    <3> QED BY <1>3, <3>1 DEF ThreadInv, Counters
  <2> QED BY <2>2, <2>3, <2>4 DEF Counters
<1>7. LeftToOthers'
  <2> SUFFICES ASSUME NEW c \in deferred'
               PROVE  \E q \in ToSet(questions'[c[2]]) : q.agent # c[1]
    BY DEF LeftToOthers
  <2>1. c[2] \in Goals /\ \E q \in ToSet(questions[c[2]]) : q.agent # c[1]
    <3>1. CASE c \in deferred
      BY <3>1 DEF ThreadInv, Counters, LeftToOthers
    <3>2. CASE c \notin deferred
      <4>1. PICK r \in results : c = <<r.agent, r.event.goal>> /\ r.event.what # "asked" /\ r.effect = Nothing
        BY <3>2, <1>3
      <4>2. OpenElsewhere(r.agent, r.event.goal)
        BY <4>1 DEF ThreadInv, Sensible
      <4> QED BY <1>5, <4>1, <4>2 DEF OpenElsewhere, Open, ToSet
    <3> QED BY <3>1, <3>2
  <2>2. PICK n \in DOMAIN questions[c[2]] : questions[c[2]][n].agent # c[1]
    BY <2>1 DEF ToSet
  <2>3. questions[c[2]] \in Seq(QuestionRecs) /\ NewQuestions(c[2]) \in Seq(QuestionRecs)
    BY <2>1, NewFacts DEF ThreadInv, Inv, Typed
  <2>4. questions'[c[2]] = questions[c[2]] \o NewQuestions(c[2])
    BY <1>3, <2>1
  <2>5. n \in DOMAIN questions'[c[2]] /\ questions'[c[2]][n] = questions[c[2]][n]
    <3> DEFINE s == questions[c[2]]
               t == NewQuestions(c[2])
    <3>1. s \in Seq(QuestionRecs) /\ t \in Seq(QuestionRecs) /\ n \in DOMAIN s
      BY <2>3
    <3>2. questions'[c[2]] = s \o t
      BY <2>4
    <3> HIDE DEF s, t
    <3>3. n \in DOMAIN (s \o t) /\ (s \o t)[n] = s[n]
      BY <3>1
    <3> QED BY <3>2, <3>3 DEF s
  <2> QED BY <2>2, <2>5 DEF ToSet
<1> QED
  BY <1>1, <1>2, <1>4, <1>6, <1>7 DEF ThreadInv

LEMMA NextThread ==
  ASSUME ThreadInv, AnswersAtRest, [Next]_vars
  PROVE  ThreadInv'
<1>1. CASE Begin
  BY <1>1, BeginThread
<1>2. CASE Commit
  BY <1>2, CommitThread
<1>3. CASE Abort
  BY <1>3, AbortThread
<1>4. ASSUME NEW w \in todo, NEW effect \in Outcomes(w[2]), Run(w[1], w[2], effect)
      PROVE  ThreadInv'
  BY <1>4, RunThread
<1>5. ASSUME NEW g \in Goals, NEW n \in Open(g), NEW reply \in Replies(questions[g][n]),
             Reply(g, n, reply)
      PROVE  ThreadInv'
  BY <1>5, ReplyThread
<1>6. ASSUME NEW g \in Goals, Submit(g)  PROVE ThreadInv'
  BY <1>6, SubmitThread
<1>7. CASE UNCHANGED vars
  <2>1. UNCHANGED <<asked, notes, questions, answers, queue, batch, todo, results, deferred, dropped>>
    BY <1>7 DEF vars, contextVars, generationVars, historyVars
  <2>2. Inv'
    BY NextInv DEF ThreadInv
  <2>3. Threaded' /\ Counters' /\ LeftToOthers'
    BY <2>1, SameThreads DEF ThreadInv
  <2>4. Complete' /\ Unique' /\ Sensible'
    BY <2>1 DEF ThreadInv, Complete, Unique, Sensible, Wakes, OpenElsewhere, Open
  <2> QED BY <2>2, <2>3, <2>4 DEF ThreadInv
<1> QED
  BY <1>1, <1>2, <1>3, <1>4, <1>5, <1>6, <1>7 DEF Next, Step, Human

LEMMA InvOneThread == ThreadInv => OneThread
<1> SUFFICES ASSUME ThreadInv PROVE OneThread
  OBVIOUS
<1>1. ASSUME NEW c \in Conversations
      PROVE  Threads(c[1], c[2]) = IF c \in dropped THEN 0 ELSE 1
  <2> DEFINE a == c[1]
             g == c[2]
  <2>1. a \in Agents /\ g \in Goals /\ g \in asked /\ g \in Consumes[a]
    BY DEF Conversations, ThreadInv, Inv, Typed
  <2> HIDE DEF a, g
  <2>2. /\ <<a, g>> \notin dropped => OneOf(Live(a, g), Mine(a, g), answers[g][a], <<a, g>> \in deferred)
        /\ <<a, g>> \in dropped => /\ Live(a, g) = {} /\ Mine(a, g) = {}
                                  /\ answers[g][a] = 0 /\ <<a, g>> \notin deferred
    BY <2>1 DEF ThreadInv, Threaded, ThreadAt
  <2>3. /\ (\E e : Live(a, g) = {e}) => Cardinality(Live(a, g)) = 1
        /\ Live(a, g) = {} => Cardinality(Live(a, g)) = 0
        /\ (\E n : Mine(a, g) = {n}) => Cardinality(Mine(a, g)) = 1
        /\ Mine(a, g) = {} => Cardinality(Mine(a, g)) = 0
    BY FS_EmptySet, FS_Singleton
  <2>4. Threads(a, g) = Cardinality(Live(a, g)) + Cardinality(Mine(a, g)) + answers[g][a]
                        + (IF <<a, g>> \in deferred THEN 1 ELSE 0)
    BY DEF Threads, Live, Mine
  <2>5. Threads(a, g) = 1 \/ <<a, g>> \in dropped
    <3> SUFFICES ASSUME <<a, g>> \notin dropped  PROVE Threads(a, g) = 1
      OBVIOUS
    <3> DEFINE live == Live(a, g)
               mine == Mine(a, g)
               left == <<a, g>> \in deferred
    <3>1. /\ Threads(a, g) = Cardinality(live) + Cardinality(mine) + answers[g][a] + (IF left THEN 1 ELSE 0)
          /\ OneOf(live, mine, answers[g][a], left)
      BY <2>2, <2>4
    <3>2. /\ (\E e : live = {e}) => Cardinality(live) = 1
          /\ live = {} => Cardinality(live) = 0
          /\ (\E n : mine = {n}) => Cardinality(mine) = 1
          /\ mine = {} => Cardinality(mine) = 0
      BY <2>3
    <3> HIDE DEF live, mine, left
    <3>3. CASE left
      BY <3>1, <3>2, <3>3 DEF OneOf
    <3>4. CASE ~left
      BY <3>1, <3>2, <3>4 DEF OneOf
    <3> QED BY <3>3, <3>4
  <2>6. <<a, g>> \in dropped => Threads(a, g) = 0
    BY <2>2, <2>3, <2>4
  <2>7. <<a, g>> \notin dropped => Threads(a, g) = 1
    BY <2>5
  <2>8. c = <<a, g>>
    BY DEF Conversations, a, g
  <2>9. Threads(a, g) = IF c \in dropped THEN 0 ELSE 1
    BY ONLY <2>6, <2>7, <2>8
  <2> QED BY <2>9 DEF a, g
<1> QED
  BY <1>1 DEF OneThread, ThreadInv, LeftToOthers

(* A conversation does not fork, gets lost only with a step the runtime     *)
(* threw away, and is left to another agent's question only: for any number *)
(* of agents, goals, questions, aborts and steps thrown away, whatever the  *)
(* models decide (tool_use.py:421-681, runtime.py:583, 694, 869-879), if    *)
(* the human answers at rest.                                               *)
THEOREM OneThreadOnly ==
  ASSUME AnswersAtRest
  PROVE  Spec => []OneThread
<1>1. Init => ThreadInv
  BY InitThread
<1>2. ThreadInv /\ [Next]_vars => ThreadInv'
  BY NextThread
<1>3. ThreadInv => OneThread
  BY InvOneThread
<1> QED
  BY <1>1, <1>2, <1>3, PTL DEF Spec

-----------------------------------------------------------------------------
(***************************************************************************)
(* The limits.  Who may still add to what is limited is counted in         *)
(* advance: an agent whose run has asked for it, and for the notes also    *)
(* one whose question is open or whose answer is queued, since its note is *)
(* made without looking at the limit.  To become one of these an agent     *)
(* must find the limit not reached, and there are no more of them than     *)
(* agents that consume the goal.                                           *)
(***************************************************************************)

(* The places in a sequence of what is in T.                                *)
In(s, T) == {n \in DOMAIN s : s[n] \in T}

LEMMA ConcatCount ==
  ASSUME NEW R, NEW s \in Seq(R), NEW t \in Seq(R), NEW T
  PROVE  /\ IsFiniteSet(In(s, T)) /\ IsFiniteSet(In(t, T)) /\ IsFiniteSet(In(s \o t, T))
         /\ Cardinality(In(s \o t, T)) = Cardinality(In(s, T)) + Cardinality(In(t, T))
<1>1. /\ DOMAIN (s \o t) = 1 .. Len(s) + Len(t) /\ Len(s) \in Nat /\ Len(t) \in Nat
      /\ DOMAIN s = 1 .. Len(s) /\ DOMAIN t = 1 .. Len(t)
      /\ \A i \in 1 .. Len(s) + Len(t) : (s \o t)[i] = IF i <= Len(s) THEN s[i] ELSE t[i - Len(s)]
  OBVIOUS
<1> DEFINE old == In(s, T)
           more == In(t, T)
           all == In(s \o t, T)
           new == {n \in all : n > Len(s)}
           f == [n \in more |-> n + Len(s)]
<1>2. IsFiniteSet(old) /\ IsFiniteSet(more) /\ IsFiniteSet(all)
  <2>1. \A n \in Nat : IsFiniteSet(1 .. n)
    BY FS_Interval
  <2>2. old \in SUBSET (1 .. Len(s)) /\ more \in SUBSET (1 .. Len(t))
        /\ all \in SUBSET (1 .. Len(s) + Len(t))
    BY <1>1 DEF In
  <2>3. Len(s) + Len(t) \in Nat
    BY <1>1
  <2> QED BY <1>1, <2>1, <2>2, <2>3, FS_Subset
<1>3. f \in Bijection(more, new)
  <2>1. \A n \in more : f[n] \in new
    BY <1>1 DEF In
  <2>2. \A n, m \in more : f[n] = f[m] => n = m
    BY <1>1 DEF In
  <2>3. \A n \in new : n - Len(s) \in more /\ f[n - Len(s)] = n
    BY <1>1 DEF In
  <2> HIDE DEF more, new, f
  <2>4. f \in [more -> new]
    BY <2>1 DEF f
  <2> QED BY <2>2, <2>3, <2>4 DEF Bijection, Injection, Surjection, IsInjective
<1>4. IsFiniteSet(new) /\ Cardinality(new) = Cardinality(more)
  <2>1. ExistsBijection(more, new)
    BY <1>3 DEF ExistsBijection
  <2> HIDE DEF more, new
  <2> QED BY <1>2, <2>1, FS_Bijection
<1>5. all = old \cup new /\ old \cap new = {}
  BY <1>1 DEF In
<1>6. Cardinality(old) \in Nat /\ Cardinality(new) \in Nat
  BY <1>2, <1>4, FS_CardinalityType
<1> HIDE DEF old, more, all, new
<1>7. Cardinality(all) = Cardinality(old) + Cardinality(new)
  <2>1. Cardinality(all) = Cardinality(old) + Cardinality(new) - Cardinality(old \cap new)
    BY <1>2, <1>4, <1>5, FS_Union
  <2>2. Cardinality(old \cap new) = 0
    BY <1>5, FS_EmptySet
  <2> QED BY <1>6, <2>1, <2>2
<1> QED
  BY <1>2, <1>4, <1>7 DEF old, more, all

(* A finite set put in a sequence: as many places as elements.              *)
LEMMA ListedCount ==
  ASSUME NEW S, IsFiniteSet(S), NEW T \in SUBSET S
  PROVE  Cardinality(In(SetToSeq(S), T)) = Cardinality(T)
<1> DEFINE m == SetToSeq(S)
           I == In(m, T)
           f == [i \in I |-> m[i]]
<1>1. PICK k \in Nat : /\ m \in [1 .. k -> S]
                       /\ \A i, j \in 1 .. k : m[i] = m[j] => i = j
                       /\ \A x \in S : \E i \in 1 .. k : m[i] = x
  <2> HIDE DEF m
  <2>1. \E k \in Nat : /\ SetToSeq(S) \in [1 .. k -> S]
                       /\ \A i, j \in 1 .. k : SetToSeq(S)[i] = SetToSeq(S)[j] => i = j
                       /\ \A x \in S : \E i \in 1 .. k : SetToSeq(S)[i] = x
    BY SetToSeqFacts
  <2> QED BY <2>1 DEF m
<1> HIDE DEF m
<1>2. IsFiniteSet(I)
  <2>1. IsFiniteSet(1 .. k)
    BY FS_Interval
  <2>2. I \in SUBSET (1 .. k)
    BY <1>1 DEF In
  <2> QED BY <2>1, <2>2, FS_Subset
<1>3. f \in Bijection(I, T)
  <2>1. /\ \A i \in I : f[i] \in T
        /\ \A i, j \in I : f[i] = f[j] => i = j
        /\ \A x \in T : \E i \in I : f[i] = x
    BY <1>1 DEF In
  <2> HIDE DEF I, f
  <2>2. f \in [I -> T]
    BY <2>1 DEF f
  <2> QED BY <2>1, <2>2 DEF Bijection, Injection, Surjection, IsInjective
<1>4. ExistsBijection(I, T)
  BY <1>3 DEF ExistsBijection
<1>5. Cardinality(I) = Cardinality(T)
  <2> HIDE DEF I
  <2> QED BY <1>2, <1>4, FS_Bijection
<1> QED
  BY <1>5 DEF m

(* As many results as agents, if each agent has one.                        *)
LEMMA AgentCount ==
  ASSUME NEW S, IsFiniteSet(S), \A r, s \in S : r.agent = s.agent => r = s
  PROVE  /\ IsFiniteSet({r.agent : r \in S})
         /\ Cardinality({r.agent : r \in S}) = Cardinality(S)
<1> DEFINE T == {r.agent : r \in S}
           f == [r \in S |-> r.agent]
<1>1. f \in Bijection(S, T)
  BY DEF Bijection, Injection, Surjection, IsInjective
<1>2. ExistsBijection(S, T)
  BY <1>1 DEF ExistsBijection
<1> HIDE DEF T
<1>3. IsFiniteSet(T) /\ Cardinality(T) = Cardinality(S)
  BY <1>2, FS_Bijection
<1> QED
  BY <1>3 DEF T

Noted(C) == {o \in NoteRecs : o.content \in C}
Posed(X) == {q \in QuestionRecs : q.about \in X}

NotePlaces(g, C) == In(notes[g], Noted(C))
QuestionPlaces(g, X) == In(questions[g], Posed(X))

(* The results that will make notes or questions of a kind, and whose they  *)
(* are.                                                                     *)
Wants(g, do, whats) ==
  {r \in results : r.event.goal = g /\ r.effect.do = do /\ r.effect.what \in whats}

Askers(g, do, whats) == {r.agent : r \in Wants(g, do, whats)}

(* Whose note on the goal is to come whatever the limit says.               *)
MayNote(g) ==
  {a \in Agents :
     \/ Mine(a, g) # {}
     \/ \E e \in Live(a, g) : e.what = "answered"
     \/ a \in Askers(g, "note", Contents) \cup Askers(g, "question", Texts)}

Spent(places, waiting, limit, g) ==
  Cardinality(places) + Cardinality(waiting) <= limit + Over(g)

LimitsAt(g) ==
  /\ Spent(NotePlaces(g, Contents), MayNote(g), MaxSteps, g)
  /\ Spent(NotePlaces(g, {"call"}), Askers(g, "note", {"call"}), MaxToolCalls, g)
  /\ Spent(QuestionPlaces(g, Destructive), Askers(g, "question", Destructive), MaxApprovals, g)
  /\ Spent(QuestionPlaces(g, Clarifications), Askers(g, "question", Clarifications), MaxAsks, g)

(* Notes and questions are those of agents that consume the goal.           *)
Heard ==
  \A g \in Goals :
    /\ \A n \in DOMAIN notes[g] : notes[g][n].agent \in Listeners(g)
    /\ \A n \in DOMAIN questions[g] : questions[g][n].agent \in Listeners(g)

(* An abort forgets one execution of a question at most.                    *)
Forgotten ==
  /\ aborts \in 0 .. MaxAborts /\ drops \in 0 .. MaxDrops
  /\ \A g \in Goals : \A n \in DOMAIN questions[g] : questions[g][n].undone <= aborts

LimitInv ==
  ThreadInv /\ Heard /\ Forgotten /\ \A g \in Goals : LimitsAt(g)

-----------------------------------------------------------------------------
(* Places and agents, counted *)

LEMMA PlacesFinite ==
  ASSUME Typed, NEW g \in Goals
  PROVE  /\ \A C : IsFiniteSet(NotePlaces(g, C))
         /\ \A X : IsFiniteSet(QuestionPlaces(g, X))
<1>1. /\ notes[g] \in Seq(NoteRecs) /\ questions[g] \in Seq(QuestionRecs)
  BY DEF Typed
<1>2. /\ \A T : IsFiniteSet(In(notes[g], T))
      /\ \A T : IsFiniteSet(In(questions[g], T))
  BY <1>1, ConcatCount
<1> QED
  BY <1>2 DEF NotePlaces, QuestionPlaces

LEMMA ListenersFinite ==
  ASSUME NEW g
  PROVE  /\ IsFiniteSet(Listeners(g)) /\ Over(g) \in Nat
         /\ Listeners(g) # {} => Over(g) = Cardinality(Listeners(g)) - 1
<1>1. IsFiniteSet(Listeners(g))
  BY ToolLoopAssumption, FS_Subset DEF Listeners
<1>2. Cardinality(Listeners(g)) \in Nat
      /\ (Listeners(g) # {} => Cardinality(Listeners(g)) # 0)
  BY <1>1, FS_CardinalityType, FS_EmptySet
<1> QED
  BY <1>1, <1>2 DEF Over

LEMMA LimitsAreNumbers ==
  {MaxSteps, MaxAsks, MaxApprovals, MaxToolCalls, MaxAborts, MaxDrops} \subseteq Nat
BY ToolLoopAssumption

(* Fewer wait for the same places.                                          *)
LEMMA SpentKept ==
  ASSUME NEW places, NEW waiting, NEW fewer, NEW limit, NEW g,
         IsFiniteSet(places), IsFiniteSet(waiting), fewer \subseteq waiting,
         limit \in Nat, Spent(places, waiting, limit, g)
  PROVE  Spent(places, fewer, limit, g)
<1>1. Cardinality(fewer) <= Cardinality(waiting)
      /\ IsFiniteSet(fewer)
  BY FS_Subset
<1>2. Cardinality(places) \in Nat /\ Cardinality(waiting) \in Nat /\ Cardinality(fewer) \in Nat
  BY <1>1, FS_CardinalityType
<1> QED
  BY <1>1, <1>2, ListenersFinite DEF Spent

(* An agent that comes to wait has found the limit not reached.             *)
LEMMA SpentEntered ==
  ASSUME NEW places, NEW waiting, NEW limit, NEW g,
         IsFiniteSet(places), Cardinality(places) < limit, limit \in Nat,
         waiting \subseteq Listeners(g)
  PROVE  Spent(places, waiting, limit, g)
<1>1. /\ IsFiniteSet(waiting)
      /\ Cardinality(waiting) <= Cardinality(Listeners(g))
  BY ListenersFinite, FS_Subset
<1>2. Cardinality(places) \in Nat /\ Cardinality(waiting) \in Nat /\ Cardinality(Listeners(g)) \in Nat
  BY <1>1, ListenersFinite, FS_CardinalityType
<1>3. Listeners(g) = {} => Cardinality(Listeners(g)) = 0
  BY FS_EmptySet
<1> QED
  BY <1>1, <1>2, <1>3, ListenersFinite DEF Spent, Over

(* Who has waited for a place takes it.                                     *)
LEMMA SpentTaken ==
  ASSUME NEW places, NEW more, NEW waiting, NEW served, NEW left, NEW limit, NEW g,
         IsFiniteSet(places), IsFiniteSet(waiting), served \subseteq waiting,
         left \subseteq waiting \ served, limit \in Nat,
         Cardinality(more) = Cardinality(places) + Cardinality(served),
         Spent(places, waiting, limit, g)
  PROVE  Spent(more, left, limit, g)
<1>1. IsFiniteSet(served) /\ IsFiniteSet(left) /\ served \cap left = {}
  BY FS_Subset
<1>2. Cardinality(served \cup left) = Cardinality(served) + Cardinality(left)
  <2>1. Cardinality(served \cup left)
          = Cardinality(served) + Cardinality(left) - Cardinality(served \cap left)
    BY <1>1, FS_Union
  <2>2. Cardinality(served \cap left) = 0
    BY <1>1, FS_EmptySet
  <2> QED BY <1>1, <2>1, <2>2, FS_CardinalityType
<1>3. served \cup left \subseteq waiting
  OBVIOUS
<1>4. Cardinality(served \cup left) <= Cardinality(waiting)
  BY <1>3, FS_Subset
<1>5. /\ Cardinality(places) \in Nat /\ Cardinality(waiting) \in Nat
      /\ Cardinality(served) \in Nat /\ Cardinality(left) \in Nat
  BY <1>1, FS_CardinalityType
<1> QED
  BY <1>2, <1>4, <1>5, ListenersFinite DEF Spent

(* The event of a question's creation makes nothing. *)
LEMMA MakerIsLive ==
  ASSUME ThreadInv, NEW r \in results, r.effect.do \in {"note", "question"}
  PROVE  r.event.what # "asked"
<1>1. Nothing.do = "nothing" /\ Lost("").do = "lost"
  BY DEF Nothing, Lost
<1>2. r.effect # Nothing /\ r.effect # Lost("")
  BY <1>1
<1> QED
  BY <1>2 DEF ThreadInv, Sensible

(* A result that is not of a creation is of an agent's live event.          *)
LEMMA ResultIsLive ==
  ASSUME ThreadInv, NEW r \in results, r.effect.do \in {"note", "question"}
  PROVE  /\ r.agent \in Agents /\ r.event.goal \in Goals
         /\ r.event \in Live(r.agent, r.event.goal)
         /\ r.agent \in Listeners(r.event.goal)
<1>1. r.agent \in Agents /\ r.event \in queue /\ OfSomething(r.event)
  BY DEF ThreadInv, Inv, Typed
<1>2. r.event.goal \in Goals
  BY <1>1, EventFacts DEF ThreadInv, Inv
<1>3. r.event.what # "asked" /\ Wakes(r.event, r.agent)
  BY MakerIsLive DEF ThreadInv, Inv, Woken
<1>4. r.event \in Live(r.agent, r.event.goal)
  BY <1>1, <1>3 DEF Live
<1> QED
  BY <1>1, <1>2, <1>4, LiveMeansNoneOpen DEF ThreadInv, Listeners

LEMMA AskersListen ==
  ASSUME ThreadInv, NEW g \in Goals, NEW do \in {"note", "question"}, NEW whats
  PROVE  Askers(g, do, whats) \subseteq Listeners(g)
<1>1. \A r \in Wants(g, do, whats) : r \in results /\ r.effect.do = do /\ r.event.goal = g
  BY DEF Wants
<1> QED
  BY <1>1, ResultIsLive DEF Askers

LEMMA WaitingListen ==
  ASSUME ThreadInv, NEW g \in Goals
  PROVE  MayNote(g) \subseteq Listeners(g)
<1> SUFFICES ASSUME NEW a \in MayNote(g)  PROVE a \in Listeners(g)
  OBVIOUS
<1>1. CASE a \in Askers(g, "note", Contents) \cup Askers(g, "question", Texts)
  BY <1>1, AskersListen
<1>2. CASE Mine(a, g) # {} \/ Live(a, g) # {}
  <2>1. ThreadAt(a, g)
    BY DEF ThreadInv, Threaded, MayNote
  <2> QED BY <1>2, <2>1 DEF ThreadAt, Listeners, MayNote
<1> QED
  BY <1>1, <1>2 DEF MayNote

(* The same of the next state.                                              *)
LEMMA ListenNext ==
  ThreadInv' =>
    \A g \in Goals :
      /\ MayNote(g)' \subseteq Listeners(g)
      /\ \A whats : /\ Askers(g, "note", whats)' \subseteq Listeners(g)
                    /\ Askers(g, "question", whats)' \subseteq Listeners(g)
<1>1. ThreadInv =>
        \A h \in Goals :
          /\ MayNote(h) \subseteq Listeners(h)
          /\ \A whats : /\ Askers(h, "note", whats) \subseteq Listeners(h)
                        /\ Askers(h, "question", whats) \subseteq Listeners(h)
  BY WaitingListen, AskersListen
<1>2. (ThreadInv =>
        \A h \in Goals :
          /\ MayNote(h) \subseteq Listeners(h)
          /\ \A whats : /\ Askers(h, "note", whats) \subseteq Listeners(h)
                        /\ Askers(h, "question", whats) \subseteq Listeners(h))'
  BY <1>1, PTL
<1> QED
  BY <1>2 DEF Listeners

-----------------------------------------------------------------------------
(* The limits and the steps *)

LEMMA InitLimits == Init => LimitInv
<1> SUFFICES ASSUME Init PROVE LimitInv
  OBVIOUS
<1>1. ThreadInv
  BY InitThread
<1>2. Heard /\ Forgotten
  BY LimitsAreNumbers DEF Init, Heard, Forgotten
<1>3. ASSUME NEW g \in Goals  PROVE LimitsAt(g)
  <2>1. \A T : In(notes[g], T) = {} /\ In(questions[g], T) = {}
    BY DEF Init, In
  <2>2. \A do, whats : Askers(g, do, whats) = {}
    BY DEF Init, Askers, Wants
  <2>3. MayNote(g) = {}
    BY <2>2 DEF Init, MayNote, Mine, Open, Live
  <2>4. \A limit \in Nat : Spent({}, {}, limit, g)
    BY FS_EmptySet, ListenersFinite DEF Spent
  <2> QED
    BY <2>1, <2>2, <2>3, <2>4, LimitsAreNumbers DEF LimitsAt, NotePlaces, QuestionPlaces
<1> QED
  BY <1>1, <1>2, <1>3 DEF LimitInv

(* Notes stay, and no question is withdrawn or becomes another.             *)
SameArtifacts ==
  /\ notes' = notes
  /\ \A g \in Goals : DOMAIN questions'[g] = DOMAIN questions[g]
  /\ \A g \in Goals : \A n \in DOMAIN questions[g] :
       /\ questions'[g][n].agent = questions[g][n].agent
       /\ questions'[g][n].about = questions[g][n].about

LEMMA SamePlaces ==
  ASSUME ThreadInv, ThreadInv', SameArtifacts, NEW g \in Goals
  PROVE  /\ \A C : NotePlaces(g, C)' = NotePlaces(g, C)
         /\ \A X : QuestionPlaces(g, X)' = QuestionPlaces(g, X)
<1>1. /\ questions \in [Goals -> Seq(QuestionRecs)]
      /\ questions' \in [Goals -> Seq(QuestionRecs)]
  BY DEF ThreadInv, Inv, Typed
<1>2. /\ \A n \in DOMAIN questions[g] : questions[g][n] \in QuestionRecs
      /\ \A n \in DOMAIN questions'[g] : questions'[g][n] \in QuestionRecs
  BY <1>1
<1>3. \A X : QuestionPlaces(g, X)' = QuestionPlaces(g, X)
  BY <1>2 DEF QuestionPlaces, In, Posed, SameArtifacts
<1>4. \A C : NotePlaces(g, C)' = NotePlaces(g, C)
  BY DEF NotePlaces, In, SameArtifacts
<1> QED
  BY <1>3, <1>4

LEMMA SameHeard ==
  ASSUME Heard, SameArtifacts
  PROVE  Heard'
BY DEF Heard, SameArtifacts, Listeners

(* Steps after which no more agents wait than before, unless they found the *)
(* limit not reached.                                                       *)
LEMMA Entered ==
  ASSUME LimitInv, ThreadInv', SameArtifacts, NEW g \in Goals,
         \/ MayNote(g)' \subseteq MayNote(g)
         \/ Cardinality(NotePlaces(g, Contents)) < MaxSteps,
         \/ Askers(g, "note", {"call"})' \subseteq Askers(g, "note", {"call"})
         \/ Cardinality(NotePlaces(g, {"call"})) < MaxToolCalls,
         \/ Askers(g, "question", Destructive)' \subseteq Askers(g, "question", Destructive)
         \/ Cardinality(QuestionPlaces(g, Destructive)) < MaxApprovals,
         \/ Askers(g, "question", Clarifications)' \subseteq Askers(g, "question", Clarifications)
         \/ Cardinality(QuestionPlaces(g, Clarifications)) < MaxAsks
  PROVE  LimitsAt(g)'
<1>1. /\ \A C : IsFiniteSet(NotePlaces(g, C)) /\ NotePlaces(g, C)' = NotePlaces(g, C)
      /\ \A X : IsFiniteSet(QuestionPlaces(g, X)) /\ QuestionPlaces(g, X)' = QuestionPlaces(g, X)
  BY PlacesFinite, SamePlaces DEF LimitInv, ThreadInv, Inv
<1>2. /\ IsFiniteSet(MayNote(g))
      /\ \A whats : IsFiniteSet(Askers(g, "note", whats)) /\ IsFiniteSet(Askers(g, "question", whats))
  <2>1. /\ MayNote(g) \subseteq Listeners(g)
        /\ \A whats : /\ Askers(g, "note", whats) \subseteq Listeners(g)
                      /\ Askers(g, "question", whats) \subseteq Listeners(g)
    BY WaitingListen, AskersListen DEF LimitInv
  <2> QED BY <2>1, ListenersFinite, FS_Subset
<1>3. /\ MayNote(g)' \subseteq Listeners(g)
      /\ \A whats : /\ Askers(g, "note", whats)' \subseteq Listeners(g)
                    /\ Askers(g, "question", whats)' \subseteq Listeners(g)
  BY ListenNext
<1>4. LimitsAt(g)
  BY DEF LimitInv
<1>5. Spent(NotePlaces(g, Contents), MayNote(g)', MaxSteps, g)
  BY <1>1, <1>2, <1>3, <1>4, SpentKept, SpentEntered, LimitsAreNumbers DEF LimitsAt
<1>6. Spent(NotePlaces(g, {"call"}), Askers(g, "note", {"call"})', MaxToolCalls, g)
  BY <1>1, <1>2, <1>3, <1>4, SpentKept, SpentEntered, LimitsAreNumbers DEF LimitsAt
<1>7. Spent(QuestionPlaces(g, Destructive), Askers(g, "question", Destructive)', MaxApprovals, g)
  BY <1>1, <1>2, <1>3, <1>4, SpentKept, SpentEntered, LimitsAreNumbers DEF LimitsAt
<1>8. Spent(QuestionPlaces(g, Clarifications), Askers(g, "question", Clarifications)', MaxAsks, g)
  BY <1>1, <1>2, <1>3, <1>4, SpentKept, SpentEntered, LimitsAreNumbers DEF LimitsAt
<1> QED
  BY <1>1, <1>5, <1>6, <1>7, <1>8 DEF LimitsAt, Spent, Over, Listeners

LEMMA SubmitLimits ==
  ASSUME LimitInv, NEW g \in Goals, Submit(g)
  PROVE  LimitInv'
<1>1. ThreadInv'
  BY SubmitThread DEF LimitInv
<1>2. /\ UNCHANGED <<notes, questions, results, aborts, drops>>
      /\ queue' = queue \cup {Event("goal", g, 0)}
  BY DEF Submit, contextVars, generationVars
<1>3. SameArtifacts
  BY <1>2 DEF SameArtifacts
<1>4. Heard' /\ Forgotten'
  BY <1>2, <1>3, SameHeard DEF LimitInv, Forgotten
<1>5. ASSUME NEW h \in Goals  PROVE LimitsAt(h)'
  <2>1. \A do, whats : Askers(h, do, whats)' = Askers(h, do, whats)
    BY <1>2 DEF Askers, Wants
  <2>2. ASSUME NEW a, NEW e \in Live(a, h)', e.what = "answered"  PROVE e \in Live(a, h)
    <3>1. e # Event("goal", g, 0)
      BY <2>2 DEF Event
    <3> QED BY <1>2, <3>1 DEF Live, Wakes
  <2>3. MayNote(h)' \subseteq MayNote(h)
    BY <1>2, <2>1, <2>2 DEF MayNote, Mine, Open
  <2> QED BY <1>1, <1>3, <2>1, <2>3, Entered
<1> QED
  BY <1>1, <1>4, <1>5 DEF LimitInv

LEMMA BeginLimits ==
  ASSUME LimitInv, Begin \/ UNCHANGED vars, ThreadInv'
  PROVE  LimitInv'
<1>1. UNCHANGED <<notes, questions, results, queue, aborts, drops>>
  BY DEF Begin, vars, contextVars, generationVars
<1>2. SameArtifacts
  BY <1>1 DEF SameArtifacts
<1>3. Heard' /\ Forgotten'
  BY <1>1, <1>2, SameHeard DEF LimitInv, Forgotten
<1>4. ASSUME NEW h \in Goals  PROVE LimitsAt(h)'
  <2>1. \A do, whats : Askers(h, do, whats)' = Askers(h, do, whats)
    BY <1>1 DEF Askers, Wants
  <2>2. MayNote(h)' \subseteq MayNote(h)
    BY <1>1, <2>1 DEF MayNote, Mine, Open, Live, Wakes
  <2> QED BY <1>2, <2>1, <2>2, Entered
<1> QED
  BY <1>3, <1>4 DEF LimitInv

LEMMA ReplyLimits ==
  ASSUME LimitInv, AnswersAtRest, NEW g \in Goals, NEW n \in Open(g),
         NEW reply \in Replies(questions[g][n]), Reply(g, n, reply)
  PROVE  LimitInv'
<1> DEFINE old == questions[g][n]
           new == [old EXCEPT !.reply = reply]
           e == Event("answered", g, n)
<1>1. ThreadInv'
  BY ReplyThread DEF LimitInv
<1>2. /\ UNCHANGED <<notes, results, aborts, drops>> /\ queue = {} /\ queue' = {e}
      /\ questions' = [questions EXCEPT ![g] = [@ EXCEPT ![n] = new]]
  BY DEF Reply, AtRest, generationVars
<1>3. n \in DOMAIN questions[g] /\ old \in QuestionRecs /\ old.reply = "none"
  BY DEF LimitInv, ThreadInv, Inv, Typed, Open
<1>4. reply \in {"text", "yes", "no"}
  BY DEF Replies
<1>5. new \in QuestionRecs /\ new.agent = old.agent /\ new.about = old.about
      /\ new.undone = old.undone /\ new.reply # "none"
  BY <1>3, <1>4 DEF QuestionRecs
<1> HIDE DEF new
<1>6. /\ \A h \in Goals : DOMAIN questions'[h] = DOMAIN questions[h]
      /\ \A h \in Goals : \A m \in DOMAIN questions[h] :
           questions'[h][m] = IF h = g /\ m = n THEN new ELSE questions[h][m]
  BY <1>2, <1>3, <1>5, OneChanged DEF LimitInv, ThreadInv, Inv
<1>7. SameArtifacts
  BY <1>2, <1>5, <1>6 DEF SameArtifacts
<1>8. Heard' /\ Forgotten'
  BY <1>2, <1>5, <1>6, <1>7, SameHeard DEF LimitInv, Forgotten
<1>9. ASSUME NEW h \in Goals  PROVE LimitsAt(h)'
  <2>1. \A do, whats : Askers(h, do, whats)' = Askers(h, do, whats)
    BY <1>2 DEF Askers, Wants
  <2>2. ASSUME NEW a \in Agents, Mine(a, h)' # {}  PROVE Mine(a, h) # {}
    <3>1. PICK m \in DOMAIN questions[h] : questions'[h][m].reply = "none" /\ questions'[h][m].agent = a
      BY <2>2, <1>6 DEF Mine, Open
    <3>2. m \in Mine(a, h)
      BY <3>1, <1>5, <1>6 DEF Mine, Open
    <3> QED BY <3>2
  <2>3. ASSUME NEW a \in Agents, NEW d \in Live(a, h)'  PROVE Mine(a, h) # {}
    <3>1. d = e /\ h = g /\ Wakes(d, a)'
      BY <2>3, <1>2 DEF Live, Event
    <3>2. questions'[g][n].agent = a
      BY <3>1 DEF Wakes, Event
    <3>3. n \in Mine(a, h)
      BY <3>1, <3>2, <1>3, <1>5, <1>6 DEF Mine
    <3> QED BY <3>3
  <2>4. MayNote(h)' \subseteq MayNote(h)
    BY <2>1, <2>2, <2>3 DEF MayNote
  <2> QED BY <1>1, <1>7, <2>1, <2>4, Entered
<1> QED
  BY <1>1, <1>8, <1>9 DEF LimitInv

(* One execution of a question's call at most waits for its commit.         *)
LEMMA ExecutedAtMostOne ==
  ASSUME ThreadInv, NEW g, NEW n
  PROVE  Cardinality(Executed(g, n)) \in {0, 1}
<1>1. CASE Executed(g, n) = {}
  BY <1>1, FS_EmptySet
<1>2. CASE Executed(g, n) # {}
  <2>1. PICK r \in Executed(g, n) : TRUE
    BY <1>2
  <2>2. \A s \in Executed(g, n) : s.event = r.event /\ s.agent = r.agent /\ s \in results
    BY <2>1, ExecutedOnce DEF ThreadInv, Inv, Executed
  <2>3. Executed(g, n) = {r}
    BY <2>1, <2>2 DEF ThreadInv, Unique
  <2> QED BY <2>3, FS_Singleton
<1> QED
  BY <1>1, <1>2

LEMMA AbortLimits ==
  ASSUME LimitInv, Abort
  PROVE  LimitInv'
<1>1. ThreadInv'
  BY AbortThread DEF LimitInv
<1>2. /\ UNCHANGED <<notes, queue, drops>> /\ results' = {}
      /\ aborts < MaxAborts /\ aborts' = aborts + 1
      /\ questions' = [g \in Goals |-> [n \in DOMAIN questions[g] |->
           [questions[g][n] EXCEPT !.undone = @ + Cardinality(Executed(g, n))]]]
  BY DEF Abort, Executed
<1>3. \A g \in Goals : \A n \in DOMAIN questions[g] : questions[g][n] \in QuestionRecs
  BY DEF LimitInv, ThreadInv, Inv, Typed
<1>4. \A g \in Goals : DOMAIN questions'[g] = DOMAIN questions[g]
  BY <1>2
<1>5. \A g \in Goals : \A n \in DOMAIN questions[g] :
        /\ questions'[g][n].agent = questions[g][n].agent
        /\ questions'[g][n].about = questions[g][n].about
        /\ questions'[g][n].reply = questions[g][n].reply
        /\ questions'[g][n].undone = questions[g][n].undone + Cardinality(Executed(g, n))
  BY <1>2, <1>3 DEF QuestionRecs
<1>6. SameArtifacts
  BY <1>2, <1>4, <1>5 DEF SameArtifacts
<1>7. Heard'
  BY <1>6, SameHeard DEF LimitInv
<1>8. Forgotten'
  <2>1. aborts \in Nat /\ aborts' \in 0 .. MaxAborts
    BY <1>2, LimitsAreNumbers DEF LimitInv, Forgotten
  <2>2. ASSUME NEW g \in Goals, NEW n \in DOMAIN questions[g]
        PROVE  questions'[g][n].undone <= aborts + 1
    <3>1. questions[g][n].undone \in Nat /\ questions[g][n].undone <= aborts
      BY <1>3 DEF QuestionRecs, LimitInv, Forgotten
    <3>2. Cardinality(Executed(g, n)) \in {0, 1}
      BY ExecutedAtMostOne DEF LimitInv
    <3>3. questions'[g][n].undone = questions[g][n].undone + Cardinality(Executed(g, n))
      BY <1>5
    <3> QED BY <2>1, <3>1, <3>2, <3>3
  <2>3. drops' \in 0 .. MaxDrops
    BY <1>2 DEF LimitInv, Forgotten
  <2>4. \A g \in Goals : \A n \in DOMAIN questions'[g] : questions'[g][n].undone <= aborts'
    BY <1>2, <1>4, <2>2
  <2> QED BY ONLY <2>1, <2>3, <2>4 DEF Forgotten
<1>9. ASSUME NEW h \in Goals  PROVE LimitsAt(h)'
  <2>1. \A do, whats : Askers(h, do, whats)' = {}
    BY <1>2 DEF Askers, Wants
  <2>2. Open(h)' = Open(h)
    BY <1>4, <1>5 DEF Open
  <2>3. \A a : Mine(a, h)' = Mine(a, h)
    BY <2>2, <1>5 DEF Mine, Open
  <2>4. ASSUME NEW a, NEW e \in Live(a, h)', e.what = "answered"  PROVE e \in Live(a, h)
    <3>1. e \in queue /\ e.goal = h /\ questions'[h][e.n].agent = a
      BY <2>4, <1>2 DEF Live, Wakes
    <3>2. e.n \in DOMAIN questions[h]
      BY <2>4, <3>1, EventFacts DEF LimitInv, ThreadInv, Inv, Typed
    <3> QED BY <2>4, <3>1, <3>2, <1>5 DEF Live, Wakes
  <2>5. MayNote(h)' \subseteq MayNote(h)
    BY <2>1, <2>3, <2>4 DEF MayNote
  <2> QED BY <1>1, <1>6, <2>1, <2>5, Entered
<1> QED
  BY <1>1, <1>7, <1>8, <1>9 DEF LimitInv

(* A decision looks at the limit of what it comes to.                       *)
LEMMA DecideLimits ==
  ASSUME Typed, NEW g \in Goals, NEW effect \in Decide(g)
  PROVE  /\ effect # Answer => Cardinality(NotePlaces(g, Contents)) < MaxSteps
         /\ effect = Observe("call") => Cardinality(NotePlaces(g, {"call"})) < MaxToolCalls
         /\ \A x \in Destructive :
              effect = Question(x) => Cardinality(QuestionPlaces(g, Destructive)) < MaxApprovals
         /\ \A x \in Clarifications :
              effect = Question(x) => Cardinality(QuestionPlaces(g, Clarifications)) < MaxAsks
<1>1. /\ notes[g] \in Seq(NoteRecs) /\ questions[g] \in Seq(QuestionRecs)
      /\ DOMAIN notes[g] = 1 .. Len(notes[g]) /\ Len(notes[g]) \in Nat
      /\ DOMAIN questions[g] = 1 .. Len(questions[g]) /\ Len(questions[g]) \in Nat
  BY DEF Typed
<1>2. /\ Cardinality(DOMAIN notes[g]) = Len(notes[g]) /\ IsFiniteSet(DOMAIN notes[g])
      /\ Cardinality(DOMAIN questions[g]) = Len(questions[g]) /\ IsFiniteSet(DOMAIN questions[g])
  <2>1. \A n \in Nat : IsFiniteSet(1 .. n) /\ Cardinality(1 .. n) = n
    BY FS_Interval
  <2> QED BY <1>1, <2>1
<1>3. /\ NotePlaces(g, Contents) \subseteq DOMAIN notes[g]
      /\ NotePlaces(g, {"call"}) \subseteq ToolNotes(g) /\ ToolNotes(g) \subseteq DOMAIN notes[g]
      /\ QuestionPlaces(g, Destructive) \subseteq Approvals(g) /\ Approvals(g) \subseteq DOMAIN questions[g]
      /\ QuestionPlaces(g, Clarifications) \subseteq DOMAIN questions[g]
  BY DEF NotePlaces, QuestionPlaces, In, Noted, Posed, ToolNotes, Approvals
<1>4. IsFiniteSet(ToolNotes(g)) /\ IsFiniteSet(Approvals(g))
  BY <1>2, <1>3, FS_Subset
<1>5. /\ Cardinality(NotePlaces(g, Contents)) <= Len(notes[g])
      /\ Cardinality(NotePlaces(g, {"call"})) <= Cardinality(ToolNotes(g))
      /\ Cardinality(QuestionPlaces(g, Destructive)) <= Cardinality(Approvals(g))
      /\ Cardinality(QuestionPlaces(g, Clarifications)) <= Len(questions[g])
  BY <1>2, <1>3, <1>4, FS_Subset
<1>6. /\ Cardinality(NotePlaces(g, Contents)) \in Nat
      /\ Cardinality(NotePlaces(g, {"call"})) \in Nat
      /\ Cardinality(QuestionPlaces(g, Destructive)) \in Nat
      /\ Cardinality(QuestionPlaces(g, Clarifications)) \in Nat
      /\ Cardinality(ToolNotes(g)) \in Nat /\ Cardinality(Approvals(g)) \in Nat
  BY <1>2, <1>3, <1>4, FS_Subset, FS_CardinalityType
<1>7. effect # Answer => /\ ~(Len(notes[g]) >= MaxSteps)
                         /\ \/ effect = Call(g)
                            \/ \E x \in Clarifications : effect = Clarify(g, x)
                            \/ \E x \in Destructive : effect = Approve(g, x)
  BY DEF Decide
<1>8. /\ \A x \in Clarifications : Clarify(g, x) \in {Nothing, Observe("nudge"), Question(x)}
      /\ \A x \in Destructive : Approve(g, x) \in {Nothing, Observe("nudge"), Question(x)}
      /\ \A x \in Clarifications : Clarify(g, x) = Question(x) => ~(Len(questions[g]) >= MaxAsks)
      /\ \A x \in Destructive : Approve(g, x) = Question(x) => ~(Cardinality(Approvals(g)) >= MaxApprovals)
  BY DEF Clarify, Approve, Nothing, Observe, Question
<1>9. /\ \A x : Question(x) # Answer /\ Question(x) # Nothing
      /\ \A x, c : Question(x) # Observe(c)
      /\ \A x, y : Question(x) = Question(y) => x = y
      /\ \A c : Observe(c) # Answer /\ Observe(c) # Nothing
      /\ Observe("call") # Observe("nudge")
  BY DEF Question, Answer, Nothing, Observe
<1>10. effect = Observe("call") => ~(Cardinality(ToolNotes(g)) >= MaxToolCalls)
  BY <1>7, <1>8, <1>9 DEF Call
<1>11. \A x \in Destructive : effect = Question(x) => ~(Cardinality(Approvals(g)) >= MaxApprovals)
  <2>1. \A x : Question(x) # Call(g)
    BY <1>9 DEF Call
  <2> QED BY <1>7, <1>8, <1>9, <2>1, ToolLoopAssumption
<1>12. \A x \in Clarifications : effect = Question(x) => ~(Len(questions[g]) >= MaxAsks)
  <2>1. \A x : Question(x) # Call(g)
    BY <1>9 DEF Call
  <2> QED BY <1>7, <1>8, <1>9, <2>1, ToolLoopAssumption
<1>13. effect # Answer => Cardinality(NotePlaces(g, Contents)) < MaxSteps
  BY <1>1, <1>5, <1>6, <1>7, LimitsAreNumbers
<1>14. effect = Observe("call") => Cardinality(NotePlaces(g, {"call"})) < MaxToolCalls
  BY <1>5, <1>6, <1>10, LimitsAreNumbers
<1>15. \A x \in Destructive :
         effect = Question(x) => Cardinality(QuestionPlaces(g, Destructive)) < MaxApprovals
  BY <1>5, <1>6, <1>11, LimitsAreNumbers
<1>16. \A x \in Clarifications :
         effect = Question(x) => Cardinality(QuestionPlaces(g, Clarifications)) < MaxAsks
  BY <1>1, <1>5, <1>6, <1>12, LimitsAreNumbers
<1> QED
  BY <1>13, <1>14, <1>15, <1>16

(* What a run adds to who waits: its agent, if it was not waiting already   *)
(* then by a decision.                                                      *)
LEMMA RunLimits ==
  ASSUME LimitInv, NEW a, NEW e, NEW effect, Run(a, e, effect)
  PROVE  LimitInv'
<1> DEFINE mine == [agent |-> a, event |-> e, effect |-> effect]
           new == [questions[e.goal][e.n] EXCEPT !.ran = @ + 1]
           approved == Executes(effect)
<1>1. ThreadInv'
  BY RunThread DEF LimitInv
<1>2. /\ UNCHANGED <<notes, queue, aborts>>
      /\ drops' = IF effect.do = "lost" THEN drops + 1 ELSE drops
      /\ <<a, e>> \in todo /\ effect \in Outcomes(e)
      /\ results' = results \cup {mine}
      /\ questions' = IF approved THEN [questions EXCEPT ![e.goal] = [@ EXCEPT ![e.n] = new]] ELSE questions
  BY DEF Run
<1>3. a \in Agents /\ e \in queue /\ OfSomething(e) /\ Wakes(e, a)
  BY <1>2 DEF LimitInv, ThreadInv, Inv, Typed, Woken
<1>4. e.goal \in Goals /\ e.what \in {"goal", "note", "asked", "answered"}
  BY <1>3, EventFacts DEF LimitInv, ThreadInv, Inv
<1>5. approved => e.n \in DOMAIN questions[e.goal] /\ questions[e.goal][e.n] \in QuestionRecs
  BY <1>2, <1>3, EffectFacts, EventFacts DEF LimitInv, ThreadInv, Inv
<1>6. approved => /\ new \in QuestionRecs /\ new.agent = questions[e.goal][e.n].agent
                  /\ new.about = questions[e.goal][e.n].about
                  /\ new.reply = questions[e.goal][e.n].reply
                  /\ new.undone = questions[e.goal][e.n].undone
  BY <1>5 DEF QuestionRecs
<1> HIDE DEF new
<1>7. /\ \A h \in Goals : DOMAIN questions'[h] = DOMAIN questions[h]
      /\ \A h \in Goals : \A m \in DOMAIN questions[h] :
           /\ questions'[h][m].agent = questions[h][m].agent
           /\ questions'[h][m].about = questions[h][m].about
           /\ questions'[h][m].reply = questions[h][m].reply
           /\ questions'[h][m].undone = questions[h][m].undone
  <2>1. CASE approved
    <3>1. /\ \A h \in Goals : DOMAIN questions'[h] = DOMAIN questions[h]
          /\ \A h \in Goals : \A m \in DOMAIN questions[h] :
               questions'[h][m] = IF h = e.goal /\ m = e.n THEN new ELSE questions[h][m]
      BY <2>1, <1>2, <1>4, <1>5, <1>6, OneChanged DEF LimitInv, ThreadInv, Inv
    <3> QED BY <2>1, <3>1, <1>6
  <2>2. CASE ~approved
    BY <2>2, <1>2
  <2> QED BY <2>1, <2>2
<1>8. SameArtifacts
  BY <1>2, <1>7 DEF SameArtifacts
<1>9. Heard' /\ Forgotten'
  <2>1. drops' \in 0 .. MaxDrops
    <3>1. MaxDrops \in Nat /\ drops \in 0 .. MaxDrops
      BY LimitsAreNumbers DEF LimitInv, Forgotten
    <3>2. effect.do = "lost" => drops < MaxDrops
      BY <1>2, OutcomeFacts
    <3> QED BY ONLY <1>2, <3>1, <3>2
  <2> QED BY <1>2, <1>7, <1>8, <2>1, SameHeard DEF LimitInv, Forgotten
<1>10. ASSUME NEW h \in Goals, NEW do, NEW whats
       PROVE  \/ Askers(h, do, whats)' \subseteq Askers(h, do, whats)
              \/ /\ h = e.goal /\ effect.do = do /\ effect.what \in whats
                 /\ Askers(h, do, whats)' \subseteq Askers(h, do, whats) \cup {a}
  <2>1. mine.agent = a /\ mine.event = e /\ mine.effect = effect
    OBVIOUS
  <2> HIDE DEF mine
  <2>2. \/ Wants(h, do, whats)' \subseteq Wants(h, do, whats)
        \/ /\ h = e.goal /\ effect.do = do /\ effect.what \in whats
           /\ Wants(h, do, whats)' \subseteq Wants(h, do, whats) \cup {mine}
    BY <1>2, <2>1 DEF Wants
  <2> QED BY <2>1, <2>2 DEF Askers
<1>11. effect \in EffectRecs
  BY <1>2, <1>3, EffectFacts DEF LimitInv, ThreadInv, Inv
<1>12. /\ \A h \in Goals : Open(h)' = Open(h)
       /\ \A h \in Goals : \A b : Mine(b, h)' = Mine(b, h)
  BY <1>7 DEF Open, Mine
<1>13. ASSUME NEW h \in Goals, NEW b, NEW d \in Live(b, h)', d.what = "answered"
       PROVE  d \in Live(b, h)
  <2>1. d \in queue /\ d.goal = h /\ questions'[h][d.n].agent = b
    BY <1>2, <1>13 DEF Live, Wakes
  <2>2. d.n \in DOMAIN questions[h]
    BY <1>13, <2>1, EventFacts DEF LimitInv, ThreadInv, Inv, Typed
  <2> QED BY <1>13, <2>1, <2>2, <1>7 DEF Live, Wakes
<1>14. ASSUME NEW h \in Goals
       PROVE  \/ MayNote(h)' \subseteq MayNote(h)
              \/ /\ h = e.goal /\ effect.do \in {"note", "question"}
                 /\ MayNote(h)' \subseteq MayNote(h) \cup {a}
  BY <1>10, <1>12, <1>13 DEF MayNote
<1>15. /\ Answer.do = "answer" /\ Nothing.do = "nothing"
       /\ \A x : Observe(x).do = "note" /\ Observe(x).what = x
       /\ \A x : Question(x).do = "question" /\ Question(x).what = x
       /\ \A x : Lost(x).do = "lost"
  BY DEF Answer, Nothing, Observe, Question, Lost
<1>16. ASSUME NEW h \in Goals  PROVE LimitsAt(h)'
  <2>1. CASE h # e.goal
    <3>1. /\ MayNote(h)' \subseteq MayNote(h)
          /\ \A do, whats : Askers(h, do, whats)' \subseteq Askers(h, do, whats)
      BY <2>1, <1>10, <1>14
    <3> QED BY <3>1, <1>1, <1>8, Entered
  <2>2. CASE effect.do = "lost"
    <3>1. /\ MayNote(h)' \subseteq MayNote(h)
          /\ \A whats : /\ Askers(h, "note", whats)' \subseteq Askers(h, "note", whats)
                        /\ Askers(h, "question", whats)' \subseteq Askers(h, "question", whats)
      BY <2>2, <1>10, <1>14
    <3> QED BY <3>1, <1>1, <1>8, Entered
  <2>3. effect.do # "lost" => effect \in Effects(e)
    BY <1>2, OutcomeFacts
  <2>4. CASE effect.do # "lost" /\ h = e.goal /\ e.what \in {"goal", "note"}
    <3>1. effect \in Decide(h)
      BY <2>3, <2>4 DEF Effects
    <3>2. /\ effect # Answer => Cardinality(NotePlaces(h, Contents)) < MaxSteps
          /\ effect = Observe("call") => Cardinality(NotePlaces(h, {"call"})) < MaxToolCalls
          /\ \A x \in Destructive :
               effect = Question(x) => Cardinality(QuestionPlaces(h, Destructive)) < MaxApprovals
          /\ \A x \in Clarifications :
               effect = Question(x) => Cardinality(QuestionPlaces(h, Clarifications)) < MaxAsks
      BY <3>1, DecideLimits DEF LimitInv, ThreadInv, Inv
    <3>3. \/ MayNote(h)' \subseteq MayNote(h)
          \/ Cardinality(NotePlaces(h, Contents)) < MaxSteps
      BY <3>2, <1>14, <1>15
    <3>4. \/ Askers(h, "note", {"call"})' \subseteq Askers(h, "note", {"call"})
          \/ Cardinality(NotePlaces(h, {"call"})) < MaxToolCalls
      <4>1. effect.do = "note" /\ effect.what = "call" => effect = Observe("call")
        BY <1>11, EffectRecFacts
      <4> QED BY <4>1, <3>2, <1>10
    <3>5. ASSUME NEW x, effect.do = "question", effect.what = x  PROVE effect = Question(x)
      BY <3>5, <1>11, EffectRecFacts
    <3>6. \/ Askers(h, "question", Destructive)' \subseteq Askers(h, "question", Destructive)
          \/ Cardinality(QuestionPlaces(h, Destructive)) < MaxApprovals
      BY <3>2, <3>5, <1>10
    <3>7. \/ Askers(h, "question", Clarifications)' \subseteq Askers(h, "question", Clarifications)
          \/ Cardinality(QuestionPlaces(h, Clarifications)) < MaxAsks
      BY <3>2, <3>5, <1>10
    <3> QED BY <3>3, <3>4, <3>6, <3>7, <1>1, <1>8, Entered
  <2>5. CASE effect.do # "lost" /\ h = e.goal /\ e.what \in {"asked", "answered"}
    <3>1. effect = Resume(questions[h][e.n])
      BY <2>3, <2>5 DEF Effects
    <3>2. effect \in {Nothing, Observe("human"), Observe("approved"), Observe("refused")}
      BY <3>1 DEF Resume
    <3>3. effect.do # "question" /\ ~(effect.do = "note" /\ effect.what = "call")
      BY <3>2, <1>15
    <3>4. e.what = "asked" => effect = Nothing
      BY <3>1, <1>3, <2>5 DEF LimitInv, ThreadInv, Inv, InStep, Resume
    <3>5. MayNote(h)' \subseteq MayNote(h)
      <4>1. CASE e.what = "asked"
        BY <4>1, <3>4, <1>14, <1>15
      <4>2. CASE e.what = "answered"
        <5>1. e \in Live(a, h)
          BY <4>2, <2>5, <1>3 DEF Live
        <5>2. a \in MayNote(h)
          BY <5>1, <4>2, <1>3 DEF MayNote
        <5> QED BY <5>2, <1>14
      <4> QED BY <4>1, <4>2, <2>5
    <3>6. /\ Askers(h, "note", {"call"})' \subseteq Askers(h, "note", {"call"})
          /\ Askers(h, "question", Destructive)' \subseteq Askers(h, "question", Destructive)
          /\ Askers(h, "question", Clarifications)' \subseteq Askers(h, "question", Clarifications)
      BY <3>3, <1>10
    <3> QED BY <3>5, <3>6, <1>1, <1>8, Entered
  <2> QED BY <2>1, <2>2, <2>4, <2>5, <1>4
<1> QED
  BY <1>1, <1>9, <1>16 DEF LimitInv

(* When every run is done, an agent has one result at most for a goal.      *)
LEMMA OneWant ==
  ASSUME ThreadInv, todo = {}, NEW g \in Goals, NEW r \in results, NEW s \in results,
         r.event.goal = g, s.event.goal = g, r.agent = s.agent,
         r.effect.do \in {"note", "question"}, s.effect.do \in {"note", "question"}
  PROVE  r = s
<1>1. r.agent \in Agents
  BY ResultIsLive
<1>2. r \in Came(r.agent, g) /\ s \in Came(r.agent, g)
  <2>1. \A t \in results : t.effect.do \in {"note", "question"} => t.event.what # "asked"
    BY MakerIsLive
  <2>2. r.event.what # "asked" /\ s.event.what # "asked"
    BY ONLY <2>1, r \in results, s \in results,
            r.effect.do \in {"note", "question"}, s.effect.do \in {"note", "question"}
  <2> QED BY ONLY <2>2, r.event.goal = g, s.event.goal = g, r.agent = s.agent,
          r \in results, s \in results DEF Came
<1>3. \A t \in Came(r.agent, g) : Came(r.agent, g) = {t}
  BY ONLY <1>1, CameFacts, ThreadInv, todo = {}, g \in Goals
<1> QED
  BY <1>2, <1>3

(* As many places are taken by what a generation makes as agents wanted     *)
(* them.                                                                    *)
LEMMA MadeCount ==
  ASSUME ThreadInv, todo = {}, NEW g \in Goals, NEW do \in {"note", "question"}, NEW whats
  PROVE  Cardinality(In(Made(g, do), Wants(g, do, whats))) = Cardinality(Askers(g, do, whats))
<1> DEFINE S == {r \in results : r.event.goal = g /\ r.effect.do = do}
           W == Wants(g, do, whats)
<1>1. IsFiniteSet(S) /\ W \in SUBSET S
  <2>1. IsFiniteSet(results)
    BY DEF ThreadInv, Inv, Typed
  <2> QED BY <2>1, FS_Subset DEF Wants
<1>2. Made(g, do) = SetToSeq(S)
  BY DEF Made
<1>3. \A r, s \in W : r.agent = s.agent => r = s
  <2>2. \A r \in W : r \in results /\ r.effect.do = do /\ r.event.goal = g
    BY DEF Wants
  <2> HIDE DEF W
  <2> QED BY <2>2, OneWant
<1>4. Askers(g, do, whats) = {r.agent : r \in W}
  BY DEF Askers
<1> HIDE DEF S, W
<1>5. Cardinality(In(SetToSeq(S), W)) = Cardinality(W)
  BY <1>1, ListedCount
<1>6. IsFiniteSet(W)
  BY <1>1, FS_Subset
<1>7. Cardinality({r.agent : r \in W}) = Cardinality(W)
  BY <1>3, <1>6, AgentCount
<1> QED
  BY <1>2, <1>4, <1>5, <1>7 DEF W

LEMMA MadeWhat ==
  ASSUME IsFiniteSet(results), NEW g, NEW do, NEW i \in DOMAIN Made(g, do)
  PROVE  Made(g, do)[i] \in results /\ Made(g, do)[i].event.goal = g /\ Made(g, do)[i].effect.do = do
<1> DEFINE S == {r \in results : r.event.goal = g /\ r.effect.do = do}
<1>1. IsFiniteSet(S) /\ Made(g, do) = SetToSeq(S)
  BY FS_Subset DEF Made
<1>2. Made(g, do)[i] \in S
  <2> HIDE DEF S
  <2>1. PICK k \in Nat : SetToSeq(S) \in [1 .. k -> S]
    BY <1>1, SetToSeqFacts
  <2> QED BY <1>1, <2>1
<1> QED
  BY <1>2

LEMMA NewPlaces ==
  ASSUME ThreadInv, todo = {}, NEW g \in Goals
  PROVE  /\ \A C : Cardinality(In(NewNotes(g), Noted(C))) = Cardinality(Askers(g, "note", C))
         /\ \A X : Cardinality(In(NewQuestions(g), Posed(X))) = Cardinality(Askers(g, "question", X))
<1>1. /\ NewNotes(g) \in Seq(NoteRecs) /\ NewQuestions(g) \in Seq(QuestionRecs)
      /\ IsFiniteSet(results)
  BY NewFacts DEF ThreadInv, Inv, Typed
<1>2. ASSUME NEW C
      PROVE  Cardinality(In(NewNotes(g), Noted(C))) = Cardinality(Askers(g, "note", C))
  <2> DEFINE made == Made(g, "note")
  <2>1. /\ DOMAIN NewNotes(g) = DOMAIN made
        /\ \A i \in DOMAIN made : NewNotes(g)[i].content = made[i].effect.what
    BY DEF NewNotes
  <2>2. \A i \in DOMAIN NewNotes(g) : NewNotes(g)[i] \in NoteRecs
    BY <1>1
  <2>3. \A i \in DOMAIN made : made[i] \in results /\ made[i].event.goal = g /\ made[i].effect.do = "note"
    BY <1>1, MadeWhat
  <2> HIDE DEF made
  <2>4. In(NewNotes(g), Noted(C)) = In(made, Wants(g, "note", C))
    BY <2>1, <2>2, <2>3 DEF In, Noted, Wants
  <2> QED BY <2>4, MadeCount DEF made
<1>3. ASSUME NEW X
      PROVE  Cardinality(In(NewQuestions(g), Posed(X))) = Cardinality(Askers(g, "question", X))
  <2> DEFINE made == Made(g, "question")
  <2>1. /\ DOMAIN NewQuestions(g) = DOMAIN made
        /\ \A i \in DOMAIN made : NewQuestions(g)[i].about = made[i].effect.what
    BY DEF NewQuestions
  <2>2. \A i \in DOMAIN NewQuestions(g) : NewQuestions(g)[i] \in QuestionRecs
    BY <1>1
  <2>3. \A i \in DOMAIN made : made[i] \in results /\ made[i].event.goal = g /\ made[i].effect.do = "question"
    BY <1>1, MadeWhat
  <2> HIDE DEF made
  <2>4. In(NewQuestions(g), Posed(X)) = In(made, Wants(g, "question", X))
    BY <2>1, <2>2, <2>3 DEF In, Posed, Wants
  <2> QED BY <2>4, MadeCount DEF made
<1> QED
  BY <1>2, <1>3

(* What the commits make of the places.                                     *)
LEMMA CommitPlaces ==
  ASSUME ThreadInv, Commit, NEW g \in Goals
  PROVE  /\ \A C : Cardinality(NotePlaces(g, C)')
                     = Cardinality(NotePlaces(g, C)) + Cardinality(Askers(g, "note", C))
         /\ \A X : Cardinality(QuestionPlaces(g, X)')
                     = Cardinality(QuestionPlaces(g, X)) + Cardinality(Askers(g, "question", X))
<1>1. /\ notes[g] \in Seq(NoteRecs) /\ NewNotes(g) \in Seq(NoteRecs)
      /\ questions[g] \in Seq(QuestionRecs) /\ NewQuestions(g) \in Seq(QuestionRecs)
  BY NewFacts DEF ThreadInv, Inv, Typed
<1>2. todo = {} /\ notes'[g] = notes[g] \o NewNotes(g) /\ questions'[g] = questions[g] \o NewQuestions(g)
  BY DEF Commit
<1>3. /\ \A C : NotePlaces(g, C)' = In(notes[g] \o NewNotes(g), Noted(C))
      /\ \A X : QuestionPlaces(g, X)' = In(questions[g] \o NewQuestions(g), Posed(X))
  BY <1>2 DEF NotePlaces, QuestionPlaces, In, Noted, Posed
<1>4. ASSUME NEW C
      PROVE  Cardinality(NotePlaces(g, C)')
               = Cardinality(NotePlaces(g, C)) + Cardinality(Askers(g, "note", C))
  <2>1. Cardinality(In(notes[g] \o NewNotes(g), Noted(C)))
          = Cardinality(In(notes[g], Noted(C))) + Cardinality(In(NewNotes(g), Noted(C)))
    BY <1>1, ConcatCount
  <2> QED BY <1>2, <1>3, <2>1, NewPlaces DEF NotePlaces
<1>5. ASSUME NEW X
      PROVE  Cardinality(QuestionPlaces(g, X)')
               = Cardinality(QuestionPlaces(g, X)) + Cardinality(Askers(g, "question", X))
  <2>1. Cardinality(In(questions[g] \o NewQuestions(g), Posed(X)))
          = Cardinality(In(questions[g], Posed(X))) + Cardinality(In(NewQuestions(g), Posed(X)))
    BY <1>1, ConcatCount
  <2> QED BY <1>2, <1>3, <2>1, NewPlaces DEF QuestionPlaces
<1> QED
  BY <1>4, <1>5

(* An agent whose note is committed does not wait for another.              *)
LEMMA CommitMayNote ==
  ASSUME ThreadInv, Commit, NEW g \in Goals
  PROVE  MayNote(g)' \subseteq MayNote(g) \ Askers(g, "note", Contents)
<1> SUFFICES ASSUME NEW a \in MayNote(g)'
             PROVE  a \in MayNote(g) /\ a \notin Askers(g, "note", Contents)
  OBVIOUS
<1>1. /\ a \in Agents /\ todo = {} /\ results' = {}
  BY DEF Commit, MayNote
<1>2. /\ Live(a, g)' = (Live(a, g) \ batch)
                       \cup {Event("note", g, n) : n \in Added(notes[g], NewNotes(g), a)}
      /\ Mine(a, g)' = Mine(a, g) \cup Added(questions[g], NewQuestions(g), a)
  BY <1>1, CommitChanges
<1>3. Mine(a, g)' # {} \/ \E e \in Live(a, g)' : e.what = "answered"
  BY <1>1 DEF MayNote, Askers, Wants
<1>4. /\ Nothing.do = "nothing" /\ Lost("").do = "lost"
      /\ \A r \in Came(a, g) : Came(a, g) = {r} /\ Live(a, g) \ batch = {} /\ Mine(a, g) = {}
  BY <1>1, CameFacts DEF Nothing, Lost
<1>5. (\E e \in Live(a, g)' : e.what = "answered") => \E e \in Live(a, g) \ batch : e.what = "answered"
  BY <1>2 DEF Event
<1>6. Added(questions[g], NewQuestions(g), a) # {} =>
        \E r \in Came(a, g) : r.effect.do = "question" /\ r.effect.what \in Texts
  <2> DEFINE made == Made(g, "question")
  <2> SUFFICES ASSUME Added(questions[g], NewQuestions(g), a) # {}
               PROVE  \E r \in Came(a, g) : r.effect.do = "question" /\ r.effect.what \in Texts
    OBVIOUS
  <2>1. questions[g] \in Seq(QuestionRecs) /\ NewQuestions(g) \in Seq(QuestionRecs) /\ IsFiniteSet(results)
    BY NewFacts DEF ThreadInv, Inv, Typed
  <2>2. Places(NewQuestions(g), a) # {}
    BY <2>1, AddedFacts
  <2>3. PICK i \in DOMAIN made : made[i].agent = a /\ NewQuestions(g)[i].about = made[i].effect.what
    BY <2>2 DEF Places, NewQuestions
  <2>4. made[i] \in results /\ made[i].event.goal = g /\ made[i].effect.do = "question"
    BY <2>1, MadeWhat
  <2>5. NewQuestions(g)[i] \in QuestionRecs
    <3>1. i \in DOMAIN NewQuestions(g)
      BY DEF NewQuestions
    <3> QED BY <2>1, <3>1
  <2> HIDE DEF made
  <2>6. made[i] \in Came(a, g)
    BY <1>4, <2>3, <2>4 DEF Came, ThreadInv, Sensible
  <2> QED BY <2>3, <2>4, <2>5, <2>6 DEF QuestionRecs
<1>7. a \in MayNote(g)
  <2>1. ASSUME NEW r \in Came(a, g), r.effect.do = "question", r.effect.what \in Texts
        PROVE  a \in Askers(g, "question", Texts)
    BY <2>1 DEF Came, Askers, Wants
  <2> QED BY <1>1, <1>2, <1>3, <1>5, <1>6, <2>1 DEF MayNote
<1>8. ASSUME a \in Askers(g, "note", Contents)  PROVE FALSE
  <2>1. PICK r \in results : r.agent = a /\ r.event.goal = g /\ r.effect.do = "note"
    BY <1>8 DEF Askers, Wants
  <2>2. r \in Came(a, g)
    BY <1>4, <2>1 DEF Came, ThreadInv, Sensible
  <2>3. Added(questions[g], NewQuestions(g), a) # {}
    BY <1>2, <1>3, <1>4, <1>5, <2>2
  <2> QED BY <1>4, <1>6, <2>1, <2>2, <2>3
<1> QED
  BY <1>7, <1>8

LEMMA CommitLimits ==
  ASSUME LimitInv, Commit
  PROVE  LimitInv'
<1>1. ThreadInv'
  BY CommitThread DEF LimitInv
<1>2. /\ aborts' = aborts /\ drops' = drops /\ results' = {} /\ todo = {}
      /\ notes' = [g \in Goals |-> notes[g] \o NewNotes(g)]
      /\ questions' = [g \in Goals |-> questions[g] \o NewQuestions(g)]
  BY DEF Commit
<1>3. IsFiniteSet(results)
  BY DEF LimitInv, ThreadInv, Inv, Typed
<1>4. ASSUME NEW g \in Goals
      PROVE  /\ \A n \in DOMAIN notes'[g] : notes'[g][n].agent \in Listeners(g)
             /\ \A n \in DOMAIN questions'[g] :
                  questions'[g][n].agent \in Listeners(g) /\ questions'[g][n].undone <= aborts
  <2> DEFINE s == notes[g]
             t == NewNotes(g)
             u == questions[g]
             v == NewQuestions(g)
  <2>1. /\ s \in Seq(NoteRecs) /\ t \in Seq(NoteRecs)
        /\ u \in Seq(QuestionRecs) /\ v \in Seq(QuestionRecs)
        /\ notes'[g] = s \o t /\ questions'[g] = u \o v
    BY <1>2, NewFacts DEF LimitInv, ThreadInv, Inv, Typed
  <2>2. /\ \A n \in DOMAIN s : s[n].agent \in Listeners(g)
        /\ \A n \in DOMAIN u : u[n].agent \in Listeners(g) /\ u[n].undone <= aborts
    BY DEF LimitInv, Heard, Forgotten
  <2>3. ASSUME NEW do \in {"note", "question"}, NEW i \in DOMAIN Made(g, do)
        PROVE  Made(g, do)[i].agent \in Listeners(g)
    <3> DEFINE r == Made(g, do)[i]
    <3>1. r \in results /\ r.event.goal = g /\ r.effect.do = do
      BY <1>3, MadeWhat
    <3> HIDE DEF r
    <3>3. r.agent \in Listeners(g)
      BY <3>1, ResultIsLive DEF LimitInv
    <3> QED BY <3>3 DEF r
  <2>4. \A i \in DOMAIN t : t[i].agent \in Listeners(g)
    BY <2>3 DEF NewNotes
  <2>5. \A i \in DOMAIN v : v[i].agent \in Listeners(g) /\ v[i].undone = 0
    BY <2>3 DEF NewQuestions
  <2>6. aborts \in Nat
    BY LimitsAreNumbers DEF LimitInv, Forgotten
  <2> HIDE DEF s, t, u, v
  <2>7. /\ \A n \in DOMAIN (s \o t) :
             \/ n \in DOMAIN s /\ (s \o t)[n] = s[n]
             \/ \E i \in DOMAIN t : (s \o t)[n] = t[i]
        /\ \A n \in DOMAIN (u \o v) :
             \/ n \in DOMAIN u /\ (u \o v)[n] = u[n]
             \/ \E i \in DOMAIN v : (u \o v)[n] = v[i]
    <3>1. ASSUME NEW R, NEW x \in Seq(R), NEW y \in Seq(R), NEW n \in DOMAIN (x \o y)
          PROVE  \/ n \in DOMAIN x /\ (x \o y)[n] = x[n]
                 \/ \E i \in DOMAIN y : (x \o y)[n] = y[i]
      <4>1. /\ n \in 1 .. Len(x) + Len(y) /\ Len(x) \in Nat /\ Len(y) \in Nat
            /\ DOMAIN x = 1 .. Len(x) /\ DOMAIN y = 1 .. Len(y)
            /\ (x \o y)[n] = IF n <= Len(x) THEN x[n] ELSE y[n - Len(x)]
        BY <3>1
      <4>2. n > Len(x) => n - Len(x) \in DOMAIN y
        BY <4>1
      <4> QED BY <4>1, <4>2
    <3> QED BY <2>1, <3>1
  <2>8. \A n \in DOMAIN (s \o t) : (s \o t)[n].agent \in Listeners(g)
    BY ONLY <2>2, <2>4, <2>7
  <2>9. \A n \in DOMAIN (u \o v) :
          (u \o v)[n].agent \in Listeners(g) /\ (u \o v)[n].undone <= aborts
    <3>1. \A i \in DOMAIN v : v[i].undone <= aborts
      BY ONLY <2>5, <2>6
    <3> QED BY ONLY <2>2, <2>5, <2>7, <3>1
  <2> QED BY ONLY <2>1, <2>8, <2>9
<1>5. Heard' /\ Forgotten'
  BY <1>2, <1>4 DEF LimitInv, Heard, Forgotten, Listeners
<1>6. ASSUME NEW g \in Goals  PROVE LimitsAt(g)'
  <2>1. /\ \A C : IsFiniteSet(NotePlaces(g, C))
        /\ \A X : IsFiniteSet(QuestionPlaces(g, X))
    BY PlacesFinite DEF LimitInv, ThreadInv, Inv
  <2>2. /\ IsFiniteSet(MayNote(g))
        /\ \A whats : IsFiniteSet(Askers(g, "note", whats)) /\ IsFiniteSet(Askers(g, "question", whats))
    <3>1. /\ MayNote(g) \subseteq Listeners(g)
          /\ \A whats : /\ Askers(g, "note", whats) \subseteq Listeners(g)
                        /\ Askers(g, "question", whats) \subseteq Listeners(g)
      BY WaitingListen, AskersListen DEF LimitInv
    <3> QED BY <3>1, ListenersFinite, FS_Subset
  <2>3. /\ \A C : Cardinality(NotePlaces(g, C)')
                    = Cardinality(NotePlaces(g, C)) + Cardinality(Askers(g, "note", C))
        /\ \A X : Cardinality(QuestionPlaces(g, X)')
                    = Cardinality(QuestionPlaces(g, X)) + Cardinality(Askers(g, "question", X))
    BY CommitPlaces DEF LimitInv
  <2>4. LimitsAt(g)
    BY DEF LimitInv
  <2>5. \A do, whats : Askers(g, do, whats)' = {}
    BY <1>2 DEF Askers, Wants
  <2>6. Askers(g, "note", Contents) \subseteq MayNote(g)
    BY AskersListen DEF MayNote, LimitInv, Listeners
  <2>7. MayNote(g)' \subseteq MayNote(g) \ Askers(g, "note", Contents)
    BY CommitMayNote DEF LimitInv
  <2>8. Spent(NotePlaces(g, Contents)', MayNote(g)', MaxSteps, g)
    BY <2>1, <2>2, <2>3, <2>4, <2>6, <2>7, SpentTaken, LimitsAreNumbers DEF LimitsAt
  <2>9. Spent(NotePlaces(g, {"call"})', Askers(g, "note", {"call"})', MaxToolCalls, g)
    BY <2>1, <2>2, <2>3, <2>4, <2>5, SpentTaken, LimitsAreNumbers DEF LimitsAt
  <2>10. Spent(QuestionPlaces(g, Destructive)', Askers(g, "question", Destructive)', MaxApprovals, g)
    BY <2>1, <2>2, <2>3, <2>4, <2>5, SpentTaken, LimitsAreNumbers DEF LimitsAt
  <2>11. Spent(QuestionPlaces(g, Clarifications)', Askers(g, "question", Clarifications)', MaxAsks, g)
    BY <2>1, <2>2, <2>3, <2>4, <2>5, SpentTaken, LimitsAreNumbers DEF LimitsAt
  <2> QED BY <2>8, <2>9, <2>10, <2>11 DEF LimitsAt, Spent, Over, Listeners
<1> QED
  BY <1>1, <1>5, <1>6 DEF LimitInv

LEMMA NextLimits ==
  ASSUME LimitInv, AnswersAtRest, [Next]_vars
  PROVE  LimitInv'
<1>1. CASE Begin \/ UNCHANGED vars
  <2>1. ThreadInv'
    BY NextThread DEF LimitInv
  <2> QED BY <1>1, <2>1, BeginLimits
<1>2. CASE Commit
  BY <1>2, CommitLimits
<1>3. CASE Abort
  BY <1>3, AbortLimits
<1>4. ASSUME NEW w \in todo, NEW effect \in Outcomes(w[2]), Run(w[1], w[2], effect)
      PROVE  LimitInv'
  BY <1>4, RunLimits
<1>5. ASSUME NEW g \in Goals, NEW n \in Open(g), NEW reply \in Replies(questions[g][n]),
             Reply(g, n, reply)
      PROVE  LimitInv'
  BY <1>5, ReplyLimits
<1>6. ASSUME NEW g \in Goals, Submit(g)  PROVE LimitInv'
  BY <1>6, SubmitLimits
<1> QED
  BY <1>1, <1>2, <1>3, <1>4, <1>5, <1>6 DEF Next, Step, Human

LEMMA InvTypeOK == LimitInv => TypeOK
<1> SUFFICES ASSUME LimitInv PROVE TypeOK
  OBVIOUS
<1>1. Typed /\ Woken /\ Heard /\ Forgotten
  BY DEF LimitInv, ThreadInv, Inv
<1>2. ASSUME NEW g \in Goals
      PROVE  /\ ToSet(notes[g]) \subseteq [agent : Listeners(g), content : Contents]
             /\ ToSet(questions[g]) \subseteq
                  [agent : Listeners(g), about : Clarifications \cup Destructive,
                   reply : {"none", "text", "yes", "no"}, ran : Nat, undone : 0 .. MaxAborts]
  <2>1. /\ \A n \in DOMAIN notes[g] : notes[g][n] \in NoteRecs
        /\ \A n \in DOMAIN questions[g] : questions[g][n] \in QuestionRecs
    BY <1>1 DEF Typed
  <2>2. \A n \in DOMAIN questions[g] : questions[g][n].undone \in 0 .. MaxAborts
    <3> SUFFICES ASSUME NEW n \in DOMAIN questions[g]  PROVE questions[g][n].undone \in 0 .. MaxAborts
      OBVIOUS
    <3>1. questions[g][n].undone \in Nat /\ questions[g][n].undone <= aborts
      BY <1>1, <2>1 DEF Forgotten, QuestionRecs
    <3> QED BY <1>1, <3>1, LimitsAreNumbers DEF Forgotten
  <2>3. \A n \in DOMAIN notes[g] : notes[g][n] \in [agent : Listeners(g), content : Contents]
    BY <1>1, <2>1 DEF Heard, NoteRecs
  <2>4. \A n \in DOMAIN questions[g] :
          questions[g][n] \in
            [agent : Listeners(g), about : Clarifications \cup Destructive,
             reply : {"none", "text", "yes", "no"}, ran : Nat, undone : 0 .. MaxAborts]
    BY <1>1, <2>1, <2>2 DEF Heard, QuestionRecs, Texts
  <2> QED BY <2>3, <2>4 DEF ToSet
<1>3. ASSUME NEW g \in Goals
      PROVE  /\ Len(notes[g]) <= MaxSteps + Over(g)
             /\ Cardinality({i \in DOMAIN notes[g] : notes[g][i].content = "call"})
                  <= MaxToolCalls + Over(g)
             /\ Cardinality(Approvals(g)) <= MaxApprovals + Over(g)
             /\ Cardinality(DOMAIN questions[g] \ Approvals(g)) <= MaxAsks + Over(g)
  <2>1. /\ \A n \in DOMAIN notes[g] : notes[g][n] \in NoteRecs
        /\ \A n \in DOMAIN questions[g] : questions[g][n] \in QuestionRecs
        /\ DOMAIN notes[g] = 1 .. Len(notes[g]) /\ Len(notes[g]) \in Nat
    BY <1>1 DEF Typed
  <2>2. /\ NotePlaces(g, Contents) = 1 .. Len(notes[g])
        /\ NotePlaces(g, {"call"}) = {i \in DOMAIN notes[g] : notes[g][i].content = "call"}
    BY <2>1 DEF NotePlaces, In, Noted, NoteRecs
  <2>3. /\ QuestionPlaces(g, Destructive) = Approvals(g)
        /\ QuestionPlaces(g, Clarifications) = DOMAIN questions[g] \ Approvals(g)
    BY <2>1, ToolLoopAssumption DEF QuestionPlaces, In, Posed, Approvals, QuestionRecs, Texts
  <2>4. Cardinality(1 .. Len(notes[g])) = Len(notes[g])
    <3>1. \A n \in Nat : Cardinality(1 .. n) = n
      BY FS_Interval
    <3> QED BY <2>1, <3>1
  <2>5. /\ \A C : Cardinality(NotePlaces(g, C)) \in Nat
        /\ \A X : Cardinality(QuestionPlaces(g, X)) \in Nat
    BY <1>1, PlacesFinite, FS_CardinalityType
  <2>6. /\ Cardinality(MayNote(g)) \in Nat
        /\ \A whats : /\ Cardinality(Askers(g, "note", whats)) \in Nat
                      /\ Cardinality(Askers(g, "question", whats)) \in Nat
    <3>1. /\ MayNote(g) \subseteq Listeners(g)
          /\ \A whats : /\ Askers(g, "note", whats) \subseteq Listeners(g)
                        /\ Askers(g, "question", whats) \subseteq Listeners(g)
      BY WaitingListen, AskersListen DEF LimitInv
    <3> QED BY <3>1, ListenersFinite, FS_Subset, FS_CardinalityType
  <2>7. LimitsAt(g) /\ Over(g) \in Nat
    BY ListenersFinite DEF LimitInv
  <2>8. /\ Cardinality(NotePlaces(g, Contents)) <= MaxSteps + Over(g)
        /\ Cardinality(NotePlaces(g, {"call"})) <= MaxToolCalls + Over(g)
        /\ Cardinality(QuestionPlaces(g, Destructive)) <= MaxApprovals + Over(g)
        /\ Cardinality(QuestionPlaces(g, Clarifications)) <= MaxAsks + Over(g)
    BY <2>5, <2>6, <2>7, LimitsAreNumbers DEF LimitsAt, Spent
  <2> QED BY <2>2, <2>3, <2>4, <2>8
<1>4. \A r \in results : <<r.agent, r.event>> \in (Agents \X batch) \ todo
  BY <1>1 DEF Typed, Woken
<1> QED
  BY <1>1, <1>2, <1>3, <1>4 DEF TypeOK, Typed, Forgotten

(* max_steps, max_asks, max_approvals and max_tool_calls hold for each goal *)
(* up to one step of each further agent that consumes it, and an aborted    *)
(* generation forgets one execution at most (tool_use.py:421-681): for any  *)
(* number of agents, goals, questions and aborts, whatever the models       *)
(* decide, if the human answers at rest.                                    *)
THEOREM LimitsHold ==
  ASSUME AnswersAtRest
  PROVE  Spec => []TypeOK
<1>1. Init => LimitInv
  BY InitLimits
<1>2. LimitInv /\ [Next]_vars => LimitInv'
  BY NextLimits
<1>3. LimitInv => TypeOK
  BY InvTypeOK
<1> QED
  BY <1>1, <1>2, <1>3, PTL DEF Spec

=============================================================================
