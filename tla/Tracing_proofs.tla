--------------------------- MODULE Tracing_proofs ---------------------------
(***************************************************************************)
(* What TLAPS proves of tracing: of TurnTrace, for every set of agents,    *)
(* every list of work and of sinks, and all caps; of TraceStores, for all  *)
(* sets of traces, tags and workers, and all bounds.                       *)
(*                                                                         *)
(* The invariants of TraceInvariants are inductive, one upon the other:    *)
(* first who still inserts a trace, then what a call has still to put      *)
(* right, then what it is still to prune.                                  *)
(***************************************************************************)
EXTENDS TraceInvariants, FiniteSetTheorems, SequenceTheorems, TLAPS

(* Sequences *)

LEMMA MemberAppended ==
  ASSUME NEW S, NEW s \in Seq(S), NEW e \in S
  PROVE  /\ Append(s, e) \in Seq(S)
         /\ DOMAIN Append(s, e) = DOMAIN s \cup {Len(s) + 1}
         /\ Len(s) + 1 \notin DOMAIN s
         /\ \A k \in DOMAIN s : Append(s, e)[k] = s[k]
         /\ Append(s, e)[Len(s) + 1] = e
         /\ ToSet(Append(s, e)) = ToSet(s) \cup {e}
<1>1. /\ Append(s, e) \in Seq(S) /\ Len(s) \in Nat
      /\ DOMAIN s = 1 .. Len(s) /\ DOMAIN Append(s, e) = 1 .. Len(s) + 1
      /\ \A k \in DOMAIN s : Append(s, e)[k] = s[k]
      /\ Append(s, e)[Len(s) + 1] = e
  OBVIOUS
<1>2. DOMAIN Append(s, e) = DOMAIN s \cup {Len(s) + 1} /\ Len(s) + 1 \notin DOMAIN s
  BY <1>1
<1> QED BY <1>1, <1>2 DEF ToSet

(* SubSeq to the cap loses elements only if there are more than the cap.    *)
LEMMA CutFacts ==
  ASSUME NEW S, NEW s \in Seq(S), NEW n \in Nat
  PROVE  /\ Cut(s, n) \in Seq(S)
         /\ ToSet(Cut(s, n)) \subseteq ToSet(s)
         /\ Len(s) <= n => Cut(s, n) = s
<1>1. Len(s) \in Nat /\ DOMAIN s = 1 .. Len(s)  OBVIOUS
<1>2. CASE Len(s) > n
  <2>1. /\ SubSeq(s, 1, n) \in Seq(S) /\ Len(SubSeq(s, 1, n)) = n
        /\ \A k \in 1 .. n : SubSeq(s, 1, n)[k] = s[k]
    BY <1>1, <1>2
  <2> QED BY <1>1, <1>2, <2>1 DEF Cut, ToSet
<1> QED BY <1>1, <1>2 DEF Cut

LEMMA SpanAppended ==
  ASSUME NEW ss \in Seq(SpanRecs), NEW p \in SpanRecs
  PROVE  /\ CallsIn(Append(ss, p)) = CallsIn(ss) \cup ToSet(p.llm_calls)
         /\ Seen(Append(ss, p)) = Seen(ss) \cup {p.exec}
BY MemberAppended DEF CallsIn, Seen

-----------------------------------------------------------------------------
(* Types *)

LEMMA ExecTyped == ASSUME TypeOK, NEW i \in DOMAIN work  PROVE Exec(i) \in Execs
BY DEF TypeOK, Exec, Execs

LEMMA SpanTyped ==
  ASSUME TypeOK, NEW i \in DOMAIN work
  PROVE  LET p == AgentSpan(i, pending[work[i]])
         IN  /\ p \in SpanRecs
             /\ p.exec = Exec(i) /\ p.agent = work[i]
             /\ p.llm_calls = Cut(pending[work[i]], MaxLlm)
             /\ p.error = (at[i] = "error")
<1>1. work[i] \in Names /\ work[i] \in Agents /\ MaxLlm \in Nat
  BY TraceAssumption DEF TypeOK, TraceAssumption, Names
<1>2. Cut(pending[work[i]], MaxLlm) \in Seq(Nat)
  BY <1>1, CutFacts DEF TypeOK
<1> QED BY <1>1, <1>2, ExecTyped DEF AgentSpan, SpanRecs

LEMMA TypesStart == Init => TypeOK
<1> SUFFICES ASSUME Init  PROVE TypeOK  OBVIOUS
<1>1. at \in [DOMAIN work -> {"running", "patch", "empty", "error", "raised", "dropped"}]
  BY DEF Init
<1>2. pending \in [Names -> Seq(Nat)] /\ sunk \in [DOMAIN Sinks -> Seq(TraceRecs)]
  BY DEF Init, Names
<1>3. spans \in Seq(SpanRecs) /\ calls \in Seq(CallRecs) /\ work \in Seq(Agents)
  BY DEF Init
<1>4. turn \in Nat /\ gens \in Nat /\ told \in Nat /\ next \in Nat \ {0}
  BY DEF Init
<1>5. phase \in {"idle", "open", "agents", "record", "apply", "ending"} /\ truncated \in BOOLEAN /\ commits \subseteq Execs
      /\ lost \subseteq [exec : Execs, agent : Agents]
  BY DEF Init
<1> QED BY <1>1, <1>2, <1>3, <1>4, <1>5 DEF TypeOK

LEMMA TypesStep == ASSUME TypeOK, [Next]_vars  PROVE TypeOK'
<1>a. DOMAIN work = 1 .. Len(work) /\ Len(work) \in Nat
  BY DEF TypeOK
<1>1. CASE BeginTurn
  <2>1. /\ turn' = turn + 1 /\ phase' = "open" /\ truncated' \in BOOLEAN
        /\ UNCHANGED <<gens, work, at, next, pending, told, calls, commits, sunk, lost>>
    BY <1>1 DEF BeginTurn, genVars
  <2>2. spans' \in Seq(SpanRecs)  BY <1>1 DEF BeginTurn
  <2> QED BY <2>1, <2>2 DEF TypeOK
<1>2. ASSUME NEW w \in Works, Dispatch(w)  PROVE TypeOK'
  <2>1. work' \in Seq(Agents)
    BY <1>2, TraceAssumption DEF Dispatch, TraceAssumption
  <2>2. at' \in [DOMAIN work' -> {"running", "patch", "empty", "error", "raised", "dropped"}]
    BY <1>2 DEF Dispatch
  <2>3. /\ gens' = gens + 1 /\ phase' = "agents"
        /\ UNCHANGED <<turn, next, pending, spans, truncated, told, calls, commits, sunk, lost>>
    BY <1>2 DEF Dispatch
  <2> QED BY <2>1, <2>2, <2>3 DEF TypeOK
<1>3. ASSUME NEW i \in DOMAIN work, NEW spawned \in BOOLEAN, Answered(i, spawned)
      PROVE  TypeOK'
  <2> DEFINE made == [exec |-> Exec(i), agent |-> work[i], spawned |-> spawned]
             name == NameOf(i, spawned)
  <2>1. made \in CallRecs  BY ExecTyped DEF CallRecs, TypeOK
  <2>2. name \in Names
    BY DEF NameOf, Names, TypeOK
  <2>3. calls' = Append(calls, made) /\ calls' \in Seq(CallRecs) /\ Len(calls') \in Nat
    BY <1>3, <2>1 DEF Answered, TypeOK
  <2>4. Append(pending[name], Len(calls')) \in Seq(Nat)
    BY <2>2, <2>3 DEF TypeOK
  <2>5. pending' = [pending EXCEPT ![name] = Append(pending[name], Len(calls'))]
    BY <1>3 DEF Answered
  <2>6. pending' \in [Names -> Seq(Nat)]
    <3> DEFINE new == Append(pending[name], Len(calls'))
    <3>1. new \in Seq(Nat) /\ pending' = [pending EXCEPT ![name] = new]
      BY <2>4, <2>5
    <3> HIDE DEF new, name
    <3> QED BY <2>2, <3>1 DEF TypeOK
  <2> QED BY <1>3, <2>3, <2>6 DEF Answered, TypeOK, genVars
<1>4. ASSUME NEW i \in DOMAIN work, NEW end, Finish(i, end)
      PROVE  TypeOK'
  BY <1>4 DEF Finish, TypeOK
<1>5. CASE Record
  <2> DEFINE name == work[next]
  <2>1. next \in DOMAIN work /\ name \in Agents /\ Exec(next) \in Execs
    BY <1>5, ExecTyped DEF Record, Recording, TypeOK
  <2>2. /\ spans' \in Seq(SpanRecs) /\ truncated' \in BOOLEAN
        /\ pending' \in [Names -> Seq(Nat)] /\ lost' \subseteq [exec : Execs, agent : Agents]
    <3>0. [pending EXCEPT ![name] = <<>>] \in [Names -> Seq(Nat)]
      <4>1. <<>> \in Seq(Nat) /\ pending \in [Names -> Seq(Nat)]
        BY DEF TypeOK
      <4> QED BY ONLY <4>1, Zenon
    <3>1. CASE Len(spans) >= MaxSpans
      BY <3>1, <1>5 DEF Record, RecordSpan, TypeOK
    <3>2. CASE KeepSpan(next)
      <4>1. AgentSpan(next, pending[name]) \in SpanRecs
        BY <2>1, SpanTyped
      <4>2. spans' \in Seq(SpanRecs) /\ truncated' \in BOOLEAN /\ lost' = lost
        BY <3>2, <4>1 DEF KeepSpan, TypeOK
      <4> QED BY <3>0, <3>2, <4>2 DEF KeepSpan, TypeOK
    <3>3. CASE LoseSpan(next)
      <4>1. [exec |-> Exec(next), agent |-> name] \in [exec : Execs, agent : Agents]
        BY <2>1
      <4> QED BY <3>0, <3>3, <4>1 DEF LoseSpan, TypeOK
    <3> QED BY <3>1, <3>2, <3>3, <1>5 DEF Record, RecordSpan
  <2> QED BY <1>5, <1>a, <2>1, <2>2 DEF Record, TypeOK
<1>6. CASE Skip  BY <1>6 DEF Skip, TypeOK
<1>7. CASE BudgetOut
  BY <1>7, <1>a DEF BudgetOut, TypeOK
<1>8. CASE Commit
  <2>1. next \in DOMAIN work /\ Exec(next) \in Execs
    BY <1>8, ExecTyped DEF Commit
  <2> QED BY <1>8, <2>1 DEF Commit, TypeOK
<1>9. CASE Apply  BY <1>9 DEF Apply, TypeOK
<1>10. CASE EndGeneration
  BY <1>10 DEF EndGeneration, Forget, TypeOK
<1>11. CASE Leave
  BY <1>11 DEF Leave, Forget, TypeOK
<1>12. CASE ToEnd
  BY <1>12 DEF ToEnd, Forget, TypeOK
<1>13. CASE Gather
  <2>1. CASE Leave  BY <2>1, <1>11
  <2>2. CASE ~Leave
    BY <2>2, <1>13 DEF Gather, TypeOK
  <2> QED BY <2>1, <2>2
<1>14. ASSUME NEW ok \in BOOLEAN, Export(ok)  PROVE TypeOK'
  <2>1. RunTrace \in TraceRecs
    BY DEF RunTrace, TraceRecs, TypeOK
  <2>2. Append(sunk[told + 1], RunTrace) \in Seq(TraceRecs)
    BY <1>14, <2>1, TraceAssumption DEF Export, TypeOK, TraceAssumption
  <2> QED BY <1>14, <2>2 DEF Export, TypeOK, genVars
<1>15. CASE UNCHANGED vars
  BY <1>15 DEF vars, genVars, TypeOK
<1> QED
  BY <1>1, <1>2, <1>3, <1>4, <1>5, <1>6, <1>7, <1>8, <1>9, <1>10, <1>11, <1>12, <1>13,
     <1>14, <1>15
     DEF Next, Refuse, Unfit, EndTurn, Deadline, Cancelled, NotSaved, Return

-----------------------------------------------------------------------------
(* CallsPlaced *)

LEMMA NoSpansYet ==
  ASSUME NEW made, NEW buffers, NEW tt
  PROVE  TellOnce(<<>>, made, buffers) /\ Apart(<<>>, tt)
BY DEF TellOnce, Apart, CallsIn

LEMMA PlacedStart == Init => CallsPlaced
<1> SUFFICES ASSUME Init  PROVE CallsPlaced  OBVIOUS
<1>1. InPlace
  BY DEF Init, InPlace, Names, ToSet
<1>2. TellOnce(spans, calls, pending)  BY NoSpansYet DEF Init
<1>3. \A s \in DOMAIN Sinks : DOMAIN sunk[s] = {}
  BY DEF Init
<1> QED BY <1>1, <1>2, <1>3 DEF CallsPlaced

(* Nothing else moves a call, and no sink gets to be given one once more.   *)
LEMMA PlacedStays ==
  ASSUME CallsPlaced, UNCHANGED <<calls, pending, spans, sunk>>,
         \A s \in DOMAIN Sinks : ToldLater(s)' => ToldLater(s)
  PROVE  CallsPlaced'
BY DEF CallsPlaced, InPlace

LEMMA PlacedBegin == ASSUME TypeOK, CallsPlaced, BeginTurn  PROVE CallsPlaced'
<1>1. spans' = <<>> /\ UNCHANGED <<calls, pending, sunk>>
  BY DEF BeginTurn
<1>2. InPlace'  BY <1>1 DEF CallsPlaced, InPlace
<1>3. TellOnce(spans', calls', pending') /\ \A tt : Apart(spans', tt)
  BY <1>1, NoSpansYet
<1> QED BY <1>1, <1>2, <1>3 DEF CallsPlaced

(* An answered call waits under one name, and is new to all spans.          *)
LEMMA PlacedAnswered ==
  ASSUME TypeOK, CallsPlaced, NEW i \in DOMAIN work, NEW spawned \in BOOLEAN,
         Answered(i, spawned)
  PROVE  CallsPlaced'
<1> DEFINE made == [exec |-> Exec(i), agent |-> work[i], spawned |-> spawned]
           name == NameOf(i, spawned)
           new  == Len(calls) + 1
<1>1. made \in CallRecs  BY ExecTyped DEF CallRecs, TypeOK
<1>2. name \in Names /\ spawned = (name = Nobody) /\ (name # Nobody => work[i] = name)
  BY TraceAssumption DEF NameOf, Names, TypeOK, TraceAssumption
<1>3. calls' = Append(calls, made) /\ UNCHANGED <<phase, told, spans, sunk>>
  BY DEF Answered
<1>4. /\ DOMAIN calls' = DOMAIN calls \cup {new} /\ new \notin DOMAIN calls
      /\ \A c \in DOMAIN calls : calls'[c] = calls[c]
      /\ calls'[new] = made
  BY <1>1, <1>3, MemberAppended DEF TypeOK
<1>5. Len(calls') = new /\ new \in Nat  BY <1>3, <1>1 DEF TypeOK
<1>6. /\ \A a \in Names \ {name} : pending'[a] = pending[a]
      /\ ToSet(pending'[name]) = ToSet(pending[name]) \cup {new}
  <2>1. pending' = [pending EXCEPT ![name] = Append(pending[name], new)]
    BY <1>5 DEF Answered
  <2>2. ToSet(Append(pending[name], new)) = ToSet(pending[name]) \cup {new}
    <3>1. pending[name] \in Seq(Nat) /\ new \in Nat
      BY <1>2, <1>5 DEF TypeOK
    <3> HIDE DEF name, new
    <3> QED BY <3>1, MemberAppended
  <2> HIDE DEF name, new
  <2> QED BY <2>1, <2>2, <1>2 DEF TypeOK
<1>7. made.agent = work[i] /\ made.spawned = spawned  OBVIOUS
<1> HIDE DEF made, name, new
<1>8. InPlace'
  <2> SUFFICES ASSUME NEW a \in Names, NEW c \in ToSet(pending'[a])
               PROVE  /\ c \in DOMAIN calls'
                      /\ calls'[c].spawned = (a = Nobody)
                      /\ a # Nobody => calls'[c].agent = a
    BY DEF InPlace
  <2>1. CASE c \in ToSet(pending[a])
    BY <2>1, <1>4 DEF CallsPlaced, InPlace
  <2>2. CASE c \notin ToSet(pending[a])
    <3>1. a = name /\ c = new  BY <2>2, <1>6
    <3> QED BY <3>1, <1>2, <1>4, <1>7
  <2> QED BY <2>1, <2>2
<1>9. ASSUME NEW ss, TellOnce(ss, calls, pending)  PROVE TellOnce(ss, calls', pending')
  <2>1. ASSUME NEW c \in DOMAIN calls, ~Waits(c, pending)  PROVE ~Waits(c, pending')
    BY <2>1, <1>4, <1>6 DEF Waits
  <2> QED BY <1>9, <2>1, <1>4 DEF TellOnce
<1>10. \A s \in DOMAIN Sinks : ToldLater(s)' => ToldLater(s)
  BY <1>3 DEF ToldLater
<1> QED BY <1>3, <1>8, <1>9, <1>10 DEF CallsPlaced

(* record_span takes the calls out of the buffer with the span it builds of *)
(* them; those it cuts off are nowhere from then on.                        *)
LEMMA PlacedRecord == ASSUME TypeOK, CallsPlaced, Record  PROVE CallsPlaced'
<1>1. next \in DOMAIN work /\ phase = "record" /\ UNCHANGED <<phase, told, calls, sunk>>
  BY DEF Record, Recording
<1>2. \A s \in DOMAIN Sinks : ToldLater(s)' => ToldLater(s)
  BY <1>1 DEF ToldLater
<1>3. CASE Len(spans) >= MaxSpans
  <2>1. UNCHANGED <<spans, pending>>  BY <1>3 DEF Record, RecordSpan
  <2> QED BY <2>1, <1>1, <1>2, PlacedStays
<1>4. ToSet(<<>>) = {}  BY DEF ToSet
<1>5. ASSUME \A b \in Names : ToSet(pending'[b]) \subseteq ToSet(pending[b])
      PROVE  /\ InPlace' /\ \A c : Waits(c, pending') => Waits(c, pending)
             /\ \A ss : TellOnce(ss, calls, pending) => TellOnce(ss, calls', pending')
  <2>1. \A c : Waits(c, pending') => Waits(c, pending)
    BY <1>5 DEF Waits
  <2>2. InPlace'
    BY <1>1, <1>5 DEF CallsPlaced, InPlace
  <2> QED BY <1>1, <2>1, <2>2 DEF TellOnce
<1>6. CASE KeepSpan(next)
  <2> DEFINE a == work[next]
             p == AgentSpan(next, pending[a])
             taken == ToSet(p.llm_calls)
             last == Len(spans) + 1
  <2>1. /\ p \in SpanRecs /\ p.agent = a
        /\ a \in Names /\ a # Nobody /\ taken \subseteq ToSet(pending[a])
    <3>1. a \in Names /\ a # Nobody /\ MaxLlm \in Nat
      BY <1>1, TraceAssumption DEF TypeOK, Names, TraceAssumption
    <3>2. ToSet(Cut(pending[a], MaxLlm)) \subseteq ToSet(pending[a])
      BY <3>1, CutFacts DEF TypeOK
    <3>3. p \in SpanRecs /\ p.agent = a /\ p.llm_calls = Cut(pending[a], MaxLlm)
      BY <1>1, SpanTyped
    <3> QED BY <3>1, <3>2, <3>3
  <2>2. /\ spans' = Append(spans, p)
        /\ \A b \in Names : ToSet(pending'[b]) = IF b = a THEN {} ELSE ToSet(pending[b])
    BY <1>6, <1>4 DEF KeepSpan, TypeOK
  <2>3. /\ DOMAIN spans' = DOMAIN spans \cup {last} /\ last \notin DOMAIN spans
        /\ \A k \in DOMAIN spans : spans'[k] = spans[k]
        /\ spans'[last] = p
        /\ CallsIn(spans') = CallsIn(spans) \cup taken
    BY <2>1, <2>2, MemberAppended, SpanAppended DEF TypeOK
  <2> HIDE DEF p, taken, last
  <2>4. /\ InPlace' /\ \A c : Waits(c, pending') => Waits(c, pending)
        /\ \A ss : TellOnce(ss, calls, pending) => TellOnce(ss, calls', pending')
    BY <2>2, <1>5
  <2>5. \A c \in taken : c \in DOMAIN calls /\ calls[c].agent = a /\ Waits(c, pending)
    BY <2>1 DEF CallsPlaced, InPlace, Waits
  <2>6. \A c \in taken : ~Waits(c, pending')
    <3>1. ASSUME NEW c \in taken, NEW b \in Names, b # a, c \in ToSet(pending[b])
          PROVE  FALSE
      <4>1. /\ calls[c].spawned = FALSE /\ calls[c].agent = a
            /\ calls[c].spawned = (b = Nobody) /\ (b # Nobody => calls[c].agent = b)
        BY <3>1, <2>1 DEF CallsPlaced, InPlace
      <4> QED BY <3>1, <4>1
    <3> QED BY <3>1, <2>2 DEF Waits
  <2>7. TellOnce(spans', calls', pending')
    <3>1. ASSUME NEW k \in DOMAIN spans', NEW c \in ToSet(spans'[k].llm_calls)
          PROVE  c \in DOMAIN calls' /\ calls'[c].agent = spans'[k].agent /\ ~Waits(c, pending')
      <4>1. CASE k \in DOMAIN spans
        BY <3>1, <4>1, <2>3, <2>4, <1>1 DEF CallsPlaced, TellOnce
      <4>2. CASE k = last
        BY <3>1, <4>2, <2>1, <2>3, <2>5, <2>6, <1>1 DEF taken
      <4> QED BY <4>1, <4>2, <2>3
    <3>2. ASSUME NEW k \in DOMAIN spans, NEW c \in ToSet(spans[k].llm_calls)
          PROVE  c \notin taken
      BY <3>2, <2>5 DEF CallsPlaced, TellOnce
    <3>3. ASSUME NEW k \in DOMAIN spans', NEW l \in DOMAIN spans', k # l
          PROVE  ToSet(spans'[k].llm_calls) \cap ToSet(spans'[l].llm_calls) = {}
      <4>1. CASE k \in DOMAIN spans /\ l \in DOMAIN spans
        BY <3>3, <4>1, <2>3 DEF CallsPlaced, TellOnce
      <4>2. CASE k = last \/ l = last
        BY <3>2, <3>3, <4>2, <2>3 DEF taken
      <4> QED BY <4>1, <4>2, <2>3
    <3> QED BY <3>1, <3>3 DEF TellOnce
  <2>8. ASSUME NEW s \in DOMAIN Sinks, NEW k \in DOMAIN sunk[s], ToldLater(s)
        PROVE  Apart(spans', sunk[s][k].spans)
    <3>1. \A c \in CallsIn(sunk[s][k].spans) : ~Waits(c, pending)
      BY DEF CallsPlaced, TellOnce, CallsIn
    <3>2. CallsIn(spans) \cap CallsIn(sunk[s][k].spans) = {}
      BY <2>8 DEF CallsPlaced, Apart
    <3> QED BY <3>1, <3>2, <2>3, <2>5 DEF Apart
  <2> QED BY <1>1, <1>2, <2>4, <2>7, <2>8 DEF CallsPlaced
<1>7. CASE LoseSpan(next)
  <2>1. spans' = spans /\ \A b \in Names : ToSet(pending'[b]) \subseteq ToSet(pending[b])
    BY <1>7, <1>4 DEF LoseSpan, TypeOK
  <2> QED BY <1>1, <1>2, <1>5, <2>1 DEF CallsPlaced
<1> QED BY <1>3, <1>6, <1>7 DEF Record, RecordSpan

(* The sink that is next had none of the turn's calls, and is through.      *)
LEMMA PlacedExport ==
  ASSUME TypeOK, CallsPlaced, NEW ok \in BOOLEAN, Export(ok)
  PROVE  CallsPlaced'
<1> DEFINE t == told + 1
           last == Len(sunk[t]) + 1
<1>1. /\ phase = "ending" /\ told' = t
      /\ UNCHANGED <<phase, calls, pending, spans>>
      /\ sunk' = IF ok THEN [sunk EXCEPT ![t] = Append(@, RunTrace)] ELSE sunk
  BY DEF Export
<1>2. t \in DOMAIN Sinks /\ told \in Nat
  BY TraceAssumption DEF Export, TypeOK, TraceAssumption
<1>3. \A s \in DOMAIN Sinks : s \in Int
  BY TraceAssumption DEF TraceAssumption
<1>4. \A s \in DOMAIN Sinks : ToldLater(s)' => ToldLater(s) /\ s # t
  BY <1>1, <1>2, <1>3 DEF ToldLater
<1>5. CASE ~ok  BY <1>5, <1>1, <1>4, PlacedStays
<1>6. CASE ok
  <2>1. RunTrace \in TraceRecs /\ RunTrace.spans = spans
    BY DEF RunTrace, TraceRecs, TypeOK
  <2>2. sunk[t] \in Seq(TraceRecs)  BY <1>2 DEF TypeOK
  <2>3. \A s \in DOMAIN Sinks : sunk'[s] = IF s = t THEN Append(sunk[t], RunTrace) ELSE sunk[s]
    BY <1>1, <1>6 DEF TypeOK
  <2>4. /\ DOMAIN sunk'[t] = DOMAIN sunk[t] \cup {last} /\ last \notin DOMAIN sunk[t]
        /\ \A k \in DOMAIN sunk[t] : sunk'[t][k] = sunk[t][k]
        /\ sunk'[t][last] = RunTrace
    <3>1. sunk'[t] = Append(sunk[t], RunTrace)  BY <1>2, <2>3
    <3> QED BY <3>1, <2>1, <2>2, MemberAppended
  <2>5. ToldLater(t)  BY <1>1, <1>2 DEF ToldLater
  <2> HIDE DEF t, last
  <2>6. \A s \in DOMAIN Sinks : \A k \in DOMAIN sunk'[s] : TellOnce(sunk'[s][k].spans, calls, pending)
    BY <2>1, <2>3, <2>4 DEF CallsPlaced
  <2>7. ASSUME NEW s \in DOMAIN Sinks, NEW k \in DOMAIN sunk'[s], NEW l \in DOMAIN sunk'[s], k # l
        PROVE  Apart(sunk'[s][k].spans, sunk'[s][l].spans)
    <3>1. CASE s # t
      BY <2>3, <2>7, <3>1 DEF CallsPlaced
    <3>2. CASE s = t
      <4>1. \A m \in DOMAIN sunk[t] : Apart(spans, sunk[t][m].spans) /\ Apart(sunk[t][m].spans, spans)
        BY <1>2, <2>5 DEF CallsPlaced, Apart, t
      <4>2. CASE k \in DOMAIN sunk[t] /\ l \in DOMAIN sunk[t]
        BY <1>2, <2>4, <2>7, <3>2, <4>2 DEF CallsPlaced
      <4>3. CASE k = last \/ l = last
        BY <2>1, <2>4, <2>7, <3>2, <4>1, <4>3
      <4> QED BY <2>4, <3>2, <4>2, <4>3
    <3> QED BY <3>1, <3>2
  <2>8. \A s \in DOMAIN Sinks : ToldLater(s)' => \A k \in DOMAIN sunk'[s] : Apart(spans, sunk'[s][k].spans)
    BY <1>4, <2>3 DEF CallsPlaced
  <2>9. InPlace'  BY <1>1 DEF CallsPlaced, InPlace
  <2> QED BY <1>1, <2>6, <2>7, <2>8, <2>9 DEF CallsPlaced
<1> QED BY <1>5, <1>6

LEMMA PlacedStep == ASSUME TypeOK, CallsPlaced, [Next]_vars  PROVE CallsPlaced'
<1> DEFINE Stays == /\ UNCHANGED <<calls, pending, spans, sunk>>
                    /\ \/ phase' = "idle"
                       \/ phase' = phase /\ told' = told
                       \/ phase \notin {"idle", "ending"} /\ phase' # "ending"
                       \/ phase \notin {"idle", "ending"} /\ told' = 0
<1>1. Stays => CallsPlaced'
  <2>1. \A s \in DOMAIN Sinks : s \in Int
    BY TraceAssumption DEF TraceAssumption
  <2>2. ASSUME Stays, NEW s \in DOMAIN Sinks, ToldLater(s)'  PROVE ToldLater(s)
    BY <2>1, <2>2 DEF ToldLater
  <2> QED BY <2>2, PlacedStays
<1>2. CASE \E w \in Works : Dispatch(w)  BY <1>1, <1>2 DEF Dispatch
<1>3. ASSUME NEW i \in DOMAIN work, NEW end, Finish(i, end)  PROVE CallsPlaced'
  BY <1>1, <1>3 DEF Finish
<1>4. CASE Skip \/ BudgetOut \/ Commit
  BY <1>1, <1>4 DEF Skip, BudgetOut, Commit
<1>5. CASE Apply \/ EndGeneration
  BY <1>1, <1>5 DEF Apply, EndGeneration
<1>6. CASE Leave  BY <1>1, <1>6 DEF Leave
<1>7. CASE EndTurn \/ Deadline
  BY <1>1, <1>7 DEF EndTurn, Deadline, ToEnd
<1>8. CASE Gather
  <2>1. CASE Leave  BY <2>1, <1>6
  <2>2. CASE ~Leave
    BY <1>1, <2>2, <1>8 DEF Gather
  <2> QED BY <2>1, <2>2
<1>9. CASE UNCHANGED vars  BY <1>1, <1>9 DEF vars
<1> HIDE DEF Stays
<1> QED BY <1>2, <1>3, <1>4, <1>5, <1>6, <1>7, <1>8, <1>9,
     PlacedBegin, PlacedAnswered, PlacedRecord, PlacedExport
     DEF Next, Refuse, Unfit, Cancelled, NotSaved, Return

-----------------------------------------------------------------------------
(* TurnAccounted *)

LEMMA AccountedStart == Init => TurnAccounted
<1> SUFFICES ASSUME Init  PROVE TurnAccounted  OBVIOUS
<1>1. phase = "idle" /\ DOMAIN spans = {} /\ DOMAIN calls = {} /\ commits = {}
  BY DEF Init
<1>2. \A s \in DOMAIN Sinks : DOMAIN sunk[s] = {}
  BY DEF Init
<1> QED
  BY <1>1, <1>2
     DEF TurnAccounted, SpansOfTurn, PastOnly, SpanIsCommitted, CommitIsSeen, CallIsSeen, TracesTell

LEMMA AccountedBegin == ASSUME TypeOK, TurnAccounted, BeginTurn  PROVE TurnAccounted'
<1>1. /\ turn' = turn + 1 /\ turn \in Nat /\ phase' = "open" /\ spans' = <<>>
      /\ UNCHANGED <<gens, calls, commits, sunk, lost>>
  BY DEF BeginTurn, TypeOK
<1>2. DOMAIN spans' = {} /\ Seen(spans') = {}  BY <1>1 DEF Seen
<1>3. PastOnly /\ \A x \in commits : x[1] \in Nat
  BY DEF TurnAccounted, TypeOK, Execs
<1>4. PastOnly' /\ {x \in commits' : x[1] = turn'} = {}
  BY <1>1, <1>3 DEF PastOnly
<1>5. SpansOfTurn' /\ SpanIsCommitted'
  BY <1>2 DEF SpansOfTurn, SpanIsCommitted
<1>6. CommitIsSeen' /\ CallIsSeen'
  BY <1>1, <1>2, <1>4 DEF CommitIsSeen, CallIsSeen, TellsCalls
<1>7. TracesTell'
  <2>1. \A s \in DOMAIN Sinks : \A k \in DOMAIN sunk[s] : sunk[s][k].turn \in Nat
    <3>1. \A s \in DOMAIN Sinks : \A k \in DOMAIN sunk[s] : sunk[s][k] \in TraceRecs
      BY DEF TypeOK
    <3> QED BY <3>1 DEF TraceRecs
  <2> QED BY <1>1, <2>1 DEF TurnAccounted, TracesTell
<1> QED BY <1>4, <1>5, <1>6, <1>7 DEF TurnAccounted

LEMMA SpansTyped ==
  ASSUME TypeOK, NEW k \in DOMAIN spans
  PROVE  spans[k] \in SpanRecs /\ spans[k].exec \in Execs /\ spans[k].exec[2] \in Nat
<1>1. spans[k] \in SpanRecs  BY DEF TypeOK
<1>2. spans[k].exec \in Execs
  BY <1>1 DEF SpanRecs
<1> QED BY <1>1, <1>2 DEF Execs

LEMMA CallsTyped ==
  ASSUME TypeOK, NEW c \in DOMAIN calls
  PROVE  calls[c] \in CallRecs /\ calls[c].exec[2] \in Nat
<1>1. calls[c] \in CallRecs  BY DEF TypeOK
<1>2. calls[c].exec \in Execs
  BY <1>1 DEF CallRecs
<1> QED BY <1>1, <1>2 DEF Execs

LEMMA AccountedDispatch ==
  ASSUME TypeOK, TurnAccounted, NEW w \in Works, Dispatch(w)
  PROVE  TurnAccounted'
<1>1. /\ phase = "open" /\ phase' = "agents" /\ gens' = gens + 1 /\ gens \in Nat
      /\ UNCHANGED <<turn, spans, truncated, calls, commits, sunk, lost>>
  BY DEF Dispatch, TypeOK
<1>2. SpansOfTurn'
  BY <1>1, SpansTyped DEF TurnAccounted, SpansOfTurn
<1>3. PastOnly'
  BY <1>1, CallsTyped DEF TurnAccounted, PastOnly
<1>4. SpanIsCommitted' /\ CommitIsSeen'
  BY <1>1 DEF TurnAccounted, SpanIsCommitted, CommitIsSeen
<1>5. \A c \in DOMAIN calls : \A i : calls[c].exec # <<turn, gens + 1, i>>
  BY <1>1, CallsTyped DEF TurnAccounted, PastOnly
<1>6. CallIsSeen'
  BY <1>1, <1>5 DEF TurnAccounted, CallIsSeen, Exec
<1>7. TracesTell'
  BY <1>1 DEF TurnAccounted, TracesTell
<1> QED BY <1>2, <1>3, <1>4, <1>6, <1>7 DEF TurnAccounted

LEMMA AccountedAnswered ==
  ASSUME TypeOK, TurnAccounted, NEW i \in DOMAIN work, NEW spawned \in BOOLEAN,
         Answered(i, spawned)
  PROVE  TurnAccounted'
<1> DEFINE made == [exec |-> Exec(i), agent |-> work[i], spawned |-> spawned]
           name == NameOf(i, spawned)
           new  == Len(calls) + 1
<1>1. /\ phase = "agents" /\ calls' = Append(calls, made)
      /\ UNCHANGED <<turn, gens, phase, work, at, next, spans, truncated, commits, sunk, lost>>
  BY DEF Answered, genVars
<1>2. made \in CallRecs /\ made.exec = Exec(i) /\ made.agent = work[i] /\ made.spawned = spawned
  BY ExecTyped DEF CallRecs, TypeOK
<1>3. /\ DOMAIN calls' = DOMAIN calls \cup {new} /\ new \notin DOMAIN calls
      /\ \A c \in DOMAIN calls : calls'[c] = calls[c]
      /\ calls'[new] = made
  BY <1>1, <1>2, MemberAppended DEF TypeOK
<1>4. Len(calls') = new /\ new \in Nat /\ gens \in Nat
  BY <1>1, <1>2 DEF TypeOK
<1>5. name \in Names /\ (~spawned => name = work[i])
  BY DEF NameOf, Names, TypeOK
<1>6. /\ \A a \in Names \ {name} : pending'[a] = pending[a]
      /\ ToSet(pending'[name]) = ToSet(pending[name]) \cup {new}
  <2>1. pending' = [pending EXCEPT ![name] = Append(pending[name], new)]
    BY <1>4 DEF Answered
  <2>2. pending[name] \in Seq(Nat)  BY <1>5 DEF TypeOK
  <2> HIDE DEF name, new
  <2>3. ToSet(Append(pending[name], new)) = ToSet(pending[name]) \cup {new}
    BY <2>2, <1>4, MemberAppended
  <2> QED BY <2>1, <2>3, <1>5 DEF TypeOK
<1> HIDE DEF made, name, new
<1>7. SpansOfTurn' /\ SpanIsCommitted' /\ CommitIsSeen'
  BY <1>1 DEF TurnAccounted, SpansOfTurn, SpanIsCommitted, CommitIsSeen, Exec
<1>8. PastOnly'
  <2>1. made.exec[2] = gens  BY <1>2 DEF Exec
  <2> QED BY <2>1, <1>1, <1>3, <1>4 DEF TurnAccounted, PastOnly
<1>9. Exec(i) \notin Seen(spans)
  <2>1. ASSUME NEW k \in DOMAIN spans  PROVE spans[k].exec # Exec(i)
    BY <1>1, <1>4, SpansTyped DEF TurnAccounted, SpansOfTurn, Exec
  <2> QED BY <2>1 DEF Seen
<1>10. CallIsSeen'
  <2> SUFFICES ASSUME ~truncated
               PROVE  /\ TellsCalls(spans, calls', lost)
                      /\ \A c \in DOMAIN calls' : \A j \in DOMAIN work :
                           calls'[c].exec = Exec(j) /\ ~calls'[c].spawned =>
                             c \in ToSet(pending'[work[j]]) \cup CallsIn(spans) \/ LostWith(calls'[c], lost)
    BY <1>1 DEF CallIsSeen, Exec
  <2>1. TellsCalls(spans, calls', lost)
    BY <1>1, <1>2, <1>3, <1>9 DEF TurnAccounted, CallIsSeen, TellsCalls
  <2>2. ASSUME NEW c \in DOMAIN calls', NEW j \in DOMAIN work,
               calls'[c].exec = Exec(j), ~calls'[c].spawned
        PROVE  c \in ToSet(pending'[work[j]]) \cup CallsIn(spans) \/ LostWith(calls'[c], lost)
    <3>1. work[j] \in Names  BY DEF TypeOK, Names
    <3>2. CASE c \in DOMAIN calls
      <4>1. c \in ToSet(pending[work[j]]) \cup CallsIn(spans) \/ LostWith(calls[c], lost)
        BY <1>1, <1>3, <2>2, <3>2 DEF TurnAccounted, CallIsSeen
      <4> QED BY <3>1, <3>2, <4>1, <1>3, <1>6
    <3>3. CASE c = new
      <4>1. i = j /\ ~spawned
        BY <1>2, <1>3, <2>2, <3>3 DEF Exec
      <4> QED BY <3>3, <4>1, <1>5, <1>6
    <3> QED BY <3>2, <3>3, <1>3
  <2> QED BY <2>1, <2>2
<1>11. TracesTell'
  <2> SUFFICES ASSUME NEW s \in DOMAIN Sinks, NEW k \in DOMAIN sunk[s],
                      ~sunk[s][k].trace_truncated
               PROVE  TellsCalls(sunk[s][k].spans, calls', lost)
    BY <1>1 DEF TurnAccounted, TracesTell, TraceTells
  <2> DEFINE tr == sunk[s][k]
  <2>1. ~tr.trace_truncated => TellsCalls(tr.spans, calls, lost)
    BY DEF TurnAccounted, TracesTell, TraceTells
  <2>2. tr.turn # turn /\ \A l \in DOMAIN tr.spans : tr.spans[l].exec[1] = tr.turn
    BY <1>1 DEF TurnAccounted, TracesTell
  <2>3. Exec(i) \notin Seen(tr.spans)  BY <2>2 DEF Exec, Seen
  <2> HIDE DEF tr
  <2> QED BY <2>1, <2>3, <1>2, <1>3 DEF TellsCalls, tr
<1> QED BY <1>7, <1>8, <1>10, <1>11 DEF TurnAccounted

(* The generation's locals are gone and the turn goes on to its end, or is  *)
(* over: what was told of it does not change.                               *)
LEMMA AccountedLeave == TypeOK /\ TurnAccounted /\ Leave => TurnAccounted'
BY DEF Leave, TurnAccounted, SpansOfTurn, PastOnly, SpanIsCommitted, CommitIsSeen, CallIsSeen,
       TracesTell

LEMMA AccountedToEnd ==
  TypeOK /\ TurnAccounted /\ ToEnd /\ phase \in {"open", "agents"} => TurnAccounted'
<1> SUFFICES ASSUME TypeOK, TurnAccounted, ToEnd, phase \in {"open", "agents"}
             PROVE  TurnAccounted'
  OBVIOUS
<1>1. phase' = "ending" /\ UNCHANGED <<turn, gens, spans, truncated, calls, commits, sunk, lost>>
  BY DEF ToEnd
<1>2. SpansOfTurn' /\ PastOnly' /\ TracesTell'
  BY <1>1 DEF TurnAccounted, SpansOfTurn, PastOnly, TracesTell
<1>3. SpanIsCommitted' /\ CommitIsSeen' /\ CallIsSeen'
  BY <1>1 DEF TurnAccounted, SpanIsCommitted, CommitIsSeen, CallIsSeen
<1> QED BY <1>2, <1>3 DEF TurnAccounted

LEMMA AccountedEndGeneration == ASSUME TypeOK, TurnAccounted, EndGeneration  PROVE TurnAccounted'
<1>1. /\ phase = "apply" /\ phase' = "open"
      /\ UNCHANGED <<turn, gens, spans, truncated, calls, commits, sunk, lost>>
  BY DEF EndGeneration
<1>2. SpansOfTurn' /\ PastOnly' /\ TracesTell'
  BY <1>1 DEF TurnAccounted, SpansOfTurn, PastOnly, TracesTell
<1>3. SpanIsCommitted'
  <2>1. next > Len(work) /\ next \in Nat /\ Len(work) \in Nat /\ DOMAIN work = 1 .. Len(work)
    BY DEF EndGeneration, TypeOK
  <2>2. \A i \in DOMAIN work : ~(next <= i)  BY <2>1
  <2> QED BY <1>1, <2>2 DEF TurnAccounted, SpanIsCommitted
<1>4. CommitIsSeen' /\ CallIsSeen'
  BY <1>1 DEF TurnAccounted, CommitIsSeen, CallIsSeen
<1> QED BY <1>2, <1>3, <1>4 DEF TurnAccounted

(* The steps within a generation that tell nothing new.                     *)
LEMMA AccountedFinish ==
  ASSUME TypeOK, TurnAccounted, NEW i \in DOMAIN work, NEW end, Finish(i, end)
  PROVE  TurnAccounted'
<1>1. /\ phase = "agents"
      /\ UNCHANGED <<turn, gens, phase, work, next, pending, spans, truncated, calls, commits, sunk, lost>>
  BY DEF Finish
<1> QED
  BY <1>1 DEF TurnAccounted, SpansOfTurn, PastOnly, SpanIsCommitted, CommitIsSeen, CallIsSeen,
              TracesTell, Exec

LEMMA AccountedGather == ASSUME TypeOK, TurnAccounted, Gather  PROVE TurnAccounted'
<1>1. CASE Leave  BY <1>1, AccountedLeave
<1>2. CASE ~Leave
  <2>1. /\ phase = "agents" /\ phase' = "record" /\ next' = 1
        /\ UNCHANGED <<turn, gens, work, at, pending, spans, truncated, calls, commits, sunk, lost>>
    BY <1>2 DEF Gather
  <2>2. \A i \in DOMAIN work : ~(i < next')  BY <2>1 DEF TypeOK
  <2>3. SpansOfTurn' /\ PastOnly' /\ TracesTell'
    BY <2>1 DEF TurnAccounted, SpansOfTurn, PastOnly, TracesTell
  <2>4. SpanIsCommitted' /\ CallIsSeen'
    BY <2>1 DEF TurnAccounted, SpanIsCommitted, CallIsSeen, Exec
  <2>5. CommitIsSeen'
    BY <2>1, <2>2 DEF TurnAccounted, CommitIsSeen
  <2> QED BY <2>3, <2>4, <2>5 DEF TurnAccounted
<1> QED BY <1>1, <1>2

LEMMA AccountedSkip == ASSUME TypeOK, TurnAccounted, Skip  PROVE TurnAccounted'
<1>1. /\ phase = "record" /\ at[next] = "empty" /\ next' = next + 1
      /\ UNCHANGED <<turn, gens, phase, work, at, pending, spans, truncated, calls, commits, sunk, lost>>
  BY DEF Skip, Recording
<1>2. \A i \in DOMAIN work : i < next' => i < next \/ at[i] = "empty"
  BY <1>1 DEF TypeOK
<1>3. SpansOfTurn' /\ PastOnly' /\ TracesTell'
  BY <1>1 DEF TurnAccounted, SpansOfTurn, PastOnly, TracesTell
<1>4. \A i \in DOMAIN work : i < next => i < next'
  BY <1>1 DEF TypeOK
<1>5. SpanIsCommitted'
  BY <1>1, <1>4 DEF TurnAccounted, SpanIsCommitted, Exec
<1>6. CallIsSeen'
  BY <1>1 DEF TurnAccounted, CallIsSeen, Exec
<1>7. CommitIsSeen'
  BY <1>1, <1>2 DEF TurnAccounted, CommitIsSeen, Exec
<1> QED BY <1>3, <1>5, <1>6, <1>7 DEF TurnAccounted

(* A span of this generation is of a result that is through, or has no      *)
(* patch to lose: so dropping the rest drops nothing a span tells.          *)
LEMMA AccountedBudgetOut == ASSUME TypeOK, TurnAccounted, BudgetOut  PROVE TurnAccounted'
<1>1. /\ phase = "record" /\ next \in DOMAIN work /\ next' = Len(work) + 1
      /\ at' = [i \in DOMAIN at |-> IF i >= next THEN "dropped" ELSE at[i]]
      /\ UNCHANGED <<turn, gens, phase, work, pending, spans, truncated, calls, commits, sunk, lost>>
  BY DEF BudgetOut
<1>2. /\ DOMAIN at = DOMAIN work /\ DOMAIN work = 1 .. Len(work) /\ Len(work) \in Nat
      /\ next \in Nat
  BY DEF TypeOK
<1>3. \A i \in DOMAIN work : i < next' /\ (at'[i] = "patch" <=> at[i] = "patch" /\ i < next)
  BY <1>1, <1>2
<1>4. SpansOfTurn' /\ PastOnly' /\ TracesTell'
  BY <1>1 DEF TurnAccounted, SpansOfTurn, PastOnly, TracesTell
<1>5. CallIsSeen'
  BY <1>1 DEF TurnAccounted, CallIsSeen, Exec
<1>6. SpanIsCommitted'
  BY <1>1, <1>3 DEF TurnAccounted, SpanIsCommitted, Exec
<1>7. CommitIsSeen'
  BY <1>1, <1>3 DEF TurnAccounted, CommitIsSeen, Exec
<1> QED BY <1>4, <1>5, <1>6, <1>7 DEF TurnAccounted

LEMMA AccountedApply == ASSUME TypeOK, TurnAccounted, Apply  PROVE TurnAccounted'
<1>1. /\ phase = "record" /\ next > Len(work) /\ phase' = "apply" /\ next' = 1
      /\ UNCHANGED <<turn, gens, work, at, pending, spans, truncated, calls, commits, sunk, lost>>
  BY DEF Apply
<1>2. \A i \in DOMAIN work : i < next /\ next' <= i
  <2>1. DOMAIN work = 1 .. Len(work) /\ Len(work) \in Nat /\ next \in Nat
    BY DEF TypeOK
  <2> QED BY <1>1, <2>1
<1>3. SpansOfTurn' /\ PastOnly' /\ TracesTell'
  BY <1>1 DEF TurnAccounted, SpansOfTurn, PastOnly, TracesTell
<1>4. CallIsSeen'
  BY <1>1 DEF TurnAccounted, CallIsSeen, Exec
<1>5. SpanIsCommitted'
  BY <1>1, <1>2 DEF TurnAccounted, SpanIsCommitted, Exec
<1>6. CommitIsSeen'
  BY <1>1, <1>2 DEF TurnAccounted, CommitIsSeen, Exec
<1> QED BY <1>3, <1>4, <1>5, <1>6 DEF TurnAccounted

(* A commit is of this turn and has its span already; it makes good what    *)
(* that span says.                                                          *)
LEMMA AccountedCommit == ASSUME TypeOK, TurnAccounted, Commit  PROVE TurnAccounted'
<1>1. /\ phase = "apply" /\ next \in DOMAIN work /\ next' = next + 1 /\ next \in Nat
      /\ commits' = IF at[next] = "patch" THEN commits \cup {Exec(next)} ELSE commits
      /\ UNCHANGED <<turn, gens, phase, work, at, pending, spans, truncated, calls, sunk, lost>>
  BY DEF Commit, TypeOK
<1>2. Exec(next)[1] = turn /\ turn \in Nat  BY DEF Exec, TypeOK
<1>3. DOMAIN work = 1 .. Len(work) /\ Len(work) \in Nat
  BY DEF TypeOK
<1>4. SpansOfTurn' /\ PastOnly'
  BY <1>1, <1>2 DEF TurnAccounted, SpansOfTurn, PastOnly
<1>5. SpanIsCommitted'
  <2> SUFFICES ASSUME NEW k \in DOMAIN spans, ~spans[k].error, spans[k].exec \notin commits'
               PROVE  \E i \in DOMAIN work :
                        /\ spans[k].exec = Exec(i) /\ at[i] = "patch" /\ next + 1 <= i
    BY <1>1 DEF SpanIsCommitted, Exec
  <2>1. PICK i \in DOMAIN work : spans[k].exec = Exec(i) /\ at[i] = "patch" /\ next <= i
    BY <1>1 DEF TurnAccounted, SpanIsCommitted
  <2>2. i # next  BY <1>1, <2>1
  <2> QED BY <1>1, <1>3, <2>1, <2>2
<1>6. CommitIsSeen'
  BY <1>1 DEF TurnAccounted, CommitIsSeen, Exec
<1>7. CallIsSeen'
  BY <1>1 DEF TurnAccounted, CallIsSeen
<1>8. TracesTell'
  <2> SUFFICES ASSUME NEW s \in DOMAIN Sinks, NEW k \in DOMAIN sunk[s]
               PROVE  /\ \A l \in DOMAIN sunk[s][k].spans :
                           ~sunk[s][k].spans[l].error => sunk[s][k].spans[l].exec \in commits'
                      /\ {x \in commits' : x[1] = sunk[s][k].turn}
                           = {x \in commits : x[1] = sunk[s][k].turn}
    BY <1>1 DEF TurnAccounted, TracesTell, TraceTells
  <2>1. sunk[s][k].turn # turn
    BY <1>1 DEF TurnAccounted, TracesTell
  <2>2. \A l \in DOMAIN sunk[s][k].spans :
          ~sunk[s][k].spans[l].error => sunk[s][k].spans[l].exec \in commits
    BY DEF TurnAccounted, TracesTell, TraceTells
  <2> QED BY <1>1, <1>2, <2>1, <2>2
<1> QED BY <1>4, <1>5, <1>6, <1>7, <1>8 DEF TurnAccounted

(* A span that is kept has the calls of its execution, but for those that   *)
(* an earlier span of the same agent took, unless it says so.               *)
LEMMA AccountedRecord == ASSUME TypeOK, CallsPlaced, TurnAccounted, Record  PROVE TurnAccounted'
<1>1. /\ phase = "record" /\ next \in DOMAIN work /\ next \in Nat /\ next' = next + 1
      /\ at[next] \in {"patch", "error"}
      /\ UNCHANGED <<turn, gens, phase, work, at, calls, commits, sunk>>
  BY DEF Record, Recording, TypeOK
<1>2. DOMAIN work = 1 .. Len(work) /\ Len(work) \in Nat /\ gens \in Nat
  BY DEF TypeOK
<1>3. PastOnly' /\ TracesTell'
  <2>1. lost \subseteq lost'
    BY DEF Record, RecordSpan, KeepSpan, LoseSpan
  <2>2. LostExecs(lost) \subseteq LostExecs(lost') /\ \A x : LostWith(x, lost) => LostWith(x, lost')
    BY <2>1 DEF LostExecs, LostWith
  <2>3. \A tr : TraceTells(tr, calls, commits, lost) => TraceTells(tr, calls, commits, lost')
    BY <2>2 DEF TraceTells, TellsCalls
  <2> QED BY <1>1, <2>3 DEF TurnAccounted, PastOnly, TracesTell
<1>4. CASE Len(spans) >= MaxSpans
  <2>1. truncated' = TRUE /\ UNCHANGED <<spans, pending, lost>>
    BY <1>4 DEF Record, RecordSpan
  <2>2. SpansOfTurn'
    BY <1>1, <2>1 DEF TurnAccounted, SpansOfTurn
  <2>3. SpanIsCommitted'
    <3>1. \A i \in DOMAIN work : i < next => i < next'
      BY <1>1, <1>2
    <3> QED BY <1>1, <2>1, <3>1 DEF TurnAccounted, SpanIsCommitted, Exec
  <2>4. CommitIsSeen' /\ CallIsSeen'
    BY <2>1 DEF CommitIsSeen, CallIsSeen
  <2> QED BY <1>3, <2>2, <2>3, <2>4 DEF TurnAccounted
<1>5. CASE KeepSpan(next)
  <2> DEFINE a == work[next]
             p == AgentSpan(next, pending[a])
             taken == ToSet(p.llm_calls)
             last == Len(spans) + 1
  <2>2. /\ p \in SpanRecs /\ p.exec = Exec(next) /\ p.error = (at[next] = "error")
        /\ p.llm_calls = Cut(pending[a], MaxLlm)
    BY <1>1, SpanTyped
  <2>3. a \in Names /\ a \in Agents /\ MaxLlm \in Nat /\ pending[a] \in Seq(Nat)
    BY <1>1, TraceAssumption DEF TypeOK, Names, TraceAssumption
  <2>4. /\ spans' = Append(spans, p)
        /\ truncated' = (truncated \/ Len(pending[a]) > MaxLlm)
        /\ \A b \in Names \ {a} : pending'[b] = pending[b]
        /\ lost' = lost
    BY <1>5, <2>3 DEF KeepSpan, TypeOK
  <2>5. /\ DOMAIN spans' = DOMAIN spans \cup {last} /\ last \notin DOMAIN spans
        /\ \A k \in DOMAIN spans : spans'[k] = spans[k]
        /\ spans'[last] = p
        /\ CallsIn(spans') = CallsIn(spans) \cup taken
        /\ Seen(spans') = Seen(spans) \cup {Exec(next)}
    BY <2>2, <2>4, MemberAppended, SpanAppended DEF TypeOK
  <2>6. ~truncated' => ~truncated /\ taken = ToSet(pending[a])
    <3>1. Len(pending[a]) \in Nat  BY <2>3
    <3>2. ~truncated' => ~truncated /\ ~(Len(pending[a]) > MaxLlm)
      BY Zenon, <2>4
    <3>3. ~(Len(pending[a]) > MaxLlm) => Len(pending[a]) <= MaxLlm
      BY <2>3, <3>1
    <3> QED BY <2>2, <2>3, <3>2, <3>3, CutFacts
  <2> HIDE DEF p, taken, last
  <2>7. SpansOfTurn'
    <3>1. Exec(next)[1] = turn /\ Exec(next)[2] = gens
      BY DEF Exec
    <3> QED BY <1>1, <1>2, <2>2, <2>5, <3>1 DEF TurnAccounted, SpansOfTurn
  <2>8. SpanIsCommitted'
    <3> SUFFICES ASSUME NEW k \in DOMAIN spans', ~spans'[k].error, spans'[k].exec \notin commits
                 PROVE  \E i \in DOMAIN work :
                          spans'[k].exec = Exec(i) /\ at[i] = "patch" /\ i < next + 1
      BY <1>1 DEF SpanIsCommitted, Exec
    <3>1. CASE k \in DOMAIN spans
      <4>1. PICK i \in DOMAIN work : spans[k].exec = Exec(i) /\ at[i] = "patch" /\ i < next
        BY <1>1, <2>5, <3>1 DEF TurnAccounted, SpanIsCommitted
      <4> QED BY <1>1, <1>2, <2>5, <3>1, <4>1
    <3>2. CASE k = last
      <4>1. spans'[k] = p  BY <2>5, <3>2
      <4>2. at[next] # "error"
        BY <2>2, <4>1
      <4>3. at[next] = "patch" /\ next < next + 1  BY <1>1, <4>2
      <4> QED BY <1>1, <2>2, <4>1, <4>3
    <3> QED BY <2>5, <3>1, <3>2
  <2>9. CommitIsSeen'
    <3> SUFFICES ASSUME ~truncated'
                 PROVE  /\ {x \in commits : x[1] = turn} \subseteq Seen(spans') \cup LostExecs(lost)
                        /\ \A i \in DOMAIN work :
                             at[i] = "patch" /\ i < next + 1 => Exec(i) \in Seen(spans') \cup LostExecs(lost)
      BY <1>1, <2>4 DEF CommitIsSeen, Exec
    <3>1. /\ {x \in commits : x[1] = turn} \subseteq Seen(spans) \cup LostExecs(lost)
          /\ \A i \in DOMAIN work : at[i] = "patch" /\ i < next => Exec(i) \in Seen(spans) \cup LostExecs(lost)
      BY <1>1, <2>6 DEF TurnAccounted, CommitIsSeen
    <3>2. \A i \in DOMAIN work : i < next + 1 => i < next \/ i = next
      BY <1>1, <1>2
    <3> QED BY <2>5, <3>1, <3>2
  <2>10. CallIsSeen'
    <3> SUFFICES ASSUME ~truncated'
                 PROVE  /\ TellsCalls(spans', calls, lost)
                        /\ \A c \in DOMAIN calls : \A i \in DOMAIN work :
                             calls[c].exec = Exec(i) /\ ~calls[c].spawned =>
                               c \in ToSet(pending'[work[i]]) \cup CallsIn(spans') \/ LostWith(calls[c], lost)
      BY <1>1, <2>4 DEF CallIsSeen, Exec
    <3>1. /\ TellsCalls(spans, calls, lost)
          /\ \A c \in DOMAIN calls : \A i \in DOMAIN work :
               calls[c].exec = Exec(i) /\ ~calls[c].spawned =>
                 c \in ToSet(pending[work[i]]) \cup CallsIn(spans) \/ LostWith(calls[c], lost)
      BY <1>1, <2>6 DEF TurnAccounted, CallIsSeen
    <3>2. TellsCalls(spans', calls, lost)
      BY <1>1, <2>5, <2>6, <3>1 DEF TellsCalls
    <3>3. \A i \in DOMAIN work : work[i] \in Names  BY DEF TypeOK, Names
    <3> QED BY <2>4, <2>5, <2>6, <3>1, <3>2, <3>3
  <2> QED BY <1>3, <2>7, <2>8, <2>9, <2>10 DEF TurnAccounted
<1>6. CASE LoseSpan(next)
  <2> DEFINE a == work[next]
             q == [exec |-> Exec(next), agent |-> a]
  <2>1. /\ lost' = lost \cup {q} /\ spans' = spans /\ (~truncated' => ~truncated)
        /\ \A b \in Names \ {a} : pending'[b] = pending[b]
    BY <1>6 DEF LoseSpan, TypeOK
  <2>2. q.exec = Exec(next) /\ q.agent = a /\ q.exec[2] = gens
    BY DEF Exec
  <2> HIDE DEF q
  <2>3. LostExecs(lost') = LostExecs(lost) \cup {Exec(next)}
    BY <2>1, <2>2 DEF LostExecs
  <2>4. \A call : LostWith(call, lost') <=> LostWith(call, lost) \/ (call.agent = a /\ call.exec[2] = gens)
    BY <2>1, <2>2 DEF LostWith
  <2>5. \A i \in DOMAIN work : /\ work[i] \in Names /\ work[i] # Nobody
                               /\ (i < next' <=> i < next \/ i = next)
    <3>1. \A i \in DOMAIN work : work[i] \in Agents
      BY DEF TypeOK
    <3> QED BY <1>1, <1>2, <3>1, TraceAssumption DEF Names, TraceAssumption
  <2>6. SpansOfTurn' /\ SpanIsCommitted'
    BY <1>1, <2>1, <2>5 DEF TurnAccounted, SpansOfTurn, SpanIsCommitted, Exec
  <2>7. CommitIsSeen'
    BY <1>1, <2>1, <2>3, <2>5 DEF TurnAccounted, CommitIsSeen, Exec
  <2>8. CallIsSeen'
    <3> SUFFICES ASSUME ~truncated
                 PROVE  /\ TellsCalls(spans, calls, lost')
                        /\ \A c \in DOMAIN calls : \A i \in DOMAIN work :
                             calls[c].exec = Exec(i) /\ ~calls[c].spawned =>
                               c \in ToSet(pending'[work[i]]) \cup CallsIn(spans) \/ LostWith(calls[c], lost')
      BY <1>1, <2>1 DEF CallIsSeen, Exec
    <3>1. TellsCalls(spans, calls, lost')
      BY <1>1, <2>4 DEF TurnAccounted, CallIsSeen, TellsCalls
    <3>2. ASSUME NEW c \in DOMAIN calls, NEW i \in DOMAIN work, calls[c].exec = Exec(i), ~calls[c].spawned
          PROVE  c \in ToSet(pending'[work[i]]) \cup CallsIn(spans) \/ LostWith(calls[c], lost')
      <4>1. c \in ToSet(pending[work[i]]) \cup CallsIn(spans) \/ LostWith(calls[c], lost)
        BY <1>1, <3>2 DEF TurnAccounted, CallIsSeen
      <4>2. c \in ToSet(pending[work[i]]) => calls[c].agent = work[i]
        BY <2>5 DEF CallsPlaced, InPlace
      <4>3. calls[c].exec[2] = gens  BY <3>2 DEF Exec
      <4> QED BY <2>1, <2>4, <2>5, <4>1, <4>2, <4>3
    <3> QED BY <3>1, <3>2
  <2> QED BY <1>3, <2>6, <2>7, <2>8 DEF TurnAccounted
<1> QED BY <1>4, <1>5, <1>6 DEF Record, RecordSpan

(* What a sink takes tells the turn.                                        *)
LEMMA AccountedExport ==
  ASSUME TypeOK, TurnAccounted, NEW ok \in BOOLEAN, Export(ok)
  PROVE  TurnAccounted'
<1> DEFINE t == told + 1
           last == Len(sunk[t]) + 1
<1>1. /\ phase = "ending"
      /\ UNCHANGED <<turn, gens, phase, work, at, next, pending, spans, truncated, calls, commits, lost>>
      /\ sunk' = IF ok THEN [sunk EXCEPT ![t] = Append(@, RunTrace)] ELSE sunk
  BY DEF Export, genVars
<1>2. t \in DOMAIN Sinks /\ turn \in Nat
  BY TraceAssumption DEF Export, TypeOK, TraceAssumption
<1>3. SpansOfTurn' /\ PastOnly' /\ SpanIsCommitted' /\ CommitIsSeen' /\ CallIsSeen'
  BY <1>1 DEF TurnAccounted, SpansOfTurn, PastOnly, SpanIsCommitted, CommitIsSeen, CallIsSeen, Exec
<1>4. CASE ~ok
  <2>1. TracesTell'
    BY <1>1, <1>4 DEF TurnAccounted, TracesTell
  <2> QED BY <1>3, <2>1 DEF TurnAccounted
<1>5. CASE ok
  <2>1. /\ RunTrace \in TraceRecs /\ RunTrace.turn = turn /\ RunTrace.spans = spans
        /\ RunTrace.trace_truncated = truncated
    BY DEF RunTrace, TraceRecs, TypeOK
  <2>2. sunk[t] \in Seq(TraceRecs)  BY <1>2 DEF TypeOK
  <2>3. /\ sunk'[t] = Append(sunk[t], RunTrace)
        /\ \A s \in DOMAIN Sinks \ {t} : sunk'[s] = sunk[s]
    BY <1>1, <1>2, <1>5 DEF TypeOK
  <2>4. /\ DOMAIN sunk'[t] = DOMAIN sunk[t] \cup {last}
        /\ \A k \in DOMAIN sunk[t] : sunk'[t][k] = sunk[t][k]
        /\ sunk'[t][last] = RunTrace
    BY <2>1, <2>2, <2>3, MemberAppended
  <2>5. TraceTells(RunTrace, calls, commits, lost)
    BY <1>1, <2>1
       DEF TurnAccounted, SpanIsCommitted, CommitIsSeen, CallIsSeen, TraceTells
  <2>6. \A l \in DOMAIN spans : spans[l].exec[1] = turn
    BY DEF TurnAccounted, SpansOfTurn
  <2> HIDE DEF t, last
  <2>7. ASSUME NEW s \in DOMAIN Sinks, NEW k \in DOMAIN sunk'[s]
        PROVE  LET tr == sunk'[s][k]
               IN  /\ tr.turn <= turn
                   /\ tr.turn = turn => phase \in {"idle", "ending"}
                   /\ \A l \in DOMAIN tr.spans : tr.spans[l].exec[1] = tr.turn
                   /\ TraceTells(tr, calls, commits, lost)
    <3>1. CASE s # t
      BY <2>3, <2>7, <3>1 DEF TurnAccounted, TracesTell
    <3>2. CASE s = t /\ k \in DOMAIN sunk[t]
      BY <2>4, <2>7, <3>2 DEF TurnAccounted, TracesTell
    <3>3. CASE s = t /\ k = last
      BY <1>1, <1>2, <2>1, <2>4, <2>5, <2>6, <3>3
    <3> QED BY <2>4, <2>7, <3>1, <3>2, <3>3
  <2>8. TracesTell'  BY <1>1, <2>7 DEF TracesTell
  <2> QED BY <1>3, <2>8 DEF TurnAccounted
<1> QED BY <1>4, <1>5

LEMMA AccountedStep == ASSUME TypeOK, CallsPlaced, TurnAccounted, [Next]_vars  PROVE TurnAccounted'
<1>1. CASE UNCHANGED vars
  BY <1>1 DEF vars, genVars, TurnAccounted, SpansOfTurn, PastOnly, SpanIsCommitted, CommitIsSeen,
              CallIsSeen, TracesTell, Exec
<1> QED
  BY <1>1, AccountedBegin, AccountedDispatch, AccountedAnswered, AccountedFinish, AccountedGather,
     AccountedRecord, AccountedSkip, AccountedBudgetOut, AccountedApply, AccountedCommit,
     AccountedEndGeneration, AccountedLeave, AccountedToEnd, AccountedExport
     DEF Next, Refuse, Unfit, EndTurn, Deadline, Cancelled, NotSaved, Return

-----------------------------------------------------------------------------
(* Theorems *)

LEMMA InvStep == Inv /\ [Next]_vars => Inv'
BY TypesStep, PlacedStep, AccountedStep DEF Inv

LEMMA InvHolds == Spec => []Inv
<1>1. Init => Inv
  BY TypesStart, PlacedStart, AccountedStart DEF Inv
<1> QED BY <1>1, InvStep, PTL DEF Spec

(* Whatever the agents, the interleaving of their calls, the caps and the   *)
(* ways in which turns end: of a sink's traces a call is told in one span   *)
(* of one, under the agent that made it, and no more while it waits.        *)
THEOREM CallsAreToldOnce == Spec => []CallToldOnce
<1>1. ASSUME Inv PROVE CallToldOnce
  <2>1. DOMAIN pending = Names  BY <1>1 DEF Inv, TypeOK
  <2>2. ASSUME NEW s \in DOMAIN Sinks, NEW k \in DOMAIN sunk[s], NEW l \in DOMAIN sunk[s][k].spans
        PROVE  /\ \A c \in ToSet(sunk[s][k].spans[l].llm_calls) : calls[c].agent = sunk[s][k].spans[l].agent
               /\ \A a \in DOMAIN pending : ToSet(pending[a]) \cap ToSet(sunk[s][k].spans[l].llm_calls) = {}
    <3>1. \A c \in ToSet(sunk[s][k].spans[l].llm_calls) :
            calls[c].agent = sunk[s][k].spans[l].agent /\ ~Waits(c, pending)
      BY <1>1, <2>2 DEF Inv, CallsPlaced, TellOnce
    <3> QED BY <2>1, <3>1 DEF Waits
  <2>3. ASSUME NEW s \in DOMAIN Sinks, NEW k \in DOMAIN sunk[s], NEW l \in DOMAIN sunk[s][k].spans,
               NEW m \in DOMAIN sunk[s], NEW n \in DOMAIN sunk[s][m].spans, m # k \/ n # l
        PROVE  ToSet(sunk[s][k].spans[l].llm_calls) \cap ToSet(sunk[s][m].spans[n].llm_calls) = {}
    <3>1. CASE m = k
      BY <1>1, <2>3, <3>1 DEF Inv, CallsPlaced, TellOnce
    <3>2. CASE m # k
      <4>1. CallsIn(sunk[s][k].spans) \cap CallsIn(sunk[s][m].spans) = {}
        BY <1>1, <3>2 DEF Inv, CallsPlaced, Apart
      <4>2. /\ ToSet(sunk[s][k].spans[l].llm_calls) \subseteq CallsIn(sunk[s][k].spans)
            /\ ToSet(sunk[s][m].spans[n].llm_calls) \subseteq CallsIn(sunk[s][m].spans)
        BY DEF CallsIn
      <4> QED BY <4>1, <4>2
    <3> QED BY <3>1, <3>2
  <2>4. ASSUME NEW s \in DOMAIN Sinks,
               NEW p \in (DOMAIN sunk[s]) \X (1 .. MaxSpans), p[2] \in DOMAIN sunk[s][p[1]].spans
        PROVE  /\ \A c \in ToSet(sunk[s][p[1]].spans[p[2]].llm_calls) :
                    calls[c].agent = sunk[s][p[1]].spans[p[2]].agent
               /\ \A q \in (DOMAIN sunk[s]) \X (1 .. MaxSpans) :
                    q[2] \in DOMAIN sunk[s][q[1]].spans /\ q # p =>
                      ToSet(sunk[s][p[1]].spans[p[2]].llm_calls)
                        \cap ToSet(sunk[s][q[1]].spans[q[2]].llm_calls) = {}
               /\ \A a \in DOMAIN pending :
                    ToSet(pending[a]) \cap ToSet(sunk[s][p[1]].spans[p[2]].llm_calls) = {}
    <3>1. p[1] \in DOMAIN sunk[s]  BY <2>4
    <3>2. ASSUME NEW q \in (DOMAIN sunk[s]) \X (1 .. MaxSpans), q[2] \in DOMAIN sunk[s][q[1]].spans, q # p
          PROVE  ToSet(sunk[s][p[1]].spans[p[2]].llm_calls) \cap ToSet(sunk[s][q[1]].spans[q[2]].llm_calls) = {}
      <4>1. q[1] \in DOMAIN sunk[s] /\ (q[1] # p[1] \/ q[2] # p[2])
        BY <2>4, <3>2
      <4> QED BY ONLY <2>3, <2>4, <3>1, <3>2, <4>1, Zenon
    <3>3. \A q \in (DOMAIN sunk[s]) \X (1 .. MaxSpans) :
            q[2] \in DOMAIN sunk[s][q[1]].spans /\ q # p =>
              ToSet(sunk[s][p[1]].spans[p[2]].llm_calls) \cap ToSet(sunk[s][q[1]].spans[q[2]].llm_calls) = {}
      BY ONLY <3>2, Zenon
    <3>4. /\ \A c \in ToSet(sunk[s][p[1]].spans[p[2]].llm_calls) :
               calls[c].agent = sunk[s][p[1]].spans[p[2]].agent
          /\ \A a \in DOMAIN pending : ToSet(pending[a]) \cap ToSet(sunk[s][p[1]].spans[p[2]].llm_calls) = {}
      BY ONLY <2>2, <2>4, <3>1, Zenon
    <3> QED BY ONLY <3>3, <3>4, Zenon
  <2> QED BY ONLY <2>4 DEF CallToldOnce
<1> QED BY <1>1, InvHolds, PTL

(* A trace that a sink has taken tells what its turn committed, nothing     *)
(* that was refused, and everything unless it says that it is truncated:    *)
(* for all caps and any number of turns, generations and calls.             *)
THEOREM TracesTellTurns == Spec => []TraceTellsTurn
<1>1. Inv => TraceTellsTurn
  <2>1. ASSUME Inv, NEW tr \in Delivered  PROVE TraceTells(tr, calls, commits, lost)
    <3>1. PICK s \in DOMAIN Sinks : tr \in ToSet(sunk[s])
      BY <2>1 DEF Delivered
    <3>2. PICK k \in DOMAIN sunk[s] : tr = sunk[s][k]
      BY <3>1 DEF ToSet
    <3> QED BY <2>1, <3>2 DEF Inv, TurnAccounted, TracesTell
  <2> QED BY <2>1 DEF TraceTellsTurn, TraceTells, TellsCalls, Seen
<1> QED BY <1>1, InvHolds, PTL

-----------------------------------------------------------------------------
(* The programs of the SQLite stores *)

(* The ids of the spans. *)
LEMMA SpanIdsFact == \A s : s \in SpanIds <=> \E r \in Traces : \E j \in 1 .. SpansOf[r] : s = <<r, j>>
BY DEF SpanIds

(* The statements and the programs of both SQLite stores are these. *)
LEMMA SameTerms ==
  /\ \A db, s : Alone!Effect(db, s) = Effect(db, s) /\ Pool!Effect(db, s) = Effect(db, s)
  /\ \A r : Alone!ExportProgram(r) = Exporting(r) /\ Pool!ExportProgram(r) = Exporting(r)
  /\ \A R : Alone!DeleteRuns(R) = DeleteRuns(R) /\ Pool!DeleteRuns(R) = DeleteRuns(R)
  /\ \A n : Alone!Prune(n) = Sweeping(n) /\ Pool!Prune(n) = Sweeping(n)
  /\ \A e, t : Alone!AssignTag(e, t) = AssignTag(e, t) /\ Pool!AssignTag(e, t) = AssignTag(e, t)
  /\ \A o, n : Alone!RenameProgram(o, n) = Renaming(o, n) /\ Pool!RenameProgram(o, n) = Renaming(o, n)
  /\ \A d, x : Alone!Statement(d, x) = Statement(d, x) /\ Pool!Statement(d, x) = Statement(d, x)
  /\ Alone!Calls = Pool!Calls /\ Alone!Finds = Pool!Finds /\ Alone!NoRows = NoRows /\ Pool!NoRows = NoRows
<1>1. \A d, x : Alone!Statement(d, x) = Statement(d, x) /\ Pool!Statement(d, x) = Statement(d, x)
  BY DEF Alone!Statement, Pool!Statement, Statement
<1>2. \A r : Alone!InsertTrace(r) = InsertTrace(r) /\ Pool!InsertTrace(r) = InsertTrace(r)
  BY <1>1 DEF Alone!InsertTrace, Pool!InsertTrace, InsertTrace
<1>3. \A n : Alone!Prune(n) = Sweeping(n) /\ Pool!Prune(n) = Sweeping(n)
  BY <1>1 DEF Alone!Prune, Pool!Prune, Sweeping
<1>4. \A db, s : Alone!Effect(db, s) = Effect(db, s) /\ Pool!Effect(db, s) = Effect(db, s)
  BY DEF Alone!Effect, Effect, Pool!Effect, Alone!Renamed, Renamed, Pool!Renamed, Newest,
         Alone!Newest, Pool!Newest, SpansIn, Alone!SpansIn, Pool!SpansIn, SpanIds,
         Alone!SpanIds, Pool!SpanIds
<1>5. \A r : Alone!ExportProgram(r) = Exporting(r) /\ Pool!ExportProgram(r) = Exporting(r)
  BY <1>2, <1>3 DEF Alone!ExportProgram, Pool!ExportProgram, Exporting
<1>6. \A R : Alone!DeleteRuns(R) = DeleteRuns(R) /\ Pool!DeleteRuns(R) = DeleteRuns(R)
  BY <1>1 DEF Alone!DeleteRuns, Pool!DeleteRuns, DeleteRuns
<1>7. \A e, t : Alone!AssignTag(e, t) = AssignTag(e, t) /\ Pool!AssignTag(e, t) = AssignTag(e, t)
  BY <1>1 DEF Alone!AssignTag, Pool!AssignTag, AssignTag
<1>8. \A o, n : Alone!RenameProgram(o, n) = Renaming(o, n) /\ Pool!RenameProgram(o, n) = Renaming(o, n)
  BY <1>1 DEF Alone!RenameProgram, Pool!RenameProgram, Renaming
<1>9. Alone!Calls = Pool!Calls /\ Alone!Finds = Pool!Finds /\ Alone!NoRows = NoRows /\ Pool!NoRows = NoRows
  BY DEF Alone!Calls, Pool!Calls, Alone!Finds, Pool!Finds, Alone!NoRows, NoRows, Pool!NoRows,
         Alone!Statements, Pool!Statements, Alone!Kinds, Pool!Kinds,
         Alone!Methods, Pool!Methods, Alone!Rows, Pool!Rows, Alone!SpanIds, Pool!SpanIds
<1> QED BY <1>1, <1>3, <1>4, <1>5, <1>6, <1>7, <1>8, <1>9

(* The records of the calls. *)
LEMMA CallsFact ==
  /\ Alone!Calls = [op : Methods, on : SUBSET Traces, rest : Seq(Statements \cup Alone!Finds), raising : BOOLEAN]
  /\ Alone!Finds = [do : {"find"}, rows : SUBSET Traces, tag : Tags]
BY DEF Alone!Calls, Alone!Finds, Alone!Methods, Methods, Alone!Kinds, Kinds, Alone!Statements, Alone!Rows, Alone!SpanIds, Statements, Rows, SpanIds

(* Short sequences, functions that are sequences, and two in a row. *)
LEMMA Tuples ==
  /\ \A S : \A a \in S : <<a>> \in Seq(S) /\ Len(<<a>>) = 1 /\ <<a>>[1] = a
  /\ \A S : \A a, b \in S :
       <<a, b>> \in Seq(S) /\ Len(<<a, b>>) = 2 /\ <<a, b>>[1] = a /\ <<a, b>>[2] = b
  /\ \A S : \A a, b, c \in S :
       /\ <<a, b, c>> \in Seq(S) /\ Len(<<a, b, c>>) = 3
       /\ <<a, b, c>>[1] = a /\ <<a, b, c>>[2] = b /\ <<a, b, c>>[3] = c
OBVIOUS

LEMMA FunctionSeq ==
  ASSUME NEW S, NEW n \in Nat, NEW f \in [1 .. n -> S]
  PROVE  f \in Seq(S) /\ Len(f) = n
OBVIOUS

LEMMA Joined ==
  ASSUME NEW S, NEW s \in Seq(S), NEW t \in Seq(S), NEW m \in Nat, NEW n \in Nat,
         Len(s) = m, Len(t) = n
  PROVE  Join(S, s, m, t, n)
<1>1. PICK f : f = s \o t  OBVIOUS
<1>2. f \in Seq(S) /\ Len(f) = Len(s) + Len(t)  BY <1>1
<1>3. \A i \in 1 .. Len(s) + Len(t) : f[i] = IF i <= Len(s) THEN s[i] ELSE t[i - Len(s)]
  BY <1>1
<1>4. \A i \in 1 .. m + n : f[i] = IF i <= m THEN s[i] ELSE t[i - m]
  BY ONLY <1>3, Len(s) = m, Len(t) = n
<1>5. \A i \in 1 .. m : f[i] = s[i]
  BY ONLY <1>4, m \in Nat, n \in Nat
<1>6. ASSUME NEW i \in 1 .. n PROVE f[i + m] = t[i]
  <2>1. i + m \in 1 .. m + n /\ ~(i + m <= m) /\ i + m - m = i  OBVIOUS
  <2> QED BY ONLY <2>1, <1>4
<1> QED BY <1>1, <1>2, <1>5, <1>6 DEF Join

(* Statements, and what they may be about. *)
LEMMA StatementFact ==
  ASSUME NEW do \in Kinds, NEW x \in Rows \cup Nat
  PROVE  Statement(do, x) \in Statements /\ Statement(do, x).do = do /\ Statement(do, x).rows = x
BY DEF Statement, Statements

LEMMA RowsFact ==
  /\ \A R \in SUBSET Traces : R \in Rows
  /\ \A R \in SUBSET SpanIds : R \in Rows
  /\ \A R \in SUBSET Tags : R \in Rows
  /\ \A R \in SUBSET (Traces \X Tags) : R \in Rows
  /\ \A R \in SUBSET (Tags \X Tags) : R \in Rows
BY DEF Rows

(* The programs, statement by statement. *)
LEMMA SweepingFacts ==
  ASSUME NEW n \in Nat
  PROVE  /\ Sweeping(n) \in Seq(Statements) /\ Len(Sweeping(n)) = 3
         /\ Sweeping(n)[1] = Statement("keep_newest", n)
         /\ Sweeping(n)[2] = Statement("sweep_spans", {})
         /\ Sweeping(n)[3] = Statement("sweep_marks", {})
<1>1. /\ Statement("keep_newest", n) \in Statements /\ Statement("sweep_spans", {}) \in Statements
      /\ Statement("sweep_marks", {}) \in Statements
  BY RowsFact, StatementFact DEF Kinds
<1> QED BY ONLY <1>1, Tuples DEF Sweeping

LEMMA DeleteFacts ==
  ASSUME NEW R \in SUBSET Traces
  PROVE  /\ DeleteRuns(R) \in Seq(Statements) /\ Len(DeleteRuns(R)) = 3
         /\ DeleteRuns(R)[1] = Statement("delete_spans", R)
         /\ DeleteRuns(R)[2] = Statement("delete_marks", R)
         /\ DeleteRuns(R)[3] = Statement("delete_runs", R)
<1>1. /\ Statement("delete_spans", R) \in Statements /\ Statement("delete_marks", R) \in Statements
      /\ Statement("delete_runs", R) \in Statements
  BY RowsFact, StatementFact DEF Kinds
<1> QED BY ONLY <1>1, Tuples DEF DeleteRuns

LEMMA RenamingFacts ==
  ASSUME NEW o \in Tags, NEW n \in Tags
  PROVE  /\ Renaming(o, n) \in Seq(Statements) /\ Len(Renaming(o, n)) = 3
         /\ Renaming(o, n)[1] = Statement("copy_tag", {<<o, n>>})
         /\ Renaming(o, n)[2] = Statement("move_marks", {<<o, n>>})
         /\ Renaming(o, n)[3] = Statement("delete_tag", {o})
<1>1. {<<o, n>>} \in SUBSET (Tags \X Tags) /\ {o} \in SUBSET Tags  OBVIOUS
<1>2. /\ Statement("copy_tag", {<<o, n>>}) \in Statements
      /\ Statement("move_marks", {<<o, n>>}) \in Statements
      /\ Statement("delete_tag", {o}) \in Statements
  BY <1>1, RowsFact, StatementFact DEF Kinds
<1> QED BY ONLY <1>2, Tuples DEF Renaming

LEMMA DroppingFacts ==
  ASSUME NEW t \in Tags
  PROVE  /\ Dropping(t) \in Seq(Statements) /\ Len(Dropping(t)) = 2
         /\ Dropping(t)[1] = Statement("unmark", Traces \X {t})
         /\ Dropping(t)[2] = Statement("delete_tag", {t})
<1>1. Traces \X {t} \in SUBSET (Traces \X Tags) /\ {t} \in SUBSET Tags  OBVIOUS
<1>2. Statement("unmark", Traces \X {t}) \in Statements /\ Statement("delete_tag", {t}) \in Statements
  BY <1>1, RowsFact, StatementFact DEF Kinds
<1> QED BY ONLY <1>2, Tuples DEF Dropping

(* An export: the run, its spans, then the three statements of the prune. *)
LEMMA ExportingFacts ==
  ASSUME NEW r \in Traces
  PROVE  /\ SpansOf[r] \in Nat
         /\ Exporting(r) \in Seq(Statements) /\ Len(Exporting(r)) = SpansOf[r] + 4
         /\ Exporting(r)[1] = Statement("insert_run", {r})
         /\ \A j \in 1 .. SpansOf[r] : Exporting(r)[j + 1] = Statement("insert_span", {<<r, j>>})
         /\ Exporting(r)[SpansOf[r] + 2] = Statement("keep_newest", MaxRuns)
         /\ Exporting(r)[SpansOf[r] + 3] = Statement("sweep_spans", {})
         /\ Exporting(r)[SpansOf[r] + 4] = Statement("sweep_marks", {})
<1>1. PICK n \in Nat : n = SpansOf[r]  BY StoresAssumption
<1>2. \A j \in 1 .. n : {<<r, j>>} \in SUBSET SpanIds
  BY <1>1, SpanIdsFact
<1>3. \A j \in 1 .. n : Statement("insert_span", {<<r, j>>}) \in Statements
  BY <1>2, RowsFact, StatementFact DEF Kinds
<1>4. Statement("insert_run", {r}) \in Statements
  <2>1. {r} \in SUBSET Traces  OBVIOUS
  <2> QED BY <2>1, RowsFact, StatementFact DEF Kinds
<1> DEFINE run   == <<Statement("insert_run", {r})>>
           each  == [j \in 1 .. n |-> Statement("insert_span", {<<r, j>>})]
<1>5. run \in Seq(Statements) /\ Len(run) = 1 /\ run[1] = Statement("insert_run", {r})
  BY <1>4, Tuples
<1>6. each \in Seq(Statements) /\ Len(each) = n
  <2>1. each \in [1 .. n -> Statements]  BY <1>3
  <2> HIDE DEF each
  <2> QED BY <2>1, FunctionSeq
<1>7. \A j \in 1 .. n : each[j] = Statement("insert_span", {<<r, j>>})  OBVIOUS
<1> HIDE DEF run, each
<1>8. /\ run \o each \in Seq(Statements) /\ Len(run \o each) = 1 + n
      /\ \A i \in 1 .. 1 : (run \o each)[i] = run[i]
      /\ \A i \in 1 .. n : (run \o each)[i + 1] = each[i]
  <2>1. PICK m : m \in Nat /\ m = 1  OBVIOUS
  <2>2. m \in Nat /\ n \in Nat /\ Len(run) = m /\ Len(each) = n
    BY <2>1, <1>1, <1>5, <1>6
  <2>4. run \in Seq(Statements) /\ each \in Seq(Statements)
    BY <1>5, <1>6
  <2>3. /\ run \o each \in Seq(Statements) /\ Len(run \o each) = m + n
        /\ \A i \in 1 .. m : (run \o each)[i] = run[i]
        /\ \A i \in 1 .. n : (run \o each)[i + m] = each[i]
    <3>1. Join(Statements, run, m, each, n)  BY ONLY <2>2, <2>4, Joined
    <3> QED BY ONLY <3>1 DEF Join
  <2> QED BY <2>1, <2>3
<1>9. MaxRuns \in Nat /\ 1 + n \in Nat  BY <1>1, StoresAssumption
<1>10. /\ (run \o each) \o Sweeping(MaxRuns) \in Seq(Statements)
       /\ Len((run \o each) \o Sweeping(MaxRuns)) = (1 + n) + 3
       /\ \A i \in 1 .. 1 + n :
            ((run \o each) \o Sweeping(MaxRuns))[i] = (run \o each)[i]
       /\ \A i \in 1 .. 3 :
            ((run \o each) \o Sweeping(MaxRuns))[i + (1 + n)] = Sweeping(MaxRuns)[i]
  <2>1. Sweeping(MaxRuns) \in Seq(Statements) /\ Len(Sweeping(MaxRuns)) = 3
    BY <1>9, SweepingFacts
  <2> QED
    <3>1. PICK m : m \in Nat /\ m = 1 + n  BY <1>9
    <3>2. PICK k : k \in Nat /\ k = 3  OBVIOUS
    <3>3. Len(run \o each) = m /\ Len(Sweeping(MaxRuns)) = k
      BY <3>1, <3>2, <2>1, <1>8
    <3> DEFINE u == run \o each
               v == Sweeping(MaxRuns)
    <3>4. /\ u \in Seq(Statements) /\ v \in Seq(Statements) /\ Len(u) = m /\ Len(v) = k
          /\ m \in Nat /\ k \in Nat
      BY <2>1, <1>8, <3>1, <3>2, <3>3
    <3> HIDE DEF u, v
    <3>5. /\ u \o v \in Seq(Statements) /\ Len(u \o v) = m + k
          /\ \A i \in 1 .. m : (u \o v)[i] = u[i]
          /\ \A i \in 1 .. k : (u \o v)[i + m] = v[i]
      <4>1. Join(Statements, u, m, v, k)  BY ONLY <3>4, Joined
      <4> QED BY ONLY <4>1 DEF Join
    <3> QED BY <3>1, <3>2, <3>5 DEF u, v
<1>11. Exporting(r) = (run \o each) \o Sweeping(MaxRuns)
  BY <1>1 DEF Exporting, InsertTrace, run, each
<1>12. \A j \in 1 .. n : Exporting(r)[j + 1] = Statement("insert_span", {<<r, j>>})
  <2> TAKE j \in 1 .. n
  <2>1. j + 1 \in 1 .. 1 + n  BY <1>1
  <2> QED BY <2>1, <1>10, <1>11, <1>8, <1>7
<1>13. Exporting(r)[1] = Statement("insert_run", {r})
  <2>1. 1 \in 1 .. 1 + n /\ 1 \in 1 .. 1  BY <1>1
  <2> QED BY <2>1, <1>5, <1>8, <1>10, <1>11
<1>14. /\ 1 + (1 + n) = n + 2 /\ 2 + (1 + n) = n + 3 /\ 3 + (1 + n) = n + 4
       /\ 1 \in 1 .. 3 /\ 2 \in 1 .. 3 /\ 3 \in 1 .. 3 /\ (1 + n) + 3 = n + 4
  BY <1>1
<1>15. /\ Exporting(r)[n + 2] = Sweeping(MaxRuns)[1]
       /\ Exporting(r)[n + 3] = Sweeping(MaxRuns)[2]
       /\ Exporting(r)[n + 4] = Sweeping(MaxRuns)[3]
  BY <1>10, <1>11, <1>14
<1> QED BY <1>1, <1>9, <1>10, <1>11, <1>12, <1>13, <1>14, <1>15, SweepingFacts

-----------------------------------------------------------------------------
(* Nothing comes back: the invariant of the SQLite stores.                  *)

(* Whether a trace can only go. *)
LEMMA ShownFact ==
  \A r : r \in Shown <=> r \in sent /\ \A w \in DOMAIN active : active[w] # None => ~Awaits(active[w], r)
BY DEF Shown

(* Of the statements only an insertion adds a run. *)
LEMMA EffectRuns ==
  ASSUME NEW db, Shaped(db), NEW s, s.do \in Known
  PROVE  /\ Shaped(Effect(db, s))
         /\ s.do = "insert_run" => Effect(db, s).runs = db.runs \cup s.rows
         /\ s.do = "delete_runs" => Effect(db, s).runs = db.runs \ s.rows
         /\ s.do # "insert_run" => Effect(db, s).runs \subseteq db.runs
<1>1. CASE s.do = "insert_run"  BY <1>1 DEF Effect, Shaped
<1>2. CASE s.do = "insert_span"
  BY <1>2 DEF Effect, Shaped
<1>3. CASE s.do = "insert_tag"  BY <1>3 DEF Effect, Shaped
<1>4. CASE s.do = "insert_mark"
  BY <1>4 DEF Effect, Shaped
<1>5. CASE s.do = "delete_runs"  BY <1>5 DEF Effect, Shaped
<1>6. CASE s.do = "delete_spans"
  BY <1>6 DEF Effect, Shaped
<1>7. CASE s.do = "delete_marks"  BY <1>7 DEF Effect, Shaped
<1>8. CASE s.do = "unmark"
  BY <1>8 DEF Effect, Shaped
<1>9. CASE s.do = "delete_tag"  BY <1>9 DEF Effect, Shaped
<1>10. CASE s.do = "keep_newest"
  BY <1>10 DEF Effect, Shaped, Newest
<1>11. CASE s.do = "sweep_spans"  BY <1>11 DEF Effect, Shaped
<1>12. CASE s.do = "sweep_marks"
  BY <1>12 DEF Effect, Shaped
<1>13. CASE s.do = "copy_tag"  BY <1>13 DEF Effect, Shaped
<1>14. CASE s.do = "move_marks"
  BY <1>14 DEF Effect, Shaped
<1> QED
  BY <1>1, <1>2, <1>3, <1>4, <1>5, <1>6, <1>7, <1>8, <1>9, <1>10, <1>11, <1>12, <1>13, <1>14
     DEF Known, Kinds

(* The rest of a sequence. *)
LEMMA TailFacts ==
  ASSUME NEW S, NEW s \in Seq(S), s # <<>>
  PROVE  /\ Tail(s) \in Seq(S) /\ Len(s) \in Nat /\ Len(s) >= 1 /\ Len(Tail(s)) = Len(s) - 1
         /\ Head(s) = s[1]
         /\ \A i \in 1 .. Len(Tail(s)) : Tail(s)[i] = s[i + 1]
         /\ Tail(s) = <<>> <=> Len(s) = 1
<1>1. /\ Tail(s) \in Seq(S) /\ Len(Tail(s)) = Len(s) - 1
      /\ \A i \in 1 .. Len(Tail(s)) : Tail(s)[i] = s[i + 1]
  BY HeadTailProperties
<1>2. Len(s) \in Nat /\ Len(s) >= 1  BY LenProperties, EmptySeq
<1>3. Tail(s) = <<>> <=> Len(Tail(s)) = 0
  BY <1>1, EmptySeq
<1>4. Head(s) = s[1]  OBVIOUS
<1>5. Len(s) - 1 = 0 <=> Len(s) = 1  BY <1>2
<1> QED BY <1>1, <1>2, <1>3, <1>4, <1>5

(* A call's statements after the next. *)
LEMMA ProgrammedTail ==
  ASSUME NEW S, NEW op, NEW on, NEW rest \in Seq(S), rest # <<>>, Programmed(op, on, rest)
  PROVE  /\ Programmed(op, on, Tail(rest))
         /\ \A i \in 1 .. Len(Tail(rest)) : Tail(rest)[i].do # "insert_run"
         /\ Head(rest).do \in Known \/ (op = "tag" /\ Head(rest).do = "find")
         /\ Head(rest).do = "insert_run" => op = "export" /\ Head(rest).rows = on
         /\ op = "delete" /\ Tail(rest) = <<>> => Head(rest).do = "delete_runs" /\ Head(rest).rows = on
<1>1. PICK n : n \in Nat /\ n = Len(rest) /\ n >= 1
  BY TailFacts
<1>2. /\ Len(Tail(rest)) = n - 1 /\ Head(rest) = rest[1]
      /\ \A i \in 1 .. n - 1 : Tail(rest)[i] = rest[i + 1]
      /\ Tail(rest) = <<>> <=> n = 1
  BY <1>1, TailFacts
<1>3. /\ \A i \in 1 .. n :
           /\ rest[i].do \in Known \/ (op = "tag" /\ rest[i].do = "find")
           /\ rest[i].do = "insert_run" => i = 1 /\ op = "export" /\ rest[i].rows = on
      /\ op = "delete" => rest[n].do = "delete_runs" /\ rest[n].rows = on
  BY <1>1 DEF Programmed
<1>4. \A i \in 1 .. n - 1 : i + 1 \in 1 .. n /\ i + 1 # 1
  BY ONLY <1>1, n \in Nat
<1>5. \A i \in 1 .. n - 1 : /\ Tail(rest)[i].do \in Known \/ (op = "tag" /\ Tail(rest)[i].do = "find")
                            /\ Tail(rest)[i].do # "insert_run"
  BY ONLY <1>2, <1>3, <1>4
<1>6. Tail(rest) # <<>> /\ op = "delete" =>
        Tail(rest)[n - 1].do = "delete_runs" /\ Tail(rest)[n - 1].rows = on
  <2>1. n # 1 => n - 1 \in 1 .. n - 1 /\ n - 1 + 1 = n
    BY ONLY <1>1
  <2> QED BY ONLY <1>2, <1>3, <2>1
<1>7. 1 \in 1 .. n  BY ONLY <1>1
<1> QED BY ONLY <1>2, <1>3, <1>5, <1>6, <1>7 DEF Programmed

(* What a call of worker w leaves of the others' guarantees. *)
LEMMA ShownGrows ==
  ASSUME NEW W, Alike(W), NEW w \in W, NEW c, active' = [active EXCEPT ![w] = c],
         sent \subseteq sent',
         \A r \in Shown : c # None => ~Awaits(c, r)
  PROVE  Shown \subseteq Shown'
<1> SUFFICES ASSUME NEW r \in Shown PROVE r \in Shown'  OBVIOUS
<1>1. DOMAIN active = W /\ DOMAIN active' = W /\ active'[w] = c
      /\ \A u \in W : u # w => active'[u] = active[u]
  BY DEF Alike
<1>2. r \in sent /\ \A u \in W : active[u] # None => ~Awaits(active[u], r)
  BY <1>1, ShownFact
<1>3. \A u \in W : active'[u] # None => ~Awaits(active'[u], r)
  BY <1>1, <1>2
<1>4. r \in sent'  BY <1>2
<1> QED BY <1>1, <1>3, <1>4 DEF Shown, Awaits

(* What a statement says. *)
LEMMA StatementFields == \A do, x : Statement(do, x).do = do /\ Statement(do, x).rows = x
BY DEF Statement

LEMMA SeqWider == \A S, T : \A s \in Seq(S) : s \in Seq(S \cup T)
OBVIOUS

(* The elements of a finite set in some order. *)
LEMMA InOrderFacts ==
  ASSUME NEW S, IsFiniteSet(S)
  PROVE  \E k \in Nat : InOrder(S) \in [1 .. k -> S]
<1> DEFINE k == Cardinality(S)
<1>1. k \in Nat /\ ExistsBijection(1 .. k, S)  BY FS_CardinalityType
<1>2. PICK f \in Bijection(1 .. k, S) : TRUE
  BY <1>1 DEF ExistsBijection
<1>3. f \in [1 .. k -> S] /\ IsInjective(f)
  BY <1>2 DEF Bijection, Injection, IsInjective
<1>4. InOrder(S) \in [1 .. k -> S]
  <2>1. f \in Orders(S)
    BY <1>1, <1>3 DEF Orders, IsInjective
  <2>2. InOrder(S) \in Orders(S)  BY <2>1 DEF InOrder
  <2> QED BY <2>2 DEF Orders
<1> QED BY <1>1, <1>4

(* The programs of the other calls are of this kind. *)
LEMMA QuietProgrammed ==
  ASSUME NEW op, NEW prog, Quiet(op, prog), NEW on, op # "delete"
  PROVE  Programmed(op, on, prog)
BY DEF Quiet, Programmed

LEMMA OneQuiet ==
  ASSUME NEW do \in Known, do # "insert_run", NEW x \in Rows \cup Nat
  PROVE  \A op : Quiet(op, <<Statement(do, x)>>)
<1>1. Statement(do, x) \in Statements \cup Alone!Finds /\ Statement(do, x).do = do
  BY StatementFact DEF Known
<1> DEFINE s == Statement(do, x)
<1> HIDE DEF s
<1>2. <<s>> \in Seq(Statements \cup Alone!Finds) /\ Len(<<s>>) = 1 /\ <<s>>[1] = s
  BY <1>1, Tuples DEF s
<1>3. s.do \in Known /\ s.do # "insert_run"  BY <1>1 DEF s
<1> QED BY <1>2, <1>3 DEF Quiet, s

LEMMA QuietPrograms ==
  /\ \A n \in Nat : \A op : Quiet(op, Sweeping(n))
  /\ \A o, n \in Tags : \A op : Quiet(op, Renaming(o, n))
  /\ \A t \in Tags : \A op : Quiet(op, Dropping(t))
  /\ \A R \in SUBSET Traces, t \in Tags : \A op : Quiet(op, <<Statement("unmark", R \X {t})>>)
  /\ \A t \in Tags : \A op : Quiet(op, <<Statement("insert_tag", {t})>>)
<1>1. ASSUME NEW n \in Nat PROVE \A op : Quiet(op, Sweeping(n))
  <2> DEFINE p == Sweeping(n)
  <2>1. /\ p \in Seq(Statements) /\ Len(p) = 3 /\ p[1].do = "keep_newest"
        /\ p[2].do = "sweep_spans" /\ p[3].do = "sweep_marks"
    BY ONLY SweepingFacts, StatementFields, n \in Nat
  <2> HIDE DEF p
  <2>2. \A i \in 1 .. Len(p) : p[i].do \in Known /\ p[i].do # "insert_run"
    <3>1. \A i \in 1 .. Len(p) : i = 1 \/ i = 2 \/ i = 3
      BY <2>1
    <3> QED BY ONLY <2>1, <3>1 DEF Known, Kinds
  <2> QED BY <2>1, <2>2, SeqWider DEF Quiet, p
<1>2. ASSUME NEW o \in Tags, NEW n \in Tags PROVE \A op : Quiet(op, Renaming(o, n))
  <2> DEFINE p == Renaming(o, n)
  <2>1. /\ p \in Seq(Statements) /\ Len(p) = 3 /\ p[1].do = "copy_tag"
        /\ p[2].do = "move_marks" /\ p[3].do = "delete_tag"
    <3>1. /\ p \in Seq(Statements) /\ Len(p) = 3
          /\ p[1] = Statement("copy_tag", {<<o, n>>})
          /\ p[2] = Statement("move_marks", {<<o, n>>})
          /\ p[3] = Statement("delete_tag", {o})
      BY RenamingFacts
    <3> HIDE DEF p
    <3> QED BY ONLY <3>1, StatementFields
  <2> HIDE DEF p
  <2>2. \A i \in 1 .. Len(p) : p[i].do \in Known /\ p[i].do # "insert_run"
    <3>1. \A i \in 1 .. Len(p) : i = 1 \/ i = 2 \/ i = 3
      BY <2>1
    <3> QED BY ONLY <2>1, <3>1 DEF Known, Kinds
  <2> QED BY <2>1, <2>2, SeqWider DEF Quiet, p
<1>3. ASSUME NEW t \in Tags PROVE \A op : Quiet(op, Dropping(t))
  <2> DEFINE p == Dropping(t)
  <2>1. p \in Seq(Statements) /\ Len(p) = 2 /\ p[1].do = "unmark" /\ p[2].do = "delete_tag"
    <3>1. /\ p \in Seq(Statements) /\ Len(p) = 2
          /\ p[1] = Statement("unmark", Traces \X {t})
          /\ p[2] = Statement("delete_tag", {t})
      BY DroppingFacts
    <3> HIDE DEF p
    <3> QED BY ONLY <3>1, StatementFields
  <2> HIDE DEF p
  <2>2. \A i \in 1 .. Len(p) : p[i].do \in Known /\ p[i].do # "insert_run"
    <3>1. \A i \in 1 .. Len(p) : i = 1 \/ i = 2  BY <2>1
    <3> QED BY ONLY <2>1, <3>1 DEF Known, Kinds
  <2> QED BY <2>1, <2>2, SeqWider DEF Quiet, p
<1>4. ASSUME NEW R \in SUBSET Traces, NEW t \in Tags PROVE \A op : Quiet(op, <<Statement("unmark", R \X {t})>>)
  <2>1. R \X {t} \in SUBSET (Traces \X Tags)  OBVIOUS
  <2>2. R \X {t} \in Rows  BY <2>1, RowsFact
  <2> QED BY <2>2, OneQuiet DEF Known, Kinds
<1>5. ASSUME NEW t \in Tags PROVE \A op : Quiet(op, <<Statement("insert_tag", {t})>>)
  <2>1. {t} \in Rows  BY RowsFact
  <2> QED BY <2>1, OneQuiet DEF Known, Kinds
<1> QED BY <1>1, <1>2, <1>3, <1>4, <1>5

LEMMA QuietFinds ==
  ASSUME NEW R \in SUBSET Traces, NEW t \in Tags
  PROVE  Quiet("tag", InOrder({[do |-> "find", rows |-> {r}, tag |-> t] : r \in R}))
<1> DEFINE F == {[do |-> "find", rows |-> {r}, tag |-> t] : r \in R}
<1>1. F \subseteq Alone!Finds /\ \A f \in F : f.do = "find"
  BY CallsFact
<1>2. IsFiniteSet(F)
  <2>1. IsFiniteSet(R)  BY StoresAssumption, FS_Subset
  <2> DEFINE g == [r \in R |-> [do |-> "find", rows |-> {r}, tag |-> t]]
  <2>2. g \in [R -> F] /\ \A f \in F : \E r \in R : g[r] = f  OBVIOUS
  <2> HIDE DEF g, F
  <2>3. g \in Surjection(R, F)  BY <2>2 DEF Surjection
  <2> QED BY <2>1, <2>3, FS_Surjection
<1> HIDE DEF F
<1>3. PICK k \in Nat : InOrder(F) \in [1 .. k -> F]
  BY <1>2, InOrderFacts
<1>4. InOrder(F) \in Seq(F) /\ Len(InOrder(F)) = k /\ \A i \in 1 .. k : InOrder(F)[i] \in F
  BY <1>3, FunctionSeq
<1>5. InOrder(F) \in Seq(Statements \cup Alone!Finds)
  BY <1>1, <1>4
<1> QED BY <1>1, <1>4, <1>5 DEF Quiet, F

(* The statements of a tagging, the runs in some order. *)
LEMMA AssignFacts ==
  ASSUME NEW R \in SUBSET Traces, NEW t \in Tags, NEW k \in Nat, NEW s \in [1 .. k -> R]
  PROVE  /\ AssignTag(s, t) \in Seq(Statements)
         /\ \A i \in 1 .. Len(AssignTag(s, t)) : AssignTag(s, t)[i].do \in {"insert_tag", "insert_mark"}
<1>3. DOMAIN s = 1 .. k  OBVIOUS
<1> DEFINE first == <<Statement("insert_tag", {t})>>
           marks == [i \in 1 .. k |-> Statement("insert_mark", {<<s[i], t>>})]
           W == Statements
<1>4. first \in Seq(W) /\ Len(first) = 1 /\ first[1].do = "insert_tag"
  <2>1. {t} \in Rows  BY RowsFact
  <2>2. Statement("insert_tag", {t}) \in W /\ Statement("insert_tag", {t}).do = "insert_tag"
    BY <2>1, StatementFact DEF Kinds
  <2> HIDE DEF W
  <2> QED BY <2>2, Tuples
<1>5. marks \in Seq(W) /\ Len(marks) = k /\ \A i \in 1 .. k : marks[i].do = "insert_mark"
  <2>1. \A i \in 1 .. k : {<<s[i], t>>} \in Rows
    <3>1. \A i \in 1 .. k : {<<s[i], t>>} \in SUBSET (Traces \X Tags)
      BY <1>3
    <3> QED BY <3>1, RowsFact
  <2>2. \A i \in 1 .. k : /\ Statement("insert_mark", {<<s[i], t>>}) \in Statements
                          /\ Statement("insert_mark", {<<s[i], t>>}).do = "insert_mark"
    BY <2>1, StatementFact DEF Kinds
  <2>3. marks \in [1 .. k -> Statements]  BY <2>2
  <2>4. \A i \in 1 .. k : marks[i].do = "insert_mark"
    BY <2>2
  <2> HIDE DEF marks
  <2>5. marks \in Seq(Statements) /\ Len(marks) = k
    BY <2>3, FunctionSeq
  <2> QED BY <2>4, <2>5
<1>6. AssignTag(s, t) = first \o marks  BY <1>3 DEF AssignTag
<1> HIDE DEF first, marks, W
<1>7. PICK m : m \in Nat /\ m = 1  OBVIOUS
<1>8. first \in Seq(W) /\ Len(first) = m /\ m \in Nat /\ marks \in Seq(W) /\ Len(marks) = k
  BY <1>4, <1>5, <1>7
<1>9. /\ first \o marks \in Seq(W) /\ Len(first \o marks) = m + k
      /\ \A i \in 1 .. m : (first \o marks)[i] = first[i]
      /\ \A i \in 1 .. k : (first \o marks)[i + m] = marks[i]
  <2>1. PICK f : f = first \o marks  OBVIOUS
  <2>2. f \in Seq(W) /\ Len(f) = m + k
    <3>1. f \in Seq(W) /\ Len(f) = Len(first) + Len(marks)
      <4>1. first \in Seq(W) /\ marks \in Seq(W)  BY <1>8
      <4> QED BY ONLY <4>1, <2>1
    <3> QED BY ONLY <1>8, <3>1
  <2>3. \A i \in 1 .. Len(first) + Len(marks) : f[i] = IF i <= Len(first) THEN first[i] ELSE marks[i - Len(first)]
    <3>1. first \in Seq(W) /\ marks \in Seq(W)  BY <1>8
    <3> QED BY ONLY <3>1, <2>1
  <2>4. \A i \in 1 .. m + k : f[i] = IF i <= m THEN first[i] ELSE marks[i - m]
    BY ONLY <1>8, <2>3
  <2>5. \A i \in 1 .. m : f[i] = first[i]  BY ONLY <2>4, <1>8, k \in Nat
  <2>6. ASSUME NEW i \in 1 .. k PROVE f[i + m] = marks[i]
    <3>1. PICK j : j = i + m  OBVIOUS
    <3>2. j \in 1 .. m + k /\ ~(j <= m) /\ j - m = i
      BY ONLY <1>7, <3>1, k \in Nat, i \in 1 .. k
    <3>3. f[j] = IF j <= m THEN first[j] ELSE marks[j - m]
      BY ONLY <2>4, <3>2
    <3> QED BY ONLY <3>1, <3>2, <3>3
  <2> QED BY ONLY <2>1, <2>2, <2>5, <2>6
<1>10. \A i \in 1 .. m + k : (first \o marks)[i].do \in {"insert_tag", "insert_mark"}
  <2> TAKE i \in 1 .. m + k
  <2>1. i \in 1 .. m \/ (i - m \in 1 .. k /\ (i - m) + m = i)
    BY ONLY <1>7, k \in Nat, i \in 1 .. m + k
  <2>2. CASE i \in 1 .. m
    <3>1. i = 1  BY <1>7, <2>2
    <3> QED BY ONLY <1>4, <1>9, <2>2, <3>1
  <2>3. CASE i - m \in 1 .. k /\ (i - m) + m = i
    <3>1. PICK j \in 1 .. k : j + m = i  BY <2>3
    <3> QED BY ONLY <1>5, <1>9, <3>1
  <2> QED BY ONLY <2>1, <2>2, <2>3
<1> QED BY <1>6, <1>9, <1>10 DEF W

LEMMA QuietAssign ==
  ASSUME NEW R \in SUBSET Traces, NEW t \in Tags
  PROVE  Quiet("tag", AssignTag(InOrder(R), t))
<1>1. IsFiniteSet(R)  BY StoresAssumption, FS_Subset
<1>2. PICK k \in Nat : InOrder(R) \in [1 .. k -> R]
  BY <1>1, InOrderFacts
<1> DEFINE p == AssignTag(InOrder(R), t)
<1>3. p \in Seq(Statements) /\ \A i \in 1 .. Len(p) : p[i].do \in {"insert_tag", "insert_mark"}
  BY <1>2, AssignFacts
<1> HIDE DEF p
<1> QED BY <1>3, SeqWider DEF Quiet, Known, Kinds, p

(* The programs that are not quiet. *)
LEMMA ExportProgrammed ==
  ASSUME NEW r \in Traces
  PROVE  /\ Exporting(r) \in Seq(Statements \cup Alone!Finds)
         /\ Programmed("export", {r}, Exporting(r))
<1> DEFINE p == Exporting(r)
<1>1. PICK n : n \in Nat /\ n = SpansOf[r]  BY ExportingFacts
<1>2. /\ p \in Seq(Statements) /\ Len(p) = n + 4
      /\ p[1].do = "insert_run" /\ p[1].rows = {r}
      /\ \A j \in 1 .. n : p[j + 1].do = "insert_span"
      /\ p[n + 2].do = "keep_newest" /\ p[n + 3].do = "sweep_spans" /\ p[n + 4].do = "sweep_marks"
  <2>1. /\ p \in Seq(Statements) /\ Len(p) = n + 4
        /\ p[1] = Statement("insert_run", {r})
        /\ \A j \in 1 .. n : p[j + 1] = Statement("insert_span", {<<r, j>>})
        /\ p[n + 2] = Statement("keep_newest", MaxRuns)
        /\ p[n + 3] = Statement("sweep_spans", {})
        /\ p[n + 4] = Statement("sweep_marks", {})
    BY <1>1, ExportingFacts
  <2> HIDE DEF p
  <2>2. /\ p[1].do = "insert_run" /\ p[1].rows = {r}
        /\ p[n + 2].do = "keep_newest" /\ p[n + 3].do = "sweep_spans" /\ p[n + 4].do = "sweep_marks"
    BY ONLY <2>1, StatementFields
  <2>3. \A j \in 1 .. n : p[j + 1].do = "insert_span"
    BY ONLY <2>1, StatementFields
  <2> QED BY ONLY <2>1, <2>2, <2>3
<1> HIDE DEF p
<1>3. \A i \in 1 .. n + 4 : \/ i = 1 \/ (i - 1 \in 1 .. n /\ (i - 1) + 1 = i)
                            \/ i = n + 2 \/ i = n + 3 \/ i = n + 4
  BY <1>1
<1>4. \A i \in 1 .. n + 4 : /\ p[i].do \in Known
                            /\ p[i].do = "insert_run" => i = 1
  BY ONLY <1>2, <1>3 DEF Known, Kinds
<1> QED BY <1>2, <1>4, SeqWider DEF Programmed, p

LEMMA DeleteProgrammed ==
  ASSUME NEW R \in SUBSET Traces
  PROVE  /\ DeleteRuns(R) \in Seq(Statements \cup Alone!Finds)
         /\ Programmed("delete", R, DeleteRuns(R)) /\ DeleteRuns(R) # <<>>
         /\ Head(DeleteRuns(R)).do # "insert_run"
<1> DEFINE p == DeleteRuns(R)
<1>1. /\ p \in Seq(Statements) /\ Len(p) = 3
      /\ p[1].do = "delete_spans" /\ p[2].do = "delete_marks"
      /\ p[3].do = "delete_runs" /\ p[3].rows = R
  BY ONLY DeleteFacts, StatementFields, R \in SUBSET Traces
<1> HIDE DEF p
<1>2. \A i \in 1 .. Len(p) : p[i].do \in Known /\ p[i].do # "insert_run"
  <2>1. \A i \in 1 .. Len(p) : i = 1 \/ i = 2 \/ i = 3
    BY <1>1
  <2> QED BY ONLY <1>1, <2>1 DEF Known, Kinds
<1>3. p # <<>> /\ Head(p) = p[1]
  <2>1. p = <<>> => Len(p) = 0  BY EmptySeq
  <2>2. p # <<>>
    BY ONLY <1>1, <2>1
  <2> QED BY ONLY <1>1, <2>2, TailFacts
<1> QED BY <1>1, <1>2, <1>3, SeqWider DEF Programmed, p

LEMMA QuietHead ==
  ASSUME NEW op, NEW prog, Quiet(op, prog), prog # <<>>
  PROVE  Head(prog).do # "insert_run"
<1>1. Len(prog) >= 1 /\ Len(prog) \in Nat /\ Head(prog) = prog[1]
  BY TailFacts DEF Quiet
<1>2. 1 \in 1 .. Len(prog)  BY <1>1
<1> QED BY <1>1, <1>2 DEF Quiet

(* What the type says of one call. *)
LEMMA CallFields ==
  \A c \in Alone!Calls : /\ c.rest \in Seq(Statements \cup Alone!Finds) /\ c.on \in SUBSET Traces
                         /\ c.op \in Methods /\ c.raising \in BOOLEAN /\ c # None
BY CallsFact, StoresAssumption

(* The invariant after such a step. *)
LEMMA CallTurns ==
  ASSUME NEW W, SQLiteInv(W), NEW w \in W, NEW c, Turns(W, w, c)
  PROVE  SQLiteInv(W)' /\ Shown \subseteq Shown'
<1> USE DEF Turns
<1> USE DEF SQLiteInv
<1>1. Shown \subseteq Shown'  BY ShownGrows
<1>2. /\ active' \in [W -> Alone!Calls \cup {None}] /\ active'[w] = c
      /\ \A u \in W : u # w => active'[u] = active[u]
  BY DEF Alike
<1>3. Alike(W)'  BY <1>2 DEF Alike, Shaped
<1>4. ASSUME NEW u \in W, active'[u] # None PROVE CallKept(active[u])'
  <2>1. CASE u = w
    <3>1. c # None /\ active'[u] = c  BY <2>1, <1>2, <1>4
    <3>2. (c.op = "delete" => c.on \subseteq Shown')
      BY <3>1, <1>1
    <3>3. /\ Programmed(c.op, c.on, c.rest)
          /\ c.op = "export" => c.on \subseteq sent'
          /\ c.op = "delete" /\ c.rest = <<>> => c.on \cap conn'.runs = {}
          /\ c.raising => c.op = "export"
      BY <3>1
    <3> HIDE DEF Shown
    <3> QED BY <3>1, <3>2, <3>3 DEF CallKept, Programmed
  <2>2. CASE u # w
    <3>1. active'[u] = active[u] /\ active[u] # None
      BY <2>2, <1>2, <1>4
    <3>2. CallKept(active[u])  BY <3>1 DEF NoneBack
    <3> DEFINE d == active[u]
    <3>3. /\ Programmed(d.op, d.on, d.rest)
          /\ d.op = "export" => d.on \subseteq sent'
          /\ d.op = "delete" => d.on \subseteq Shown'
          /\ d.op = "delete" /\ d.rest = <<>> => d.on \cap conn'.runs = {}
          /\ d.raising => d.op = "export"
      BY <3>2, <1>1 DEF CallKept
    <3>4. active'[u] = d  BY <3>1
    <3> HIDE DEF d
    <3> QED BY <3>3, <3>4 DEF CallKept, Programmed
  <2> QED BY <2>1, <2>2
<1>5. ASSUME NEW u \in W, NEW v \in W, NEW r \in Traces, Exports(u, r)', Exports(v, r)'
      PROVE  u = v
  <2>1. /\ active'[u] # None /\ active'[u].op = "export" /\ r \in active'[u].on
        /\ active'[v] # None /\ active'[v].op = "export" /\ r \in active'[v].on
    BY <1>5 DEF Exports
  <2>2. CASE u # w /\ v # w
    BY <2>1, <2>2, <1>2 DEF NoneBack, Exports
  <2>3. CASE u = w /\ v # w  BY <2>1, <2>3, <1>2 DEF Exports
  <2>4. CASE u # w /\ v = w
    BY <2>1, <2>4, <1>2 DEF Exports
  <2> QED BY <2>2, <2>3, <2>4
<1>6. /\ gone' \cup failed' \subseteq Shown'
      /\ conn'.runs \cup disk'.runs \subseteq Shown'
  BY <1>1
<1>7. \A r \in gone' \cup failed' : r \notin conn'.runs /\ r \notin disk'.runs  OBVIOUS
<1>8. NoneBack(W)'
  BY <1>4, <1>5, <1>6, <1>7 DEF NoneBack
<1> QED BY <1>1, <1>3, <1>8

LEMMA QuietAwaits ==
  ASSUME NEW c, NEW op, Quiet(op, c.rest)
  PROVE  \A r : ~Awaits(c, r)
BY QuietHead DEF Awaits

LEMMA CallFact ==
  \A op, on, rest :
    /\ Alone!Call(op, on, rest).op = op /\ Alone!Call(op, on, rest).on = on
    /\ Alone!Call(op, on, rest).rest = rest /\ Alone!Call(op, on, rest).raising = FALSE
    /\ op \in Methods /\ on \in SUBSET Traces /\ rest \in Seq(Statements \cup Alone!Finds) =>
         Alone!Call(op, on, rest) \in Alone!Calls
BY CallsFact DEF Alone!Call

LEMMA ExportTurn ==
  ASSUME NEW W, SQLiteInv(W), NEW w \in W, NEW r \in Traces, Alone!Export(w, r)
  PROVE  SQLiteInv(W)' /\ Shown \subseteq Shown'
<1> DEFINE c == Alone!Call("export", {r}, Exporting(r))
<1>1. /\ c \in Alone!Calls /\ c.op = "export" /\ c.on = {r} /\ c.rest = Exporting(r) /\ c.raising = FALSE
  <2>1. {r} \in SUBSET Traces /\ "export" \in Methods
    BY DEF Methods
  <2> QED BY <2>1, ExportProgrammed, CallFact
<1>2. /\ active[w] = None /\ r \notin sent /\ active' = [active EXCEPT ![w] = c]
      /\ sent' = sent \cup {r} /\ UNCHANGED <<disk, conn, stored, failed, asked, gone>>
  BY SameTerms DEF Alone!Export
<1> HIDE DEF c
<1>3. \A s \in Shown : s \in sent /\ ~Awaits(c, s)
  BY <1>1, <1>2, ShownFact DEF Awaits
<1>4. Programmed(c.op, c.on, c.rest)  BY <1>1, ExportProgrammed
<1>5. \A u \in W, s \in Traces : u # w /\ c # None /\ c.op = "export" /\ s \in c.on => ~Exports(u, s)
  BY <1>1, <1>2 DEF SQLiteInv, NoneBack, Exports, CallKept
<1>6. /\ gone \cup failed \subseteq Shown /\ conn.runs \cup disk.runs \subseteq Shown
      /\ \A s \in gone \cup failed : s \notin conn.runs /\ s \notin disk.runs
      /\ Shaped(disk) /\ Shaped(conn) /\ sent \in SUBSET Traces
  BY DEF SQLiteInv, NoneBack, Alike
<1>7. Shaped(disk') /\ Shaped(conn')  BY <1>2, <1>6 DEF Shaped
<1>8. /\ sent' \in SUBSET Traces /\ sent \subseteq sent' /\ c.on \subseteq sent'
      /\ gone' = gone /\ failed' = failed /\ conn' = conn /\ disk' = disk
  BY <1>1, <1>2, <1>6
<1>9. Shown \subseteq Shown' =>
        /\ gone' \cup failed' \subseteq Shown'
        /\ conn'.runs \cup disk'.runs \subseteq Shown'
        /\ c # None /\ c.op = "delete" => c.on \subseteq Shown'
  BY <1>1, <1>6, <1>8
<1>10. /\ c # None => /\ Programmed(c.op, c.on, c.rest)
                      /\ c.op = "export" => c.on \subseteq sent'
                      /\ c.op = "delete" /\ c.rest = <<>> => c.on \cap conn'.runs = {}
                      /\ c.raising => c.op = "export"
       /\ \A s \in gone' \cup failed' : s \notin conn'.runs /\ s \notin disk'.runs
       /\ \A s \in conn'.runs : s \in Shown => s \in conn.runs
       /\ c \in Alone!Calls \cup {None}
  BY <1>1, <1>4, <1>6, <1>8
<1> HIDE DEF SQLiteInv
<1> QED
  <2>1. Turns(W, w, c)
    BY <1>2, <1>3, <1>5, <1>7, <1>8, <1>9, <1>10 DEF Turns
  <2> QED BY <2>1, CallTurns

(* An instance's copy of the operator. *)
LEMMA SameSequence == \A S : Alone!InOrder(S) = InOrder(S)
<1>1. \A S : Alone!Cardinality(S) = Cardinality(S)
  BY DEF Alone!Cardinality, Cardinality
<1> QED BY <1>1 DEF Alone!InOrder, InOrder, Alone!Orders, Orders

(* The invariant, taken apart. *)
LEMMA KeptFacts ==
  ASSUME NEW W, SQLiteInv(W)
  PROVE  /\ gone \cup failed \subseteq Shown /\ conn.runs \cup disk.runs \subseteq Shown
         /\ \A r \in gone \cup failed : r \notin conn.runs /\ r \notin disk.runs
         /\ Shaped(disk) /\ Shaped(conn) /\ sent \in SUBSET Traces /\ Shown \subseteq sent
         /\ active \in [W -> Alone!Calls \cup {None}]
         /\ \A w \in W : active[w] # None => CallKept(active[w]) /\ active[w] \in Alone!Calls
         /\ \A w, u \in W, r \in Traces : Exports(w, r) /\ Exports(u, r) => w = u
<1>1. \A w \in W : active[w] # None => active[w] \in Alone!Calls
  BY DEF SQLiteInv, Alike
<1>2. Shown \subseteq sent  BY ShownFact
<1> QED BY <1>1, <1>2 DEF SQLiteInv, Alike, NoneBack

(* A step that leaves the tables alone. *)
LEMMA Unwritten ==
  ASSUME NEW W, SQLiteInv(W), NEW w \in W, NEW c \in Alone!Calls \cup {None},
         active' = [active EXCEPT ![w] = c],
         disk' = disk, conn' = conn, sent' = sent, gone' = gone, failed' = failed,
         c # None => /\ \A r \in Shown : ~Awaits(c, r)
                     /\ Programmed(c.op, c.on, c.rest)
                     /\ c.op = "export" => \A r \in c.on : Exports(w, r)
                     /\ c.op = "delete" => c.on \subseteq Shown
                     /\ c.op = "delete" /\ c.rest = <<>> => c.on \cap conn.runs = {}
                     /\ c.raising => c.op = "export"
  PROVE  SQLiteInv(W)' /\ Shown \subseteq Shown'
<1>1. /\ gone \cup failed \subseteq Shown /\ conn.runs \cup disk.runs \subseteq Shown
      /\ \A r \in gone \cup failed : r \notin conn.runs /\ r \notin disk.runs
      /\ Shaped(disk) /\ Shaped(conn) /\ sent \in SUBSET Traces
  BY KeptFacts
<1>2. \A u \in W, r \in Traces : u # w /\ c # None /\ c.op = "export" /\ r \in c.on => ~Exports(u, r)
  BY KeptFacts
<1>3. c # None /\ c.op = "export" => c.on \subseteq sent
  BY KeptFacts DEF Exports, CallKept
<1>4. Shaped(disk') /\ Shaped(conn')  BY <1>1 DEF Shaped
<1>5. Turns(W, w, c)
  BY <1>1, <1>2, <1>3, <1>4 DEF Turns
<1> QED BY <1>5, CallTurns

(* The calls that begin. *)
LEMMA QuietBegins ==
  ASSUME NEW W, SQLiteInv(W), NEW w \in W, NEW op \in Methods \ {"export", "delete"},
         NEW on \in SUBSET Traces, NEW prog, Quiet(op, prog), Alone!Begin(w, op, on, prog)
  PROVE  SQLiteInv(W)'
<1> DEFINE c == Alone!Call(op, on, prog)
<1>1. c \in Alone!Calls /\ c.op = op /\ c.on = on /\ c.rest = prog /\ c.raising = FALSE
  BY CallFact DEF Quiet
<1>2. active' = [active EXCEPT ![w] = c]
      /\ disk' = disk /\ conn' = conn /\ sent' = sent /\ gone' = gone /\ failed' = failed
  BY DEF Alone!Begin
<1> HIDE DEF c
<1>3. Programmed(c.op, c.on, c.rest) /\ (\A r \in Shown : ~Awaits(c, r))
  BY <1>1, QuietProgrammed, QuietAwaits
<1> QED BY <1>1, <1>2, <1>3, Unwritten

LEMMA DeleteTurn ==
  ASSUME NEW W, SQLiteInv(W), NEW w \in W, NEW R \in SUBSET conn.runs, Alone!Delete(w, R)
  PROVE  SQLiteInv(W)'
<1>1. R \subseteq Shown /\ R \in SUBSET Traces  BY KeptFacts
<1> DEFINE c == Alone!Call("delete", R, DeleteRuns(R))
<1>2. /\ c \in Alone!Calls /\ c.op = "delete" /\ c.on = R /\ c.rest = DeleteRuns(R) /\ c.raising = FALSE
  BY <1>1, CallFact, DeleteProgrammed DEF Methods
<1>3. /\ active' = [active EXCEPT ![w] = c]
      /\ disk' = disk /\ conn' = conn /\ sent' = sent /\ gone' = gone /\ failed' = failed
  BY SameTerms DEF Alone!Delete, Alone!Begin
<1> HIDE DEF c
<1>4. /\ Programmed(c.op, c.on, c.rest) /\ (\A r \in Shown : ~Awaits(c, r)) /\ c.rest # <<>>
  BY <1>1, <1>2, DeleteProgrammed DEF Awaits
<1> QED BY <1>1, <1>2, <1>3, <1>4, Unwritten

(* The other calls begin with a program that inserts no run. *)
LEMMA OtherBegins ==
  ASSUME NEW W, SQLiteInv(W), NEW w \in W,
         \/ \E n \in 0 .. MaxRuns : Alone!PruneTo(w, n)
         \/ \E R \in SUBSET Traces, t \in Tags : Alone!TagRuns(w, R, t) \/ Alone!UntagRuns(w, R, t)
         \/ \E o, n \in Tags : Alone!RenameTag(w, o, n)
         \/ \E t \in Tags : Alone!SetTagColor(w, t) \/ Alone!DeleteTag(w, t)
  PROVE  SQLiteInv(W)'
<1> USE DEF Methods
<1>1. ASSUME NEW n \in 0 .. MaxRuns, Alone!PruneTo(w, n) PROVE SQLiteInv(W)'
  <2>1. n \in Nat  BY StoresAssumption
  <2>2. Quiet("prune", Sweeping(n)) /\ Alone!Begin(w, "prune", {}, Sweeping(n))
    BY <1>1, <2>1, QuietPrograms, SameTerms DEF Alone!PruneTo
  <2> QED BY <2>2, QuietBegins
<1>2. ASSUME NEW R \in SUBSET Traces, NEW t \in Tags, Alone!TagRuns(w, R, t) PROVE SQLiteInv(W)'
  <2> DEFINE p == InOrder({[do |-> "find", rows |-> {r}, tag |-> t] : r \in R})
  <2>1. Quiet("tag", p) /\ Alone!Begin(w, "tag", R, p)
    BY <1>2, QuietFinds, SameSequence DEF Alone!TagRuns
  <2> HIDE DEF p
  <2> QED BY <2>1, QuietBegins
<1>3. ASSUME NEW R \in SUBSET Traces, NEW t \in Tags, Alone!UntagRuns(w, R, t) PROVE SQLiteInv(W)'
  <2> DEFINE p == <<Statement("unmark", R \X {t})>>
  <2>1. Quiet("untag", p) /\ Alone!Begin(w, "untag", R, p)
    BY <1>3, QuietPrograms, SameTerms DEF Alone!UntagRuns
  <2> HIDE DEF p
  <2> QED BY <2>1, QuietBegins
<1>4. ASSUME NEW o \in Tags, NEW n \in Tags, Alone!RenameTag(w, o, n) PROVE SQLiteInv(W)'
  <2>1. Quiet("rename", Renaming(o, n)) /\ Alone!Begin(w, "rename", {}, Renaming(o, n))
    BY <1>4, QuietPrograms, SameTerms DEF Alone!RenameTag
  <2> QED BY <2>1, QuietBegins
<1>5. ASSUME NEW t \in Tags, Alone!SetTagColor(w, t) PROVE SQLiteInv(W)'
  <2> DEFINE p == <<Statement("insert_tag", {t})>>
  <2>1. Quiet("color", p) /\ Alone!Begin(w, "color", {}, p)
    BY <1>5, QuietPrograms, SameTerms DEF Alone!SetTagColor
  <2> HIDE DEF p
  <2> QED BY <2>1, QuietBegins
<1>6. ASSUME NEW t \in Tags, Alone!DeleteTag(w, t) PROVE SQLiteInv(W)'
  <2>1. Quiet("delete_tag", Dropping(t)) /\ Alone!Begin(w, "delete_tag", {}, Dropping(t))
    BY <1>6, QuietPrograms, SameTerms DEF Alone!DeleteTag, Dropping
  <2> QED BY <2>1, QuietBegins
<1> QED BY <1>1, <1>2, <1>3, <1>4, <1>5, <1>6

(* Only an export waits to insert. *)
LEMMA AwaitsExports ==
  ASSUME NEW c \in Alone!Calls, Programmed(c.op, c.on, c.rest), NEW r, Awaits(c, r)
  PROVE  c.op = "export"
<1> DEFINE p == c.rest
<1>1. p \in Seq(Statements \cup Alone!Finds) /\ p # <<>> /\ Head(p).do = "insert_run"
  BY CallFields DEF Awaits
<1>2. \A i \in 1 .. Len(p) : p[i].do = "insert_run" => c.op = "export"
  BY DEF Programmed
<1> HIDE DEF p
<1>3. Len(p) >= 1 /\ Len(p) \in Nat /\ Head(p) = p[1]
  BY ONLY <1>1, TailFacts
<1>4. 1 \in 1 .. Len(p)  BY ONLY <1>3
<1> QED BY <1>1, <1>2, <1>3, <1>4

(* A statement that is executed. *)
LEMMA ExecuteTurn ==
  ASSUME NEW W, SQLiteInv(W), NEW w \in W, Alone!Execute(w)
  PROVE  SQLiteInv(W)'
<1> DEFINE c == active[w]
           d == [c EXCEPT !.rest = Tail(@)]
           s == Head(c.rest)
<1>1. /\ c # None /\ ~c.raising /\ c.rest # <<>> /\ s.do # "find"
      /\ conn' = Effect(conn, s) /\ active' = [active EXCEPT ![w] = d]
      /\ disk' = disk /\ sent' = sent /\ gone' = gone /\ failed' = failed
  BY SameTerms DEF Alone!Execute, Alone!Writes, Alone!Works, Alone!Now
<1>2. c \in Alone!Calls /\ CallKept(c)  BY <1>1, KeptFacts
<1>3. c.rest \in Seq(Statements \cup Alone!Finds)
  BY <1>2, CallFields
<1>4. /\ d \in Alone!Calls /\ d.op = c.op /\ d.on = c.on /\ d.rest = Tail(c.rest)
      /\ d.raising = c.raising /\ d # None
  <2>1. Tail(c.rest) \in Seq(Statements \cup Alone!Finds)
    BY <1>1, <1>3, TailFacts
  <2>2. d \in Alone!Calls /\ d.op = c.op /\ d.on = c.on /\ d.rest = Tail(c.rest) /\ d.raising = c.raising
    BY <1>2, <2>1, CallsFact
  <2> QED BY <2>2, CallFields
<1>5. /\ Programmed(c.op, c.on, Tail(c.rest))
      /\ \A i \in 1 .. Len(Tail(c.rest)) : Tail(c.rest)[i].do # "insert_run"
      /\ s.do \in Known
      /\ s.do = "insert_run" => c.op = "export" /\ s.rows = c.on
      /\ c.op = "delete" /\ Tail(c.rest) = <<>> => s.do = "delete_runs" /\ s.rows = c.on
  <2> HIDE DEF c, d
  <2>1. Programmed(c.op, c.on, c.rest) /\ c.rest # <<>> /\ c.rest \in Seq(Statements \cup Alone!Finds)
    BY <1>1, <1>2, <1>3 DEF CallKept
  <2>2. /\ Programmed(c.op, c.on, Tail(c.rest))
        /\ \A i \in 1 .. Len(Tail(c.rest)) : Tail(c.rest)[i].do # "insert_run"
        /\ Head(c.rest).do \in Known \/ (c.op = "tag" /\ Head(c.rest).do = "find")
        /\ Head(c.rest).do = "insert_run" => c.op = "export" /\ Head(c.rest).rows = c.on
        /\ c.op = "delete" /\ Tail(c.rest) = <<>> =>
             Head(c.rest).do = "delete_runs" /\ Head(c.rest).rows = c.on
    BY ONLY <2>1, ProgrammedTail
  <2> QED BY <1>1, <2>2
<1>6. \A r : ~Awaits(d, r)
  <2>1. Tail(c.rest) # <<>> => 1 \in 1 .. Len(Tail(c.rest)) /\ Head(Tail(c.rest)) = Tail(c.rest)[1]
    <3>1. Tail(c.rest) \in Seq(Statements \cup Alone!Finds)
      BY <1>1, <1>3, TailFacts
    <3> DEFINE t == Tail(c.rest)
    <3> HIDE DEF t
    <3>2. t \in Seq(Statements \cup Alone!Finds)  BY <3>1 DEF t
    <3>3. t # <<>> => Len(t) >= 1 /\ Len(t) \in Nat /\ Head(t) = t[1]
      BY ONLY <3>2, TailFacts
    <3>4. t # <<>> => 1 \in 1 .. Len(t)  BY ONLY <3>3
    <3> QED BY <3>3, <3>4 DEF t
  <2> QED BY <2>1, <1>4, <1>5 DEF Awaits
<1> HIDE DEF c, d, s
<1>7. /\ gone \cup failed \subseteq Shown /\ conn.runs \cup disk.runs \subseteq Shown
      /\ \A r \in gone \cup failed : r \notin conn.runs /\ r \notin disk.runs
      /\ Shaped(disk) /\ Shaped(conn) /\ sent \in SUBSET Traces
      /\ \A u, v \in W, r \in Traces : Exports(u, r) /\ Exports(v, r) => u = v
  BY KeptFacts
<1>8. /\ Shaped(conn')
      /\ s.do = "insert_run" => conn'.runs = conn.runs \cup s.rows
      /\ s.do = "delete_runs" => conn'.runs = conn.runs \ s.rows
      /\ s.do # "insert_run" => conn'.runs \subseteq conn.runs
  BY <1>1, <1>5, <1>7, EffectRuns
<1>9. s.do = "insert_run" => \A r \in s.rows : r \in sent /\ r \notin Shown /\ r \in Traces
  <2>1. ASSUME s.do = "insert_run", NEW r \in s.rows PROVE r \in sent /\ r \notin Shown
    <3>1. r \in c.on /\ c.op = "export"  BY <2>1, <1>5
    <3>2. Awaits(active[w], r)
      BY <1>1, <2>1, <3>1 DEF Awaits, c, s
    <3>3. w \in DOMAIN active /\ active[w] # None  BY <1>1, KeptFacts DEF c
    <3>4. r \notin Shown
      BY <3>2, <3>3, ShownFact
    <3> QED BY <3>1, <3>4, <1>2 DEF CallKept
  <2> QED BY <2>1, <1>7
<1>10. s.do = "insert_run" => \A r \in s.rows : r \in Shown'
  <2> SUFFICES ASSUME s.do = "insert_run", NEW r \in s.rows PROVE r \in Shown'  OBVIOUS
  <2>1. r \in c.on /\ c.op = "export" /\ r \in sent /\ r \in Traces
    BY <1>5, <1>9
  <2>2. ASSUME NEW u \in W, active'[u] # None PROVE ~Awaits(active'[u], r)
    <3>1. active \in [W -> Alone!Calls \cup {None}]
      BY KeptFacts
    <3>2. CASE u = w  BY <3>1, <3>2, <1>1, <1>6
    <3>3. CASE u # w
      <4>1. active'[u] = active[u] /\ active[u] # None
        BY <3>1, <3>3, <1>1, <2>2
      <4>2. SUFFICES ASSUME Awaits(active[u], r) PROVE FALSE
        BY <4>1
      <4>3. CallKept(active[u]) /\ active[u] \in Alone!Calls
        BY <4>1, KeptFacts
      <4>4. active[u].op = "export"
        BY <4>2, <4>3, AwaitsExports DEF CallKept
      <4>5. Exports(u, r) /\ Exports(w, r)
        BY <1>1, <2>1, <4>1, <4>2, <4>4 DEF Exports, Awaits, c
      <4> QED BY <1>7, <2>1, <3>3, <4>5
    <3> QED BY <3>2, <3>3
  <2>3. DOMAIN active' = W  BY <1>1, KeptFacts
  <2> QED BY <1>1, <2>1, <2>2, <2>3 DEF Shown, Awaits
<1>11. \A r \in conn'.runs : r \in conn.runs \/ (s.do = "insert_run" /\ r \in s.rows)
  BY <1>8
<1>12. \A u \in W, r \in Traces : u # w /\ d # None /\ d.op = "export" /\ r \in d.on => ~Exports(u, r)
  BY <1>1, <1>4, <1>7 DEF Exports, c
<1>13. d.op = "delete" /\ d.rest = <<>> => d.on \cap conn'.runs = {}
  BY <1>4, <1>5, <1>8
<1>14. Shown \subseteq Shown' =>
         /\ gone' \cup failed' \subseteq Shown'
         /\ conn'.runs \cup disk'.runs \subseteq Shown'
         /\ d # None /\ d.op = "delete" => d.on \subseteq Shown'
  BY <1>1, <1>2, <1>4, <1>7, <1>10, <1>11 DEF CallKept
<1>15. /\ \A r \in gone' \cup failed' : r \notin conn'.runs /\ r \notin disk'.runs
       /\ \A r \in conn'.runs : r \in Shown => r \in conn.runs
  BY <1>1, <1>7, <1>9, <1>11
<1>16. Programmed(d.op, d.on, d.rest) /\ (d.op = "export" => d.on \subseteq sent') /\ ~d.raising
  BY <1>1, <1>2, <1>4, <1>5 DEF CallKept
<1>17. Shaped(disk')  BY <1>1, <1>7 DEF Shaped
<1>18. sent' \in SUBSET Traces /\ sent \subseteq sent'
  BY <1>1, <1>7
<1>19. Turns(W, w, d)
  BY <1>1, <1>4, <1>6, <1>8, <1>12, <1>13, <1>14, <1>15, <1>16, <1>17, <1>18 DEF Turns
<1> QED BY <1>19, CallTurns

(* A SELECT of tag_runs. *)
LEMMA FindTurn ==
  ASSUME NEW W, SQLiteInv(W), NEW w \in W, Alone!Find(w)
  PROVE  /\ SQLiteInv(W)' /\ disk' = disk /\ failed' = failed /\ faults' = faults
         /\ \E c : /\ active' = [active EXCEPT ![w] = c]
                   /\ c = None \/ (c.raising = FALSE /\ c.op # "export")
<1> DEFINE c     == active[w]
           rest  == Tail(c.rest)
           s     == Head(c.rest)
           found == c.on \ (s.rows \ conn.runs)
           d     == IF rest = <<>> /\ found = {} THEN None
                    ELSE [c EXCEPT !.on = found,
                                   !.rest = IF rest # <<>> THEN rest
                                            ELSE AssignTag(InOrder(found), s.tag)]
<1>1. /\ c # None /\ ~c.raising /\ c.rest # <<>> /\ s.do = "find"
      /\ disk' = disk /\ conn' = conn /\ sent' = sent /\ gone' = gone /\ failed' = failed /\ faults' = faults
  BY DEF Alone!Find, Alone!Works, Alone!Now, Alone!history
<1>2. active' = [active EXCEPT ![w] = d]
  BY SameTerms, SameSequence DEF Alone!Find, Alone!Now
<1>3. c \in Alone!Calls /\ CallKept(c)  BY <1>1, KeptFacts
<1>4. /\ c.rest \in Seq(Statements \cup Alone!Finds) /\ c.on \in SUBSET Traces
      /\ c.op \in Methods /\ c.raising = FALSE
  BY <1>1, <1>3, CallFields
<1>5. /\ Programmed(c.op, c.on, rest) /\ rest \in Seq(Statements \cup Alone!Finds)
      /\ \A i \in 1 .. Len(rest) : rest[i].do # "insert_run"
      /\ c.op = "tag"
      /\ s \in Statements \cup Alone!Finds
  <2> DEFINE all == c.rest
  <2>1. Programmed(c.op, c.on, all) /\ all \in Seq(Statements \cup Alone!Finds) /\ all # <<>>
    BY <1>1, <1>3, <1>4 DEF CallKept
  <2> HIDE DEF all, c
  <2>2. /\ Programmed(c.op, c.on, Tail(all))
        /\ \A i \in 1 .. Len(Tail(all)) : Tail(all)[i].do # "insert_run"
        /\ Head(all).do \in Known \/ (c.op = "tag" /\ Head(all).do = "find")
        /\ Head(all).do = "insert_run" => c.op = "export" /\ Head(all).rows = c.on
        /\ c.op = "delete" /\ Tail(all) = <<>> => Head(all).do = "delete_runs" /\ Head(all).rows = c.on
    BY ONLY <2>1, ProgrammedTail
  <2>3. Tail(all) \in Seq(Statements \cup Alone!Finds) /\ Head(all) \in Statements \cup Alone!Finds
    BY ONLY <2>1, HeadTailProperties
  <2>4. "find" \notin Known  BY DEF Known, Kinds
  <2> QED BY <1>1, <2>2, <2>3, <2>4 DEF all
<1>6. s \in Alone!Finds /\ s.tag \in Tags
  <2>1. s \notin Statements  BY <1>1 DEF Statements, Kinds
  <2> QED BY <1>5, <2>1, CallsFact
<1>7. \A on : Programmed(c.op, on, rest) /\ \A r : rest # <<>> => Head(rest).do # "insert_run"
  <2>1. \A on : Programmed(c.op, on, rest)  BY <1>5 DEF Programmed
  <2> HIDE DEF c, rest
  <2>2. rest # <<>> => Len(rest) >= 1 /\ Len(rest) \in Nat /\ Head(rest) = rest[1]
    BY ONLY <1>5, TailFacts
  <2>3. rest # <<>> => 1 \in 1 .. Len(rest)  BY ONLY <2>2
  <2> QED BY <2>1, <2>2, <2>3, <1>5
<1>8. found \in SUBSET Traces  BY <1>4
<1>9. Quiet("tag", AssignTag(InOrder(found), s.tag))
  <2> HIDE DEF found, s
  <2> QED BY <1>6, <1>8, QuietAssign
<1>10. ASSUME d # None
       PROVE  /\ d \in Alone!Calls /\ d.op = "tag" /\ d.raising = FALSE
              /\ \A r : ~Awaits(d, r)
              /\ Programmed(d.op, d.on, d.rest)
  <2> DEFINE p == IF rest # <<>> THEN rest ELSE AssignTag(InOrder(found), s.tag)
  <2>1. d = [c EXCEPT !.on = found, !.rest = p]  BY <1>10
  <2>2. /\ p \in Seq(Statements \cup Alone!Finds) /\ (p # <<>> => Head(p).do # "insert_run")
        /\ \A on : Programmed("tag", on, p)
    <3>1. CASE rest # <<>>  BY <3>1, <1>5, <1>7
    <3>2. CASE rest = <<>>
      <4> DEFINE q == AssignTag(InOrder(found), s.tag)
      <4> HIDE DEF q
      <4>1. Quiet("tag", q) /\ p = q  BY <3>2, <1>9 DEF q
      <4>2. /\ q \in Seq(Statements \cup Alone!Finds) /\ (q # <<>> => Head(q).do # "insert_run")
            /\ \A on : Programmed("tag", on, q)
        BY ONLY <4>1, QuietHead, QuietProgrammed DEF Quiet
      <4> QED BY <4>1, <4>2
    <3> QED BY <3>1, <3>2
  <2> HIDE DEF p, found, d
  <2>3. /\ d \in Alone!Calls /\ d.op = c.op /\ d.on = found /\ d.rest = p /\ d.raising = c.raising
    BY <2>1, <2>2, <1>3, <1>8, CallsFact
  <2> QED BY <2>2, <2>3, <1>4, <1>5 DEF Awaits
<1> HIDE DEF d
<1>11. d \in Alone!Calls \cup {None}  BY <1>10
<1>12. SQLiteInv(W)'
  BY <1>1, <1>2, <1>10, <1>11, Unwritten
<1> QED BY <1>1, <1>2, <1>10, <1>12

(* The call returns. *)
LEMMA CommitTurn ==
  ASSUME NEW W, SQLiteInv(W), NEW w \in W, Alone!Commit(w)
  PROVE  SQLiteInv(W)'
<1> DEFINE c == active[w]
<1>1. /\ c # None /\ c.rest = <<>> /\ active' = [active EXCEPT ![w] = None]
      /\ disk' = conn /\ conn' = conn /\ sent' = sent /\ failed' = failed
      /\ gone' = IF c.op = "delete" THEN gone \cup c.on ELSE gone
  BY DEF Alone!Commit, Alone!Works
<1>2. CallKept(c)  BY <1>1, KeptFacts
<1> HIDE DEF c
<1>3. /\ gone \cup failed \subseteq Shown /\ conn.runs \cup disk.runs \subseteq Shown
      /\ \A r \in gone \cup failed : r \notin conn.runs /\ r \notin disk.runs
      /\ Shaped(disk) /\ Shaped(conn) /\ sent \in SUBSET Traces
  BY KeptFacts
<1>4. c.op = "delete" => c.on \subseteq Shown /\ c.on \cap conn.runs = {}
  BY <1>1, <1>2 DEF CallKept
<1>5. Shaped(disk') /\ Shaped(conn')  BY <1>1, <1>3 DEF Shaped
<1>6. /\ \A r \in gone' \cup failed' : r \notin conn'.runs /\ r \notin disk'.runs
      /\ \A r \in conn'.runs : r \in Shown => r \in conn.runs
      /\ gone' \cup failed' \subseteq Shown
      /\ conn'.runs \cup disk'.runs \subseteq Shown
  BY <1>1, <1>3, <1>4
<1>7. Turns(W, w, None)
  BY <1>1, <1>3, <1>5, <1>6 DEF Turns
<1> QED BY <1>7, CallTurns

(* What only the one worker meets: a statement that raises, *)
LEMMA RaiseTurn ==
  ASSUME NEW W, SQLiteInv(W), NEW w \in W, Alone!Works(w), Alone!Raise(w)
  PROVE  /\ SQLiteInv(W)' /\ disk' = disk
         /\ \A u \in W, r \in Traces : Exports(u, r)' => Exports(u, r)
<1> DEFINE c == active[w]
           d == IF c.op = "export" THEN [c EXCEPT !.raising = TRUE] ELSE None
<1>1. /\ c # None /\ active' = [active EXCEPT ![w] = d]
      /\ disk' = disk /\ conn' = conn /\ sent' = sent /\ gone' = gone /\ failed' = failed
  BY DEF Alone!Raise, Alone!Works, Alone!history
<1>2. c \in Alone!Calls /\ CallKept(c)  BY <1>1, KeptFacts
<1>3. ASSUME d # None
      PROVE  /\ d \in Alone!Calls /\ c.op = "export" /\ d.op = c.op /\ d.on = c.on /\ d.rest = c.rest
  BY <1>2, <1>3, CallsFact
<1> HIDE DEF d
<1>4. ASSUME d # None
      PROVE  /\ \A r \in Shown : ~Awaits(d, r)
             /\ Programmed(d.op, d.on, d.rest)
             /\ \A r \in d.on : Exports(w, r)
  <2>1. \A r \in Shown : ~Awaits(c, r)  BY <1>1, ShownFact, KeptFacts
  <2>2. Programmed(c.op, c.on, c.rest)
    BY <1>2 DEF CallKept
  <2> QED BY <1>1, <1>3, <1>4, <2>1, <2>2 DEF Awaits, Exports
<1>5. SQLiteInv(W)'
  <2>1. d \in Alone!Calls \cup {None}  BY <1>3
  <2> QED BY <1>1, <1>3, <1>4, <2>1, Unwritten
<1>6. ASSUME NEW u \in W, NEW r \in Traces, Exports(u, r)' PROVE Exports(u, r)
  <2>1. active \in [W -> Alone!Calls \cup {None}]
    BY KeptFacts
  <2>2. CASE u = w
    BY <2>1, <2>2, <1>1, <1>3, <1>6 DEF Exports
  <2>3. CASE u # w
    BY <2>1, <2>3, <1>1, <1>6 DEF Exports
  <2> QED BY <2>2, <2>3
<1> QED BY <1>1, <1>5, <1>6

(* the rollback of its export, *)
LEMMA RollbackTurn ==
  ASSUME NEW W, SQLiteInv(W), NEW w \in W, W = {w}, Alone!Rollback(w),
         \A r \in Traces : Exports(w, r) => r \notin disk.runs
  PROVE  SQLiteInv(W)'
<1> DEFINE c == active[w]
<1>1. /\ c # None /\ c.raising /\ active' = [active EXCEPT ![w] = None]
      /\ disk' = disk /\ conn' = disk /\ sent' = sent /\ gone' = gone
      /\ failed' = failed \cup c.on
  BY DEF Alone!Rollback
<1>2. CallKept(c) /\ c \in Alone!Calls  BY <1>1, KeptFacts
<1>3. c.op = "export" /\ c.on \subseteq sent /\ c.on \in SUBSET Traces
  BY <1>1, <1>2, CallFields DEF CallKept
<1>4. \A r \in c.on : r \notin disk.runs  BY <1>1, <1>3 DEF Exports
<1> HIDE DEF c
<1>5. /\ gone \cup failed \subseteq Shown /\ conn.runs \cup disk.runs \subseteq Shown
      /\ \A r \in gone \cup failed : r \notin conn.runs /\ r \notin disk.runs
      /\ Shaped(disk) /\ Shaped(conn) /\ sent \in SUBSET Traces /\ Shown \subseteq sent
      /\ active \in [W -> Alone!Calls \cup {None}]
  BY KeptFacts
<1>6. DOMAIN active' = {w} /\ active'[w] = None /\ active' \in [W -> Alone!Calls \cup {None}]
  BY <1>1, <1>5
<1>7. Shown' = sent  BY <1>1, <1>6 DEF Shown
<1>8. /\ gone' \cup failed' \subseteq Shown' /\ conn'.runs \cup disk'.runs \subseteq Shown'
      /\ \A r \in gone' \cup failed' : r \notin conn'.runs /\ r \notin disk'.runs
  BY <1>1, <1>3, <1>4, <1>5, <1>7
<1>9. /\ \A u \in W : active'[u] = None
      /\ \A u, v \in W, r \in Traces : Exports(u, r)' /\ Exports(v, r)' => u = v
  BY <1>6
<1>10. NoneBack(W)'  BY <1>8, <1>9 DEF NoneBack
<1>11. Alike(W)'
  BY <1>1, <1>5, <1>6 DEF Alike, Shaped
<1> QED BY <1>10, <1>11 DEF SQLiteInv

(* and the end of its process. *)
LEMMA CrashTurn ==
  ASSUME SQLiteInv(Single), Alone!Crash
  PROVE  SQLiteInv(Single)'
<1>1. /\ active' = [w \in Single |-> None]
      /\ disk' = disk /\ conn' = disk /\ sent' = sent /\ gone' = gone /\ failed' = failed
  BY DEF Alone!Crash, Alone!history
<1>2. /\ gone \cup failed \subseteq Shown /\ conn.runs \cup disk.runs \subseteq Shown
      /\ \A r \in gone \cup failed : r \notin conn.runs /\ r \notin disk.runs
      /\ Shaped(disk) /\ Shaped(conn) /\ sent \in SUBSET Traces /\ Shown \subseteq sent
  BY KeptFacts
<1>3. /\ DOMAIN active' = Single /\ \A u \in Single : active'[u] = None
      /\ active' \in [Single -> Alone!Calls \cup {None}]
  BY <1>1
<1>4. Shown' = sent  BY <1>1, <1>3 DEF Shown
<1>5. /\ gone' \cup failed' \subseteq Shown' /\ conn'.runs \cup disk'.runs \subseteq Shown'
      /\ \A r \in gone' \cup failed' : r \notin conn'.runs /\ r \notin disk'.runs
  BY <1>1, <1>2, <1>4
<1>6. /\ \A u, v \in Single, r \in Traces : Exports(u, r)' /\ Exports(v, r)' => u = v
      /\ \A u \in Single : active'[u] # None => CallKept(active[u])'
  BY StoresAssumption, <1>3
<1>7. NoneBack(Single)'  BY <1>5, <1>6 DEF NoneBack
<1>8. Alike(Single)'
  BY <1>1, <1>2, <1>3 DEF Alike, Shaped
<1> QED BY <1>7, <1>8 DEF SQLiteInv

-----------------------------------------------------------------------------
(* The steps of both SQLite stores *)

LEMMA BeginGoesOn ==
  ASSUME NEW w, NEW op \in Methods \ {"export"}, NEW on, NEW prog, Alone!Begin(w, op, on, prog)
  PROVE  GoesOn(w)
<1> DEFINE c == Alone!Call(op, on, prog)
<1>1. active' = [active EXCEPT ![w] = c] /\ disk' = disk /\ faults' = faults /\ crashes' = crashes
  BY DEF Alone!Begin
<1>2. c.op = op /\ c.raising = FALSE  BY CallFact
<1> HIDE DEF c
<1> QED BY <1>1, <1>2 DEF GoesOn

LEMMA SharedStep ==
  ASSUME NEW W, SQLiteInv(W), NEW w \in W, Shared(w)
  PROVE  SQLiteInv(W)' /\ GoesOn(w)
<1>1. ASSUME NEW r \in Traces, Alone!Export(w, r) PROVE SQLiteInv(W)' /\ GoesOn(w)
  <2> DEFINE c == Alone!Call("export", {r}, Exporting(r))
  <2>1. /\ active' = [active EXCEPT ![w] = c] /\ disk' = disk /\ faults' = faults
        /\ crashes' = crashes /\ r \notin sent
    BY <1>1, SameTerms DEF Alone!Export
  <2>2. c.on = {r} /\ c.raising = FALSE  BY CallFact
  <2> HIDE DEF c
  <2>3. GoesOn(w)  BY <2>1, <2>2 DEF GoesOn
  <2> QED BY <1>1, <2>3, ExportTurn
<1>2. ASSUME NEW R \in SUBSET conn.runs, Alone!Delete(w, R) PROVE SQLiteInv(W)' /\ GoesOn(w)
  <2>1. "delete" \in Methods \ {"export"} /\ Alone!Begin(w, "delete", R, Alone!DeleteRuns(R))
    BY <1>2 DEF Methods, Alone!Delete
  <2> QED BY <1>2, <2>1, BeginGoesOn, DeleteTurn
<1>3. ASSUME NEW r \in Traces, Alone!DeleteRun(w, r) PROVE SQLiteInv(W)' /\ GoesOn(w)
  <2>1. {r} \cap conn.runs \in SUBSET conn.runs /\ Alone!Delete(w, {r} \cap conn.runs)
    BY <1>3 DEF Alone!DeleteRun
  <2> QED BY <2>1, <1>2
<1>4. ASSUME NEW s \in Sessions, Alone!DeleteSession(w, s) PROVE SQLiteInv(W)' /\ GoesOn(w)
  <2> DEFINE R == {r \in conn.runs : SessionOf[r] = s}
  <2>1. R \in SUBSET conn.runs /\ Alone!Delete(w, R)
    BY <1>4 DEF Alone!DeleteSession
  <2> HIDE DEF R
  <2> QED BY <2>1, <1>2
<1>5. ASSUME \/ \E n \in 0 .. MaxRuns : Alone!PruneTo(w, n)
             \/ \E R \in SUBSET Traces, t \in Tags : Alone!TagRuns(w, R, t) \/ Alone!UntagRuns(w, R, t)
             \/ \E o, n \in Tags : Alone!RenameTag(w, o, n)
             \/ \E t \in Tags : Alone!SetTagColor(w, t) \/ Alone!DeleteTag(w, t)
      PROVE  SQLiteInv(W)' /\ GoesOn(w)
  <2>1. SQLiteInv(W)'  BY <1>5, OtherBegins
  <2>2. {"prune", "tag", "untag", "rename", "color", "delete_tag"} \subseteq Methods \ {"export"}
    BY DEF Methods
  <2>3. \E op \in Methods \ {"export"} : \E on, prog : Alone!Begin(w, op, on, prog)
    BY <1>5, <2>2 DEF Alone!PruneTo, Alone!TagRuns, Alone!UntagRuns, Alone!RenameTag,
                      Alone!SetTagColor, Alone!DeleteTag
  <2> QED BY <2>1, <2>3, BeginGoesOn
<1>6. ASSUME Alone!Execute(w) PROVE SQLiteInv(W)' /\ GoesOn(w)
  <2> DEFINE c == active[w]
             d == [c EXCEPT !.rest = Tail(@)]
  <2>1. /\ c # None /\ ~c.raising /\ active' = [active EXCEPT ![w] = d] /\ disk' = disk
        /\ faults' = faults /\ crashes' = crashes
    BY <1>6 DEF Alone!Execute, Alone!Writes, Alone!Works
  <2>2. c \in Alone!Calls  BY <2>1, KeptFacts
  <2>3. d.op = c.op /\ d.on = c.on /\ d.raising = c.raising /\ c.on \in SUBSET Traces
    BY <2>2, CallsFact
  <2>4. d.op # "export" \/ \A r \in d.on : Exports(w, r)
    BY <2>1, <2>3 DEF Exports
  <2> HIDE DEF c, d
  <2>5. GoesOn(w)  BY <2>1, <2>3, <2>4 DEF GoesOn
  <2> QED BY <1>6, <2>5, ExecuteTurn
<1>7. ASSUME Alone!Find(w) PROVE SQLiteInv(W)' /\ GoesOn(w)
  <2>1. crashes' = crashes  BY <1>7 DEF Alone!Find
  <2> QED BY <1>7, <2>1, FindTurn DEF GoesOn
<1>8. ASSUME Alone!Commit(w) PROVE SQLiteInv(W)' /\ GoesOn(w)
  <2>1. GoesOn(w)  BY <1>8 DEF Alone!Commit, GoesOn
  <2> QED BY <1>8, <2>1, CommitTurn
<1> QED BY <1>1, <1>3, <1>4, <1>5, <1>6, <1>7, <1>8 DEF Shared

(* The invariants of each store are kept by its steps. *)
LEMMA AloneStep ==
  ASSUME SQLiteInv(Single), AloneApart, Alone!Next
  PROVE  SQLiteInv(Single)' /\ AloneApart'
<1>1. PICK w \in Single : Single = {w}  BY StoresAssumption
<1>2. active \in [Single -> Alone!Calls \cup {None}] /\ disk.runs \subseteq sent
  BY KeptFacts
<1>3. CASE Shared(w)
  <2>1. SQLiteInv(Single)' /\ GoesOn(w)  BY <1>3, SharedStep
  <2>2. PICK c : /\ active' = [active EXCEPT ![w] = c]
                 /\ c = None \/ c.op # "export" \/ \A r \in c.on : Exports(w, r) \/ r \notin sent
                 /\ c = None \/ disk' = disk
    BY <2>1 DEF GoesOn
  <2>3. active'[w] = c  BY <2>2, <1>2
  <2>4. ASSUME NEW r \in Traces, Exports(w, r)' PROVE r \notin disk'.runs
    <3>1. c # None /\ c.op = "export" /\ r \in c.on
      BY <2>3, <2>4 DEF Exports
    <3> QED BY <3>1, <2>2, <1>1, <1>2 DEF AloneApart
  <2> QED BY <2>1, <2>4, <1>1 DEF AloneApart
<1>4. CASE Alone!Locked(w) \/ Alone!Unbindable(w)
  <2>1. Alone!Works(w) /\ Alone!Raise(w)
    BY <1>4 DEF Alone!Locked, Alone!Unbindable, Alone!Writes
  <2> QED BY <2>1, RaiseTurn DEF AloneApart
<1>5. CASE Alone!Rollback(w)
  <2>1. SQLiteInv(Single)'
    BY <1>1, <1>5, RollbackTurn DEF AloneApart
  <2>2. active'[w] = None  BY <1>2, <1>5 DEF Alone!Rollback
  <2> QED BY <2>1, <2>2, <1>1 DEF AloneApart, Exports
<1>6. CASE Alone!Crash
  <2>1. SQLiteInv(Single)'  BY <1>6, CrashTurn
  <2>2. active'[w] = None
    BY <1>6 DEF Alone!Crash
  <2> QED BY <2>1, <2>2, <1>1 DEF AloneApart, Exports
<1>7. Shared(w) \/ Alone!Locked(w) \/ Alone!Unbindable(w) \/ Alone!Rollback(w) \/ Alone!Crash
  BY <1>1 DEF Alone!Next, Shared
<1> QED BY <1>3, <1>4, <1>5, <1>6, <1>7

(* In the pool nothing raises. *)
LEMMA PoolShared ==
  ASSUME PoolCalm, Pool!Next
  PROVE  \E w \in Several : Shared(w)
<1>1. ~Pool!Crash  BY DEF Pool!Crash, PoolCalm
<1>2. \A w \in Several : ~Pool!Locked(w) /\ ~Pool!Unbindable(w) /\ ~Pool!Rollback(w)
  BY DEF Pool!Locked, Pool!Unbindable, Pool!Raise, Pool!Rollback, PoolCalm
<1>3. /\ \A op, on, rest : Pool!Call(op, on, rest) = Alone!Call(op, on, rest)
      /\ \A S : Pool!InOrder(S) = Alone!InOrder(S)
      /\ Pool!history = Alone!history
  <2>1. \A op, on, rest : Pool!Call(op, on, rest) = Alone!Call(op, on, rest)
    BY DEF Pool!Call, Alone!Call
  <2>2. \A S : Pool!Cardinality(S) = Alone!Cardinality(S)
    BY DEF Pool!Cardinality, Alone!Cardinality
  <2>3. \A S : Pool!InOrder(S) = Alone!InOrder(S)
    BY <2>2 DEF Pool!InOrder, Alone!InOrder, Pool!Orders, Alone!Orders
  <2> QED BY <2>1, <2>3 DEF Pool!history, Alone!history
<1>4. \A w, op, on, p : Pool!Begin(w, op, on, p) = Alone!Begin(w, op, on, p)
  BY <1>3 DEF Pool!Begin, Alone!Begin
<1>5. \A w, R : Pool!Delete(w, R) => Alone!Delete(w, R)
  BY <1>4, SameTerms DEF Pool!Delete, Alone!Delete
<1>6. ASSUME NEW w \in Several
      PROVE  /\ \A r : Pool!Export(w, r) => Alone!Export(w, r)
             /\ \A r : Pool!DeleteRun(w, r) => Alone!DeleteRun(w, r)
             /\ \A s : Pool!DeleteSession(w, s) => Alone!DeleteSession(w, s)
             /\ \A n : Pool!PruneTo(w, n) => Alone!PruneTo(w, n)
             /\ \A R, t : Pool!TagRuns(w, R, t) => Alone!TagRuns(w, R, t)
             /\ \A R, t : Pool!UntagRuns(w, R, t) => Alone!UntagRuns(w, R, t)
             /\ \A o, n : Pool!RenameTag(w, o, n) => Alone!RenameTag(w, o, n)
             /\ \A t : Pool!SetTagColor(w, t) => Alone!SetTagColor(w, t)
             /\ \A t : Pool!DeleteTag(w, t) => Alone!DeleteTag(w, t)
             /\ Pool!Execute(w) => Alone!Execute(w)
             /\ Pool!Find(w) => Alone!Find(w)
             /\ Pool!Commit(w) => Alone!Commit(w)
  <2>1. \A r : Pool!Export(w, r) => Alone!Export(w, r)
    BY <1>3, SameTerms DEF Pool!Export, Alone!Export
  <2>2. \A r : Pool!DeleteRun(w, r) => Alone!DeleteRun(w, r)
    BY <1>5 DEF Pool!DeleteRun, Alone!DeleteRun
  <2>3. \A s : Pool!DeleteSession(w, s) => Alone!DeleteSession(w, s)
    BY <1>5 DEF Pool!DeleteSession, Alone!DeleteSession
  <2>4. \A n : Pool!PruneTo(w, n) => Alone!PruneTo(w, n)
    BY <1>4, SameTerms DEF Pool!PruneTo, Alone!PruneTo
  <2>5. \A R, t : Pool!TagRuns(w, R, t) => Alone!TagRuns(w, R, t)
    BY <1>3, <1>4 DEF Pool!TagRuns, Alone!TagRuns
  <2>6. \A R, t : Pool!UntagRuns(w, R, t) => Alone!UntagRuns(w, R, t)
    BY <1>4, SameTerms DEF Pool!UntagRuns, Alone!UntagRuns
  <2>7. \A o, n : Pool!RenameTag(w, o, n) => Alone!RenameTag(w, o, n)
    BY <1>4, SameTerms DEF Pool!RenameTag, Alone!RenameTag
  <2>8. \A t : Pool!SetTagColor(w, t) => Alone!SetTagColor(w, t)
    BY <1>4, SameTerms DEF Pool!SetTagColor, Alone!SetTagColor
  <2>9. \A t : Pool!DeleteTag(w, t) => Alone!DeleteTag(w, t)
    BY <1>4, SameTerms DEF Pool!DeleteTag, Alone!DeleteTag
  <2>10. Pool!Execute(w) => Alone!Execute(w)
    BY SameTerms DEF Pool!Execute, Alone!Execute, Pool!Writes, Alone!Writes, Pool!Works,
                     Alone!Works, Pool!Now, Alone!Now
  <2>11. Pool!Find(w) => Alone!Find(w)
    BY <1>3, SameTerms DEF Pool!Find, Alone!Find, Pool!Works, Alone!Works, Pool!Now, Alone!Now,
                            Pool!history, Alone!history
  <2>12. Pool!Commit(w) => Alone!Commit(w)
    BY DEF Pool!Commit, Alone!Commit, Pool!Works, Alone!Works
  <2> QED BY <2>1, <2>2, <2>3, <2>4, <2>5, <2>6, <2>7, <2>8, <2>9, <2>10, <2>11, <2>12
<1> QED BY <1>1, <1>2, <1>6 DEF Pool!Next, Shared

LEMMA PoolStep ==
  ASSUME SQLiteInv(Several), PoolCalm, Pool!Next
  PROVE  SQLiteInv(Several)' /\ PoolCalm'
<1>1. PICK w \in Several : Shared(w)  BY PoolShared
<1>2. SQLiteInv(Several)' /\ GoesOn(w)
  BY <1>1, SharedStep
<1>3. PICK c : active' = [active EXCEPT ![w] = c] /\ (c = None \/ ~c.raising)
  BY <1>2 DEF GoesOn
<1>4. active \in [Several -> Alone!Calls \cup {None}]
  BY KeptFacts
<1>5. \A u \in Several : active'[u] # None => ~active'[u].raising
  BY <1>3, <1>4 DEF PoolCalm
<1> QED BY <1>2, <1>5 DEF PoolCalm, GoesOn

LEMMA SQLiteInit ==
  /\ Alone!Init => SQLiteInv(Single) /\ AloneApart
  /\ Pool!Init => SQLiteInv(Several) /\ PoolCalm
<1>1. ASSUME NEW W, disk = NoRows, conn = NoRows, active = [w \in W |-> None],
             sent = {}, failed = {}, gone = {}
      PROVE  SQLiteInv(W)
  <2>1. Alike(W)  BY <1>1 DEF Alike, Shaped, NoRows
  <2>2. NoneBack(W)
    BY <1>1 DEF NoneBack, Exports, Shown, NoRows
  <2> QED BY <2>1, <2>2 DEF SQLiteInv
<1>2. Alone!Init => SQLiteInv(Single) /\ AloneApart
  BY <1>1, SameTerms DEF Alone!Init, AloneApart, Exports
<1>3. Pool!Init => SQLiteInv(Several) /\ PoolCalm
  BY <1>1, SameTerms DEF Pool!Init, PoolCalm
<1> QED BY <1>2, <1>3

-----------------------------------------------------------------------------
(* Nothing comes back: the Postgres store.  What a transaction inserts is   *)
(* its export's own, and a deletion deletes every run it was for that is    *)
(* stored by then.                                                          *)

LEMMA PgTerms ==
  /\ \A r : Postgres!InsertTrace(r) = InsertTrace(r)
  /\ \A R : Postgres!DeleteRuns(R) = DeleteRuns(R)
  /\ \A e, t : Postgres!AssignTag(e, t) = AssignTag(e, t)
  /\ \A d, x : Postgres!Statement(d, x) = Statement(d, x) /\ Postgres!Select(d, x) = Statement(d, x)
  /\ Postgres!NoRows = NoRows
<1>1. \A d, x : Postgres!Statement(d, x) = Statement(d, x) /\ Postgres!Select(d, x) = Statement(d, x)
  BY DEF Postgres!Statement, Postgres!Select, Statement
<1>2. \A r : Postgres!InsertTrace(r) = InsertTrace(r)
  BY <1>1 DEF Postgres!InsertTrace, InsertTrace
<1>3. \A R : Postgres!DeleteRuns(R) = DeleteRuns(R)
  BY <1>1 DEF Postgres!DeleteRuns, DeleteRuns
<1>4. \A e, t : Postgres!AssignTag(e, t) = AssignTag(e, t)
  BY <1>1 DEF Postgres!AssignTag, AssignTag
<1>5. Postgres!NoRows = NoRows  BY DEF Postgres!NoRows, NoRows
<1> QED BY <1>1, <1>2, <1>3, <1>4, <1>5

(* Whether the export of a trace is over. *)
LEMMA PastFact == \A r : r \in Past <=> r \in sent /\ \A u \in DOMAIN active : ~Exports(u, r)
BY DEF Past

(* Worker w's call becomes c: what of the invariant is left to be shown. *)
LEMMA PgTurns ==
  ASSUME PgKept, NEW w \in Several, NEW c, active' = [active EXCEPT ![w] = c],
         Shaped(disk'), sent' \in SUBSET Traces, sent \subseteq sent',
         c # None =>
           /\ PgCall(c) /\ Deletes(c, disk')
           /\ c.op = "export" => /\ c.on \subseteq sent'
                                 /\ \A r \in c.on : Exports(w, r) \/ r \notin sent
           /\ c.op = "delete" => c.on \subseteq Past,
         \A r \in disk'.runs : r \in Past => r \in disk.runs,
         Past \subseteq Past' => gone' \cup failed' \subseteq Past' /\ disk'.runs \subseteq Past',
         \A r \in gone' \cup failed' : r \notin disk'.runs
  PROVE  PgKept'
<1>1. /\ DOMAIN active' = Several /\ active'[w] = c
      /\ \A u \in Several : u # w => active'[u] = active[u]
  BY DEF PgKept
<1>2. \A u \in Several : \A r : u # w => (Exports(u, r)' <=> Exports(u, r))
  BY <1>1 DEF Exports
<1>3. \A r : Exports(w, r)' => Exports(w, r) \/ r \notin sent
  BY <1>1 DEF Exports
<1>4. Past \subseteq Past'
  <2> SUFFICES ASSUME NEW r \in Past PROVE r \in Past'  OBVIOUS
  <2>1. r \in sent /\ \A u \in Several : ~Exports(u, r)
    BY PastFact DEF PgKept
  <2>2. \A u \in Several : ~Exports(u, r)'  BY <2>1, <1>2, <1>3
  <2>3. r \in sent'
    BY <2>1
  <2>4. \A u \in DOMAIN active' : ~Exports(u, r)'
    BY <2>2, <1>1
  <2> HIDE DEF Exports
  <2> QED BY <2>3, <2>4 DEF Past
<1>5. ASSUME NEW u \in Several, active'[u] # None
      PROVE  /\ PgCall(active'[u]) /\ Deletes(active'[u], disk')
             /\ active'[u].op = "export" => active'[u].on \subseteq sent'
             /\ active'[u].op = "delete" => active'[u].on \subseteq Past'
  <2>1. CASE u = w  BY <2>1, <1>1, <1>4, <1>5
  <2>2. CASE u # w
    <3> DEFINE d == active[u]
    <3>1. active'[u] = d /\ d # None  BY <2>2, <1>1, <1>5
    <3>2. /\ PgCall(d) /\ Deletes(d, disk)
          /\ d.op = "export" => d.on \subseteq sent
          /\ d.op = "delete" => d.on \subseteq Past
      BY <3>1 DEF PgKept
    <3> HIDE DEF d
    <3>3. Deletes(d, disk')  BY <3>2 DEF Deletes
    <3> QED BY <3>1, <3>2, <3>3, <1>4
  <2> QED BY <2>1, <2>2
<1>6. ASSUME NEW u \in Several, NEW v \in Several, NEW r \in Traces, Exports(u, r)', Exports(v, r)'
      PROVE  u = v
  <2>1. \A x \in Several : Exports(x, r) => r \in sent
    BY DEF PgKept, Exports
  <2>2. \A x, y \in Several : Exports(x, r) /\ Exports(y, r) => x = y
    BY DEF PgKept
  <2> QED BY <2>1, <2>2, <1>2, <1>3, <1>6
<1>7. gone' \cup failed' \subseteq Past' /\ disk'.runs \subseteq Past'
  BY <1>4
<1>8. \A u \in Several : active'[u] # None =>
       /\ PgCall(active[u])' /\ Deletes(active[u], disk)'
       /\ active'[u].op = "export" => active'[u].on \subseteq sent'
       /\ active'[u].op = "delete" => active'[u].on \subseteq Past'
  <2> TAKE u \in Several
  <2>1. PICK d : d = active'[u]  OBVIOUS
  <2> QED BY <2>1, <1>5 DEF PgCall, PgShape, Shaped, Ordered, Deletes
<1> QED BY <1>1, <1>6, <1>7, <1>8 DEF PgKept

(* What inserting and deleting rows makes of a call. *)
LEMMA PutFacts ==
  ASSUME NEW c, PgShape(c), NEW t \in TableNames, NEW new, NEW d, d = Postgres!Put(c, t, new)
  PROVE  /\ PgShape(d) /\ d.op = c.op /\ d.on = c.on /\ d.rest = Tail(c.rest) /\ d.aim = None
         /\ d.del = c.del
         /\ t # "runs" => d.ins.runs = c.ins.runs
         /\ t = "runs" => d.ins.runs = c.ins.runs \cup (new \ (disk.runs \ c.del.runs))
BY DEF Postgres!Put, PgShape, Shaped, TableNames

LEMMA TakeFacts ==
  ASSUME NEW c, PgShape(c), NEW t \in TableNames, NEW old, NEW d, d = Postgres!Take(c, t, old)
  PROVE  /\ PgShape(d) /\ d.op = c.op /\ d.on = c.on /\ d.rest = c.rest /\ d.aim = c.aim
         /\ t # "runs" => d.ins.runs = c.ins.runs /\ d.del.runs = c.del.runs
         /\ t = "runs" => /\ d.ins.runs = c.ins.runs \ old
                         /\ d.del.runs = c.del.runs \cup (old \cap disk.runs)
BY DEF Postgres!Take, PgShape, Shaped, TableNames

LEMMA OverFacts ==
  ASSUME NEW c, PgShape(c), NEW d, d = [c EXCEPT !.rest = Tail(@), !.aim = None]
  PROVE  /\ PgShape(d) /\ d.op = c.op /\ d.on = c.on /\ d.rest = Tail(c.rest) /\ d.aim = None
         /\ d.ins = c.ins /\ d.del = c.del
BY DEF PgShape, Shaped

LEMMA ThroughFacts ==
  ASSUME NEW w, NEW c, c = active[w], PgShape(c), NEW s, s = Head(c.rest), s.do \in PgKnown,
         NEW d, d = Postgres!Through(w)
  PROVE  GoneThrough(c, s, d)
<1>11. "runs" \in TableNames /\ "spans" \in TableNames /\ "marks" \in TableNames /\ "tags" \in TableNames
  BY DEF TableNames
<1>12. PgShape(c)  OBVIOUS
<1>0. s = Postgres!Now(w) /\ c = active[w]  BY DEF Postgres!Now
<1>1. CASE s.do = "insert_run"
  <2>1. d = Postgres!Put(c, "runs", c.aim)
    BY <1>0, <1>1 DEF Postgres!Through
  <2>2. /\ PgShape(d) /\ d.op = c.op /\ d.on = c.on /\ d.rest = Tail(c.rest) /\ d.aim = None
        /\ d.del = c.del
        /\ d.ins.runs = c.ins.runs \cup (c.aim \ (disk.runs \ c.del.runs))
    BY ONLY <2>1, <1>11, <1>12, PutFacts
  <2> QED BY <2>2, <1>1 DEF GoneThrough
<1>2. CASE s.do = "insert_span"
  <2>1. d = Postgres!Put(c, "spans", c.aim)
    BY <1>0, <1>2 DEF Postgres!Through
  <2>2. /\ PgShape(d) /\ d.op = c.op /\ d.on = c.on /\ d.rest = Tail(c.rest) /\ d.aim = None
        /\ d.del = c.del
        /\ d.ins.runs = c.ins.runs
    BY ONLY <2>1, <1>11, <1>12, PutFacts
  <2> QED BY <2>2, <1>2 DEF GoneThrough
<1>3. CASE s.do = "insert_tag" \/ s.do = "copy_tag"
  <2>1. d = Postgres!Put(c, "tags", c.aim)
    BY <1>0, <1>3 DEF Postgres!Through
  <2>2. /\ PgShape(d) /\ d.op = c.op /\ d.on = c.on /\ d.rest = Tail(c.rest) /\ d.aim = None
        /\ d.del = c.del
        /\ d.ins.runs = c.ins.runs
    BY ONLY <2>1, <1>11, <1>12, PutFacts
  <2> QED BY <2>2, <1>3 DEF GoneThrough
<1>4. CASE s.do = "insert_mark"
  <2>1. PICK e : e = Postgres!Put(c, "marks", c.aim)  OBVIOUS
  <2>2. d = [e EXCEPT !.upd = @ \cup (c.aim \cap disk.marks)]
    BY <2>1, <1>0, <1>4 DEF Postgres!Through
  <2>3. /\ PgShape(e) /\ e.op = c.op /\ e.on = c.on /\ e.rest = Tail(c.rest) /\ e.aim = None
        /\ e.del = c.del /\ e.ins.runs = c.ins.runs
    BY ONLY <2>1, <1>11, <1>12, PutFacts
  <2>4. /\ PgShape(d) /\ d.op = e.op /\ d.on = e.on /\ d.rest = e.rest /\ d.aim = e.aim
        /\ d.del = e.del /\ d.ins = e.ins
    BY <2>2, <2>3 DEF PgShape, Shaped
  <2> QED BY <2>3, <2>4, <1>4 DEF GoneThrough
<1>5. CASE s.do = "delete_spans"
  <2>1. PICK e : e = Postgres!Take(c, "spans", c.aim)  OBVIOUS
  <2>2. d = [e EXCEPT !.rest = Tail(@), !.aim = None]
    BY <2>1, <1>0, <1>5 DEF Postgres!Through
  <2>3. /\ PgShape(e) /\ e.op = c.op /\ e.on = c.on /\ e.rest = c.rest
        /\ e.del.runs = c.del.runs /\ e.ins.runs = c.ins.runs
    BY ONLY <2>1, <1>11, <1>12, TakeFacts
  <2>4. /\ PgShape(d) /\ d.op = e.op /\ d.on = e.on /\ d.rest = Tail(e.rest) /\ d.aim = None
        /\ d.ins = e.ins /\ d.del = e.del
    BY ONLY <2>2, <2>3, OverFacts
  <2> QED BY <2>3, <2>4, <1>5 DEF GoneThrough
<1>6. CASE s.do \in {"delete_marks", "unmark", "drop_doubles"}
  <2>1. PICK e : e = Postgres!Take(c, "marks", c.aim)  OBVIOUS
  <2>2. d = [e EXCEPT !.rest = Tail(@), !.aim = None]
    BY <2>1, <1>0, <1>6 DEF Postgres!Through
  <2>3. /\ PgShape(e) /\ e.op = c.op /\ e.on = c.on /\ e.rest = c.rest
        /\ e.del.runs = c.del.runs /\ e.ins.runs = c.ins.runs
    BY ONLY <2>1, <1>11, <1>12, TakeFacts
  <2>4. /\ PgShape(d) /\ d.op = e.op /\ d.on = e.on /\ d.rest = Tail(e.rest) /\ d.aim = None
        /\ d.ins = e.ins /\ d.del = e.del
    BY ONLY <2>2, <2>3, OverFacts
  <2> QED BY <2>3, <2>4, <1>6 DEF GoneThrough
<1>7. CASE s.do = "move_marks"
  <2>1. PICK old, new : d = Postgres!Put(Postgres!Take(c, "marks", old), "marks", new)
    BY <1>0, <1>7 DEF Postgres!Through
  <2>2. PICK e : e = Postgres!Take(c, "marks", old)  OBVIOUS
  <2>3. /\ PgShape(e) /\ e.op = c.op /\ e.on = c.on /\ e.rest = c.rest
        /\ e.del.runs = c.del.runs /\ e.ins.runs = c.ins.runs
    BY ONLY <2>2, <1>11, <1>12, TakeFacts
  <2>4. d = Postgres!Put(e, "marks", new)  BY <2>1, <2>2
  <2>5. /\ PgShape(d) /\ d.op = e.op /\ d.on = e.on /\ d.rest = Tail(e.rest) /\ d.aim = None
        /\ d.del = e.del /\ d.ins.runs = e.ins.runs
    BY ONLY <2>3, <2>4, <1>11, PutFacts
  <2> QED BY <2>3, <2>5, <1>7 DEF GoneThrough
<1>8. CASE s.do = "delete_runs"
  <2>1. PICK old : d = [Postgres!Take(Postgres!Take(c, "runs", c.aim), "marks", old)
                          EXCEPT !.rest = Tail(@), !.aim = None]
    BY <1>0, <1>8 DEF Postgres!Through
  <2>2. PICK e, f : e = Postgres!Take(c, "runs", c.aim) /\ f = Postgres!Take(e, "marks", old)  OBVIOUS
  <2>3. /\ PgShape(e) /\ e.op = c.op /\ e.on = c.on /\ e.rest = c.rest
        /\ e.del.runs = c.del.runs \cup (c.aim \cap disk.runs) /\ e.ins.runs = c.ins.runs \ c.aim
    BY ONLY <2>2, <1>11, <1>12, TakeFacts
  <2>4. /\ PgShape(f) /\ f.op = e.op /\ f.on = e.on /\ f.rest = e.rest
        /\ f.del.runs = e.del.runs /\ f.ins.runs = e.ins.runs
    BY ONLY <2>2, <2>3, <1>11, TakeFacts
  <2>5. d = [f EXCEPT !.rest = Tail(@), !.aim = None]
    BY <2>1, <2>2
  <2>6. /\ PgShape(d) /\ d.op = f.op /\ d.on = f.on /\ d.rest = Tail(f.rest) /\ d.aim = None
        /\ d.ins = f.ins /\ d.del = f.del
    BY ONLY <2>4, <2>5, OverFacts
  <2> QED BY <2>3, <2>4, <2>6, <1>8 DEF GoneThrough
<1>9. CASE s.do = "delete_tag"
  <2>1. PICK old : d = [Postgres!Take(Postgres!Take(c, "tags", c.aim), "marks", old)
                          EXCEPT !.rest = Tail(@), !.aim = None]
    BY <1>0, <1>9 DEF Postgres!Through
  <2>2. PICK e, f : e = Postgres!Take(c, "tags", c.aim) /\ f = Postgres!Take(e, "marks", old)  OBVIOUS
  <2>3. /\ PgShape(e) /\ e.op = c.op /\ e.on = c.on /\ e.rest = c.rest
        /\ e.del.runs = c.del.runs /\ e.ins.runs = c.ins.runs
    BY ONLY <2>2, <1>11, <1>12, TakeFacts
  <2>4. /\ PgShape(f) /\ f.op = e.op /\ f.on = e.on /\ f.rest = e.rest
        /\ f.del.runs = e.del.runs /\ f.ins.runs = e.ins.runs
    BY ONLY <2>2, <2>3, <1>11, TakeFacts
  <2>5. d = [f EXCEPT !.rest = Tail(@), !.aim = None]
    BY <2>1, <2>2
  <2>6. /\ PgShape(d) /\ d.op = f.op /\ d.on = f.on /\ d.rest = Tail(f.rest) /\ d.aim = None
        /\ d.ins = f.ins /\ d.del = f.del
    BY ONLY <2>4, <2>5, OverFacts
  <2> QED BY <2>3, <2>4, <2>6, <1>9 DEF GoneThrough
<1>10. CASE s.do = "select_old"
  <2>1. d = [c EXCEPT !.rest = (IF c.aim = {} THEN <<>> ELSE DeleteRuns(c.aim)) \o Tail(@), !.aim = None]
    BY <1>0, <1>10, PgTerms DEF Postgres!Through
  <2> QED BY <2>1, <1>10 DEF PgShape, Shaped, GoneThrough
<1> QED BY <1>1, <1>2, <1>3, <1>4, <1>5, <1>6, <1>7, <1>8, <1>9, <1>10 DEF PgKnown, Kinds

LEMMA OrderedTail ==
  ASSUME NEW S, NEW op, NEW on, NEW rest \in Seq(S), rest # <<>>, Ordered(op, on, rest)
  PROVE  OrderedOn(op, on, rest)
<1>1. PICK n : n \in Nat /\ n = Len(rest) /\ n >= 1
  BY TailFacts
<1>2. /\ Len(Tail(rest)) = n - 1 /\ Head(rest) = rest[1]
      /\ \A i \in 1 .. n - 1 : Tail(rest)[i] = rest[i + 1]
      /\ Tail(rest) = <<>> <=> n = 1
  BY <1>1, TailFacts
<1>3. /\ \A i \in 1 .. n :
           /\ rest[i].do \in PgKnown
           /\ rest[i].do = "insert_run" => op = "export" /\ rest[i].rows = on
           /\ rest[i].do = "select_old" => i = n /\ op # "delete"
           /\ op = "delete" /\ rest[i].do = "delete_runs" => rest[i].rows = on
      /\ op = "delete" => rest[n].do = "delete_runs"
  BY <1>1 DEF Ordered
<1>4. \A i \in 1 .. n - 1 : i + 1 \in 1 .. n /\ (i + 1 = n => i = n - 1)
  BY ONLY <1>1
<1>5. \A i \in 1 .. n - 1 :
           /\ Tail(rest)[i].do \in PgKnown
           /\ Tail(rest)[i].do = "insert_run" => op = "export" /\ Tail(rest)[i].rows = on
           /\ Tail(rest)[i].do = "select_old" => i = n - 1 /\ op # "delete"
           /\ op = "delete" /\ Tail(rest)[i].do = "delete_runs" => Tail(rest)[i].rows = on
  BY ONLY <1>2, <1>3, <1>4
<1>6. Tail(rest) # <<>> /\ op = "delete" => Tail(rest)[n - 1].do = "delete_runs"
  <2>1. n # 1 => n - 1 \in 1 .. n - 1 /\ n - 1 + 1 = n
    BY ONLY <1>1
  <2> QED BY ONLY <1>2, <1>3, <2>1
<1>7. 1 \in 1 .. n  BY ONLY <1>1
<1> QED BY ONLY <1>2, <1>3, <1>5, <1>6, <1>7 DEF Ordered, OrderedOn

(* The programs of the other calls are of this kind. *)
LEMMA PlainOrdered ==
  ASSUME NEW prog, Plain(prog), NEW op, NEW on, op # "delete"
  PROVE  Ordered(op, on, prog)
BY DEF Plain, Ordered

LEMMA OnePlain ==
  ASSUME NEW do \in PgKnown, do # "insert_run", NEW x \in Rows \cup Nat
  PROVE  Plain(<<Statement(do, x)>>)
<1>1. Statement(do, x) \in Statements /\ Statement(do, x).do = do
  BY StatementFact DEF PgKnown
<1> DEFINE s == Statement(do, x)
<1> HIDE DEF s
<1>2. <<s>> \in Seq(Statements) /\ Len(<<s>>) = 1 /\ <<s>>[1] = s
  BY <1>1, Tuples DEF s
<1>3. s.do \in PgKnown /\ s.do # "insert_run"  BY <1>1 DEF s
<1> QED BY <1>2, <1>3 DEF Plain, s

LEMMA PlainDelete ==
  ASSUME NEW R \in SUBSET Traces
  PROVE  /\ Plain(DeleteRuns(R)) /\ DeleteRuns(R) # <<>>
         /\ Ordered("delete", R, DeleteRuns(R))
<1> DEFINE p == DeleteRuns(R)
<1>1. /\ p \in Seq(Statements) /\ Len(p) = 3
      /\ p[1] = Statement("delete_spans", R) /\ p[2] = Statement("delete_marks", R)
      /\ p[3] = Statement("delete_runs", R)
  BY DeleteFacts
<1> HIDE DEF p
<1>2. /\ p[1].do = "delete_spans" /\ p[2].do = "delete_marks"
      /\ p[3].do = "delete_runs" /\ p[3].rows = R
  BY ONLY <1>1, StatementFields
<1>3. \A i \in 1 .. Len(p) : i = 1 \/ i = 2 \/ i = 3
  BY <1>1
<1>4. \A i \in 1 .. Len(p) : /\ p[i].do \in PgKnown /\ p[i].do # "insert_run" /\ p[i].do # "select_old"
                             /\ p[i].do = "delete_runs" => p[i].rows = R
  BY ONLY <1>2, <1>3 DEF PgKnown, Kinds
<1>5. p = <<>> => Len(p) = 0  BY EmptySeq
<1>6. p # <<>>
  BY ONLY <1>1, <1>5
<1> QED BY ONLY <1>1, <1>2, <1>4, <1>6 DEF Plain, Ordered, p

LEMMA PlainPrograms ==
  /\ \A n \in Nat : Plain(<<Postgres!Select("select_old", n)>>)
  /\ \A o, n \in Tags : Plain(Postgres!RenameProgram(o, n))
  /\ \A t \in Tags : Plain(<<Postgres!Statement("delete_tag", {t})>>)
  /\ \A R \in SUBSET Traces, t \in Tags : Plain(<<Postgres!Statement("unmark", R \X {t})>>)
  /\ \A t \in Tags : Plain(<<Postgres!Statement("insert_tag", {t})>>)
<1>1. ASSUME NEW n \in Nat PROVE Plain(<<Statement("select_old", n)>>)
  BY OnePlain DEF PgKnown, Kinds
<1>2. ASSUME NEW o \in Tags, NEW n \in Tags PROVE Plain(Postgres!RenameProgram(o, n))
  <2> DEFINE a == Statement("copy_tag", {<<o, n>>})
             b == Statement("drop_doubles", {<<o, n>>})
             c == Statement("move_marks", {<<o, n>>})
             d == Statement("delete_tag", {o})
  <2>1. {<<o, n>>} \in SUBSET (Tags \X Tags) /\ {o} \in SUBSET Tags  OBVIOUS
  <2>2. /\ a \in Statements /\ b \in Statements /\ c \in Statements /\ d \in Statements
        /\ a.do = "copy_tag" /\ b.do = "drop_doubles" /\ c.do = "move_marks" /\ d.do = "delete_tag"
    BY <2>1, RowsFact, StatementFact DEF Kinds
  <2>3. Postgres!RenameProgram(o, n) = <<a, b, c, d>>
    BY PgTerms DEF Postgres!RenameProgram
  <2> HIDE DEF a, b, c, d
  <2>4. /\ <<a, b, c, d>> \in Seq(Statements) /\ Len(<<a, b, c, d>>) = 4
        /\ \A i \in 1 .. 4 : <<a, b, c, d>>[i] \in {a, b, c, d}
    BY <2>2
  <2>5. \A i \in 1 .. 4 : <<a, b, c, d>>[i].do \in {"copy_tag", "drop_doubles", "move_marks", "delete_tag"}
    BY ONLY <2>2, <2>4
  <2> DEFINE p == <<a, b, c, d>>
  <2>6. p \in Seq(Statements) /\ Len(p) = 4  BY <2>4
  <2>7. \A i \in 1 .. 4 : p[i].do \in {"copy_tag", "drop_doubles", "move_marks", "delete_tag"}
    BY <2>5
  <2>8. Postgres!RenameProgram(o, n) = p  BY <2>3
  <2> HIDE DEF p
  <2> QED BY ONLY <2>6, <2>7, <2>8 DEF Plain, PgKnown, Kinds
<1>3. ASSUME NEW t \in Tags PROVE Plain(<<Statement("delete_tag", {t})>>) /\ Plain(<<Statement("insert_tag", {t})>>)
  <2>1. {t} \in Rows  BY RowsFact
  <2> QED BY <2>1, OnePlain DEF PgKnown, Kinds
<1>4. ASSUME NEW R \in SUBSET Traces, NEW t \in Tags PROVE Plain(<<Statement("unmark", R \X {t})>>)
  <2>1. R \X {t} \in SUBSET (Traces \X Tags)  OBVIOUS
  <2>2. R \X {t} \in Rows  BY <2>1, RowsFact
  <2> QED BY <2>2, OnePlain DEF PgKnown, Kinds
<1> QED BY <1>1, <1>2, <1>3, <1>4, PgTerms

(* The statements of a tagging. *)
LEMMA PlainAssign ==
  ASSUME NEW R \in SUBSET Traces, NEW t \in Tags, NEW e \in Postgres!Orders(R)
  PROVE  Plain(Postgres!AssignTag(e, t))
<1>1. Postgres!Cardinality(R) = Cardinality(R)
  BY DEF Postgres!Cardinality, Cardinality
<1>2. PICK k \in Nat : k = Cardinality(R)
  BY StoresAssumption, FS_Subset, FS_CardinalityType
<1>3. e \in [1 .. k -> R]  BY <1>1, <1>2 DEF Postgres!Orders
<1> DEFINE p == AssignTag(e, t)
<1>4. p \in Seq(Statements) /\ \A i \in 1 .. Len(p) : p[i].do \in {"insert_tag", "insert_mark"}
  BY <1>3, AssignFacts
<1>5. Postgres!AssignTag(e, t) = p  BY PgTerms
<1> HIDE DEF p
<1> QED BY <1>4, <1>5 DEF Plain, PgKnown, Kinds

(* An export: the run, its spans, then the search for the runs to prune. *)
LEMMA PgExportingFacts ==
  ASSUME NEW r \in Traces
  PROVE  \E n \in Nat :
           /\ n = SpansOf[r]
           /\ Postgres!ExportProgram(r) \in Seq(Statements) /\ Len(Postgres!ExportProgram(r)) = n + 2
           /\ Postgres!ExportProgram(r)[1] = Statement("insert_run", {r})
           /\ \A j \in 1 .. n : Postgres!ExportProgram(r)[j + 1] = Statement("insert_span", {<<r, j>>})
           /\ Postgres!ExportProgram(r)[n + 2] = Statement("select_old", MaxRuns)
<1>1. PICK n \in Nat : n = SpansOf[r]  BY StoresAssumption
<1>2. \A j \in 1 .. n : Statement("insert_span", {<<r, j>>}) \in Statements
  <2>1. \A j \in 1 .. n : {<<r, j>>} \in SUBSET SpanIds
    BY <1>1, SpanIdsFact
  <2> QED BY <2>1, RowsFact, StatementFact DEF Kinds
<1>3. Statement("insert_run", {r}) \in Statements
  <2>1. {r} \in SUBSET Traces  OBVIOUS
  <2> QED BY <2>1, RowsFact, StatementFact DEF Kinds
<1>4. Statement("select_old", MaxRuns) \in Statements
  BY StoresAssumption, StatementFact DEF Kinds
<1> DEFINE run   == <<Statement("insert_run", {r})>>
           each  == [j \in 1 .. n |-> Statement("insert_span", {<<r, j>>})]
           old   == <<Statement("select_old", MaxRuns)>>
           p     == (run \o each) \o old
<1>5. run \in Seq(Statements) /\ Len(run) = 1 /\ run[1] = Statement("insert_run", {r})
  BY <1>3, Tuples
<1>6. old \in Seq(Statements) /\ Len(old) = 1 /\ old[1] = Statement("select_old", MaxRuns)
  BY <1>4, Tuples
<1>7. each \in Seq(Statements) /\ Len(each) = n
  <2>1. each \in [1 .. n -> Statements]  BY <1>2
  <2> HIDE DEF each
  <2> QED BY <2>1, FunctionSeq
<1>8. \A j \in 1 .. n : each[j] = Statement("insert_span", {<<r, j>>})  OBVIOUS
<1>9. Postgres!ExportProgram(r) = p
  BY <1>1, PgTerms DEF Postgres!ExportProgram, InsertTrace, run, each, old
<1> HIDE DEF run, each, old
<1>10. PICK m : m \in Nat /\ m = 1  OBVIOUS
<1>11. PICK k : k \in Nat /\ k = m + n  BY <1>10
<1>12. /\ run \o each \in Seq(Statements) /\ Len(run \o each) = k
       /\ \A i \in 1 .. m : (run \o each)[i] = run[i]
       /\ \A i \in 1 .. n : (run \o each)[i + m] = each[i]
  <2>1. run \in Seq(Statements) /\ each \in Seq(Statements) /\ Len(run) = m /\ Len(each) = n
    BY <1>5, <1>7, <1>10
  <2>2. m \in Nat /\ n \in Nat  BY <1>10
  <2>3. Join(Statements, run, m, each, n)
    BY ONLY <2>1, <2>2, Joined
  <2> QED BY ONLY <1>11, <2>3 DEF Join
<1>13. /\ p \in Seq(Statements) /\ Len(p) = k + m
       /\ \A i \in 1 .. k : p[i] = (run \o each)[i]
       /\ \A i \in 1 .. m : p[i + k] = old[i]
  <2> DEFINE u == run \o each
  <2>1. u \in Seq(Statements) /\ old \in Seq(Statements) /\ Len(u) = k /\ Len(old) = m
    BY <1>6, <1>10, <1>12
  <2> HIDE DEF u
  <2>2. u \in Seq(Statements) /\ old \in Seq(Statements) /\ Len(u) = k /\ Len(old) = m /\ k \in Nat /\ m \in Nat
    BY ONLY <2>1, <1>10, <1>11
  <2>3. Join(Statements, u, k, old, m)  BY ONLY <2>2, Joined
  <2> QED BY ONLY <2>3 DEF Join, u, p
<1> HIDE DEF p
<1>14. p[1] = Statement("insert_run", {r})
  <2>1. 1 \in 1 .. m /\ 1 \in 1 .. k  BY ONLY <1>10, <1>11, n \in Nat
  <2> QED BY ONLY <2>1, <1>5, <1>12, <1>13
<1>15. \A j \in 1 .. n : p[j + 1] = Statement("insert_span", {<<r, j>>})
  <2>1. \A j \in 1 .. n : j + 1 = j + m /\ j + m \in 1 .. k
    BY ONLY <1>10, <1>11, n \in Nat
  <2> QED BY ONLY <2>1, <1>8, <1>12, <1>13
<1>16. p[n + 2] = Statement("select_old", MaxRuns) /\ k + m = n + 2
  <2>1. 1 \in 1 .. m /\ 1 + k = n + 2 /\ k + m = n + 2
    BY ONLY <1>10, <1>11, n \in Nat
  <2> QED BY ONLY <2>1, <1>6, <1>13
<1> QED BY <1>1, <1>9, <1>13, <1>14, <1>15, <1>16

LEMMA ExportOrdered ==
  ASSUME NEW r \in Traces
  PROVE  /\ Postgres!ExportProgram(r) \in Seq(Statements)
         /\ Ordered("export", {r}, Postgres!ExportProgram(r))
<1> DEFINE p == Postgres!ExportProgram(r)
<1>1. PICK n \in Nat :
        /\ p \in Seq(Statements) /\ Len(p) = n + 2
        /\ p[1] = Statement("insert_run", {r})
        /\ \A j \in 1 .. n : p[j + 1] = Statement("insert_span", {<<r, j>>})
        /\ p[n + 2] = Statement("select_old", MaxRuns)
  BY PgExportingFacts
<1> HIDE DEF p
<1>2. p[1].do = "insert_run" /\ p[1].rows = {r} /\ p[n + 2].do = "select_old"
  BY ONLY <1>1, StatementFields
<1>3. \A j \in 1 .. n : p[j + 1].do = "insert_span"
  <2> TAKE j \in 1 .. n
  <2>1. PICK x : p[j + 1] = Statement("insert_span", x)
    BY ONLY <1>1
  <2> QED BY ONLY <2>1, StatementFields
<1>4. \A i \in 1 .. n + 2 : \/ i = 1 \/ (i - 1 \in 1 .. n /\ (i - 1) + 1 = i)
                            \/ i = n + 2
  OBVIOUS
<1>5. \A i \in 1 .. n + 2 :
        /\ p[i].do \in PgKnown /\ p[i].do # "delete_runs"
        /\ p[i].do = "insert_run" => p[i].rows = {r}
        /\ p[i].do = "select_old" => i = n + 2
  BY ONLY <1>2, <1>3, <1>4 DEF PgKnown, Kinds
<1>6. Ordered("export", {r}, p)  BY ONLY <1>1, <1>5 DEF Ordered
<1> QED BY <1>1, <1>6 DEF p

(* A call that has just begun. *)
LEMMA PgCallFacts ==
  ASSUME NEW op, NEW on \in SUBSET Traces, NEW prog \in Seq(Statements), Ordered(op, on, prog),
         NEW c, c = Postgres!Call(op, on, prog)
  PROVE  PgNew(c, op, on, prog)
<1>1. /\ c = [op |-> op, on |-> on, rest |-> prog, aim |-> None, ins |-> NoRows, del |-> NoRows, upd |-> {}]
  BY PgTerms DEF Postgres!Call
<1>2. /\ c.op = op /\ c.on = on /\ c.rest = prog /\ c.aim = None /\ c.ins = NoRows /\ c.del = NoRows
      /\ DOMAIN c = {"op", "on", "rest", "aim", "ins", "del", "upd"}
  BY <1>1
<1>3. Shaped(NoRows) /\ NoRows.runs = {}  BY DEF Shaped, NoRows
<1>4. PgShape(c)
  BY ONLY <1>2, <1>3 DEF PgShape
<1>5. PgCall(c)
  BY ONLY <1>2, <1>3, <1>4, on \in SUBSET Traces, prog \in Seq(Statements), Ordered(op, on, prog) DEF PgCall
<1> QED BY ONLY <1>2, <1>5 DEF Deletes, PgNew

(* A step that leaves the tables alone. *)
LEMMA PgUnwritten ==
  ASSUME PgKept, NEW w \in Several, NEW c, active' = [active EXCEPT ![w] = c],
         disk' = disk, sent' = sent, gone' = gone, failed' = failed,
         PgCall(c), Deletes(c, disk),
         c.op = "export" => \A r \in c.on : Exports(w, r),
         c.op = "delete" => c.on \subseteq Past
  PROVE  PgKept'
<1>1. /\ Shaped(disk) /\ sent \in SUBSET Traces /\ gone \cup failed \subseteq Past /\ disk.runs \subseteq Past
      /\ \A r \in gone \cup failed : r \notin disk.runs
      /\ active[w] # None /\ active[w].op = "export" => active[w].on \subseteq sent
  BY DEF PgKept
<1>2. Shaped(disk')  BY <1>1 DEF Shaped
<1>3. c.op = "export" => c.on \subseteq sent'
  BY <1>1 DEF Exports
<1>4. Deletes(c, disk')  BY DEF Deletes
<1> HIDE DEF PgKept, PgCall, Deletes, Exports, Past
<1> QED BY <1>1, <1>2, <1>3, <1>4, PgTurns

(* Every stored trace is past, and every past one was sent. *)
LEMMA PgSent == PgKept => /\ disk.runs \subseteq Past /\ Past \subseteq sent /\ sent \in SUBSET Traces
                          /\ Shaped(disk) /\ DOMAIN active = Several
BY PastFact DEF PgKept

(* The calls that begin. *)
LEMMA PgExportTurn ==
  ASSUME PgKept, NEW w \in Several, NEW r \in Traces, Postgres!Export(w, r)
  PROVE  PgKept'
<1> DEFINE c == Postgres!Call("export", {r}, Postgres!ExportProgram(r))
<1>1. /\ active[w] = None /\ r \notin sent /\ active' = [active EXCEPT ![w] = c]
      /\ sent' = sent \cup {r} /\ disk' = disk /\ gone' = gone /\ failed' = failed
  BY DEF Postgres!Export
<1>2. PgCall(c) /\ c.op = "export" /\ c.on = {r}
  <2> DEFINE p == Postgres!ExportProgram(r)
  <2>1. {r} \in SUBSET Traces /\ p \in Seq(Statements) /\ Ordered("export", {r}, p)
    BY ExportOrdered
  <2> HIDE DEF p
  <2>2. PICK d : d = Postgres!Call("export", {r}, p)  OBVIOUS
  <2>3. PICK op, on : op = "export" /\ on = {r}  OBVIOUS
  <2>4. on \in SUBSET Traces /\ p \in Seq(Statements) /\ Ordered(op, on, p) /\ d = Postgres!Call(op, on, p)
    BY ONLY <2>1, <2>2, <2>3
  <2>5. PgNew(d, op, on, p)  BY ONLY <2>4, PgCallFacts
  <2> QED BY ONLY <2>2, <2>3, <2>5 DEF c, p, PgNew
<1> HIDE DEF c
<1>3. /\ Shaped(disk) /\ sent \in SUBSET Traces /\ gone \cup failed \subseteq Past /\ disk.runs \subseteq Past
      /\ \A q \in gone \cup failed : q \notin disk.runs
  BY DEF PgKept
<1>4. /\ Shaped(disk') /\ sent' \in SUBSET Traces /\ sent \subseteq sent'
      /\ \A q \in gone' \cup failed' : q \notin disk'.runs
      /\ \A q \in disk'.runs : q \in Past => q \in disk.runs
      /\ Past \subseteq Past' => gone' \cup failed' \subseteq Past' /\ disk'.runs \subseteq Past'
  BY <1>1, <1>3 DEF Shaped
<1>5. /\ PgCall(c) /\ Deletes(c, disk') /\ c.op # "delete"
      /\ c.on \subseteq sent' /\ \A q \in c.on : q \notin sent
  BY <1>1, <1>2 DEF Deletes
<1> QED BY <1>1, <1>4, <1>5, PgTurns

LEMMA PgBegins ==
  ASSUME PgKept, NEW w \in Several, NEW op, NEW on \in SUBSET Traces, NEW prog \in Seq(Statements),
         Ordered(op, on, prog), op # "export",
         op = "delete" => prog # <<>> /\ on \subseteq Past, Postgres!Begin(w, op, on, prog)
  PROVE  PgKept'
<1> DEFINE c == Postgres!Call(op, on, prog)
<1>1. /\ active' = [active EXCEPT ![w] = c]
      /\ sent' = sent /\ disk' = disk /\ gone' = gone /\ failed' = failed
  BY DEF Postgres!Begin
<1>2. PgCall(c) /\ c.op = op /\ c.on = on /\ (prog # <<>> => Deletes(c, disk))
  BY PgCallFacts DEF PgNew
<1> HIDE DEF c
<1>3. Deletes(c, disk)  BY <1>2 DEF Deletes
<1> QED BY <1>1, <1>2, <1>3, PgUnwritten

(* The calls that are not exports. *)
LEMMA PgDeleteTurn ==
  ASSUME PgKept, NEW w \in Several, NEW R \in SUBSET disk.runs, Postgres!Delete(w, R)
  PROVE  PgKept'
<1>1. R \subseteq Past /\ R \in SUBSET Traces  BY PgSent
<1>2. Postgres!Begin(w, "delete", R, DeleteRuns(R))
  BY PgTerms DEF Postgres!Delete
<1>3. DeleteRuns(R) \in Seq(Statements) /\ Ordered("delete", R, DeleteRuns(R)) /\ DeleteRuns(R) # <<>>
  BY <1>1, PlainDelete DEF Plain
<1> QED BY <1>1, <1>2, <1>3, PgBegins

LEMMA PlainBegins ==
  ASSUME PgKept, NEW w \in Several, NEW op, op \notin {"export", "delete"},
         NEW on \in SUBSET Traces, NEW prog, Plain(prog), Postgres!Begin(w, op, on, prog)
  PROVE  PgKept'
<1>1. prog \in Seq(Statements) /\ Ordered(op, on, prog)
  BY PlainOrdered DEF Plain
<1> QED BY <1>1, PgBegins

LEMMA PgOtherBegins ==
  ASSUME PgKept, NEW w \in Several, PgOthers(w)
  PROVE  PgKept'
<1>1. ASSUME NEW n \in 0 .. MaxRuns, Postgres!PruneTo(w, n) PROVE PgKept'
  <2> DEFINE p == <<Postgres!Select("select_old", n)>>
  <2>1. n \in Nat  BY StoresAssumption
  <2>2. Plain(p) /\ Postgres!Begin(w, "prune", {}, p)
    BY <1>1, <2>1, PlainPrograms DEF Postgres!PruneTo
  <2> HIDE DEF p
  <2> QED BY <2>2, PlainBegins
<1>2. ASSUME NEW R \in SUBSET Traces, NEW t \in Tags, Postgres!TagRuns(w, R, t) PROVE PgKept'
  <2>1. PICK e \in Postgres!Orders(R \cap disk.runs) :
               Postgres!Begin(w, "tag", R, Postgres!AssignTag(e, t))
    BY <1>2 DEF Postgres!TagRuns
  <2>2. Plain(Postgres!AssignTag(e, t))  BY <2>1, PlainAssign
  <2> QED BY <2>1, <2>2, PlainBegins
<1>3. ASSUME NEW R \in SUBSET Traces, NEW t \in Tags, Postgres!UntagRuns(w, R, t) PROVE PgKept'
  <2> DEFINE p == <<Postgres!Statement("unmark", R \X {t})>>
  <2>1. Plain(p) /\ Postgres!Begin(w, "untag", R, p)
    BY <1>3, PlainPrograms DEF Postgres!UntagRuns
  <2> HIDE DEF p
  <2> QED BY <2>1, PlainBegins
<1>4. ASSUME NEW o \in Tags, NEW n \in Tags, Postgres!RenameTag(w, o, n) PROVE PgKept'
  <2>1. Plain(Postgres!RenameProgram(o, n)) /\ Postgres!Begin(w, "rename", {}, Postgres!RenameProgram(o, n))
    BY <1>4, PlainPrograms DEF Postgres!RenameTag
  <2> QED BY <2>1, PlainBegins
<1>5. ASSUME NEW t \in Tags, Postgres!SetTagColor(w, t) PROVE PgKept'
  <2> DEFINE p == <<Postgres!Statement("insert_tag", {t})>>
  <2>1. Plain(p) /\ Postgres!Begin(w, "color", {}, p)
    BY <1>5, PlainPrograms DEF Postgres!SetTagColor
  <2> HIDE DEF p
  <2> QED BY <2>1, PlainBegins
<1>6. ASSUME NEW t \in Tags, Postgres!DeleteTag(w, t) PROVE PgKept'
  <2> DEFINE p == <<Postgres!Statement("delete_tag", {t})>>
  <2>1. Plain(p) /\ Postgres!Begin(w, "delete_tag", {}, p)
    BY <1>6, PlainPrograms DEF Postgres!DeleteTag
  <2> HIDE DEF p
  <2> QED BY <2>1, PlainBegins
<1> QED BY <1>1, <1>2, <1>3, <1>4, <1>5, <1>6 DEF PgOthers

(* The invariant of one call. *)
LEMMA PgCallKept ==
  ASSUME PgKept, NEW w \in Several, active[w] # None
  PROVE  /\ PgCall(active[w]) /\ Deletes(active[w], disk)
         /\ active[w].op = "export" => \A r \in active[w].on : Exports(w, r) /\ r \notin Past
         /\ active[w].op = "delete" => active[w].on \subseteq Past
         /\ active[w].on \subseteq Traces
<1>1. active[w].op = "export" => \A r \in active[w].on : Exports(w, r)
  BY DEF Exports
<1>2. \A r : Exports(w, r) => r \notin Past  BY PastFact DEF PgKept
<1> QED BY <1>1, <1>2 DEF PgKept, PgCall

(* A statement that starts: what it is to find. *)
LEMMA PgStartTurn ==
  ASSUME PgKept, NEW w \in Several, Postgres!Start(w)
  PROVE  PgKept'
<1> DEFINE c == active[w]
           s == Head(c.rest)
           aim == Postgres!Found(w, s)
           d == [c EXCEPT !.aim = aim]
<1>1. /\ c # None /\ c.rest # <<>> /\ active' = [active EXCEPT ![w].aim = aim]
      /\ disk' = disk /\ sent' = sent /\ gone' = gone /\ failed' = failed
  BY DEF Postgres!Start, Postgres!Running, Postgres!Now, Postgres!history
<1>2. active' = [active EXCEPT ![w] = d]  BY <1>1
<1>3. /\ PgCall(c) /\ Deletes(c, disk)
      /\ c.op = "export" => \A r \in c.on : Exports(w, r)
      /\ c.op = "delete" => c.on \subseteq Past
  BY <1>1, PgCallKept
<1>4. Postgres!Seen(w).runs = (disk.runs \ c.del.runs) \cup c.ins.runs
  BY DEF Postgres!Seen, Postgres!NoRows
<1>5. /\ s.do = "insert_run" => aim = s.rows
      /\ s.do = "delete_runs" => aim = s.rows \cap Postgres!Seen(w).runs
      /\ s.do = "select_old" => aim \subseteq Postgres!Seen(w).runs
  <2>1. CASE s.do = "insert_run"  BY <2>1 DEF Postgres!Found
  <2>2. CASE s.do = "delete_runs"
    BY <2>2 DEF Postgres!Found
  <2>3. CASE s.do = "select_old"  BY <2>3 DEF Postgres!Found
  <2> QED BY <2>1, <2>2, <2>3
<1>6. /\ PgShape(d) /\ d.op = c.op /\ d.on = c.on /\ d.rest = c.rest /\ d.aim = aim
      /\ d.ins = c.ins /\ d.del = c.del
  BY <1>3 DEF PgCall, PgShape, Shaped
<1>7. c.rest \in Seq(Statements) /\ c.on \in SUBSET Traces /\ Ordered(c.op, c.on, c.rest)
      /\ \A r \in c.ins.runs : c.op = "export" /\ r \in c.on
  BY <1>3 DEF PgCall
<1> HIDE DEF d, aim, c
<1>8. /\ s.do = "insert_run" => c.op = "export" /\ s.rows = c.on
      /\ c.op = "delete" /\ s.do = "delete_runs" => s.rows = c.on
  <2> DEFINE rest == c.rest
             op == c.op
             on == c.on
  <2>1. rest \in Seq(Statements) /\ rest # <<>> /\ Ordered(op, on, rest)
    BY <1>1, <1>7
  <2> HIDE DEF rest, op, on
  <2>2. OrderedOn(op, on, rest)  BY ONLY <2>1, OrderedTail
  <2> QED BY ONLY <2>2 DEF rest, op, on, OrderedOn
<1>9. disk.runs \subseteq Traces  BY PgSent
<1>10. /\ s.do = "insert_run" => aim = c.on
       /\ s.do = "select_old" => aim \in SUBSET Traces
  BY <1>4, <1>5, <1>7, <1>8, <1>9
<1>11. PgCall(d)
  BY ONLY <1>6, <1>7, <1>10 DEF PgCall
<1>12. Deletes(d, disk)
  BY ONLY <1>1, <1>3, <1>4, <1>5, <1>6, <1>7, <1>8 DEF Deletes
<1> QED BY <1>1, <1>2, <1>3, <1>6, <1>11, <1>12, PgUnwritten

(* A statement that goes through. *)
LEMMA PgExecuteTurn ==
  ASSUME PgKept, NEW w \in Several, Postgres!Execute(w)
  PROVE  PgKept'
<1> DEFINE c == active[w]
           s == Head(c.rest)
           d == Postgres!Through(w)
<1>1. /\ c # None /\ c.rest # <<>> /\ c.aim # None /\ active' = [active EXCEPT ![w] = d]
      /\ disk' = disk /\ sent' = sent /\ gone' = gone /\ failed' = failed
  BY DEF Postgres!Execute, Postgres!Running
<1>2. /\ PgCall(c) /\ Deletes(c, disk)
      /\ c.op = "export" => \A r \in c.on : Exports(w, r)
      /\ c.op = "delete" => c.on \subseteq Past
  BY <1>1, PgCallKept
<1>3. /\ PgShape(c) /\ c.rest \in Seq(Statements) /\ c.on \in SUBSET Traces /\ Ordered(c.op, c.on, c.rest)
      /\ \A r \in c.ins.runs : c.op = "export" /\ r \in c.on
      /\ s.do = "insert_run" => c.aim = c.on
      /\ s.do = "select_old" => c.aim \in SUBSET Traces
  BY <1>1, <1>2 DEF PgCall
<1>4. /\ Ordered(c.op, c.on, Tail(c.rest)) /\ s.do \in PgKnown
      /\ s.do = "insert_run" => c.op = "export"
      /\ s.do = "select_old" => Tail(c.rest) = <<>> /\ c.op # "delete"
      /\ c.op = "delete" /\ Tail(c.rest) = <<>> => s.do = "delete_runs"
  <2> DEFINE rest == c.rest
             op == c.op
             on == c.on
  <2>1. rest \in Seq(Statements) /\ rest # <<>> /\ Ordered(op, on, rest)
    BY <1>1, <1>3
  <2> HIDE DEF rest, op, on
  <2>2. OrderedOn(op, on, rest)  BY ONLY <2>1, OrderedTail
  <2> QED BY ONLY <2>2 DEF rest, op, on, OrderedOn
<1>5. /\ PgShape(d) /\ d.op = c.op /\ d.on = c.on /\ d.aim = None
      /\ s.do # "select_old" => d.rest = Tail(c.rest)
      /\ s.do = "select_old" => d.rest = (IF c.aim = {} THEN <<>> ELSE DeleteRuns(c.aim)) \o Tail(c.rest)
      /\ \A r \in d.ins.runs : r \in c.ins.runs \/ (s.do = "insert_run" /\ r \in c.aim)
      /\ c.del.runs \subseteq d.del.runs
      /\ s.do = "delete_runs" => d.del.runs = c.del.runs \cup (c.aim \cap disk.runs)
  <2>1. c = active[w] /\ PgShape(c) /\ s = Head(c.rest) /\ s.do \in PgKnown /\ d = Postgres!Through(w)
    BY <1>3, <1>4
  <2>2. PICK a, b, e : a = c /\ b = s /\ e = d  OBVIOUS
  <2> HIDE DEF c, s, d
  <2>3. a = active[w] /\ PgShape(a) /\ b = Head(a.rest) /\ b.do \in PgKnown /\ e = Postgres!Through(w)
    BY ONLY <2>1, <2>2
  <2>4. GoneThrough(a, b, e)  BY ONLY <2>3, ThroughFacts
  <2> QED BY ONLY <2>2, <2>4 DEF GoneThrough
<1>6. Tail(c.rest) \in Seq(Statements)
  <2> HIDE DEF c
  <2> QED BY ONLY <1>1, <1>3, TailFacts
<1> HIDE DEF c, d, s
<1>7. d.rest \in Seq(Statements) /\ Ordered(c.op, c.on, d.rest)
  <2>1. CASE s.do # "select_old"  BY <2>1, <1>4, <1>5, <1>6
  <2>2. CASE s.do = "select_old" /\ c.aim = {}
    <3>1. d.rest = <<>> \o <<>> /\ Tail(c.rest) = <<>>
      BY ONLY <2>2, <1>4, <1>5
    <3>2. d.rest = Tail(c.rest)  BY ONLY <3>1
    <3> QED BY ONLY <3>2, <1>4, <1>6
  <2>3. CASE s.do = "select_old" /\ c.aim # {}
    <3>1. Plain(DeleteRuns(c.aim))  BY <2>3, <1>3, PlainDelete
    <3>2. DeleteRuns(c.aim) \in Seq(Statements)
      BY <3>1 DEF Plain
    <3>3. d.rest = DeleteRuns(c.aim)
      <4> DEFINE p == DeleteRuns(c.aim)
      <4>1. p \in Seq(Statements) /\ d.rest = p \o <<>>
        BY <2>3, <1>4, <1>5, <3>2
      <4> HIDE DEF p
      <4> QED BY ONLY <4>1, ConcatEmptySeq DEF p
    <3> QED BY ONLY <3>1, <3>2, <3>3, <1>4, <2>3, PlainOrdered
  <2> QED BY <2>1, <2>2, <2>3
<1>8. \A r \in d.ins.runs : d.op = "export" /\ r \in d.on
  BY <1>3, <1>4, <1>5
<1>9. PgCall(d)
  BY ONLY <1>3, <1>5, <1>7, <1>8 DEF PgCall
<1>10. Deletes(d, disk)
  <2>1. c.op = "delete" /\ d.rest = <<>> =>
          /\ s.do = "delete_runs" /\ d.del.runs = c.del.runs \cup (c.aim \cap disk.runs)
          /\ \A r \in c.on : r \in disk.runs => r \in c.aim \/ r \in c.del.runs
    BY <1>1, <1>2, <1>4, <1>5 DEF Deletes, s
  <2> QED BY ONLY <2>1, <1>5 DEF Deletes
<1> QED BY <1>1, <1>2, <1>5, <1>9, <1>10, PgUnwritten

(* The transaction commits. *)
LEMMA PgLandTurn ==
  ASSUME PgKept, NEW w \in Several, Postgres!Land(w)
  PROVE  PgKept'
<1> DEFINE c == active[w]
<1>1. /\ c # None /\ c.rest = <<>> /\ active' = [active EXCEPT ![w] = None]
      /\ disk' = Postgres!Committed(w) /\ sent' = sent /\ failed' = failed
      /\ gone' = IF c.op = "delete" THEN gone \cup c.on ELSE gone
  BY DEF Postgres!Land
<1>2. disk'.runs = (disk.runs \ c.del.runs) \cup c.ins.runs /\ Shaped(disk')
  BY <1>1 DEF Postgres!Committed, Postgres!NoRows, Shaped
<1>3. /\ \A r \in c.ins.runs : c.op = "export" /\ r \in c.on
      /\ c.op = "delete" => \A r \in c.on : r \in disk.runs => r \in c.del.runs
      /\ c.op = "export" => \A r \in c.on : Exports(w, r) /\ r \notin Past
      /\ c.op = "delete" => c.on \subseteq Past
      /\ c.on \subseteq Traces
  BY <1>1, PgCallKept DEF PgCall, Deletes
<1>4. /\ Shaped(disk) /\ sent \in SUBSET Traces /\ gone \cup failed \subseteq Past /\ disk.runs \subseteq Past
      /\ \A q \in gone \cup failed : q \notin disk.runs
      /\ c.op = "export" => c.on \subseteq sent
      /\ DOMAIN active = Several
  BY <1>1 DEF PgKept
<1>5. c.op = "export" => c.on \subseteq Past'
  <2> SUFFICES ASSUME c.op = "export", NEW r \in c.on PROVE r \in Past'  OBVIOUS
  <2>1. r \in Traces /\ r \in sent' /\ Exports(w, r)
    BY <1>1, <1>3, <1>4
  <2>2. \A u \in Several : u # w => ~Exports(u, r)
    BY <2>1 DEF PgKept
  <2>3. DOMAIN active' = Several /\ active'[w] = None /\ \A u \in Several : u # w => active'[u] = active[u]
    BY <1>1, <1>4
  <2>4. \A u \in DOMAIN active' : ~Exports(u, r)'
    BY <2>2, <2>3 DEF Exports
  <2> HIDE DEF Exports
  <2> QED BY <2>1, <2>4 DEF Past
<1> HIDE DEF c
<1>6. /\ \A r \in disk'.runs : r \in Past => r \in disk.runs
      /\ Past \subseteq Past' => gone' \cup failed' \subseteq Past' /\ disk'.runs \subseteq Past'
      /\ \A r \in gone' \cup failed' : r \notin disk'.runs
  <2>1. \A r \in disk'.runs : r \in Past => r \in disk.runs
    BY <1>2, <1>3
  <2>2. Past \subseteq Past' => gone' \cup failed' \subseteq Past' /\ disk'.runs \subseteq Past'
    BY <1>1, <1>2, <1>3, <1>4, <1>5
  <2>3. \A r \in gone \cup failed : r \notin disk'.runs
    BY <1>4, <2>1
  <2>4. c.op = "delete" => \A r \in c.on : r \notin disk'.runs
    BY <1>2, <1>3
  <2> QED BY <1>1, <2>1, <2>2, <2>3, <2>4
<1> QED BY <1>1, <1>2, <1>4, <1>6, PgTurns

(* The transaction is dropped. *)
LEMMA PgDropTurn ==
  ASSUME PgKept, NEW w \in Several, active[w] # None, Postgres!Drop(w)
  PROVE  PgKept'
<1> DEFINE c == active[w]
<1>1. /\ active' = [active EXCEPT ![w] = None]
      /\ disk' = disk /\ sent' = sent /\ gone' = gone
      /\ failed' = IF c.op = "export" THEN failed \cup c.on ELSE failed
  BY DEF Postgres!Drop
<1>2. /\ c.op = "export" => \A r \in c.on : Exports(w, r) /\ r \notin Past
      /\ c.on \subseteq Traces
  BY PgCallKept
<1>3. /\ Shaped(disk) /\ sent \in SUBSET Traces /\ gone \cup failed \subseteq Past /\ disk.runs \subseteq Past
      /\ \A q \in gone \cup failed : q \notin disk.runs
      /\ c.op = "export" => c.on \subseteq sent
      /\ DOMAIN active = Several
  BY DEF PgKept
<1>4. c.op = "export" => c.on \subseteq Past'
  <2> SUFFICES ASSUME c.op = "export", NEW r \in c.on PROVE r \in Past'  OBVIOUS
  <2>1. r \in Traces /\ r \in sent' /\ Exports(w, r)
    BY <1>1, <1>2, <1>3
  <2>2. \A u \in Several : u # w => ~Exports(u, r)
    BY <2>1 DEF PgKept
  <2>3. DOMAIN active' = Several /\ active'[w] = None /\ \A u \in Several : u # w => active'[u] = active[u]
    BY <1>1, <1>3
  <2>4. \A u \in DOMAIN active' : ~Exports(u, r)'
    BY <2>2, <2>3 DEF Exports
  <2> HIDE DEF Exports
  <2> QED BY <2>1, <2>4 DEF Past
<1> HIDE DEF c
<1>5. /\ \A r \in disk'.runs : r \in Past => r \in disk.runs
      /\ Past \subseteq Past' => gone' \cup failed' \subseteq Past' /\ disk'.runs \subseteq Past'
      /\ \A r \in gone' \cup failed' : r \notin disk'.runs
      /\ Shaped(disk')
  BY <1>1, <1>2, <1>3, <1>4 DEF Shaped
<1> QED BY <1>1, <1>3, <1>5, PgTurns

(* The steps of the Postgres store, and its start. *)
LEMMA PgStep ==
  ASSUME PgKept, Postgres!Next
  PROVE  PgKept'
<1>1. PICK w \in Several :
        \/ \E r \in Traces : Postgres!Export(w, r) \/ Postgres!DeleteRun(w, r)
        \/ \E s \in Sessions : Postgres!DeleteSession(w, s)
        \/ PgOthers(w)
        \/ Postgres!Start(w) \/ Postgres!Execute(w) \/ Postgres!Commit(w)
        \/ Postgres!Refused(w) \/ Postgres!Deadlocked(w) \/ Postgres!ConnectionLost(w) \/ Postgres!AnswerLost(w)
  BY StoresAssumption DEF Postgres!Next, PgOthers
<1>2. ASSUME NEW r \in Traces, Postgres!DeleteRun(w, r) PROVE PgKept'
  <2>1. {r} \cap disk.runs \in SUBSET disk.runs /\ Postgres!Delete(w, {r} \cap disk.runs)
    BY <1>2 DEF Postgres!DeleteRun
  <2> QED BY <2>1, PgDeleteTurn
<1>3. ASSUME NEW s \in Sessions, Postgres!DeleteSession(w, s) PROVE PgKept'
  <2> DEFINE R == {r \in disk.runs : SessionOf[r] = s}
  <2>1. R \in SUBSET disk.runs /\ Postgres!Delete(w, R)
    BY <1>3 DEF Postgres!DeleteSession
  <2> HIDE DEF R
  <2> QED BY <2>1, PgDeleteTurn
<1>4. Postgres!Commit(w) \/ Postgres!AnswerLost(w) => PgKept'
  BY PgLandTurn DEF Postgres!Commit, Postgres!AnswerLost
<1>5. CASE Postgres!Refused(w) \/ Postgres!Deadlocked(w) \/ Postgres!ConnectionLost(w)
  <2>1. Postgres!Drop(w)
    BY <1>5 DEF Postgres!Refused, Postgres!Deadlocked, Postgres!ConnectionLost
  <2>2. active[w] # None
    BY <1>5 DEF Postgres!Refused, Postgres!Deadlocked, Postgres!ConnectionLost, Postgres!Running,
                Postgres!WaitsFor
  <2> QED BY <2>1, <2>2, PgDropTurn
<1> QED BY <1>1, <1>2, <1>3, <1>4, <1>5, PgExportTurn, PgOtherBegins, PgStartTurn, PgExecuteTurn

LEMMA PgInit == Postgres!Init => PgKept
<1> SUFFICES ASSUME Postgres!Init PROVE PgKept  OBVIOUS
<1>1. /\ disk \in Tables /\ active = [w \in Several |-> None] /\ sent = disk.runs
      /\ failed = {} /\ gone = {}
  BY StoresAssumption DEF Postgres!Init
<1>2. Shaped(disk) /\ disk.runs \in SUBSET Traces
  BY <1>1 DEF Tables, Shaped
<1>3. Past = sent  BY <1>1 DEF Past, Exports
<1>4. \A w \in Several : active[w] = None
  BY <1>1
<1> QED BY <1>1, <1>2, <1>3, <1>4 DEF PgKept, Exports

-----------------------------------------------------------------------------
(* Nothing comes back, in whichever store *)

(* It holds at first, and every step keeps it. *)
LEMMA BackInit == StoreInit => BackInv
BY SQLiteInit, PgInit DEF StoreInit, BackInv

LEMMA BackStep ==
  ASSUME BackInv, StoreNext
  PROVE  BackInv'
<1>1. CASE store = "alone" /\ Alone!Next /\ UNCHANGED store
  <2>1. SQLiteInv(Single)' /\ AloneApart'  BY <1>1, AloneStep DEF BackInv
  <2>2. store' = "alone"
    BY <1>1
  <2> QED BY ONLY <2>1, <2>2 DEF BackInv
<1>2. CASE store = "pool" /\ Pool!Next /\ UNCHANGED store
  <2>1. SQLiteInv(Several)' /\ PoolCalm'  BY <1>2, PoolStep DEF BackInv
  <2>2. store' = "pool"
    BY <1>2
  <2> QED BY ONLY <2>1, <2>2 DEF BackInv
<1>3. CASE store = "postgres" /\ Postgres!Next /\ UNCHANGED <<store, conn, open, crashes>>
  <2>1. PgKept'  BY <1>3, PgStep DEF BackInv
  <2>2. store' = "postgres"
    BY <1>3
  <2> QED BY ONLY <2>1, <2>2 DEF BackInv
<1> QED BY <1>1, <1>2, <1>3 DEF StoreNext

LEMMA BackStutter ==
  ASSUME BackInv, UNCHANGED storeVars
  PROVE  BackInv'
<1>1. /\ store' = store /\ disk' = disk /\ conn' = conn /\ active' = active /\ sent' = sent
      /\ failed' = failed /\ gone' = gone /\ faults' = faults /\ crashes' = crashes
  BY DEF storeVars
<1>2. Shown' = Shown /\ Past' = Past /\ \A w, r : Exports(w, r)' <=> Exports(w, r)
  BY <1>1 DEF Shown, Past, Exports
<1>3. \A W : SQLiteInv(W) => SQLiteInv(W)'
  <2> TAKE W
  <2>1. \A w \in W : active[w] # None /\ CallKept(active[w]) => CallKept(active[w])'
    BY <1>1, <1>2 DEF CallKept
  <2>2. NoneBack(W) => NoneBack(W)'  BY <1>1, <1>2, <2>1 DEF NoneBack
  <2>3. Alike(W) => Alike(W)'
    BY <1>1 DEF Alike, Shaped
  <2> QED BY <2>2, <2>3 DEF SQLiteInv
<1>4. PgKept => PgKept'
  <2>1. \A w \in Several : (PgCall(active[w]) => PgCall(active[w])')
                        /\ (Deletes(active[w], disk) => Deletes(active[w], disk)')
    BY <1>1 DEF PgCall, PgShape, Shaped, Ordered, Deletes
  <2> QED BY <1>1, <1>2, <2>1 DEF PgKept, Shaped
<1>5. (AloneApart => AloneApart') /\ (PoolCalm => PoolCalm')
  BY <1>1, <1>2 DEF AloneApart, PoolCalm
<1> QED BY <1>1, <1>3, <1>4, <1>5 DEF BackInv

LEMMA BackFact == BackInv => NothingComesBack
<1>1. \A W : SQLiteInv(W) => NothingComesBack  BY KeptFacts DEF NothingComesBack
<1>2. PgKept => NothingComesBack
  BY DEF PgKept, NothingComesBack
<1> QED BY <1>1, <1>2 DEF BackInv

(* A trace whose export has raised, or whose deletion has returned, is not  *)
(* stored, then or later: neither by the commit of another call on the same *)
(* connection (store.py), nor by the export's own in a transaction that     *)
(* overlaps the deletion's (postgres.py).                                   *)
THEOREM SpecBringsNothingBack == StoreSpec => []NothingComesBack
<1>1. StoreInit => BackInv  BY BackInit
<1>2. BackInv /\ [StoreNext]_storeVars => BackInv'
  BY BackStep, BackStutter
<1>3. BackInv => NothingComesBack  BY BackFact
<1> QED BY <1>1, <1>2, <1>3, PTL DEF StoreSpec

-----------------------------------------------------------------------------
(* The statements ahead *)

LEMMA AheadTail ==
  ASSUME NEW S, NEW rest \in Seq(S), rest # <<>>
  PROVE  /\ Ahead(rest) = {Head(rest)} \cup Ahead(Tail(rest))
         /\ Later(rest, 1) = Ahead(Tail(rest))
         /\ \A i \in 1 .. Len(Tail(rest)) : Later(rest, i + 1) = Later(Tail(rest), i)
         /\ Tail(rest) # <<>> => Head(Tail(rest)) = rest[2] /\ 2 \in 1 .. Len(rest)
<1>1. PICK n : n \in Nat /\ n = Len(rest) /\ n >= 1
  BY TailFacts
<1> DEFINE t == Tail(rest)
<1>2. /\ t \in Seq(S) /\ Len(t) = n - 1 /\ Head(rest) = rest[1]
      /\ \A i \in 1 .. n - 1 : t[i] = rest[i + 1]
      /\ t = <<>> <=> n = 1
  BY <1>1, TailFacts
<1> HIDE DEF t
<1>3. \A i \in 1 .. n : i = 1 \/ (i - 1 \in 1 .. n - 1 /\ (i - 1) + 1 = i)
  BY ONLY <1>1
<1>4. \A i \in 1 .. n - 1 : i + 1 \in 1 .. n /\ i + 1 > 1
  BY ONLY <1>1
<1>5. 1 \in 1 .. n  BY ONLY <1>1
<1>6. Ahead(rest) = {rest[i] : i \in 1 .. n} /\ Ahead(t) = {t[i] : i \in 1 .. n - 1}
  BY <1>1, <1>2 DEF Ahead
<1>7. \A x : x \in Ahead(rest) <=> x = rest[1] \/ x \in Ahead(t)
  <2>1. ASSUME NEW i \in 1 .. n, i # 1 PROVE rest[i] \in Ahead(t)
    BY ONLY <1>2, <1>3, <1>6, <2>1
  <2>2. ASSUME NEW i \in 1 .. n - 1 PROVE t[i] \in Ahead(rest)
    BY ONLY <1>2, <1>4, <1>6
  <2>3. rest[1] \in Ahead(rest)  BY ONLY <1>5, <1>6
  <2>4. ASSUME NEW x \in Ahead(rest) PROVE x = rest[1] \/ x \in Ahead(t)
    <3>1. PICK i \in 1 .. n : x = rest[i]  BY ONLY <1>6, <2>4
    <3> QED BY ONLY <3>1, <2>1
  <2>5. ASSUME NEW x \in Ahead(t) PROVE x \in Ahead(rest)
    <3>1. PICK i \in 1 .. n - 1 : x = t[i]  BY ONLY <1>6, <2>5
    <3> QED BY ONLY <3>1, <2>2
  <2> QED BY ONLY <2>3, <2>4, <2>5
<1>8. \A j : Later(rest, j) = {rest[i] : i \in {k \in 1 .. n : k > j}}
  BY <1>1 DEF Later
<1>9. Later(rest, 1) = Ahead(t)
  <2>1. ASSUME NEW x \in Later(rest, 1) PROVE x \in Ahead(t)
    <3>1. PICK i \in 1 .. n : i > 1 /\ x = rest[i]  BY ONLY <1>8, <2>1
    <3>2. i # 1
      BY ONLY <3>1, <1>1
    <3> QED BY ONLY <1>2, <1>3, <1>6, <3>1, <3>2
  <2>2. ASSUME NEW x \in Ahead(t) PROVE x \in Later(rest, 1)
    <3>1. PICK i \in 1 .. n - 1 : x = t[i]  BY ONLY <1>6, <2>2
    <3>2. i + 1 \in {k \in 1 .. n : k > 1} /\ x = rest[i + 1]
      BY ONLY <1>2, <1>4, <3>1
    <3> QED BY ONLY <1>8, <3>2
  <2> QED BY ONLY <2>1, <2>2
<1>10. ASSUME NEW i \in 1 .. n - 1 PROVE Later(rest, i + 1) = Later(t, i)
  <2>0. Later(t, i) = {t[j] : j \in {k \in 1 .. n - 1 : k > i}}
    BY <1>2 DEF Later
  <2>1. ASSUME NEW x \in Later(rest, i + 1) PROVE x \in Later(t, i)
    <3>1. PICK j \in 1 .. n : j > i + 1 /\ x = rest[j]
      BY ONLY <1>8, <2>1
    <3>2. j - 1 \in 1 .. n - 1 /\ (j - 1) + 1 = j /\ j - 1 > i
      BY ONLY <3>1, <1>1, i \in 1 .. n - 1
    <3>3. x = t[j - 1]  BY ONLY <1>2, <3>1, <3>2
    <3> QED BY ONLY <2>0, <3>2, <3>3
  <2>2. ASSUME NEW x \in Later(t, i) PROVE x \in Later(rest, i + 1)
    <3>1. PICK j \in 1 .. n - 1 : j > i /\ x = t[j]
      BY ONLY <2>0, <2>2
    <3>2. j + 1 \in 1 .. n /\ j + 1 > i + 1
      BY ONLY <3>1, <1>1, i \in 1 .. n - 1
    <3>3. x = rest[j + 1]  BY ONLY <1>2, <3>1
    <3> QED BY ONLY <1>8, <3>2, <3>3
  <2> QED BY ONLY <2>1, <2>2
<1>11. t # <<>> => Head(t) = rest[2] /\ 2 \in 1 .. n
  <2>1. t # <<>> => Head(t) = t[1] /\ 1 \in 1 .. n - 1 /\ 1 + 1 = 2 /\ 2 \in 1 .. n
    <3>1. t # <<>> => Head(t) = t[1]  BY ONLY <1>2, TailFacts
    <3> QED BY ONLY <3>1, <1>1, <1>2
  <2> QED BY ONLY <1>2, <2>1
<1> QED BY <1>1, <1>2, <1>7, <1>9, <1>10, <1>11 DEF t

LEMMA AheadNone == Ahead(<<>>) = {}
BY DEF Ahead

LEMMA HeadAhead ==
  ASSUME NEW S, NEW rest \in Seq(S), rest # <<>>
  PROVE  Head(rest) \in Ahead(rest)
BY AheadTail

LEMMA OrderlyTail ==
  ASSUME NEW S, NEW op, NEW on, NEW rest \in Seq(S), rest # <<>>, Orderly(op, on, rest)
  PROVE  Orderly(op, on, Tail(rest)) /\ Foremost(op, on, rest)
<1>1. PICK n : n \in Nat /\ n = Len(rest) /\ n >= 1
  BY TailFacts
<1> DEFINE t == Tail(rest)
<1>2. /\ t \in Seq(S) /\ Len(t) = n - 1 /\ Head(rest) = rest[1]
      /\ \A i \in 1 .. n - 1 : t[i] = rest[i + 1]
  BY <1>1, TailFacts
<1>3. /\ Later(rest, 1) = Ahead(t)
      /\ \A i \in 1 .. n - 1 : Later(rest, i + 1) = Later(t, i)
      /\ t # <<>> => Head(t) = rest[2] /\ 2 \in 1 .. n
  BY <1>1, <1>2, AheadTail
<1> HIDE DEF t
<1>4. \A i \in 1 .. n :
        rest[i].do \in Does[op] /\ Fits(rest[i], Later(rest, i), on) /\ (i > 1 => Follows(rest[i - 1], rest[i]))
  BY <1>1 DEF Orderly
<1>5. ASSUME NEW i \in 1 .. n - 1
      PROVE  t[i].do \in Does[op] /\ Fits(t[i], Later(t, i), on) /\ (i > 1 => Follows(t[i - 1], t[i]))
  <2>1. PICK j : j = i + 1  OBVIOUS
  <2>2. j \in 1 .. n /\ j > 1 /\ j - 1 = i
    BY ONLY <1>1, <2>1, i \in 1 .. n - 1
  <2>3. t[i] = rest[j] /\ Later(t, i) = Later(rest, j)
    BY ONLY <1>2, <1>3, <2>1
  <2>4. i > 1 => t[i - 1] = rest[j - 1]
    <3>1. i > 1 => i - 1 \in 1 .. n - 1 /\ (i - 1) + 1 = i
      BY ONLY <1>1, i \in 1 .. n - 1
    <3> QED BY ONLY <1>2, <2>2, <3>1
  <2> QED BY ONLY <1>4, <2>2, <2>3, <2>4
<1>6. Orderly(op, on, t)  BY ONLY <1>2, <1>5 DEF Orderly
<1>7. rest[1].do \in Does[op] /\ Fits(rest[1], Later(rest, 1), on)
  <2>1. 1 \in 1 .. n  BY ONLY <1>1
  <2> QED BY ONLY <1>4, <2>1
<1>8. t # <<>> => Follows(rest[1], rest[2])
  <2>1. 2 > 1 /\ 2 - 1 = 1  OBVIOUS
  <2> QED BY ONLY <1>3, <1>4, <2>1
<1>9. Foremost(op, on, rest)
  BY ONLY <1>2, <1>3, <1>7, <1>8 DEF Foremost, t
<1> QED BY <1>6, <1>9 DEF t

-----------------------------------------------------------------------------
(* The programs of the SQLite stores are in order *)

LEMMA OfThree ==
  ASSUME NEW p, Len(p) = 3
  PROVE  /\ Ahead(p) = {p[1], p[2], p[3]} /\ Later(p, 1) = {p[2], p[3]}
         /\ Later(p, 2) = {p[3]} /\ Later(p, 3) = {}
<1>1. 1 .. 3 = {1, 2, 3}  OBVIOUS
<1>2. \A i : Later(p, i) = {p[j] : j \in {k \in 1 .. 3 : k > i}}
  BY DEF Later
<1>3. {k \in 1 .. 3 : k > 1} = {2, 3} /\ {k \in 1 .. 3 : k > 2} = {3} /\ {k \in 1 .. 3 : k > 3} = {}
  OBVIOUS
<1>4. Ahead(p) = {p[1], p[2], p[3]}  BY <1>1 DEF Ahead
<1> QED BY <1>2, <1>3, <1>4

LEMMA OfTwo ==
  ASSUME NEW p, Len(p) = 2
  PROVE  Ahead(p) = {p[1], p[2]} /\ Later(p, 1) = {p[2]} /\ Later(p, 2) = {}
<1>1. 1 .. 2 = {1, 2}  OBVIOUS
<1>2. \A i : Later(p, i) = {p[j] : j \in {k \in 1 .. 2 : k > i}}
  BY DEF Later
<1>3. {k \in 1 .. 2 : k > 1} = {2} /\ {k \in 1 .. 2 : k > 2} = {}  OBVIOUS
<1>4. Ahead(p) = {p[1], p[2]}  BY <1>1 DEF Ahead
<1> QED BY <1>2, <1>3, <1>4

LEMMA OfOne ==
  ASSUME NEW p, Len(p) = 1
  PROVE  Ahead(p) = {p[1]} /\ Later(p, 1) = {}
<1>1. 1 .. 1 = {1}  OBVIOUS
<1>2. Later(p, 1) = {p[j] : j \in {k \in 1 .. 1 : k > 1}}
  BY DEF Later
<1>3. {k \in 1 .. 1 : k > 1} = {}  OBVIOUS
<1>4. Ahead(p) = {p[1]}  BY <1>1 DEF Ahead
<1> QED BY <1>2, <1>3, <1>4

LEMMA SweepingOpens ==
  ASSUME NEW n \in Nat, NEW on
  PROVE  Opens("prune", on, Sweeping(n))
<1> DEFINE p == Sweeping(n)
<1>1. /\ p \in Seq(Statements) /\ Len(p) = 3 /\ p[1].do = "keep_newest"
      /\ p[2].do = "sweep_spans" /\ p[3].do = "sweep_marks"
  BY ONLY SweepingFacts, StatementFields, n \in Nat
<1> HIDE DEF p
<1>2. /\ Ahead(p) = {p[1], p[2], p[3]} /\ Later(p, 1) = {p[2], p[3]}
      /\ Later(p, 2) = {p[3]} /\ Later(p, 3) = {}
  BY <1>1, OfThree
<1>3. p # <<>> /\ Head(p) = p[1]  BY <1>1, EmptySeq, TailFacts
<1>4. /\ Fits(p[1], Later(p, 1), on) /\ Fits(p[2], Later(p, 2), on) /\ Fits(p[3], Later(p, 3), on)
      /\ Follows(p[1], p[2]) /\ Follows(p[2], p[3])
  BY ONLY <1>1, <1>2 DEF Fits, Follows
<1>5. \A i \in 1 .. Len(p) : i = 1 \/ (i = 2 /\ i - 1 = 1) \/ (i = 3 /\ i - 1 = 2)
  BY <1>1
<1>6. Orderly("prune", on, p)
  BY ONLY <1>1, <1>4, <1>5 DEF Orderly, Does
<1> QED BY <1>1, <1>2, <1>3, <1>6 DEF Opens, p

LEMMA DeleteOpens ==
  ASSUME NEW R \in SUBSET Traces
  PROVE  Opens("delete", R, DeleteRuns(R))
<1> DEFINE p == DeleteRuns(R)
<1>1. /\ p \in Seq(Statements) /\ Len(p) = 3
      /\ p[1].do = "delete_spans" /\ p[2].do = "delete_marks" /\ p[3].do = "delete_runs"
      /\ p[1].rows = R /\ p[2].rows = R /\ p[3].rows = R
  BY ONLY DeleteFacts, StatementFields, R \in SUBSET Traces
<1> HIDE DEF p
<1>2. /\ Ahead(p) = {p[1], p[2], p[3]} /\ Later(p, 1) = {p[2], p[3]}
      /\ Later(p, 2) = {p[3]} /\ Later(p, 3) = {}
  BY <1>1, OfThree
<1>3. p # <<>> /\ Head(p) = p[1]
  <2>1. Len(p) # 0  BY ONLY <1>1
  <2> QED BY ONLY <1>1, <2>1, EmptySeq, TailFacts
<1>4. /\ Fits(p[1], Later(p, 1), R) /\ Fits(p[2], Later(p, 2), R) /\ Fits(p[3], Later(p, 3), R)
      /\ Follows(p[1], p[2]) /\ Follows(p[2], p[3])
  BY ONLY <1>1, <1>2 DEF Fits, Follows
<1>5. \A i \in 1 .. Len(p) : i = 1 \/ (i = 2 /\ i - 1 = 1) \/ (i = 3 /\ i - 1 = 2)
  BY <1>1
<1>6. Orderly("delete", R, p)
  BY ONLY <1>1, <1>4, <1>5 DEF Orderly, Does
<1> QED BY <1>1, <1>2, <1>3, <1>6 DEF Opens, p

LEMMA RenamingOpens ==
  ASSUME NEW o \in Tags, NEW n \in Tags, o # n, NEW on
  PROVE  Opens("rename", on, Renaming(o, n))
<1> DEFINE p == Renaming(o, n)
<1>1. /\ p \in Seq(Statements) /\ Len(p) = 3
      /\ p[1] = Statement("copy_tag", {<<o, n>>})
      /\ p[2] = Statement("move_marks", {<<o, n>>})
      /\ p[3] = Statement("delete_tag", {o})
  BY RenamingFacts
<1> HIDE DEF p
<1>2. /\ p[1].do = "copy_tag" /\ p[2].do = "move_marks" /\ p[3].do = "delete_tag"
      /\ p[1].rows = {<<o, n>>} /\ p[2].rows = {<<o, n>>} /\ p[3].rows = {o}
  BY ONLY <1>1, StatementFields
<1>3. /\ Ahead(p) = {p[1], p[2], p[3]} /\ Later(p, 1) = {p[2], p[3]}
      /\ Later(p, 2) = {p[3]} /\ Later(p, 3) = {}
  BY <1>1, OfThree
<1>4. p # <<>> /\ Head(p) = p[1]
  <2>1. p \in Seq(Statements) /\ Len(p) = 3  BY ONLY <1>1
  <2>2. p # <<>>
    <3>1. Len(<<>>) # 3  BY ONLY EmptySeq
    <3> QED BY ONLY <2>1, <3>1, Zenon
  <2> QED BY ONLY <2>1, <2>2, TailFacts
<1>5. /\ Fits(p[1], Later(p, 1), on) /\ Fits(p[2], Later(p, 2), on) /\ Fits(p[3], Later(p, 3), on)
  BY ONLY <1>2, <1>3, o \in Tags, n \in Tags, o # n DEF Fits
<1>6. Follows(p[1], p[2]) /\ Follows(p[2], p[3])
  BY ONLY <1>1, <1>2, o \in Tags, n \in Tags, o # n DEF Follows
<1>7. \A i \in 1 .. Len(p) : i = 1 \/ (i = 2 /\ i - 1 = 1) \/ (i = 3 /\ i - 1 = 2)
  BY <1>1
<1>8. Orderly("rename", on, p)
  BY ONLY <1>2, <1>5, <1>6, <1>7 DEF Orderly, Does
<1> QED BY <1>2, <1>3, <1>4, <1>8 DEF Opens, p

LEMMA DroppingOpens ==
  ASSUME NEW t \in Tags, NEW on
  PROVE  Opens("delete_tag", on, Dropping(t))
<1> DEFINE p == Dropping(t)
<1>1. /\ p \in Seq(Statements) /\ Len(p) = 2
      /\ p[1] = Statement("unmark", Traces \X {t})
      /\ p[2] = Statement("delete_tag", {t})
  BY DroppingFacts
<1> HIDE DEF p
<1>2. p[1].do = "unmark" /\ p[2].do = "delete_tag" /\ p[2].rows = {t}
  BY ONLY <1>1, StatementFields
<1>3. Ahead(p) = {p[1], p[2]} /\ Later(p, 1) = {p[2]} /\ Later(p, 2) = {}
  BY <1>1, OfTwo
<1>4. p # <<>> /\ Head(p) = p[1]
  <2>1. p \in Seq(Statements) /\ Len(p) = 2  BY ONLY <1>1
  <2>2. p # <<>>
    <3>1. Len(<<>>) # 2  BY ONLY EmptySeq
    <3> QED BY ONLY <2>1, <3>1, Zenon
  <2> QED BY ONLY <2>1, <2>2, TailFacts
<1>5. Fits(p[1], Later(p, 1), on) /\ Fits(p[2], Later(p, 2), on) /\ Follows(p[1], p[2])
  BY ONLY <1>1, <1>2, <1>3, t \in Tags DEF Fits, Follows
<1>6. \A i \in 1 .. Len(p) : i = 1 \/ (i = 2 /\ i - 1 = 1)
  BY <1>1
<1>7. Orderly("delete_tag", on, p)
  BY ONLY <1>2, <1>5, <1>6 DEF Orderly, Does
<1> QED BY <1>2, <1>3, <1>4, <1>7 DEF Opens, p

LEMMA OneOpens ==
  ASSUME NEW do, NEW x, NEW on, NEW op, <<do, op>> \in {<<"unmark", "untag">>, <<"insert_tag", "color">>}
  PROVE  Opens(op, on, <<Statement(do, x)>>)
<1> DEFINE p == <<Statement(do, x)>>
<1>1. Len(p) = 1 /\ p[1].do = do /\ p # <<>> /\ Head(p) = p[1]
  BY StatementFields
<1> HIDE DEF p
<1>2. Ahead(p) = {p[1]} /\ Later(p, 1) = {}  BY <1>1, OfOne
<1>3. Fits(p[1], Later(p, 1), on) /\ p[1].do \in Does[op]
  BY <1>1, <1>2 DEF Fits, Does
<1>4. \A i \in 1 .. Len(p) : i = 1 /\ ~(i > 1)  BY <1>1
<1>5. Orderly(op, on, p)
  BY <1>3, <1>4 DEF Orderly
<1> QED BY <1>1, <1>2, <1>5 DEF Opens, p

(* An export's statements, one by one. *)
LEMMA ExportingOpens ==
  ASSUME NEW r \in Traces
  PROVE  Opens("export", {r}, Exporting(r))
<1> DEFINE p == Exporting(r)
<1>1. PICK n : n \in Nat /\ n = SpansOf[r]  BY ExportingFacts
<1>2. /\ p \in Seq(Statements) /\ Len(p) = n + 4
      /\ p[1] = Statement("insert_run", {r})
      /\ \A j \in 1 .. n : p[j + 1] = Statement("insert_span", {<<r, j>>})
      /\ p[n + 2] = Statement("keep_newest", MaxRuns)
      /\ p[n + 3] = Statement("sweep_spans", {})
      /\ p[n + 4] = Statement("sweep_marks", {})
  BY <1>1, ExportingFacts
<1> HIDE DEF p
<1>3. /\ p[1].do = "insert_run" /\ p[n + 2].do = "keep_newest"
      /\ p[n + 3].do = "sweep_spans" /\ p[n + 4].do = "sweep_marks"
  BY ONLY <1>2, StatementFields
<1>4. \A j \in 1 .. n : p[j + 1].do = "insert_span" /\ p[j + 1].rows = {<<r, j>>}
  <2> TAKE j \in 1 .. n
  <2>1. PICK x : x = {<<r, j>>}  OBVIOUS
  <2>2. p[j + 1] = Statement("insert_span", x)  BY ONLY <1>2, <2>1
  <2> QED BY ONLY <2>1, <2>2, StatementFields
<1>5. \A i \in 1 .. n + 4 : \/ i = 1 \/ (i - 1 \in 1 .. n /\ (i - 1) + 1 = i)
                            \/ i = n + 2 \/ i = n + 3 \/ i = n + 4
  BY ONLY <1>1
<1>6. \A i : Later(p, i) = {p[j] : j \in {k \in 1 .. n + 4 : k > i}}
  BY <1>2 DEF Later
<1>7. \A i \in 1 .. n + 4 : p[i].do \in {"insert_run", "insert_span", "keep_newest", "sweep_spans", "sweep_marks"}
  BY ONLY <1>3, <1>4, <1>5
<1>8. \A i : \A d \in Later(p, i) : d.do # "find"
  BY ONLY <1>6, <1>7
<1>9. \A i \in 1 .. n + 2 : p[n + 3] \in Later(p, i) /\ p[n + 4] \in Later(p, i)
  <2>1. \A i \in 1 .. n + 2 : {n + 3, n + 4} \subseteq {k \in 1 .. n + 4 : k > i}
    BY ONLY <1>1
  <2> QED BY ONLY <1>6, <2>1
<1>10. \A x \in SpansIn({r}) : Statement("insert_span", {x}) \in Later(p, 1)
  <2> TAKE x \in SpansIn({r})
  <2>1. PICK j \in 1 .. n : x = <<r, j>>  BY <1>1, SpanIdsFact DEF SpansIn
  <2>2. j + 1 \in {k \in 1 .. n + 4 : k > 1}
    BY ONLY <1>1, j \in 1 .. n
  <2> QED BY ONLY <1>2, <1>6, <2>1, <2>2
<1>11. \A j \in 1 .. n : <<r, j>> \in SpanIds  BY <1>1, SpanIdsFact
<1>12. \A i \in 1 .. n + 4 : Fits(p[i], Later(p, i), {r})
  <2> TAKE i \in 1 .. n + 4
  <2>1. CASE i = 1
    BY ONLY <2>1, <1>3, <1>8, <1>10 DEF Fits
  <2>2. CASE i - 1 \in 1 .. n /\ (i - 1) + 1 = i
    <3>1. p[i].do = "insert_span" /\ p[i].rows = {<<r, i - 1>>} /\ <<r, i - 1>> \in SpanIds
      BY ONLY <2>2, <1>4, <1>11
    <3>2. i \in 1 .. n + 2
      BY ONLY <2>2, <1>1, i \in 1 .. n + 4
    <3> QED BY ONLY <3>1, <3>2, <1>3, <1>8, <1>9 DEF Fits
  <2>3. CASE i = n + 2
    <3>1. i \in 1 .. n + 2  BY ONLY <2>3, <1>1
    <3> QED BY ONLY <2>3, <3>1, <1>3, <1>8, <1>9 DEF Fits
  <2>4. CASE i = n + 3 \/ i = n + 4  BY ONLY <2>4, <1>3, <1>8 DEF Fits
  <2> QED BY ONLY <1>5, <2>1, <2>2, <2>3, <2>4
<1>13. \A i \in 1 .. n + 4 : \A q : Follows(q, p[i])
  BY ONLY <1>7 DEF Follows
<1>14. Orderly("export", {r}, p)
  BY ONLY <1>2, <1>7, <1>12, <1>13 DEF Orderly, Does
<1>15. p # <<>> /\ Head(p) = p[1]
  <2>1. Len(p) # 0  BY ONLY <1>1, <1>2
  <2> QED BY ONLY <1>2, <2>1, EmptySeq, TailFacts
<1>16. \A d \in Ahead(p) : d.do # "insert_mark"  BY ONLY <1>2, <1>7 DEF Ahead
<1> QED BY ONLY <1>3, <1>14, <1>15, <1>16 DEF Opens, p

(* A set's sequence has all its elements. *)
LEMMA InOrderCovers ==
  ASSUME NEW S, IsFiniteSet(S)
  PROVE  /\ \E k \in Nat : InOrder(S) \in [1 .. k -> S] /\ InOrder(S) \in Seq(S) /\ Len(InOrder(S)) = k
         /\ Ahead(InOrder(S)) = S
<1>1. PICK k \in Nat : k = Cardinality(S)  BY FS_CardinalityType
<1>2. PICK g \in Bijection(1 .. k, S) : TRUE
  BY <1>1, FS_CardinalityType DEF ExistsBijection
<1>3. g \in [1 .. k -> S] /\ IsInjective(g)
  BY <1>2 DEF Bijection, Injection, IsInjective
<1> DEFINE f == InOrder(S)
<1>4. f \in [1 .. k -> S] /\ IsInjective(f)
  <2>1. g \in Orders(S)
    BY <1>1, <1>3 DEF Orders, IsInjective
  <2>2. f \in Orders(S)  BY <2>1 DEF InOrder
  <2> QED BY <1>1, <2>2 DEF Orders, IsInjective
<1> HIDE DEF f
<1>5. f \in Seq(S) /\ Len(f) = k
  BY ONLY <1>4, FunctionSeq, k \in Nat
<1>6. Ahead(f) = {f[i] : i \in 1 .. k}  BY ONLY <1>5 DEF Ahead
<1>7. f \in [1 .. k -> Ahead(f)] /\ Ahead(f) \in SUBSET S
  BY ONLY <1>4, <1>6
<1>8. f \in Bijection(1 .. k, Ahead(f))
  BY ONLY <1>4, <1>6, <1>7 DEF Bijection, Injection, Surjection, IsInjective
<1>9. IsFiniteSet(1 .. k) /\ Cardinality(1 .. k) = k
  BY FS_Interval
<1>10. Cardinality(Ahead(f)) = k
  BY ONLY <1>8, <1>9, FS_Bijection DEF ExistsBijection
<1>11. Ahead(f) = S
  BY ONLY <1>1, <1>7, <1>10, FS_Subset, IsFiniteSet(S)
<1> QED BY <1>4, <1>5, <1>11 DEF f

LEMMA FindsOpen ==
  ASSUME NEW R \in SUBSET Traces, R # {}, NEW t \in Tags
  PROVE  Opens("tag", R, InOrder({[do |-> "find", rows |-> {r}, tag |-> t] : r \in R}))
<1> DEFINE F == {[do |-> "find", rows |-> {r}, tag |-> t] : r \in R}
<1>1. \A f \in F : f.do = "find"  OBVIOUS
<1>2. IsFiniteSet(F)
  <2>1. IsFiniteSet(R)  BY StoresAssumption, FS_Subset
  <2> DEFINE g == [r \in R |-> [do |-> "find", rows |-> {r}, tag |-> t]]
  <2>2. g \in [R -> F] /\ \A f \in F : \E r \in R : g[r] = f  OBVIOUS
  <2> HIDE DEF g, F
  <2>3. g \in Surjection(R, F)  BY <2>2 DEF Surjection
  <2> QED BY <2>1, <2>3, FS_Surjection
<1>3. \A r \in R : \E d \in F : d.do = "find" /\ d.rows = {r}
  <2> TAKE r \in R
  <2>1. [do |-> "find", rows |-> {r}, tag |-> t] \in F  OBVIOUS
  <2> HIDE DEF F
  <2> QED BY <2>1
<1>4. F # {}  OBVIOUS
<1> HIDE DEF F
<1> DEFINE p == InOrder(F)
<1>5. p \in Seq(F) /\ Ahead(p) = F  BY <1>2, InOrderCovers
<1> HIDE DEF p
<1>6. p # <<>>  BY <1>4, <1>5, AheadNone
<1>7. Head(p) \in F
  BY <1>5, <1>6, HeadAhead
<1>8. \A i \in 1 .. Len(p) : p[i].do = "find"  BY <1>1, <1>5 DEF Ahead
<1>9. \A i : \A d \in Later(p, i) : d.do = "find"
  BY <1>8 DEF Later
<1>10. Orderly("tag", R, p)
  BY <1>8, <1>9 DEF Orderly, Fits, Follows, Does
<1> QED BY <1>1, <1>3, <1>5, <1>6, <1>7, <1>10 DEF Opens, p, F

LEMMA AssignOrderly ==
  ASSUME NEW R \in SUBSET Traces, NEW t \in Tags, NEW k \in Nat, NEW s \in [1 .. k -> R], NEW on
  PROVE  Tagging(AssignTag(s, t), on, R, t)
<1> DEFINE first == <<Statement("insert_tag", {t})>>
           marks == [i \in 1 .. k |-> Statement("insert_mark", {<<s[i], t>>})]
           W == Statements
<1>1. first \in Seq(W) /\ Len(first) = 1 /\ first[1] = Statement("insert_tag", {t})
  <2>1. {t} \in Rows  BY RowsFact
  <2>2. Statement("insert_tag", {t}) \in W
    BY <2>1, StatementFact DEF Kinds
  <2> HIDE DEF W
  <2> QED BY <2>2, Tuples
<1>2. marks \in Seq(W) /\ Len(marks) = k /\ \A i \in 1 .. k : \E r \in R : marks[i] = Statement("insert_mark", {<<r, t>>})
  <2>1. \A i \in 1 .. k : {<<s[i], t>>} \in Rows
    <3>1. \A i \in 1 .. k : {<<s[i], t>>} \in SUBSET (Traces \X Tags)  OBVIOUS
    <3> QED BY <3>1, RowsFact
  <2>2. \A i \in 1 .. k : Statement("insert_mark", {<<s[i], t>>}) \in Statements
    BY <2>1, StatementFact DEF Kinds
  <2>3. marks \in [1 .. k -> Statements]  BY <2>2
  <2>4. \A i \in 1 .. k : s[i] \in R /\ marks[i] = Statement("insert_mark", {<<s[i], t>>})  OBVIOUS
  <2> HIDE DEF marks
  <2>5. marks \in Seq(Statements) /\ Len(marks) = k
    BY <2>3, FunctionSeq
  <2> QED BY <2>4, <2>5
<1>3. AssignTag(s, t) = first \o marks
  <2>1. DOMAIN s = 1 .. k  OBVIOUS
  <2> QED BY <2>1 DEF AssignTag
<1> HIDE DEF first, marks, W
<1>4. PICK m : m \in Nat /\ m = 1  OBVIOUS
<1>5. first \in Seq(W) /\ Len(first) = m /\ m \in Nat /\ marks \in Seq(W) /\ Len(marks) = k /\ k \in Nat
  BY <1>1, <1>2, <1>4
<1>6. Join(W, first, m, marks, k)  BY ONLY <1>5, Joined
<1> DEFINE p == first \o marks
<1>7. /\ p \in Seq(W) /\ Len(p) = m + k
      /\ \A i \in 1 .. m : p[i] = first[i]
      /\ \A i \in 1 .. k : p[i + m] = marks[i]
  BY ONLY <1>6 DEF Join
<1> HIDE DEF p
<1>8. /\ 1 \in 1 .. Len(p) /\ p[1] = Statement("insert_tag", {t})
      /\ \A i \in 1 .. Len(p) : i > 1 => \E r \in R : p[i] = Statement("insert_mark", {<<r, t>>})
  <2>1. 1 \in 1 .. m /\ 1 \in 1 .. m + k  BY ONLY <1>4, <1>5
  <2>2. \A i \in 1 .. m + k : i > 1 => i - m \in 1 .. k /\ (i - m) + m = i
    BY ONLY <1>4, <1>5
  <2>3. ASSUME NEW i \in 1 .. m + k, i > 1
        PROVE  \E r \in R : p[i] = Statement("insert_mark", {<<r, t>>})
    <3>1. i - m \in 1 .. k /\ (i - m) + m = i  BY ONLY <2>2, <2>3
    <3>2. p[i] = marks[i - m]
      BY ONLY <1>7, <3>1
    <3> QED BY ONLY <1>2, <3>1, <3>2
  <2> QED BY ONLY <1>1, <1>7, <2>1, <2>3
<1>9. \A i \in 1 .. Len(p) : i = 1 \/ i > 1  OBVIOUS
<1>10. \A i \in 1 .. Len(p) : \/ p[i] = Statement("insert_tag", {t})
                              \/ \E r \in R : p[i] = Statement("insert_mark", {<<r, t>>})
  BY ONLY <1>8, <1>9
<1>11. \A r : Statement("insert_mark", {<<r, t>>}).do = "insert_mark" /\ Statement("insert_mark", {<<r, t>>}).rows = {<<r, t>>}
  BY StatementFields
<1>12. Statement("insert_tag", {t}).do = "insert_tag"
  BY StatementFields
<1>13. \A i \in 1 .. Len(p) : \/ p[i].do = "insert_tag"
                              \/ p[i].do = "insert_mark" /\ \E u \in Traces \X Tags : p[i].rows = {u}
  <2> TAKE i \in 1 .. Len(p)
  <2>1. ASSUME NEW r \in R, p[i] = Statement("insert_mark", {<<r, t>>})
        PROVE  p[i].do = "insert_mark" /\ \E u \in Traces \X Tags : p[i].rows = {u}
    <3>1. <<r, t>> \in Traces \X Tags  OBVIOUS
    <3> QED BY ONLY <2>1, <3>1, <1>11
  <2> QED BY ONLY <1>10, <1>12, <2>1
<1>14. \A i : \A d \in Later(p, i) : d.do \in {"insert_tag", "insert_mark"}
  BY ONLY <1>13 DEF Later
<1>15. \A i \in 1 .. Len(p) : \A q : Fits(p[i], Later(p, i), on) /\ Follows(q, p[i])
  BY ONLY <1>13, <1>14 DEF Fits, Follows
<1>16. Orderly("tag", on, p)
  BY ONLY <1>13, <1>15 DEF Orderly, Does
<1>17. p # <<>> /\ Head(p) = p[1]
  BY <1>7, <1>8, EmptySeq, TailFacts
<1>18. \A d \in Ahead(p) : \/ d = Statement("insert_tag", {t})
                           \/ \E r \in R : d = Statement("insert_mark", {<<r, t>>})
  BY ONLY <1>10 DEF Ahead
<1>19. p \in Seq(Statements) /\ Head(p) = Statement("insert_tag", {t})
  BY <1>7, <1>8, <1>17 DEF W
<1>20. AssignTag(s, t) = p  BY <1>3 DEF p
<1> QED BY ONLY <1>16, <1>17, <1>18, <1>19, <1>20 DEF Tagging

-----------------------------------------------------------------------------
(* What a statement changes *)

LEMMA EffectRows ==
  ASSUME NEW db, Shaped(db), NEW s, NEW e, e = Effect(db, s)
  PROVE  /\ s.do = "insert_run" => Changed(db, e, "runs", db.runs \cup s.rows)
         /\ s.do = "insert_span" => Changed(db, e, "spans", db.spans \cup s.rows)
         /\ s.do = "insert_tag" => Changed(db, e, "tags", db.tags \cup s.rows)
         /\ s.do = "insert_mark" => Changed(db, e, "marks", db.marks \cup s.rows)
         /\ s.do = "delete_runs" => Changed(db, e, "runs", db.runs \ s.rows)
         /\ s.do = "delete_spans" => Changed(db, e, "spans", db.spans \ SpansIn(s.rows))
         /\ s.do = "delete_marks" => Changed(db, e, "marks", {m \in db.marks : m[1] \notin s.rows})
         /\ s.do = "unmark" => Changed(db, e, "marks", db.marks \ s.rows)
         /\ s.do = "delete_tag" => Changed(db, e, "tags", db.tags \ s.rows)
         /\ s.do = "copy_tag" => Changed(db, e, "tags", db.tags \cup {n[2] : n \in {o \in s.rows : o[1] \in db.tags}})
         /\ s.do = "move_marks" => Changed(db, e, "marks", {<<m[1], Renamed(m[2], s.rows)>> : m \in db.marks})
         /\ s.do = "keep_newest" => Changed(db, e, "runs", Newest(db.runs, s.rows))
         /\ s.do = "sweep_spans" => Changed(db, e, "spans", db.spans \cap SpansIn(db.runs))
         /\ s.do = "sweep_marks" => Changed(db, e, "marks", {m \in db.marks : m[1] \in db.runs})
<1> USE DEF Changed, Shaped, TableNames
<1>1. s.do = "insert_run" => Changed(db, e, "runs", db.runs \cup s.rows)
  BY DEF Effect
<1>2. s.do = "insert_span" => Changed(db, e, "spans", db.spans \cup s.rows)
  BY DEF Effect
<1>3. s.do = "insert_tag" => Changed(db, e, "tags", db.tags \cup s.rows)
  BY DEF Effect
<1>4. s.do = "insert_mark" => Changed(db, e, "marks", db.marks \cup s.rows)
  BY DEF Effect
<1>5. s.do = "delete_runs" => Changed(db, e, "runs", db.runs \ s.rows)
  BY DEF Effect
<1>6. s.do = "delete_spans" => Changed(db, e, "spans", db.spans \ SpansIn(s.rows))
  BY DEF Effect
<1>7. s.do = "delete_marks" => Changed(db, e, "marks", {m \in db.marks : m[1] \notin s.rows})
  BY DEF Effect
<1>8. s.do = "unmark" => Changed(db, e, "marks", db.marks \ s.rows)
  BY DEF Effect
<1>9. s.do = "delete_tag" => Changed(db, e, "tags", db.tags \ s.rows)
  BY DEF Effect
<1>10. s.do = "copy_tag" => Changed(db, e, "tags", db.tags \cup {n[2] : n \in {o \in s.rows : o[1] \in db.tags}})
  BY DEF Effect
<1>11. s.do = "move_marks" => Changed(db, e, "marks", {<<m[1], Renamed(m[2], s.rows)>> : m \in db.marks})
  BY DEF Effect
<1>12. s.do = "keep_newest" => Changed(db, e, "runs", Newest(db.runs, s.rows))
  BY DEF Effect
<1>13. s.do = "sweep_spans" => Changed(db, e, "spans", db.spans \cap SpansIn(db.runs))
  BY DEF Effect
<1>14. s.do = "sweep_marks" => Changed(db, e, "marks", {m \in db.marks : m[1] \in db.runs})
  BY DEF Effect
<1> QED
  BY ONLY <1>1, <1>2, <1>3, <1>4, <1>5, <1>6, <1>7, <1>8, <1>9, <1>10, <1>11, <1>12, <1>13, <1>14

LEMMA SpansInFact == \A R, x : x \in SpansIn(R) <=> x \in SpanIds /\ x[1] \in R
BY DEF SpansIn

(* Which methods a statement is of. *)
LEMMA WhoDoes ==
  ASSUME NEW op \in Methods, NEW do \in Does[op]
  PROVE  /\ do \in {"insert_run", "insert_span"} => op = "export"
         /\ do \in {"delete_spans", "delete_marks", "delete_runs"} => op = "delete"
         /\ do \in {"keep_newest", "sweep_spans", "sweep_marks"} => op \in {"export", "prune"}
         /\ do \in {"find", "insert_mark"} => op = "tag"
         /\ do \in {"copy_tag", "move_marks"} => op = "rename"
         /\ do = "delete_tag" => op \in {"rename", "delete_tag"}
         /\ do = "unmark" => op \in {"untag", "delete_tag"}
         /\ do = "insert_tag" => op \in {"tag", "color"}
         /\ do \in {"insert_run", "insert_span", "delete_spans", "delete_marks", "delete_runs", "keep_newest",
                    "sweep_spans", "sweep_marks", "find", "insert_mark", "copy_tag", "move_marks", "delete_tag",
                    "unmark", "insert_tag"}
BY DEF Does, Methods

(* A statement of a call that is in order leaves no more to put right. *)
LEMMA OwesStep ==
  ASSUME NEW op \in Methods, NEW on \in SUBSET Traces, NEW s, NEW then, NEW after, NEW db, NEW e,
         Shaped(db), Typed(db), e = Effect(db, s),
         Owed(on, {s} \cup then, s, db),
         \A d \in {s} \cup then : d.do \in Does[op],
         Fits(s, then, on), then # {} => Follows(s, after), s.do # "find",
         s.do = "insert_run" => s.rows = on
  PROVE  Typed(e) /\ Owed(on, then, after, e)
<1>1. /\ OweSpans(on, {s} \cup then, db) /\ OweSweep({s} \cup then, db) /\ OweDelete(on, {s} \cup then, db)
      /\ OweTags({s} \cup then, s, db) /\ OweMarks(on, {s} \cup then, s, db)
      /\ ~Todo(then, "find")
  BY DEF Owed, Fits, Todo
<1>2. \A do : Todo({s} \cup then, do) <=> s.do = do \/ Todo(then, do)
  BY DEF Todo
<1>3. /\ Todo(then, "delete_runs") \/ Todo(then, "delete_spans") \/ Todo(then, "delete_marks") => op = "delete"
      /\ Todo(then, "sweep_spans") \/ Todo(then, "sweep_marks") => op \in {"export", "prune"}
      /\ \A d \in then : d.do = "insert_mark" => op = "tag"
      /\ \A d \in then : d.do = "insert_span" => op = "export"
      /\ s.do \in {"insert_run", "insert_span"} => op = "export"
      /\ s.do \in {"delete_spans", "delete_marks", "delete_runs"} => op = "delete"
      /\ s.do \in {"keep_newest", "sweep_spans", "sweep_marks"} => op \in {"export", "prune"}
      /\ s.do = "insert_mark" => op = "tag"
      /\ s.do \in {"copy_tag", "move_marks"} => op = "rename"
      /\ s.do = "delete_tag" => op \in {"rename", "delete_tag"}
      /\ s.do = "unmark" => op \in {"untag", "delete_tag"}
      /\ s.do = "insert_tag" => op \in {"tag", "color"}
      /\ s.do \in {"insert_run", "insert_span", "delete_spans", "delete_marks", "delete_runs", "keep_newest",
                   "sweep_spans", "sweep_marks", "insert_mark", "copy_tag", "move_marks", "delete_tag",
                   "unmark", "insert_tag"}
  BY WhoDoes DEF Todo
<1>4. /\ then # {} /\ after.do = "move_marks" => s.do = "copy_tag" /\ s.rows = after.rows
      /\ then # {} /\ after.do = "delete_tag" =>
           \E t \in Tags : /\ after.rows = {t}
                           /\ \/ s.do = "unmark" /\ s.rows = Traces \X {t}
                              \/ \E n \in Tags : n # t /\ s.do = "move_marks" /\ s.rows = {<<t, n>>}
  <2>1. ASSUME then # {}, after.do = "move_marks" PROVE s.do = "copy_tag" /\ s.rows = after.rows
    <3>1. PICK x : x = after.rows  OBVIOUS
    <3>2. s = Statement("copy_tag", x)  BY <2>1, <3>1 DEF Follows
    <3> QED BY ONLY <3>1, <3>2, StatementFields
  <2>2. ASSUME then # {}, after.do = "delete_tag"
        PROVE  \E t \in Tags : /\ after.rows = {t}
                               /\ \/ s.do = "unmark" /\ s.rows = Traces \X {t}
                                  \/ \E n \in Tags : n # t /\ s.do = "move_marks" /\ s.rows = {<<t, n>>}
    <3>1. PICK t \in Tags : /\ after.rows = {t}
                            /\ \/ s = Statement("unmark", Traces \X {t})
                               \/ \E n \in Tags : n # t /\ s = Statement("move_marks", {<<t, n>>})
      BY <2>2 DEF Follows
    <3>2. CASE s = Statement("unmark", Traces \X {t})
      <4>1. PICK x : x = Traces \X {t}  OBVIOUS
      <4>2. s.do = "unmark" /\ s.rows = x
        BY ONLY <3>2, <4>1, StatementFields
      <4> QED BY ONLY <3>1, <4>1, <4>2, t \in Tags
    <3>3. ASSUME NEW n \in Tags, n # t, s = Statement("move_marks", {<<t, n>>})
          PROVE  s.do = "move_marks" /\ s.rows = {<<t, n>>}
      <4>1. PICK x : x = {<<t, n>>}  OBVIOUS
      <4>2. s.do = "move_marks" /\ s.rows = x
        BY ONLY <3>3, <4>1, StatementFields
      <4> QED BY ONLY <4>1, <4>2
    <3> QED BY ONLY <3>1, <3>2, <3>3
  <2> QED BY ONLY <2>1, <2>2
<1>5. \A x : Statement("insert_span", {x}) \in {s} \cup then =>
               (s.do = "insert_span" /\ s.rows = {x}) \/ Statement("insert_span", {x}) \in then
  BY StatementFields
<1>6. \A x : Statement("insert_span", {x}) \in then => op = "export"
  BY <1>3, StatementFields
<1>7. \A t : s = Statement("insert_tag", {t}) => s.do = "insert_tag" /\ s.rows = {t}
  BY StatementFields
<1>8. OweTags(then, after, e) \/ s.do \in {"copy_tag", "unmark", "move_marks"}
  BY ONLY <1>4 DEF OweTags
<1>9. CASE s.do = "insert_run"
  <2>1. Changed(db, e, "runs", db.runs \cup on)  BY <1>9, EffectRows
  <2>2. e.runs = db.runs \cup on /\ e.spans = db.spans /\ e.marks = db.marks /\ e.tags = db.tags
    BY <2>1 DEF Changed, TableNames
  <2>3. OweSpans(on, then, e)
    BY <1>1, <1>2, <1>3, <1>5, <1>9, <2>2, SpansInFact DEF OweSpans, Fits
  <2>4. OweSweep(then, e) /\ OweDelete(on, then, e) /\ OweMarks(on, then, after, e)
    BY <1>1, <1>2, <1>3, <1>9, <2>2 DEF OweSweep, OweDelete, OweMarks
  <2> QED BY <1>8, <1>9, <2>2, <2>3, <2>4 DEF Owed, Typed
<1>10. CASE s.do = "insert_span"
  <2>1. PICK y \in SpanIds : s.rows = {y}  BY <1>10 DEF Fits
  <2>2. Changed(db, e, "spans", db.spans \cup {y}) /\ Todo(then, "sweep_spans")
    BY <1>10, <2>1, EffectRows DEF Fits, Todo
  <2>3. e.runs = db.runs /\ e.spans = db.spans \cup {y} /\ e.marks = db.marks /\ e.tags = db.tags
    BY <2>2 DEF Changed, TableNames
  <2>4. OweSpans(on, then, e)
    BY <1>1, <1>2, <1>3, <1>5, <1>10, <2>1, <2>3 DEF OweSpans
  <2>5. OweSweep(then, e) /\ OweDelete(on, then, e) /\ OweMarks(on, then, after, e)
    <3>1. OweSweep(then, e) /\ OweDelete(on, then, e)
      BY <1>1, <1>2, <1>3, <1>10, <2>2, <2>3 DEF OweSweep, OweDelete
    <3>2. \A d \in then : d.do # "insert_mark"  BY ONLY <1>3, <1>10
    <3>3. ~Todo(then, "find")
      BY ONLY <1>1
    <3>4. OweMarks(on, then, after, e)  BY ONLY <3>2, <3>3 DEF OweMarks
    <3> QED BY ONLY <3>1, <3>4
  <2> QED BY <1>8, <1>10, <2>1, <2>3, <2>4, <2>5 DEF Owed, Typed
<1>11. CASE s.do = "insert_tag"
  <2>1. Changed(db, e, "tags", db.tags \cup s.rows)
    BY <1>11, EffectRows
  <2>2. e.runs = db.runs /\ e.spans = db.spans /\ e.marks = db.marks /\ e.tags = db.tags \cup s.rows
    BY <2>1 DEF Changed, TableNames
  <2>3. OweSpans(on, then, e)
    BY <1>1, <1>2, <1>3, <1>5, <1>11, <2>2 DEF OweSpans
  <2>4. OweSweep(then, e) /\ OweDelete(on, then, e)
    BY <1>1, <1>2, <1>3, <1>11, <2>2 DEF OweSweep, OweDelete
  <2>5. OweMarks(on, then, after, e)
    <3>1. ASSUME NEW d \in then, d.do = "insert_mark", NEW m \in d.rows
          PROVE  m[1] \in e.runs /\ m[2] \in e.tags
      <4>1. PICK t : t = m[2]  OBVIOUS
      <4>2. m[1] \in db.runs /\ (t \in db.tags \/ s = Statement("insert_tag", {t}))
        BY <1>1, <3>1, <4>1 DEF OweMarks
      <4>3. s = Statement("insert_tag", {t}) => t \in s.rows
        BY ONLY <1>7
      <4> QED BY ONLY <2>2, <4>1, <4>2, <4>3
    <3>2. ~Todo(then, "find")  BY ONLY <1>1
    <3> QED BY ONLY <3>1, <3>2 DEF OweMarks
  <2> QED BY <1>8, <1>11, <2>2, <2>3, <2>4, <2>5 DEF Owed, Typed
<1>12. CASE s.do = "insert_mark"
  <2>1. PICK y \in Traces \X Tags : s.rows = {y}  BY <1>12 DEF Fits
  <2>2. Changed(db, e, "marks", db.marks \cup {y})
    BY <1>12, <2>1, EffectRows
  <2>3. e.runs = db.runs /\ e.spans = db.spans /\ e.marks = db.marks \cup {y} /\ e.tags = db.tags
    BY <2>2 DEF Changed, TableNames
  <2>4. OweSpans(on, then, e)
    BY <1>1, <1>2, <1>3, <1>5, <1>12, <2>3 DEF OweSpans
  <2>5. y[1] \in db.runs /\ y[2] \in db.tags
    BY <1>1, <1>7, <1>12, <2>1 DEF OweMarks
  <2>6. OweSweep(then, e) /\ OweDelete(on, then, e)
    BY <1>1, <1>2, <1>3, <1>12, <2>3, <2>5 DEF OweSweep, OweDelete
  <2>7. OweMarks(on, then, after, e)
    BY <1>1, <1>7, <1>12, <2>3 DEF OweMarks
  <2> QED BY <1>8, <1>12, <2>1, <2>3, <2>4, <2>6, <2>7 DEF Owed, Typed
<1>13. CASE s.do = "delete_runs"
  <2>1. Changed(db, e, "runs", db.runs \ on) /\ then = {}
    BY <1>13, EffectRows DEF Fits
  <2>2. e.runs = db.runs \ on /\ e.spans = db.spans /\ e.marks = db.marks /\ e.tags = db.tags
    BY <2>1 DEF Changed, TableNames
  <2>3. \A do : ~Todo(then, do)  BY <2>1 DEF Todo
  <2>4. OweSpans(on, then, e)
    BY <1>1, <1>2, <1>5, <1>13, <2>2, <2>3, SpansInFact DEF OweSpans
  <2>5. OweSweep(then, e)
    BY <1>1, <1>2, <1>13, <2>2, <2>3 DEF OweSweep, OweDelete
  <2>6. OweDelete(on, then, e) /\ OweMarks(on, then, after, e)
    BY <2>1, <2>3 DEF OweDelete, OweMarks
  <2> QED BY <1>8, <1>13, <2>2, <2>4, <2>5, <2>6 DEF Owed, Typed
<1>14. CASE s.do = "delete_spans"
  <2>1. Changed(db, e, "spans", db.spans \ SpansIn(on)) /\ Todo(then, "delete_runs")
    BY <1>14, EffectRows DEF Fits, Todo
  <2>2. e.runs = db.runs /\ e.spans = db.spans \ SpansIn(on) /\ e.marks = db.marks /\ e.tags = db.tags
    BY <2>1 DEF Changed, TableNames
  <2>3. OweSpans(on, then, e)
    BY <1>1, <1>2, <1>3, <1>5, <1>14, <2>1, <2>2, SpansInFact DEF OweSpans
  <2>4. OweSweep(then, e)
    BY <1>1, <1>2, <1>3, <1>14, <2>2 DEF OweSweep
  <2>5. OweDelete(on, then, e) /\ OweMarks(on, then, after, e)
    BY <1>1, <1>2, <1>3, <1>14, <2>2, SpansInFact DEF OweDelete, OweMarks, Typed
  <2> QED BY <1>8, <1>14, <2>2, <2>3, <2>4, <2>5 DEF Owed, Typed
<1>15. CASE s.do = "delete_marks"
  <2>0. s.rows = on  BY <1>15 DEF Fits
  <2>1. Changed(db, e, "marks", {m \in db.marks : m[1] \notin on})
    <3>1. Changed(db, e, "marks", {m \in db.marks : m[1] \notin s.rows})
      BY <1>15, EffectRows
    <3>2. {m \in db.marks : m[1] \notin s.rows} = {m \in db.marks : m[1] \notin on}
      BY <2>0
    <3> QED BY ONLY <3>1, <3>2
  <2>2. e.runs = db.runs /\ e.spans = db.spans /\ e.marks = {m \in db.marks : m[1] \notin on} /\ e.tags = db.tags
    BY <2>1 DEF Changed, TableNames
  <2>3. OweSpans(on, then, e)
    BY <1>1, <1>2, <1>3, <1>5, <1>15, <2>2 DEF OweSpans
  <2>4. OweSweep(then, e) /\ OweDelete(on, then, e) /\ OweMarks(on, then, after, e)
    BY <1>1, <1>2, <1>3, <1>15, <2>2 DEF OweSweep, OweDelete, OweMarks
  <2> QED BY <1>8, <1>15, <2>2, <2>3, <2>4 DEF Owed, Typed
<1>16. CASE s.do = "unmark"
  <2>1. Changed(db, e, "marks", db.marks \ s.rows)
    BY <1>16, EffectRows
  <2>2. e.runs = db.runs /\ e.spans = db.spans /\ e.marks = db.marks \ s.rows /\ e.tags = db.tags
    BY <2>1 DEF Changed, TableNames
  <2>3. OweSpans(on, then, e)
    BY <1>1, <1>2, <1>3, <1>5, <1>16, <2>2 DEF OweSpans
  <2>4. OweSweep(then, e) /\ OweDelete(on, then, e) /\ OweMarks(on, then, after, e)
    BY <1>1, <1>2, <1>3, <1>16, <2>2 DEF OweSweep, OweDelete, OweMarks
  <2>5. OweTags(then, after, e)
    BY <1>4, <1>16, <2>2 DEF OweTags, Typed
  <2> QED BY <2>2, <2>3, <2>4, <2>5 DEF Owed, Typed
<1>17. CASE s.do = "delete_tag"
  <2>1. Changed(db, e, "tags", db.tags \ s.rows) /\ \A m \in db.marks : m[2] \notin s.rows
    BY <1>1, <1>17, EffectRows DEF OweTags
  <2>2. e.runs = db.runs /\ e.spans = db.spans /\ e.marks = db.marks /\ e.tags = db.tags \ s.rows
    BY <2>1 DEF Changed, TableNames
  <2>3. OweSpans(on, then, e)
    BY <1>1, <1>2, <1>3, <1>5, <1>17, <2>2 DEF OweSpans
  <2>4. OweSweep(then, e) /\ OweDelete(on, then, e) /\ OweMarks(on, then, after, e)
    BY <1>1, <1>2, <1>3, <1>17, <2>1, <2>2 DEF OweSweep, OweDelete, OweMarks
  <2> QED BY <1>8, <1>17, <2>2, <2>3, <2>4 DEF Owed, Typed
<1>18. CASE s.do = "copy_tag"
  <2>1. PICK o \in Tags, n \in Tags : s.rows = {<<o, n>>}
    BY <1>18 DEF Fits
  <2>2. Changed(db, e, "tags", db.tags \cup {m[2] : m \in {k \in s.rows : k[1] \in db.tags}})
    BY <1>18, EffectRows
  <2>3. /\ e.runs = db.runs /\ e.spans = db.spans /\ e.marks = db.marks
        /\ e.tags = db.tags \cup {m[2] : m \in {k \in s.rows : k[1] \in db.tags}}
    BY <2>2 DEF Changed, TableNames
  <2>4. db.tags \subseteq e.tags /\ (o \in e.tags => n \in e.tags)
    <3>1. CASE o \in db.tags
      <4>1. <<o, n>> \in {k \in s.rows : k[1] \in db.tags} /\ <<o, n>>[2] = n
        BY ONLY <3>1, <2>1
      <4>2. n \in {m[2] : m \in {k \in s.rows : k[1] \in db.tags}}
        BY ONLY <4>1
      <4> QED BY ONLY <2>3, <4>2
    <3>2. CASE o \notin db.tags
      <4>1. {k \in s.rows : k[1] \in db.tags} = {}  BY ONLY <3>2, <2>1
      <4>2. e.tags = db.tags
        BY ONLY <2>3, <4>1
      <4> QED BY ONLY <3>2, <4>2
    <3> QED BY ONLY <3>1, <3>2
  <2>5. OweSpans(on, then, e)
    BY <1>1, <1>2, <1>3, <1>5, <1>18, <2>3 DEF OweSpans
  <2>6. OweSweep(then, e) /\ OweDelete(on, then, e) /\ OweMarks(on, then, after, e)
    BY <1>1, <1>2, <1>3, <1>18, <2>3, <2>4 DEF OweSweep, OweDelete, OweMarks
  <2>7. OweTags(then, after, e)
    BY <1>4, <1>18, <2>1, <2>4 DEF OweTags
  <2> QED BY <2>3, <2>5, <2>6, <2>7 DEF Owed, Typed
<1>19. CASE s.do = "move_marks"
  <2>1. PICK o \in Tags, n \in Tags : o # n /\ s.rows = {<<o, n>>}
    BY <1>19 DEF Fits
  <2>2. Changed(db, e, "marks", {<<m[1], Renamed(m[2], s.rows)>> : m \in db.marks})
    BY <1>19, EffectRows
  <2>3. /\ e.runs = db.runs /\ e.spans = db.spans /\ e.tags = db.tags
        /\ e.marks = {<<m[1], IF m[2] = o THEN n ELSE m[2]>> : m \in db.marks}
    <3>1. \A x : (x = o => Renamed(x, s.rows) = n) /\ (x # o => Renamed(x, s.rows) = x)
      <4>1. PICK moves : moves = s.rows /\ moves = {<<o, n>>}
        BY ONLY <2>1
      <4>2. \A x : (x = o => Renamed(x, moves) = n) /\ (x # o => Renamed(x, moves) = x)
        <5> TAKE x
        <5>1. x = o => {m \in moves : m[1] = x} = {<<o, n>>}
          BY ONLY <4>1
        <5>2. x # o => {m \in moves : m[1] = x} = {}  BY ONLY <4>1
        <5>3. (CHOOSE m \in {<<o, n>>} : TRUE) = <<o, n>>  OBVIOUS
        <5> QED BY ONLY <5>1, <5>2, <5>3 DEF Renamed
      <4> QED BY ONLY <4>1, <4>2
    <3>2. \A m \in db.marks : <<m[1], Renamed(m[2], s.rows)>> = <<m[1], IF m[2] = o THEN n ELSE m[2]>>
      BY ONLY <3>1
    <3>3. {<<m[1], Renamed(m[2], s.rows)>> : m \in db.marks} = {<<m[1], IF m[2] = o THEN n ELSE m[2]>> : m \in db.marks}
      BY ONLY <3>2
    <3> QED BY ONLY <2>2, <3>3 DEF Changed, TableNames
  <2>4. o \in db.tags => n \in db.tags  BY <1>1, <1>19, <2>1 DEF OweTags
  <2>5. OweSpans(on, then, e)
    BY <1>1, <1>2, <1>3, <1>5, <1>19, <2>3 DEF OweSpans
  <2>6. \A m \in e.marks : \E k \in db.marks : m[1] = k[1] /\ m[2] \in {k[2], n} /\ m[2] # o /\ m \in Traces \X Tags
                             /\ (m[2] # k[2] => k[2] = o /\ m[2] = n)
    BY <2>1, <2>3 DEF Typed
  <2>7. OweSweep(then, e)
    <3>1. /\ e.runs = db.runs /\ e.spans = db.spans /\ e.tags = db.tags
          /\ ~(s.do \in {"sweep_spans", "sweep_marks"})
      BY ONLY <1>19, <2>3
    <3>2. /\ \A x \in db.spans : x[1] \in db.runs \/ Todo(then, "sweep_spans")
          /\ \A m \in db.marks : m[2] \in db.tags /\ (m[1] \in db.runs \/ Todo(then, "sweep_marks"))
      BY ONLY <1>1, <1>2, <3>1 DEF OweSweep
    <3>3. \A m \in e.marks : m[2] \in e.tags /\ (m[1] \in e.runs \/ Todo(then, "sweep_marks"))
      BY ONLY <2>4, <2>6, <3>1, <3>2
    <3> QED BY ONLY <3>1, <3>2, <3>3 DEF OweSweep
  <2>8. OweDelete(on, then, e) /\ OweMarks(on, then, after, e)
    BY <1>1, <1>3, <1>19, <2>3 DEF OweDelete, OweMarks
  <2>9. OweTags(then, after, e)
    <3>1. ASSUME then # {}, after.do = "delete_tag" PROVE after.rows = {o}
      <4>1. PICK t \in Tags, q \in Tags : after.rows = {t} /\ s.rows = {<<t, q>>}
        BY <1>4, <1>19, <3>1
      <4>2. <<o, n>> \in {<<t, q>>}  BY ONLY <2>1, <4>1
      <4>3. t = o
        BY ONLY <4>2
      <4> QED BY ONLY <4>1, <4>3
    <3> QED BY ONLY <1>4, <1>19, <2>6, <3>1 DEF OweTags
  <2>10. Typed(e)  BY <2>3, <2>6 DEF Typed
  <2> QED BY <2>5, <2>7, <2>8, <2>9, <2>10 DEF Owed
<1>20. CASE s.do = "keep_newest"
  <2>1. Changed(db, e, "runs", Newest(db.runs, s.rows)) /\ Todo(then, "sweep_spans") /\ Todo(then, "sweep_marks")
    BY <1>20, EffectRows DEF Fits, Todo
  <2>2. e.runs \subseteq db.runs /\ e.spans = db.spans /\ e.marks = db.marks /\ e.tags = db.tags
    BY <2>1 DEF Changed, TableNames, Newest
  <2>3. OweSpans(on, then, e)
    BY <1>1, <1>2, <1>3, <1>5, <1>20, <2>2, SpansInFact DEF OweSpans
  <2>4. OweSweep(then, e) /\ OweDelete(on, then, e) /\ OweMarks(on, then, after, e)
    BY <1>1, <1>2, <1>3, <1>20, <2>1, <2>2 DEF OweSweep, OweDelete, OweMarks
  <2> QED BY <1>8, <1>20, <2>2, <2>3, <2>4 DEF Owed, Typed
<1>21. CASE s.do = "sweep_spans"
  <2>1. Changed(db, e, "spans", db.spans \cap SpansIn(db.runs))
    BY <1>21, EffectRows
  <2>2. e.runs = db.runs /\ e.spans = db.spans \cap SpansIn(db.runs) /\ e.marks = db.marks /\ e.tags = db.tags
    BY <2>1 DEF Changed, TableNames
  <2>3. OweSpans(on, then, e)
    BY <1>1, <1>2, <1>3, <1>5, <1>21, <2>2 DEF OweSpans
  <2>4. OweSweep(then, e) /\ OweDelete(on, then, e) /\ OweMarks(on, then, after, e)
    BY <1>1, <1>2, <1>3, <1>21, <2>2, SpansInFact DEF OweSweep, OweDelete, OweMarks
  <2> QED BY <1>8, <1>21, <2>2, <2>3, <2>4 DEF Owed, Typed
<1>22. CASE s.do = "sweep_marks"
  <2>1. Changed(db, e, "marks", {m \in db.marks : m[1] \in db.runs})
    BY <1>22, EffectRows
  <2>2. e.runs = db.runs /\ e.spans = db.spans /\ e.marks = {m \in db.marks : m[1] \in db.runs} /\ e.tags = db.tags
    BY <2>1 DEF Changed, TableNames
  <2>3. OweSpans(on, then, e)
    BY <1>1, <1>2, <1>3, <1>5, <1>22, <2>2 DEF OweSpans
  <2>4. OweSweep(then, e) /\ OweDelete(on, then, e) /\ OweMarks(on, then, after, e)
    BY <1>1, <1>2, <1>3, <1>22, <2>2 DEF OweSweep, OweDelete, OweMarks
  <2> QED BY <1>8, <1>22, <2>2, <2>3, <2>4 DEF Owed, Typed
<1> QED
  BY ONLY <1>3, <1>9, <1>10, <1>11, <1>12, <1>13, <1>14, <1>15, <1>16, <1>17, <1>18, <1>19, <1>20, <1>21, <1>22

-----------------------------------------------------------------------------
(* Calls of the SQLite stores, and what they have still to put right *)

(* Rows that are whole leave a call that begins with nothing owed. *)
LEMMA WholeOwes ==
  ASSUME NEW on, NEW ahead, NEW head, NEW db, Whole(db),
         head.do \notin {"delete_tag", "move_marks"},
         Todo(ahead, "delete_runs") => Todo(ahead, "delete_spans") /\ Todo(ahead, "delete_marks"),
         \A d \in ahead : d.do = "insert_mark" =>
           \A m \in d.rows : m[1] \in db.runs /\ head = Statement("insert_tag", {m[2]}),
         Todo(ahead, "find") => \A r \in on : \E d \in ahead : d.rows = {r}
  PROVE  Owed(on, ahead, head, db)
<1>1. db.spans = SpansIn(db.runs) /\ \A m \in db.marks : m[1] \in db.runs /\ m[2] \in db.tags
  BY DEF Whole
<1>2. OweSpans(on, ahead, db)  BY <1>1 DEF OweSpans
<1>3. OweSweep(ahead, db)
  BY <1>1, SpansInFact DEF OweSweep
<1>4. OweDelete(on, ahead, db)  BY DEF OweDelete
<1>5. OweTags(ahead, head, db)
  BY DEF OweTags
<1>6. OweMarks(on, ahead, head, db)  BY DEF OweMarks
<1> QED BY ONLY <1>2, <1>3, <1>4, <1>5, <1>6 DEF Owed

(* A call that has only to look, or nothing to do, owes nothing. *)
LEMMA OwesNothing ==
  ASSUME NEW on, NEW ahead, NEW head, NEW db, Owed(on, ahead, head, db), Typed(db),
         \A d \in ahead : d.do = "find"
  PROVE  Whole(db)
<1>1. OweSpans(on, ahead, db) /\ OweSweep(ahead, db)
  BY DEF Owed
<1>2. \A x : Statement("insert_span", {x}) \notin ahead
  BY StatementFields
<1>3. ~Todo(ahead, "delete_runs") /\ ~Todo(ahead, "sweep_spans") /\ ~Todo(ahead, "sweep_marks")
  BY DEF Todo
<1>4. \A x \in SpansIn(db.runs) : x \in db.spans
  BY <1>1, <1>2, <1>3 DEF OweSpans
<1>5. \A x \in db.spans : x \in SpansIn(db.runs)
  BY <1>1, <1>3, SpansInFact DEF OweSweep, Typed
<1>6. \A m \in db.marks : m \in db.runs \X db.tags
  <2> TAKE m \in db.marks
  <2>1. m[1] \in db.runs /\ m[2] \in db.tags /\ m \in Traces \X Tags
    BY <1>1, <1>3 DEF OweSweep, Typed
  <2> QED BY ONLY <2>1
<1> QED BY <1>4, <1>5, <1>6 DEF Whole

LEMMA OpensOwes ==
  ASSUME NEW op \in Methods, NEW on, NEW prog, Opens(op, on, prog), NEW db, Whole(db)
  PROVE  Owed(on, Ahead(prog), Head(prog), db)
<1>1. \A d \in Ahead(prog) : d.do \in Does[op]  BY DEF Opens, Orderly, Ahead
<1>2. /\ Todo(Ahead(prog), "delete_runs") => op = "delete"
      /\ Todo(Ahead(prog), "find") => op = "tag"
  BY <1>1, WhoDoes DEF Todo
<1>3. Todo(Ahead(prog), "delete_runs") => Todo(Ahead(prog), "delete_spans") /\ Todo(Ahead(prog), "delete_marks")
  BY <1>2 DEF Opens, Todo
<1>4. Todo(Ahead(prog), "find") => \A r \in on : \E d \in Ahead(prog) : d.rows = {r}
  BY <1>2 DEF Opens
<1> QED BY <1>3, <1>4, WholeOwes DEF Opens

LEMMA ToBegin ==
  ASSUME NEW w, NEW op \in Methods, NEW on \in SUBSET Traces, NEW prog,
         Alone!Begin(w, op, on, prog), Opens(op, on, prog), prog \in Seq(Statements \cup Alone!Finds)
  PROVE  Begun(w)
<1>1. /\ active[w] = None /\ disk' = disk /\ conn' = conn /\ open' = open
      /\ active' = [active EXCEPT ![w] = Alone!Call(op, on, prog)]
  BY DEF Alone!Begin
<1> QED
  BY ONLY <1>1, op \in Methods, on \in SUBSET Traces, Opens(op, on, prog),
              prog \in Seq(Statements \cup Alone!Finds) DEF Begun

LEMMA SharedCases ==
  ASSUME NEW W, SQLiteInv(W), NEW w \in W, Shared(w)
  PROVE  Begun(w) \/ Alone!Execute(w) \/ Alone!Find(w) \/ Alone!Commit(w)
<1>0. {"export", "delete", "prune", "tag", "untag", "rename", "color", "delete_tag"} \subseteq Methods
  BY DEF Methods
<1>1. ASSUME NEW r \in Traces, Alone!Export(w, r) PROVE Begun(w)
  <2>1. /\ active[w] = None /\ disk' = disk /\ conn' = conn /\ open' = open
        /\ active' = [active EXCEPT ![w] = Alone!Call("export", {r}, Exporting(r))]
    BY <1>1, SameTerms DEF Alone!Export
  <2>2. Opens("export", {r}, Exporting(r)) /\ Exporting(r) \in Seq(Statements \cup Alone!Finds)
    BY ExportingOpens, ExportProgrammed
  <2>3. {r} \in SUBSET Traces /\ "export" \in Methods
    BY <1>0
  <2> QED BY ONLY <2>1, <2>2, <2>3 DEF Begun
<1>2. ASSUME NEW R \in SUBSET conn.runs, Alone!Delete(w, R) PROVE Begun(w)
  <2>1. R \in SUBSET Traces  BY KeptFacts
  <2>2. Opens("delete", R, DeleteRuns(R)) /\ Alone!Begin(w, "delete", R, DeleteRuns(R))
        /\ DeleteRuns(R) \in Seq(Statements \cup Alone!Finds)
    BY <1>2, <2>1, DeleteOpens, DeleteProgrammed, SameTerms DEF Alone!Delete
  <2> QED BY <1>0, <2>1, <2>2, ToBegin
<1>3. ASSUME NEW r \in Traces, Alone!DeleteRun(w, r) PROVE Begun(w)
  <2>1. {r} \cap conn.runs \in SUBSET conn.runs /\ Alone!Delete(w, {r} \cap conn.runs)
    BY <1>3 DEF Alone!DeleteRun
  <2> QED BY <2>1, <1>2
<1>4. ASSUME NEW s \in Sessions, Alone!DeleteSession(w, s) PROVE Begun(w)
  <2> DEFINE R == {r \in conn.runs : SessionOf[r] = s}
  <2>1. R \in SUBSET conn.runs /\ Alone!Delete(w, R)
    BY <1>4 DEF Alone!DeleteSession
  <2> HIDE DEF R
  <2> QED BY <2>1, <1>2
<1>5. ASSUME NEW n \in 0 .. MaxRuns, Alone!PruneTo(w, n) PROVE Begun(w)
  <2>1. n \in Nat /\ {} \in SUBSET Traces  BY StoresAssumption
  <2>2. Opens("prune", {}, Sweeping(n)) /\ Alone!Begin(w, "prune", {}, Sweeping(n))
    BY <1>5, <2>1, SweepingOpens, SameTerms DEF Alone!PruneTo
  <2>3. Sweeping(n) \in Seq(Statements \cup Alone!Finds)
    BY <2>1, QuietPrograms DEF Quiet
  <2> QED BY <1>0, <2>1, <2>2, <2>3, ToBegin
<1>6. ASSUME NEW R \in SUBSET Traces, NEW t \in Tags, Alone!TagRuns(w, R, t) PROVE Begun(w)
  <2> DEFINE p == InOrder({[do |-> "find", rows |-> {r}, tag |-> t] : r \in R})
  <2>1. Opens("tag", R, p) /\ Alone!Begin(w, "tag", R, p)
    BY <1>6, FindsOpen, SameSequence DEF Alone!TagRuns
  <2>2. p \in Seq(Statements \cup Alone!Finds)  BY QuietFinds DEF Quiet
  <2> HIDE DEF p
  <2> QED BY <1>0, <2>1, <2>2, ToBegin
<1>7. ASSUME NEW R \in SUBSET Traces, NEW t \in Tags, Alone!UntagRuns(w, R, t) PROVE Begun(w)
  <2> DEFINE p == <<Statement("unmark", R \X {t})>>
  <2>1. Opens("untag", R, p) /\ Alone!Begin(w, "untag", R, p)
    BY <1>7, OneOpens, SameTerms DEF Alone!UntagRuns
  <2>2. p \in Seq(Statements \cup Alone!Finds)  BY QuietPrograms DEF Quiet
  <2> HIDE DEF p
  <2> QED BY <1>0, <2>1, <2>2, ToBegin
<1>8. ASSUME NEW o \in Tags, NEW n \in Tags, Alone!RenameTag(w, o, n) PROVE Begun(w)
  <2>1. {} \in SUBSET Traces  OBVIOUS
  <2>2. Opens("rename", {}, Renaming(o, n)) /\ Alone!Begin(w, "rename", {}, Renaming(o, n))
    BY <1>8, RenamingOpens, SameTerms DEF Alone!RenameTag
  <2>3. Renaming(o, n) \in Seq(Statements \cup Alone!Finds)
    BY QuietPrograms DEF Quiet
  <2> QED BY <1>0, <2>1, <2>2, <2>3, ToBegin
<1>9. ASSUME NEW t \in Tags, Alone!SetTagColor(w, t) PROVE Begun(w)
  <2> DEFINE p == <<Statement("insert_tag", {t})>>
  <2>1. Opens("color", {}, p) /\ Alone!Begin(w, "color", {}, p) /\ {} \in SUBSET Traces
    BY <1>9, OneOpens, SameTerms DEF Alone!SetTagColor
  <2>2. p \in Seq(Statements \cup Alone!Finds)  BY QuietPrograms DEF Quiet
  <2> HIDE DEF p
  <2> QED BY <1>0, <2>1, <2>2, ToBegin
<1>10. ASSUME NEW t \in Tags, Alone!DeleteTag(w, t) PROVE Begun(w)
  <2>1. {} \in SUBSET Traces  OBVIOUS
  <2>2. Opens("delete_tag", {}, Dropping(t)) /\ Alone!Begin(w, "delete_tag", {}, Dropping(t))
    BY <1>10, DroppingOpens, SameTerms DEF Alone!DeleteTag, Dropping
  <2>3. Dropping(t) \in Seq(Statements \cup Alone!Finds)
    BY QuietPrograms DEF Quiet
  <2> QED BY <1>0, <2>1, <2>2, <2>3, ToBegin
<1> QED BY <1>1, <1>3, <1>4, <1>5, <1>6, <1>7, <1>8, <1>9, <1>10 DEF Shared

(* What becomes of a call: c before, d after. *)
LEMMA BegunFacts ==
  ASSUME NEW w, Begun(w)
  PROVE  /\ disk' = disk /\ conn' = conn /\ open' = open /\ active[w] = None
         /\ \E d \in Alone!Calls :
              /\ active' = [active EXCEPT ![w] = d] /\ ~d.raising
              /\ Orderly(d.op, d.on, d.rest)
              /\ \A db : Whole(db) => Owes(d, db)
<1>1. PICK op \in Methods, on \in SUBSET Traces, prog \in Seq(Statements \cup Alone!Finds) :
        Opens(op, on, prog) /\ active' = [active EXCEPT ![w] = Alone!Call(op, on, prog)]
  BY DEF Begun
<1> DEFINE d == Alone!Call(op, on, prog)
<1>2. d.op = op /\ d.on = on /\ d.rest = prog /\ d.raising = FALSE /\ d \in Alone!Calls
  BY CallFact
<1>3. active' = [active EXCEPT ![w] = d]  BY <1>1
<1> HIDE DEF d
<1>4. \A db : Whole(db) => Owes(d, db)  BY <1>1, <1>2, OpensOwes DEF Owes
<1>5. Orderly(d.op, d.on, d.rest)
  BY <1>1, <1>2 DEF Opens
<1> QED BY <1>2, <1>3, <1>4, <1>5 DEF Begun

LEMMA ExecutedFacts ==
  ASSUME NEW W, SQLiteInv(W), OrderlyCalls(W), NEW w \in W, Alone!Execute(w)
  PROVE  LET c == active[w]
             s == Head(c.rest)
             then == Ahead(Tail(c.rest))
         IN  /\ c # None /\ ~c.raising /\ c.op \in Methods /\ c.on \in SUBSET Traces
             /\ Ahead(c.rest) = {s} \cup then
             /\ s.do # "find" /\ (s.do = "insert_run" => s.rows = c.on)
             /\ \A a \in {s} \cup then : a.do \in Does[c.op]
             /\ Fits(s, then, c.on)
             /\ then # {} => Follows(s, Head(Tail(c.rest)))
             /\ conn' = Effect(conn, s) /\ disk' = disk /\ open'
             /\ \E d \in Alone!Calls :
                  /\ active' = [active EXCEPT ![w] = d] /\ ~d.raising
                  /\ d.op = c.op /\ d.on = c.on /\ d.rest = Tail(c.rest)
                  /\ Orderly(d.op, d.on, d.rest)
<1> DEFINE c == active[w]
           s == Head(c.rest)
           d == [c EXCEPT !.rest = Tail(@)]
<1>1. /\ c # None /\ ~c.raising /\ c.rest # <<>> /\ s.do # "find"
      /\ active' = [active EXCEPT ![w] = d] /\ conn' = Effect(conn, s) /\ disk' = disk /\ open'
  BY SameTerms DEF Alone!Execute, Alone!Writes, Alone!Works, Alone!Now
<1>2. c \in Alone!Calls /\ CallKept(c) /\ Orderly(c.op, c.on, c.rest)
  BY <1>1, KeptFacts DEF OrderlyCalls
<1>3. /\ c.rest \in Seq(Statements \cup Alone!Finds) /\ c.on \in SUBSET Traces /\ c.op \in Methods
      /\ Programmed(c.op, c.on, c.rest)
  BY <1>2, CallFields DEF CallKept
<1>4. /\ Tail(c.rest) \in Seq(Statements \cup Alone!Finds)
      /\ s.do = "insert_run" => s.rows = c.on
  <2> HIDE DEF c, d
  <2>1. /\ c.rest \in Seq(Statements \cup Alone!Finds) /\ c.rest # <<>>
        /\ Programmed(c.op, c.on, c.rest)
    BY <1>1, <1>3
  <2>2. Tail(c.rest) \in Seq(Statements \cup Alone!Finds)
    BY ONLY <2>1, TailFacts
  <2>3. /\ Programmed(c.op, c.on, Tail(c.rest))
        /\ \A i \in 1 .. Len(Tail(c.rest)) : Tail(c.rest)[i].do # "insert_run"
        /\ Head(c.rest).do \in Known \/ (c.op = "tag" /\ Head(c.rest).do = "find")
        /\ Head(c.rest).do = "insert_run" => c.op = "export" /\ Head(c.rest).rows = c.on
        /\ c.op = "delete" /\ Tail(c.rest) = <<>> =>
             Head(c.rest).do = "delete_runs" /\ Head(c.rest).rows = c.on
    BY ONLY <2>1, ProgrammedTail
  <2> QED BY <2>2, <2>3
<1>5. d \in Alone!Calls /\ d.op = c.op /\ d.on = c.on /\ d.rest = Tail(c.rest) /\ d.raising = c.raising
  BY <1>2, <1>4, CallsFact
<1> HIDE DEF c, d
<1>6. /\ Orderly(c.op, c.on, Tail(c.rest)) /\ Foremost(c.op, c.on, c.rest)
      /\ Ahead(c.rest) = {s} \cup Ahead(Tail(c.rest))
  BY ONLY <1>1, <1>2, <1>3, OrderlyTail, AheadTail
<1>7. \A a \in Ahead(c.rest) : a.do \in Does[c.op]
  BY <1>2 DEF Orderly, Ahead
<1>8. Ahead(Tail(c.rest)) # {} => Tail(c.rest) # <<>>
  BY ONLY AheadNone
<1>9. Fits(s, Ahead(Tail(c.rest)), c.on) /\ (Ahead(Tail(c.rest)) # {} => Follows(s, Head(Tail(c.rest))))
  BY ONLY <1>6, <1>8 DEF Foremost
<1>10. Orderly(d.op, d.on, d.rest)  BY <1>5, <1>6
<1>11. \A a \in {s} \cup Ahead(Tail(c.rest)) : a.do \in Does[c.op]
  BY <1>6, <1>7
<1> QED BY <1>1, <1>3, <1>4, <1>5, <1>6, <1>9, <1>10, <1>11 DEF c

LEMMA FoundFacts ==
  ASSUME NEW W, SQLiteInv(W), OrderlyCalls(W), NEW w \in W, Alone!Find(w)
  PROVE  LET c == active[w]
         IN  /\ c # None /\ ~c.raising
             /\ disk' = disk /\ conn' = conn /\ open' = open
             /\ \A a \in Ahead(c.rest) : a.do = "find"
             /\ Ahead(c.rest) # {}
             /\ \/ active' = [active EXCEPT ![w] = None]
                \/ \E d \in Alone!Calls :
                     /\ active' = [active EXCEPT ![w] = d] /\ ~d.raising
                     /\ Orderly(d.op, d.on, d.rest)
                     /\ \A db : Typed(db) /\ db.runs = conn.runs /\ Owes(c, db) => Owes(d, db)
<1> DEFINE c     == active[w]
           rest  == Tail(c.rest)
           s     == Head(c.rest)
           found == c.on \ (s.rows \ conn.runs)
           tags  == AssignTag(InOrder(found), s.tag)
           d     == [c EXCEPT !.on = found, !.rest = IF rest # <<>> THEN rest ELSE tags]
<1>1. /\ c # None /\ ~c.raising /\ c.rest # <<>> /\ s.do = "find"
      /\ disk' = disk /\ conn' = conn /\ open' = open
  BY DEF Alone!Find, Alone!Works, Alone!Now
<1>2. \/ active' = [active EXCEPT ![w] = None]
      \/ active' = [active EXCEPT ![w] = d] /\ (rest # <<>> \/ found # {})
  BY SameTerms, SameSequence DEF Alone!Find, Alone!Now
<1>3. c \in Alone!Calls /\ CallKept(c) /\ Orderly(c.op, c.on, c.rest)
  BY <1>1, KeptFacts DEF OrderlyCalls
<1>4. /\ c.rest \in Seq(Statements \cup Alone!Finds) /\ c.on \in SUBSET Traces /\ c.op \in Methods
  BY <1>3, CallFields
<1>5. /\ rest \in Seq(Statements \cup Alone!Finds) /\ s \in Statements \cup Alone!Finds
  <2> DEFINE all == c.rest
  <2> HIDE DEF all
  <2>1. all \in Seq(Statements \cup Alone!Finds) /\ all # <<>>
    BY <1>1, <1>4 DEF all
  <2>2. Tail(all) \in Seq(Statements \cup Alone!Finds) /\ Head(all) \in Statements \cup Alone!Finds
    BY ONLY <2>1, HeadTailProperties
  <2> QED BY <2>2 DEF all
<1>6. s \in Alone!Finds /\ s.tag \in Tags
  <2>1. s \notin Statements  BY <1>1 DEF Statements, Kinds
  <2> QED BY <1>5, <2>1, CallsFact
<1>7. found \in SUBSET Traces  BY <1>4
<1> HIDE DEF c, found, s
<1>8. /\ Orderly(c.op, c.on, rest) /\ Foremost(c.op, c.on, c.rest)
      /\ Ahead(c.rest) = {s} \cup Ahead(rest)
  BY ONLY <1>1, <1>3, <1>4, OrderlyTail, AheadTail DEF s
<1>9. c.op = "tag"
  <2>1. s.do \in Does[c.op]  BY <1>8 DEF Foremost, s
  <2> QED BY <1>1, <1>4, <2>1, WhoDoes
<1>10. \A a \in Ahead(rest) : a.do = "find"
  BY <1>1, <1>8 DEF Foremost, Fits, s
<1>11. \A a \in Ahead(c.rest) : a.do = "find"  BY <1>1, <1>8, <1>10
<1>12. \A on : Orderly("tag", on, rest)
  <2>1. \A i \in 1 .. Len(rest) : rest[i].do = "find"
    BY <1>10 DEF Ahead
  <2>2. \A i : \A a \in Later(rest, i) : a.do = "find"
    BY <2>1 DEF Later
  <2> HIDE DEF rest
  <2> QED BY ONLY <2>1, <2>2 DEF Orderly, Fits, Follows, Does
<1>13. CASE active' = [active EXCEPT ![w] = None]
  BY <1>1, <1>8, <1>11, <1>13 DEF c
<1>14. CASE active' = [active EXCEPT ![w] = d] /\ rest # <<>>
  <2>1. d = [c EXCEPT !.on = found, !.rest = rest]
    BY <1>14
  <2>2. d \in Alone!Calls /\ d.op = "tag" /\ d.on = found /\ d.rest = rest /\ ~d.raising
    BY <2>1, <1>1, <1>3, <1>5, <1>7, <1>9, CallsFact
  <2> HIDE DEF d
  <2>3. ASSUME NEW db, Typed(db), db.runs = conn.runs, Owes(c, db) PROVE Owes(d, db)
    <3>1. Owed(c.on, Ahead(c.rest), s, db)  BY <2>3 DEF Owes, s
    <3>2. Whole(db)
      BY <2>3, <3>1, <1>11, OwesNothing
    <3>3. \A r \in c.on : r \in db.runs \/ \E a \in Ahead(c.rest) : a.rows = {r}
      <4>1. Todo(Ahead(c.rest), "find")  BY <1>1, <1>8 DEF Todo
      <4> QED BY <3>1, <4>1 DEF Owed, OweMarks
    <3>4. \A r \in found : r \in db.runs \/ \E a \in Ahead(rest) : a.rows = {r}
      BY <3>3, <2>3, <1>8 DEF found
    <3>5. Head(rest) \in Ahead(rest)  BY <1>5, <1>14, HeadAhead
    <3>6. Owed(found, Ahead(rest), Head(rest), db)
      <4>1. OweSpans(found, Ahead(rest), db) /\ OweSweep(Ahead(rest), db)
        BY <3>2, SpansInFact DEF OweSpans, OweSweep, Whole
      <4>2. OweDelete(found, Ahead(rest), db)  BY <1>10 DEF OweDelete, Todo
      <4>3. OweTags(Ahead(rest), Head(rest), db)
        BY <1>10, <3>5 DEF OweTags
      <4>4. OweMarks(found, Ahead(rest), Head(rest), db)
        BY <1>10, <3>4 DEF OweMarks
      <4> QED BY ONLY <4>1, <4>2, <4>3, <4>4 DEF Owed
    <3> QED BY <2>2, <3>6 DEF Owes
  <2>4. Orderly(d.op, d.on, d.rest)  BY <1>12, <2>2
  <2> QED BY <1>1, <1>8, <1>11, <1>14, <2>2, <2>3, <2>4 DEF c
<1>15. CASE active' = [active EXCEPT ![w] = d] /\ rest = <<>> /\ found # {}
  <2>1. d = [c EXCEPT !.on = found, !.rest = tags]
    BY <1>15
  <2>2. PICK k \in Nat : InOrder(found) \in [1 .. k -> found]
    <3>1. IsFiniteSet(found)
      BY <1>7, StoresAssumption, FS_Subset
    <3> QED BY <3>1, InOrderFacts
  <2>3. /\ \A on : Orderly("tag", on, tags)
        /\ tags \in Seq(Statements) /\ Head(tags) = Statement("insert_tag", {s.tag})
        /\ \A a \in Ahead(tags) :
             \/ a = Statement("insert_tag", {s.tag})
             \/ \E r \in found : a = Statement("insert_mark", {<<r, s.tag>>})
    <3>1. PICK t : t = s.tag /\ t \in Tags  BY <1>6
    <3>2. PICK q : q = InOrder(found) /\ q \in [1 .. k -> found]
      BY <2>2
    <3>3. tags = AssignTag(q, t)  BY <3>1, <3>2
    <3> HIDE DEF tags
    <3>4. \A on : Tagging(AssignTag(q, t), on, found, t)
      <4> TAKE on
      <4> QED BY ONLY <3>1, <3>2, <1>7, k \in Nat, AssignOrderly
    <3> QED BY ONLY <3>1, <3>3, <3>4 DEF Tagging
  <2> HIDE DEF tags
  <2>4. tags \in Seq(Statements \cup Alone!Finds)
    BY <2>3, SeqWider
  <2>5. d \in Alone!Calls /\ d.op = "tag" /\ d.on = found /\ d.rest = tags /\ ~d.raising
    BY <2>1, <2>4, <1>1, <1>3, <1>7, <1>9, CallsFact
  <2> HIDE DEF d
  <2>6. ASSUME NEW db, Typed(db), db.runs = conn.runs, Owes(c, db) PROVE Owes(d, db)
    <3>1. Owed(c.on, Ahead(c.rest), s, db) /\ Ahead(c.rest) = {s}
      BY <2>6, <1>8, <1>15, AheadNone DEF Owes, s
    <3>2. Whole(db)  BY <2>6, <3>1, <1>11, OwesNothing
    <3>3. \A r \in found : r \in db.runs
      <4>1. Todo(Ahead(c.rest), "find")  BY <1>1, <1>8 DEF Todo
      <4>2. \A r \in c.on : r \in db.runs \/ s.rows = {r}
        BY <3>1, <4>1 DEF Owed, OweMarks
      <4> QED BY <4>2, <2>6 DEF found
    <3>4. \A a \in Ahead(tags) : a.do \in {"insert_tag", "insert_mark"}
      <4>1. \A x : Statement("insert_tag", x).do = "insert_tag" /\ Statement("insert_mark", x).do = "insert_mark"
        BY ONLY StatementFields
      <4> QED BY ONLY <2>3, <4>1
    <3>5. ASSUME NEW a \in Ahead(tags), a.do = "insert_mark", NEW m \in a.rows
          PROVE  m[1] \in db.runs /\ Head(tags) = Statement("insert_tag", {m[2]})
      <4>1. a # Statement("insert_tag", {s.tag})  BY <3>5, StatementFields
      <4>2. PICK r \in found : a = Statement("insert_mark", {<<r, s.tag>>})
        BY <2>3, <4>1
      <4>3. a.rows = {<<r, s.tag>>}  BY <4>2, StatementFields
      <4>4. m[1] = r /\ m[2] = s.tag
        BY <4>3, <3>5
      <4> QED BY <2>3, <3>3, <4>4
    <3>6. Head(tags).do = "insert_tag"  BY <2>3, StatementFields
    <3>7. ~Todo(Ahead(tags), "delete_runs") /\ ~Todo(Ahead(tags), "find")
      BY <3>4 DEF Todo
    <3>8. Owed(found, Ahead(tags), Head(tags), db)
      BY ONLY <3>2, <3>5, <3>6, <3>7, WholeOwes
    <3> QED BY <2>5, <3>8 DEF Owes
  <2>7. Orderly(d.op, d.on, d.rest)  BY <2>3, <2>5
  <2> QED BY <1>1, <1>8, <1>11, <1>15, <2>5, <2>6, <2>7 DEF c
<1> QED BY <1>2, <1>13, <1>14, <1>15

(* The calls stay in order, *)
LEMMA OrderlyKept ==
  ASSUME NEW W, SQLiteInv(W), OrderlyCalls(W), NEW w \in W, NEW c,
         active' = [active EXCEPT ![w] = c], c # None => Orderly(c.op, c.on, c.rest)
  PROVE  OrderlyCalls(W)'
<1>1. active \in [W -> Alone!Calls \cup {None}]
  BY KeptFacts
<1>2. ASSUME NEW u \in W, active'[u] # None
      PROVE  Orderly(active'[u].op, active'[u].on, active'[u].rest)
  <2>1. CASE u = w  BY <1>1, <1>2, <2>1
  <2>2. CASE u # w
    BY <1>1, <1>2, <2>2 DEF OrderlyCalls
  <2> QED BY <2>1, <2>2
<1> QED BY <1>2 DEF OrderlyCalls, Orderly, Fits, Follows, Later, Does, SpanIds, SpansIn, Statement

(* and the one worker's store whole: whatever fails, what is committed has  *)
(* no more to be put right.                                                 *)
LEMMA AloneWholeStep ==
  ASSUME SQLiteInv(Single), SQLiteInv(Single)', OrderlyCalls(Single), AloneWhole, Alone!Next
  PROVE  OrderlyCalls(Single)' /\ AloneWhole'
<1>1. PICK w \in Single : Single = {w}  BY StoresAssumption
<1>2. active \in [Single -> Alone!Calls \cup {None}] /\ Shaped(conn)
  BY KeptFacts
<1>3. /\ Typed(conn) /\ Typed(disk) /\ Whole(disk) /\ (open \/ conn = disk)
      /\ active[w] = None => Whole(conn)
      /\ active[w] # None /\ ~active[w].raising => Owes(active[w], conn)
  BY DEF AloneWhole
<1> DEFINE Sound(c) == /\ active' = [active EXCEPT ![w] = c]
                       /\ c # None => Orderly(c.op, c.on, c.rest)
                       /\ Typed(conn') /\ Typed(disk') /\ Whole(disk') /\ (open' \/ conn' = disk')
                       /\ c = None => Whole(conn')
                       /\ c # None /\ ~c.raising => Owes(c, conn')
<1>4. ASSUME NEW c, Sound(c) PROVE OrderlyCalls(Single)' /\ AloneWhole'
  <2>1. OrderlyCalls(Single)'  BY <1>1, <1>4, OrderlyKept
  <2>2. active'[w] = c
    BY <1>2, <1>4
  <2>3. \A u \in Single : u = w  BY <1>1
  <2>4. \A u \in Single : /\ active'[u] = None => Whole(conn')
                          /\ active'[u] # None /\ ~active'[u].raising => Owes(active'[u], conn')
    BY <1>4, <2>2, <2>3
  <2>5. AloneWhole'
    BY <1>4, <2>4 DEF AloneWhole, Typed, Whole, SpanIds, SpansIn, Owes, Owed, OweSpans, OweSweep, OweDelete,
                      OweTags, OweMarks, Todo, Ahead, Statement
  <2> QED BY <2>1, <2>5
<1>5. CASE Begun(w)
  <2>1. PICK d \in Alone!Calls : /\ active' = [active EXCEPT ![w] = d] /\ ~d.raising
                                 /\ Orderly(d.op, d.on, d.rest)
                                 /\ \A db : Whole(db) => Owes(d, db)
    BY <1>5, BegunFacts
  <2>2. disk' = disk /\ conn' = conn /\ open' = open /\ active[w] = None
    BY <1>5, BegunFacts
  <2>3. d # None  BY CallFields
  <2>4. Sound(d)
    BY <1>3, <2>1, <2>2, <2>3
  <2> HIDE DEF Sound
  <2> QED BY <1>4, <2>4
<1>6. CASE Alone!Execute(w)
  <2> DEFINE c == active[w]
             s == Head(c.rest)
             then == Ahead(Tail(c.rest))
             after == Head(Tail(c.rest))
  <2>1. /\ c # None /\ ~c.raising /\ c.op \in Methods /\ c.on \in SUBSET Traces
        /\ Ahead(c.rest) = {s} \cup then
        /\ s.do # "find" /\ (s.do = "insert_run" => s.rows = c.on)
        /\ \A a \in {s} \cup then : a.do \in Does[c.op]
        /\ Fits(s, then, c.on)
        /\ then # {} => Follows(s, after)
        /\ conn' = Effect(conn, s) /\ disk' = disk /\ open'
    BY <1>6, ExecutedFacts
  <2>2. PICK d \in Alone!Calls : /\ active' = [active EXCEPT ![w] = d] /\ ~d.raising
                                 /\ d.op = c.op /\ d.on = c.on /\ d.rest = Tail(c.rest)
                                 /\ Orderly(d.op, d.on, d.rest)
    BY <1>6, ExecutedFacts
  <2>3. d # None  BY CallFields
  <2> HIDE DEF c
  <2>4. Owed(c.on, {s} \cup then, s, conn)  BY <1>3, <2>1 DEF Owes, c
  <2> HIDE DEF s, then, after
  <2>5. Typed(conn') /\ Owed(c.on, then, after, conn')
    BY ONLY <1>2, <1>3, <2>1, <2>4, OwesStep
  <2>6. Owes(d, conn')
    BY <2>2, <2>5 DEF Owes, then, after
  <2>7. Sound(d)
    BY <1>3, <2>1, <2>2, <2>3, <2>5, <2>6
  <2> HIDE DEF Sound
  <2> QED BY <1>4, <2>7
<1>7. CASE Alone!Find(w)
  <2>1. /\ active[w] # None /\ ~active[w].raising /\ disk' = disk /\ conn' = conn /\ open' = open
        /\ \A a \in Ahead(active[w].rest) : a.do = "find"
    BY <1>7, FoundFacts
  <2>2. Owes(active[w], conn)  BY <1>3, <2>1
  <2>3. CASE active' = [active EXCEPT ![w] = None]
    <3>1. Whole(conn)
      BY <1>3, <2>1, <2>2, OwesNothing DEF Owes
    <3>2. Sound(None)  BY <1>3, <2>1, <2>3, <3>1
    <3> HIDE DEF Sound
    <3> QED BY <1>4, <3>2
  <2>4. ASSUME NEW d \in Alone!Calls, active' = [active EXCEPT ![w] = d], ~d.raising,
               Orderly(d.op, d.on, d.rest),
               \A db : Typed(db) /\ db.runs = conn.runs /\ Owes(active[w], db) => Owes(d, db)
        PROVE  OrderlyCalls(Single)' /\ AloneWhole'
    <3>1. Owes(d, conn) /\ d # None  BY <1>3, <2>2, <2>4, CallFields
    <3>2. Sound(d)
      BY <1>3, <2>1, <2>4, <3>1
    <3> HIDE DEF Sound
    <3> QED BY <1>4, <3>2
  <2> QED BY <1>7, <2>3, <2>4, FoundFacts
<1>8. CASE Alone!Commit(w)
  <2>1. /\ active[w] # None /\ ~active[w].raising /\ active[w].rest = <<>>
        /\ active' = [active EXCEPT ![w] = None] /\ disk' = conn /\ conn' = conn
    BY <1>8 DEF Alone!Commit, Alone!Works
  <2>2. Whole(conn)
    BY <1>3, <2>1, OwesNothing, AheadNone DEF Owes
  <2>3. Sound(None)  BY <1>3, <2>1, <2>2
  <2> HIDE DEF Sound
  <2> QED BY <1>4, <2>3
<1>9. CASE Alone!Locked(w) \/ Alone!Unbindable(w)
  <2> DEFINE c == active[w]
             d == IF c.op = "export" THEN [c EXCEPT !.raising = TRUE] ELSE None
  <2>1. /\ c # None /\ ~c.raising /\ active' = [active EXCEPT ![w] = d]
        /\ disk' = disk /\ conn' = conn /\ open' = open
    BY <1>9 DEF Alone!Locked, Alone!Unbindable, Alone!Writes, Alone!Works, Alone!Raise
  <2>2. c \in Alone!Calls /\ Orderly(c.op, c.on, c.rest)
    BY <2>1, KeptFacts DEF OrderlyCalls
  <2>3. c.rest \in Seq(Statements \cup Alone!Finds) /\ c.op \in Methods
    BY <2>2, CallFields
  <2>4. c.op = "export" => d # None /\ d.op = c.op /\ d.on = c.on /\ d.rest = c.rest /\ d.raising = TRUE
    <3>1. c.op = "export" => d \in Alone!Calls /\ d.op = c.op /\ d.on = c.on /\ d.rest = c.rest /\ d.raising = TRUE
      BY <2>2, CallsFact
    <3> HIDE DEF d
    <3> QED BY <3>1, CallFields
  <2>5. c.op # "export" => d = None  OBVIOUS
  <2>6. c.op # "export" => Whole(conn)
    <3>1. CASE ~open  BY <1>3, <3>1
    <3>2. CASE c.rest = <<>>
      BY <1>3, <2>1, <3>2, OwesNothing, AheadNone DEF Owes
    <3>3. CASE c.rest # <<>> /\ Head(c.rest).do = "insert_span"
      <4> HIDE DEF c
      <4>1. Foremost(c.op, c.on, c.rest)
        BY ONLY <2>2, <2>3, <3>3, OrderlyTail
      <4>2. Head(c.rest).do \in Does[c.op]  BY <4>1 DEF Foremost
      <4> QED BY <2>3, <3>3, <4>2, WhoDoes
    <3>4. ~open \/ c.rest = <<>> \/ (c.rest # <<>> /\ Head(c.rest).do = "insert_span")
      BY <1>9 DEF Alone!Locked, Alone!Unbindable, Alone!Writes, Alone!Now
    <3> QED BY <3>1, <3>2, <3>3, <3>4
  <2> HIDE DEF c, d
  <2>7. Sound(d)
    BY <1>3, <2>1, <2>2, <2>4, <2>5, <2>6
  <2> HIDE DEF Sound
  <2> QED BY <1>4, <2>7
<1>10. CASE Alone!Rollback(w)
  <2>1. active' = [active EXCEPT ![w] = None] /\ disk' = disk /\ conn' = disk
    BY <1>10 DEF Alone!Rollback
  <2>2. Sound(None)  BY <1>3, <2>1
  <2> HIDE DEF Sound
  <2> QED BY <1>4, <2>2
<1>11. CASE Alone!Crash
  <2>1. active' = [u \in Single |-> None] /\ disk' = disk /\ conn' = disk
    BY <1>11 DEF Alone!Crash
  <2>2. active' = [active EXCEPT ![w] = None]  BY <1>1, <1>2, <2>1
  <2>3. Sound(None)
    BY <1>3, <2>1, <2>2
  <2> HIDE DEF Sound
  <2> QED BY <1>4, <2>3
<1>12. \/ Begun(w) \/ Alone!Execute(w) \/ Alone!Find(w) \/ Alone!Commit(w)
       \/ Alone!Locked(w) \/ Alone!Unbindable(w) \/ Alone!Rollback(w) \/ Alone!Crash
  <2>1. Shared(w) \/ Alone!Locked(w) \/ Alone!Unbindable(w) \/ Alone!Rollback(w) \/ Alone!Crash
    BY <1>1 DEF Alone!Next, Shared
  <2> QED BY <2>1, SharedCases
<1> QED BY <1>5, <1>6, <1>7, <1>8, <1>9, <1>10, <1>11, <1>12

LEMMA PromisedFact ==
  \A x : Promised(x) <=> \E w \in Several : active[w] # None /\ Promises(active[w], x)
BY DEF Promised, Promises

(* A promise goes with the statement that keeps it, or with the runs. *)
LEMMA PromiseKept ==
  ASSUME NEW op \in Methods, NEW on, NEW s, NEW then, NEW e, NEW db, Shaped(db), e = Effect(db, s), NEW x,
         Fits(s, then, on), s.do \in Does[op],
         NEW c, NEW d, Ahead(c.rest) = {s} \cup then, Ahead(d.rest) = then, c.on = on, d.on = on,
         x[1] \in e.runs, Promises(c, x)
  PROVE  x \in e.spans \/ Promises(d, x)
<1>1. CASE s = Statement("insert_span", {x})
  <2>1. s.do = "insert_span" /\ s.rows = {x}  BY <1>1, StatementFields
  <2>2. Changed(db, e, "spans", db.spans \cup s.rows)
    BY <2>1, EffectRows
  <2> QED BY <2>1, <2>2 DEF Changed
<1>2. CASE s.do = "delete_runs"
  <2>1. Changed(db, e, "runs", db.runs \ s.rows) /\ s.rows = on
    BY <1>2, EffectRows DEF Fits
  <2>2. x[1] \notin on  BY <2>1 DEF Changed
  <2>3. s # Statement("insert_span", {x})
    BY <1>2, StatementFields
  <2> QED BY <2>2, <2>3 DEF Promises
<1>3. CASE s # Statement("insert_span", {x}) /\ s.do # "delete_runs"
  BY <1>3 DEF Promises
<1> QED BY <1>1, <1>2, <1>3

(* A statement of a call in order leaves each run's span stored or promised. *)
LEMMA SpanOrPromise ==
  ASSUME NEW op \in Methods, NEW on \in SUBSET Traces, NEW s, NEW then, NEW e, NEW db, Shaped(db), e = Effect(db, s),
         Fits(s, then, on), s.do \in Does[op], s.do # "find", s.do = "insert_run" => s.rows = on,
         NEW d, Ahead(d.rest) = then, d.on = on, NEW x \in SpansIn(e.runs)
  PROVE  \/ x \in SpansIn(db.runs) /\ (x \in db.spans => x \in e.spans)
         \/ Promises(d, x)
<1>1. x \in SpanIds /\ x[1] \in e.runs  BY SpansInFact
<1>2. CASE s.do = "insert_run"
  <2>1. Changed(db, e, "runs", db.runs \cup on)  BY <1>2, EffectRows
  <2>2. e.runs = db.runs \cup on /\ e.spans = db.spans
    BY <2>1 DEF Changed, TableNames
  <2>3. x \in SpansIn(on) => Statement("insert_span", {x}) \in then
    BY <1>2 DEF Fits
  <2> QED BY <1>1, <2>2, <2>3, SpansInFact DEF Promises
<1>3. CASE s.do = "delete_spans"
  <2>1. s.rows = on /\ \E a \in then : a.do = "delete_runs"
    BY <1>3 DEF Fits
  <2>2. Changed(db, e, "spans", db.spans \ SpansIn(s.rows))
    BY <1>3, EffectRows
  <2>3. e.runs = db.runs /\ e.spans = db.spans \ SpansIn(on)
    BY <2>1, <2>2 DEF Changed, TableNames
  <2> QED BY <1>1, <2>1, <2>3, SpansInFact DEF Promises
<1>4. CASE s.do = "insert_span"
  <2>1. Changed(db, e, "spans", db.spans \cup s.rows)
    BY <1>4, EffectRows
  <2>2. e.runs = db.runs /\ e.spans = db.spans \cup s.rows
    BY <2>1 DEF Changed, TableNames
  <2> QED BY <2>2
<1>5. CASE s.do = "sweep_spans"
  <2>1. Changed(db, e, "spans", db.spans \cap SpansIn(db.runs))
    BY <1>5, EffectRows
  <2>2. e.runs = db.runs /\ e.spans = db.spans \cap SpansIn(db.runs)
    BY <2>1 DEF Changed, TableNames
  <2> QED BY <2>2
<1>6. CASE s.do \in {"keep_newest", "delete_runs"}
  <2>1. Changed(db, e, "runs", db.runs \ s.rows) \/ Changed(db, e, "runs", Newest(db.runs, s.rows))
    BY <1>6, EffectRows
  <2>2. e.runs \subseteq db.runs /\ e.spans = db.spans
    BY <2>1 DEF Changed, TableNames, Newest
  <2> QED BY <1>1, <2>2, SpansInFact
<1>7. CASE s.do \in {"insert_tag", "insert_mark", "delete_marks", "unmark", "delete_tag", "copy_tag", "move_marks", "sweep_marks"}
  <2>1. \E t \in {"tags", "marks"} : \E new : Changed(db, e, t, new)
    BY <1>7, EffectRows
  <2>2. e.runs = db.runs /\ e.spans = db.spans  BY <2>1 DEF Changed, TableNames
  <2> QED BY <2>2
<1>8. s.do \in {"insert_run", "insert_span", "delete_marks", "delete_runs", "delete_spans", "keep_newest",
                "sweep_spans", "sweep_marks", "insert_mark", "copy_tag", "move_marks", "delete_tag",
                "unmark", "insert_tag"}
  BY WhoDoes
<1> QED BY ONLY <1>2, <1>3, <1>4, <1>5, <1>6, <1>7, <1>8

LEMMA PoolWholeStep ==
  ASSUME SQLiteInv(Several), PoolCalm, OrderlyCalls(Several), PoolWhole, Pool!Next
  PROVE  OrderlyCalls(Several)' /\ PoolWhole'
<1>1. PICK w \in Several : Shared(w)  BY PoolShared
<1>2. active \in [Several -> Alone!Calls \cup {None}] /\ Shaped(conn)
  BY KeptFacts
<1>3. /\ \A x \in SpansIn(conn.runs) : x \in conn.spans \/ \E u \in Several : active[u] # None /\ Promises(active[u], x)
      /\ disk # conn => \E u \in Several : active[u] # None /\ \A a \in Ahead(active[u].rest) : a.do # "find"
  BY PromisedFact DEF PoolWhole
<1> DEFINE Sound(c) ==
      /\ active' = [active EXCEPT ![w] = c]
      /\ c # None => Orderly(c.op, c.on, c.rest)
      /\ \A x \in SpansIn(conn'.runs) :
           \/ x \in conn'.spans \/ (c # None /\ Promises(c, x))
           \/ \E u \in Several : u # w /\ active[u] # None /\ Promises(active[u], x)
      /\ disk' # conn' => \/ c # None /\ \A a \in Ahead(c.rest) : a.do # "find"
                          \/ \E u \in Several : u # w /\ active[u] # None /\ \A a \in Ahead(active[u].rest) : a.do # "find"
<1>4. ASSUME NEW c, Sound(c) PROVE OrderlyCalls(Several)' /\ PoolWhole'
  <2>1. OrderlyCalls(Several)'  BY <1>4, OrderlyKept
  <2>2. active'[w] = c /\ \A u \in Several : u # w => active'[u] = active[u]
    BY <1>2, <1>4
  <2>3. \A x \in SpansIn(conn'.runs) : x \in conn'.spans \/ \E u \in Several : active'[u] # None /\ Promises(active'[u], x)
    BY <1>4, <2>2
  <2>4. disk' # conn' => \E u \in Several : active'[u] # None /\ \A a \in Ahead(active'[u].rest) : a.do # "find"
    BY <1>4, <2>2
  <2> HIDE DEF Sound
  <2>5. PoolWhole'
    BY ONLY <2>3, <2>4 DEF PoolWhole, Promised, Promises, SpansIn, SpanIds, Ahead, Statement
  <2> QED BY <2>1, <2>5
<1>5. CASE Begun(w)
  <2>1. PICK d \in Alone!Calls : /\ active' = [active EXCEPT ![w] = d] /\ Orderly(d.op, d.on, d.rest)
    BY <1>5, BegunFacts
  <2>2. disk' = disk /\ conn' = conn /\ active[w] = None
    BY <1>5, BegunFacts
  <2>3. Sound(d)  BY <1>3, <2>1, <2>2
  <2> HIDE DEF Sound
  <2> QED BY <1>4, <2>3
<1>6. CASE Alone!Execute(w)
  <2> DEFINE c == active[w]
             s == Head(c.rest)
             then == Ahead(Tail(c.rest))
  <2>1. /\ c # None /\ c.op \in Methods /\ c.on \in SUBSET Traces
        /\ Ahead(c.rest) = {s} \cup then
        /\ s.do # "find" /\ (s.do = "insert_run" => s.rows = c.on)
        /\ \A a \in {s} \cup then : a.do \in Does[c.op]
        /\ Fits(s, then, c.on)
        /\ conn' = Effect(conn, s)
    BY <1>6, ExecutedFacts
  <2>2. PICK d \in Alone!Calls : /\ active' = [active EXCEPT ![w] = d]
                                 /\ d.op = c.op /\ d.on = c.on /\ d.rest = Tail(c.rest)
                                 /\ Orderly(d.op, d.on, d.rest)
    BY <1>6, ExecutedFacts
  <2>3. d # None  BY CallFields
  <2>4. s.do \in Does[c.op] /\ Ahead(d.rest) = then
    BY <2>1, <2>2
  <2> HIDE DEF s, then
  <2>5. \A u \in Several : u # w \/ active[u] = c  OBVIOUS
  <2> HIDE DEF c
  <2>6. ASSUME NEW x \in SpansIn(conn'.runs)
        PROVE  \/ x \in conn'.spans \/ (d # None /\ Promises(d, x))
               \/ \E u \in Several : u # w /\ active[u] # None /\ Promises(active[u], x)
    <3>1. x[1] \in conn'.runs  BY SpansInFact
    <3>2. \/ x \in SpansIn(conn.runs) /\ (x \in conn.spans => x \in conn'.spans)
          \/ Promises(d, x)
      BY ONLY <1>2, <2>1, <2>2, <2>4, x \in SpansIn(conn'.runs), SpanOrPromise
    <3>3. Promises(c, x) => x \in conn'.spans \/ Promises(d, x)
      BY ONLY <1>2, <2>1, <2>2, <2>4, <3>1, PromiseKept
    <3> QED BY <1>3, <2>3, <2>5, <3>2, <3>3
  <2>7. \A a \in Ahead(d.rest) : a.do # "find"  BY <2>1, <2>4 DEF Fits
  <2>8. Sound(d)
    BY <2>2, <2>3, <2>6, <2>7
  <2> HIDE DEF Sound
  <2> QED BY <1>4, <2>8
<1>7. CASE Alone!Find(w)
  <2>1. /\ active[w] # None /\ disk' = disk /\ conn' = conn
        /\ \A a \in Ahead(active[w].rest) : a.do = "find"
        /\ Ahead(active[w].rest) # {}
    BY <1>7, FoundFacts
  <2>2. PICK c : /\ active' = [active EXCEPT ![w] = c]
                 /\ c # None => Orderly(c.op, c.on, c.rest)
    BY <1>7, FoundFacts
  <2>3. \A x : ~Promises(active[w], x)
    BY <2>1, StatementFields DEF Promises
  <2>4. ~\A a \in Ahead(active[w].rest) : a.do # "find"
    BY <2>1
  <2>5. Sound(c)  BY <1>3, <2>1, <2>2, <2>3, <2>4
  <2> HIDE DEF Sound
  <2> QED BY <1>4, <2>5
<1>8. CASE Alone!Commit(w)
  <2>1. /\ active[w] # None /\ active[w].rest = <<>>
        /\ active' = [active EXCEPT ![w] = None] /\ disk' = conn /\ conn' = conn
    BY <1>8 DEF Alone!Commit, Alone!Works
  <2>2. \A x : ~Promises(active[w], x)  BY <2>1, AheadNone DEF Promises
  <2>3. Sound(None)
    BY <1>3, <2>1, <2>2
  <2> HIDE DEF Sound
  <2> QED BY <1>4, <2>3
<1> QED BY <1>1, <1>5, <1>6, <1>7, <1>8, SharedCases

LEMMA SQLiteWholeInit ==
  /\ Alone!Init => OrderlyCalls(Single) /\ AloneWhole
  /\ Pool!Init => OrderlyCalls(Several) /\ PoolWhole
<1>1. ASSUME disk = NoRows, conn = NoRows, NEW W, active = [w \in W |-> None]
      PROVE  /\ OrderlyCalls(W) /\ Typed(conn) /\ Typed(disk) /\ Whole(disk) /\ conn = disk
             /\ \A w \in W : active[w] = None
             /\ \A x : x \notin SpansIn(conn.runs)
  BY <1>1 DEF OrderlyCalls, Typed, Whole, NoRows, SpansIn
<1>2. Alone!Init => OrderlyCalls(Single) /\ AloneWhole
  BY <1>1, SameTerms DEF Alone!Init, AloneWhole
<1>3. Pool!Init => OrderlyCalls(Several) /\ PoolWhole
  BY <1>1, SameTerms DEF Pool!Init, PoolWhole
<1> QED BY <1>2, <1>3

-----------------------------------------------------------------------------
(* The Postgres store's programs *)

LEMMA PgOrderlyTail ==
  ASSUME NEW S, NEW op, NEW on, NEW rest \in Seq(S), rest # <<>>, PgOrderly(op, on, rest)
  PROVE  /\ PgOrderly(op, on, Tail(rest)) /\ Head(rest).do \in PgDoes[op]
         /\ PgFits(Head(rest), Ahead(Tail(rest)), on)
<1>1. PICK n : n \in Nat /\ n = Len(rest) /\ n >= 1
  BY TailFacts
<1> DEFINE t == Tail(rest)
<1>2. /\ t \in Seq(S) /\ Len(t) = n - 1 /\ Head(rest) = rest[1]
      /\ \A i \in 1 .. n - 1 : t[i] = rest[i + 1]
  BY <1>1, TailFacts
<1>3. Later(rest, 1) = Ahead(t) /\ \A i \in 1 .. n - 1 : Later(rest, i + 1) = Later(t, i)
  BY <1>1, <1>2, AheadTail
<1> HIDE DEF t
<1>4. \A i \in 1 .. n : rest[i].do \in PgDoes[op] /\ PgFits(rest[i], Later(rest, i), on)
  BY <1>1 DEF PgOrderly
<1>5. 1 \in 1 .. n /\ \A i \in 1 .. n - 1 : i + 1 \in 1 .. n
  BY ONLY <1>1
<1>6. PgOrderly(op, on, t)
  BY ONLY <1>2, <1>3, <1>4, <1>5 DEF PgOrderly
<1>7. Head(rest).do \in PgDoes[op] /\ PgFits(Head(rest), Ahead(t), on)
  BY ONLY <1>2, <1>3, <1>4, <1>5
<1> QED BY <1>6, <1>7 DEF t

LEMMA PgDeleteOpens ==
  ASSUME NEW R \in SUBSET Traces, NEW op \in {"export", "delete", "prune"}, NEW on
  PROVE  PgOrderly(op, on, DeleteRuns(R)) /\ DeleteRuns(R) # <<>>
<1> DEFINE p == DeleteRuns(R)
<1>1. /\ p \in Seq(Statements) /\ Len(p) = 3
      /\ p[1].do = "delete_spans" /\ p[2].do = "delete_marks" /\ p[3].do = "delete_runs"
      /\ p[1].rows = R /\ p[2].rows = R /\ p[3].rows = R
  BY ONLY DeleteFacts, StatementFields, R \in SUBSET Traces
<1> HIDE DEF p
<1>2. Later(p, 1) = {p[2], p[3]} /\ Later(p, 2) = {p[3]} /\ Later(p, 3) = {}
  BY <1>1, OfThree
<1>3. p # <<>>
  <2>1. p = <<>> => Len(p) = 0  BY EmptySeq
  <2> QED BY ONLY <1>1, <2>1
<1>4. PgFits(p[1], Later(p, 1), on) /\ PgFits(p[2], Later(p, 2), on) /\ PgFits(p[3], Later(p, 3), on)
  BY ONLY <1>1, <1>2 DEF PgFits
<1>5. \A i \in 1 .. Len(p) : i = 1 \/ i = 2 \/ i = 3
  BY <1>1
<1>6. {"delete_spans", "delete_marks", "delete_runs"} \subseteq PgDoes[op]
  BY DEF PgDoes
<1>7. PgOrderly(op, on, p)
  BY ONLY <1>1, <1>4, <1>5, <1>6 DEF PgOrderly
<1> QED BY <1>3, <1>7 DEF p

LEMMA PgOneOpens ==
  ASSUME NEW do, NEW op, NEW x, NEW on,
         <<do, op>> \in {<<"select_old", "prune">>, <<"unmark", "untag">>, <<"insert_tag", "color">>,
                         <<"delete_tag", "delete_tag">>}
  PROVE  PgOpens(op, on, <<Statement(do, x)>>)
<1> DEFINE s == Statement(do, x)
           p == <<s>>
<1>1. s.do = do  BY StatementFields
<1>2. Len(p) = 1 /\ p[1] = s  OBVIOUS
<1> HIDE DEF p, s
<1>3. Later(p, 1) = {} /\ p # <<>>  BY <1>2, OfOne, EmptySeq
<1>4. do \in {"select_old", "unmark", "insert_tag", "delete_tag"} /\ do \in PgDoes[op] /\ op # "export"
  BY DEF PgDoes
<1>5. PgFits(p[1], Later(p, 1), on)
  BY ONLY <1>1, <1>2, <1>3, <1>4 DEF PgFits
<1>6. PgOrderly(op, on, p)
  BY <1>1, <1>2, <1>4, <1>5 DEF PgOrderly
<1> QED BY <1>3, <1>4, <1>6 DEF PgOpens, p, s

LEMMA PgRenameOpens ==
  ASSUME NEW o \in Tags, NEW n \in Tags, NEW on
  PROVE  PgOpens("rename", on, Postgres!RenameProgram(o, n))
<1> DEFINE a == Statement("copy_tag", {<<o, n>>})
           b == Statement("drop_doubles", {<<o, n>>})
           c == Statement("move_marks", {<<o, n>>})
           d == Statement("delete_tag", {o})
           p == <<a, b, c, d>>
<1>1. /\ a.do = "copy_tag" /\ b.do = "drop_doubles" /\ c.do = "move_marks" /\ d.do = "delete_tag"
      /\ c.rows = {<<o, n>>}
  BY StatementFields
<1>2. Postgres!RenameProgram(o, n) = p
  BY PgTerms DEF Postgres!RenameProgram
<1> HIDE DEF a, b, c, d
<1>3. Len(p) = 4 /\ p[1] = a /\ p[2] = b /\ p[3] = c /\ p[4] = d  OBVIOUS
<1> HIDE DEF p
<1>4. \A i \in 1 .. 4 : i = 1 \/ i = 2 \/ i = 3 \/ i = 4  OBVIOUS
<1>5. \A i \in 1 .. 4 : p[i].do \in {"copy_tag", "drop_doubles", "move_marks", "delete_tag"}
  BY ONLY <1>1, <1>3, <1>4
<1>6. \A i \in 1 .. 4 : \A e \in Later(p, i) : e.do # "insert_run"
  BY ONLY <1>3, <1>5 DEF Later
<1>7. Later(p, 4) = {}  BY <1>3 DEF Later
<1>8. \A i \in 1 .. 4 : PgFits(p[i], Later(p, i), on)
  <2>1. PgFits(p[1], Later(p, 1), on) /\ PgFits(p[2], Later(p, 2), on)
    BY <1>1, <1>3, <1>6 DEF PgFits
  <2>2. PgFits(p[3], Later(p, 3), on)  BY <1>1, <1>3, <1>6 DEF PgFits
  <2>3. PgFits(p[4], Later(p, 4), on)
    BY <1>1, <1>3, <1>7 DEF PgFits
  <2> QED BY ONLY <1>4, <2>1, <2>2, <2>3
<1>9. p # <<>>  BY <1>3, EmptySeq
<1> QED BY <1>2, <1>3, <1>5, <1>8, <1>9 DEF PgOpens, PgOrderly, PgDoes

LEMMA PgAssignOpens ==
  ASSUME NEW R \in SUBSET Traces, NEW t \in Tags, NEW e \in Postgres!Orders(R), NEW on
  PROVE  PgOpens("tag", on, Postgres!AssignTag(e, t))
<1>1. Postgres!Cardinality(R) = Cardinality(R)
  BY DEF Postgres!Cardinality, Cardinality
<1>2. PICK k \in Nat : k = Cardinality(R)
  BY StoresAssumption, FS_Subset, FS_CardinalityType
<1>3. e \in [1 .. k -> R]  BY <1>1, <1>2 DEF Postgres!Orders
<1> DEFINE p == AssignTag(e, t)
<1>4. Tagging(p, on, R, t)  BY <1>3, AssignOrderly
<1>5. Postgres!AssignTag(e, t) = p
  BY PgTerms
<1> HIDE DEF p
<1>6. p # <<>> /\ \A d \in Ahead(p) : \/ d.do = "insert_tag"
                                      \/ d.do = "insert_mark" /\ \E m \in Traces \X Tags : d.rows = {m}
  <2>1. ASSUME NEW d, NEW r \in R, d = Statement("insert_mark", {<<r, t>>})
        PROVE  d.do = "insert_mark" /\ \E m \in Traces \X Tags : d.rows = {m}
    <3>1. PICK m \in Traces \X Tags : m = <<r, t>>  OBVIOUS
    <3>2. d.do = "insert_mark" /\ d.rows = {m}  BY <2>1, <3>1, StatementFields
    <3> QED BY <3>2
  <2>2. Statement("insert_tag", {t}).do = "insert_tag"
    BY StatementFields
  <2>3. \A d \in Ahead(p) : d = Statement("insert_tag", {t}) \/ \E r \in R : d = Statement("insert_mark", {<<r, t>>})
    BY <1>4 DEF Tagging
  <2>4. p # <<>>  BY <1>4 DEF Tagging
  <2> QED BY ONLY <2>1, <2>2, <2>3, <2>4
<1>7. \A i \in 1 .. Len(p) : p[i] \in Ahead(p) /\ Later(p, i) \subseteq Ahead(p)
  BY DEF Ahead, Later
<1>8. \A i \in 1 .. Len(p) : p[i].do \in {"insert_tag", "insert_mark"} /\ PgFits(p[i], Later(p, i), on)
  BY ONLY <1>6, <1>7 DEF PgFits
<1> QED BY <1>5, <1>6, <1>8 DEF PgOpens, PgOrderly, PgDoes

LEMMA PgExportOpens ==
  ASSUME NEW r \in Traces
  PROVE  PgOpens("export", {r}, Postgres!ExportProgram(r))
<1> DEFINE p == Postgres!ExportProgram(r)
<1>1. PICK n \in Nat :
        /\ n = SpansOf[r]
        /\ p \in Seq(Statements) /\ Len(p) = n + 2
        /\ p[1] = Statement("insert_run", {r})
        /\ \A j \in 1 .. n : p[j + 1] = Statement("insert_span", {<<r, j>>})
        /\ p[n + 2] = Statement("select_old", MaxRuns)
  BY PgExportingFacts
<1> HIDE DEF p
<1>2. p[1].do = "insert_run" /\ p[n + 2].do = "select_old"
  BY ONLY <1>1, StatementFields
<1>3. \A j \in 1 .. n : p[j + 1].do = "insert_span" /\ p[j + 1].rows = {<<r, j>>}
  <2> TAKE j \in 1 .. n
  <2>1. PICK x : x = {<<r, j>>}  OBVIOUS
  <2>2. p[j + 1] = Statement("insert_span", x)  BY ONLY <1>1, <2>1
  <2> QED BY ONLY <2>1, <2>2, StatementFields
<1>4. \A i \in 1 .. n + 2 : \/ i = 1 \/ (i - 1 \in 1 .. n /\ (i - 1) + 1 = i)
                            \/ i = n + 2
  OBVIOUS
<1>5. \A i : Later(p, i) = {p[j] : j \in {k \in 1 .. n + 2 : k > i}}
  BY <1>1 DEF Later
<1>6. \A i \in 1 .. n + 2 : p[i].do \in {"insert_run", "insert_span", "select_old"} /\ (i > 1 => p[i].do # "insert_run")
  <2>1. \A i \in 1 .. n + 2 : i > 1 => i # 1  OBVIOUS
  <2> QED BY ONLY <1>2, <1>3, <1>4, <2>1
<1>7. \A i \in 1 .. n + 2 : \A d \in Later(p, i) : d.do # "insert_run"
  <2>1. \A i \in 1 .. n + 2 : \A k \in 1 .. n + 2 : k > i => k > 1  OBVIOUS
  <2> QED BY ONLY <1>5, <1>6, <2>1
<1>8. \A x \in SpansIn({r}) : Statement("insert_span", {x}) \in Later(p, 1)
  <2> TAKE x \in SpansIn({r})
  <2>1. PICK j \in 1 .. n : x = <<r, j>>  BY <1>1, SpanIdsFact DEF SpansIn
  <2>2. j + 1 \in {k \in 1 .. n + 2 : k > 1}
    BY j \in 1 .. n
  <2>3. p[j + 1] = Statement("insert_span", {x})  BY ONLY <1>1, <2>1
  <2> QED BY ONLY <1>5, <2>2, <2>3
<1>9. \A j \in 1 .. n : <<r, j>> \in SpanIds /\ <<r, j>>[1] = r
  BY <1>1, SpanIdsFact
<1>10. Later(p, n + 2) = {}
  <2>1. {k \in 1 .. n + 2 : k > n + 2} = {}  OBVIOUS
  <2> QED BY ONLY <1>5, <2>1
<1>11. \A i \in 1 .. n + 2 : PgFits(p[i], Later(p, i), {r})
  <2> TAKE i \in 1 .. n + 2
  <2>1. CASE i = 1
    BY ONLY <2>1, <1>2, <1>7, <1>8, i \in 1 .. n + 2 DEF PgFits
  <2>2. CASE i - 1 \in 1 .. n /\ (i - 1) + 1 = i
    <3>1. p[i].do = "insert_span" /\ p[i].rows = {<<r, i - 1>>} /\ <<r, i - 1>> \in SpanIds /\ <<r, i - 1>>[1] = r
      BY ONLY <2>2, <1>3, <1>9
    <3>2. PICK x \in SpanIds : p[i].rows = {x} /\ x[1] = r
      BY ONLY <3>1
    <3> QED BY ONLY <3>1, <3>2, <1>7, i \in 1 .. n + 2 DEF PgFits
  <2>3. CASE i = n + 2
    BY ONLY <2>3, <1>2, <1>10 DEF PgFits
  <2> QED BY ONLY <1>4, <2>1, <2>2, <2>3
<1>12. PgOrderly("export", {r}, p)
  BY ONLY <1>1, <1>6, <1>11 DEF PgOrderly, PgDoes
<1>13. p # <<>> /\ Head(p) = p[1]
  <2>1. Len(p) # 0  BY ONLY <1>1
  <2> QED BY ONLY <1>1, <2>1, EmptySeq, TailFacts
<1> QED BY ONLY <1>2, <1>12, <1>13 DEF PgOpens, p

-----------------------------------------------------------------------------
(* What a statement makes of a transaction *)

LEMMA PutRows ==
  ASSUME NEW c, PgShape(c), NEW t \in TableNames, NEW new, NEW d, d = Postgres!Put(c, t, new)
  PROVE  /\ d.del = c.del /\ d.upd = c.upd
         /\ d.ins[t] = c.ins[t] \cup (new \ (disk[t] \ c.del[t]))
         /\ \A q \in TableNames \ {t} : d.ins[q] = c.ins[q]
BY DEF Postgres!Put, PgShape, Shaped, TableNames

LEMMA TakeRows ==
  ASSUME NEW c, PgShape(c), NEW t \in TableNames, NEW old, NEW d, d = Postgres!Take(c, t, old)
  PROVE  /\ d.upd = c.upd
         /\ d.ins[t] = c.ins[t] \ old /\ d.del[t] = c.del[t] \cup (old \cap disk[t])
         /\ \A q \in TableNames \ {t} : d.ins[q] = c.ins[q] /\ d.del[q] = c.del[q]
BY DEF Postgres!Take, PgShape, Shaped, TableNames

LEMMA OverRows ==
  ASSUME NEW c, PgShape(c), NEW d, d = [c EXCEPT !.rest = Tail(@), !.aim = None]
  PROVE  d.ins = c.ins /\ d.del = c.del /\ d.upd = c.upd
BY DEF PgShape, Shaped

(* A statement on neither runs nor spans. *)
LEMMA SpansAlone ==
  ASSUME NEW c, NEW s, NEW then, NEW d, SameRuns(c, d), SameSpans(c, d), PgSpans(c, {s} \cup then, s),
         s.do \notin {"insert_run", "insert_span", "delete_runs"}, NEW after
  PROVE  PgSpans(d, then, after)
<1>1. \A x : Statement("insert_span", {x}) # s  BY StatementFields
<1>2. \A r : Leaves({s} \cup then, r) => Leaves(then, r)
  BY DEF Leaves
<1> QED BY <1>1, <1>2 DEF PgSpans, SameRuns, SameSpans

LEMMA InsertsRun ==
  ASSUME NEW c, NEW s, NEW then, NEW db, NEW d, PgReady(c, s, then, db), s.do = "insert_run",
         d.del = c.del, SameSpans(c, d), SameMarks(c, d), SameTags(c, d),
         d.ins.runs = c.ins.runs \cup (c.aim \ (db.runs \ c.del.runs)),
         \A a \in then : a.do = "insert_span" => \E x \in SpanIds : a.rows = {x} /\ x[1] \in c.on
  PROVE  PgDone(d, then, db) /\ \A e : PgApart(c, e, db) => PgApart(d, e, db)
<1>1. /\ c.aim = c.on /\ \A x \in SpansIn(c.on) : Statement("insert_span", {x}) \in then
      /\ \A r \in c.on : r \notin db.runs
  BY DEF PgReady, PgFits
<1>2. d.ins.runs = c.ins.runs \cup c.on  BY <1>1
<1>3. \A r : Leaves({s} \cup then, r) => Leaves(then, r)
  BY DEF Leaves
<1>4. \A x : Statement("insert_span", {x}) # s  BY StatementFields
<1>5. PgSpans(c, {s} \cup then, s) /\ PgAims(c, s)
  BY DEF PgReady
<1>6. ASSUME NEW after PROVE PgSpans(d, then, after)
  <2>1. \A a \in then : a.do = "insert_span" => \A x \in a.rows : x[1] \in d.ins.runs
    BY <1>2
  <2>2. \A x \in SpansIn(d.ins.runs) :
          x \in d.ins.spans \/ Statement("insert_span", {x}) \in then \/ Leaves(then, x[1])
    <3>1. \A x \in SpansIn(d.ins.runs) : x \in SpansIn(c.ins.runs) \/ x \in SpansIn(c.on)
      BY <1>2, SpansInFact
    <3> QED BY <3>1, <1>1, <1>3, <1>4, <1>5 DEF PgSpans, SameSpans
  <2>3. /\ d.ins.spans \subseteq SpanIds
        /\ \A x \in SpanIds : x[1] \in d.del.runs => x \in d.del.spans
        /\ \A x \in d.ins.spans : x[1] \in d.ins.runs
        /\ \A x \in d.del.spans : x[1] \in d.del.runs \/ Leaves(then, x[1])
    BY <1>2, <1>3, <1>5 DEF PgSpans, SameSpans
  <2> QED BY ONLY <2>1, <2>2, <2>3 DEF PgSpans
<1>7. PgMarks(d) /\ PgMeets(d, db)
  BY <1>2 DEF PgReady, PgMarks, PgMeets, SameMarks, SameTags, SameSpans
<1> QED BY <1>5, <1>6, <1>7 DEF PgDone, PgApart, PgAims, SameMarks, Barred, Touched

LEMMA InsertsSpan ==
  ASSUME NEW c, NEW s, NEW then, NEW db, NEW d, PgReady(c, s, then, db), s.do = "insert_span",
         d.del = c.del, SameRuns(c, d), SameMarks(c, d), SameTags(c, d),
         d.ins.spans = c.ins.spans \cup (c.aim \ (db.spans \ c.del.spans))
  PROVE  PgDone(d, then, db) /\ \A e : PgApart(c, e, db) => PgApart(d, e, db)
<1>1. PICK x \in SpanIds : s.rows = {x}  BY DEF PgReady, PgFits
<1>2. PgSpans(c, {s} \cup then, s) /\ PgAims(c, s) /\ Whole(db)
  BY DEF PgReady
<1>3. c.aim = {x}  BY <1>1 DEF PgReady, PgAims
<1>4. x[1] \in c.ins.runs
  BY <1>1, <1>2 DEF PgSpans
<1>5. x \notin db.spans
  BY <1>2, <1>4, SpansInFact DEF Whole, PgReady
<1>6. d.ins.spans = c.ins.spans \cup {x}  BY <1>3, <1>5
<1>7. \A y : Statement("insert_span", {y}) = s => y = x
  BY <1>1, StatementFields
<1>8. \A r : Leaves({s} \cup then, r) => Leaves(then, r)
  BY DEF Leaves
<1>9. ASSUME NEW after PROVE PgSpans(d, then, after)
  BY <1>1, <1>2, <1>4, <1>6, <1>7, <1>8 DEF PgSpans, SameRuns
<1>10. PgMarks(d) /\ PgMeets(d, db)
  BY DEF PgReady, PgMarks, PgMeets, SameMarks, SameTags, SameRuns
<1> QED BY <1>2, <1>9, <1>10 DEF PgDone, PgApart, PgAims, SameMarks, Barred, Touched

LEMMA InsertsTag ==
  ASSUME NEW c, NEW s, NEW then, NEW db, NEW d, PgReady(c, s, then, db), s.do \in {"insert_tag", "copy_tag"},
         d.del = c.del, SameRuns(c, d), SameSpans(c, d), SameMarks(c, d),
         c.ins.tags \subseteq d.ins.tags
  PROVE  PgDone(d, then, db) /\ \A e : PgApart(c, e, db) => PgApart(d, e, db)
<1>1. PgSpans(c, {s} \cup then, s) /\ PgAims(c, s)
  BY DEF PgReady
<1>2. ASSUME NEW after PROVE PgSpans(d, then, after)
  BY <1>1, SpansAlone
<1>3. PgMarks(d) /\ PgMeets(d, db)
  BY DEF PgReady, PgMarks, PgMeets, SameMarks, SameRuns, SameSpans
<1> QED BY <1>1, <1>2, <1>3 DEF PgDone, PgApart, PgAims, SameMarks, Barred, Touched

LEMMA InsertsMark ==
  ASSUME NEW c, NEW s, NEW then, NEW db, NEW d, PgReady(c, s, then, db), s.do = "insert_mark",
         d.del = c.del, SameRuns(c, d), SameSpans(c, d), SameTags(c, d),
         d.ins.marks = c.ins.marks \cup (c.aim \ (db.marks \ c.del.marks)),
         d.upd = c.upd \cup (c.aim \cap db.marks),
         \A m \in c.aim : m[1] \in db.runs \cup c.ins.runs /\ m[2] \in db.tags \cup c.ins.tags
  PROVE  /\ PgDone(d, then, db)
         /\ \A e : PgApart(c, e, db) /\ (\A m \in c.aim : m[1] \notin e.del.runs /\ m[2] \notin e.del.tags) =>
              PgApart(d, e, db)
<1>1. PgSpans(c, {s} \cup then, s) /\ PgAims(c, s)
  BY DEF PgReady
<1>2. ASSUME NEW after PROVE PgSpans(d, then, after)
  BY <1>1, SpansAlone
<1>3. c.aim \subseteq Traces \X Tags  BY DEF PgReady, PgAims, PgFits
<1>4. PgMarks(d) /\ PgMeets(d, db)
  BY <1>1, <1>3 DEF PgReady, PgMarks, PgMeets, PgAims, SameTags, SameRuns, SameSpans
<1>5. ASSUME NEW e, PgApart(c, e, db), \A m \in c.aim : m[1] \notin e.del.runs /\ m[2] \notin e.del.tags
      PROVE  PgApart(d, e, db)
  BY <1>5 DEF PgApart, Barred, Touched
<1> QED BY <1>1, <1>2, <1>4, <1>5 DEF PgDone, PgAims

LEMMA DeletesSpans ==
  ASSUME NEW c, NEW s, NEW then, NEW db, NEW d, PgReady(c, s, then, db), s.do = "delete_spans",
         SameRuns(c, d), SameMarks(c, d), SameTags(c, d),
         d.ins.spans = c.ins.spans \ c.aim, d.del.spans = c.del.spans \cup (c.aim \cap db.spans)
  PROVE  /\ PgDone(d, then, db)
         /\ \A e : PgApart(c, e, db) /\ (\A x \in c.aim : x \notin e.del.spans) => PgApart(d, e, db)
<1>1. PgSpans(c, {s} \cup then, s) /\ PgAims(c, s) /\ Whole(db)
  BY DEF PgReady
<1>2. \A x \in c.aim : x[1] \in s.rows  BY DEF PgReady, PgAims
<1>3. \A r \in s.rows : Leaves(then, r)
  BY DEF PgReady, PgFits, Leaves
<1>4. \A x : Statement("insert_span", {x}) # s  BY StatementFields
<1>5. \A r : Leaves({s} \cup then, r) => Leaves(then, r)
  BY DEF Leaves
<1>6. ASSUME NEW after PROVE PgSpans(d, then, after)
  BY <1>1, <1>2, <1>3, <1>4, <1>5 DEF PgSpans, SameRuns
<1>7. PgMarks(d) /\ PgMeets(d, db)
  BY DEF PgReady, PgMarks, PgMeets, SameMarks, SameTags, SameRuns
<1>8. ASSUME NEW e, PgApart(c, e, db), \A x \in c.aim : x \notin e.del.spans PROVE PgApart(d, e, db)
  BY <1>8 DEF PgApart, Barred, Touched, SameRuns, SameMarks, SameTags
<1> QED BY <1>1, <1>6, <1>7, <1>8 DEF PgDone, PgAims, SameRuns, SameTags

(* delete_marks, unmark and drop_doubles. *)
LEMMA DeletesMarks ==
  ASSUME NEW c, NEW s, NEW then, NEW db, NEW d, PgReady(c, s, then, db),
         s.do \in {"delete_marks", "unmark", "drop_doubles"},
         SameRuns(c, d), SameSpans(c, d), SameTags(c, d), d.upd = c.upd,
         d.ins.marks = c.ins.marks \ c.aim, d.del.marks = c.del.marks \cup (c.aim \cap db.marks)
  PROVE  /\ PgDone(d, then, db)
         /\ \A e : PgApart(c, e, db) /\ (\A m \in c.aim : m \notin Touched(e)) => PgApart(d, e, db)
<1>1. PgSpans(c, {s} \cup then, s) /\ PgAims(c, s)
  BY DEF PgReady
<1>2. ASSUME NEW after PROVE PgSpans(d, then, after)
  BY <1>1, SpansAlone
<1>3. PgMarks(d) /\ PgMeets(d, db)
  BY DEF PgReady, PgMarks, PgMeets, SameTags, SameRuns, SameSpans
<1>4. ASSUME NEW e, PgApart(c, e, db), \A m \in c.aim : m \notin Touched(e) PROVE PgApart(d, e, db)
  <2>1. \A m \in c.aim \cap db.marks : m[1] \notin e.del.runs /\ m[2] \notin e.del.tags
    BY <1>4 DEF PgApart, PgMeets, Touched
  <2> QED BY <1>4, <2>1 DEF PgApart, Barred, Touched, SameRuns, SameSpans, SameTags
<1> QED BY <1>1, <1>2, <1>3, <1>4 DEF PgDone, PgAims, SameRuns, SameTags

LEMMA MovesMarks ==
  ASSUME NEW c, NEW s, NEW then, NEW db, NEW d, PgReady(c, s, then, db), s.do = "move_marks",
         NEW n \in Tags, NEW moved, NEW new, Moves(c, d, db, n, moved, new)
  PROVE  /\ PgDone(d, then, db)
         /\ \A e : /\ PgApart(c, e, db) /\ (\A m \in c.aim : m \notin Touched(e))
                   /\ moved # {} => n \notin e.del.tags
                   => PgApart(d, e, db)
<1> USE DEF Moves
<1>1. PgSpans(c, {s} \cup then, s) /\ PgAims(c, s) /\ Whole(db)
  BY DEF PgReady
<1>2. ASSUME NEW after PROVE PgSpans(d, then, after)
  BY <1>1, SpansAlone
<1>3. \A m \in moved : m[1] \in db.runs \cup c.ins.runs /\ m[1] \in Traces
  <2>1. \A m \in db.marks : m[1] \in db.runs  BY <1>1 DEF Whole
  <2> QED BY <2>1 DEF PgReady, PgMarks, PgMeets
<1>4. \A m \in new : /\ m \in Traces \X Tags /\ m[2] = n
                     /\ \E p \in moved : m[1] = p[1]
  BY <1>3
<1>5. PgMarks(d)
  BY <1>1, <1>4 DEF PgReady, PgMarks, PgAims, SameRuns, SameTags
<1>6. PgMeets(d, db)
  <2>1. \A m \in d.ins.marks : m[1] \in db.runs \cup d.ins.runs /\ m[2] \in db.tags \cup d.ins.tags
    BY <1>3, <1>4 DEF PgReady, PgMeets, SameRuns, SameTags
  <2>2. \A m \in db.marks : m[1] \in d.del.runs \/ m[2] \in d.del.tags => m \in d.del.marks
    BY DEF PgReady, PgMeets, SameRuns, SameTags
  <2> QED BY <2>1, <2>2 DEF PgReady, PgMeets, SameRuns, SameSpans
<1>7. ASSUME NEW e, PgApart(c, e, db), \A m \in c.aim : m \notin Touched(e), moved # {} => n \notin e.del.tags
      PROVE  PgApart(d, e, db)
  <2>1. \A m \in moved \cap db.marks : m[1] \notin e.del.runs /\ m[2] \notin e.del.tags
    BY <1>7 DEF PgApart, PgMeets, Touched
  <2>2. \A m \in moved : m[1] \notin e.del.runs
    BY <1>7, <2>1 DEF PgApart, Barred, Touched
  <2>3. \A m \in Touched(d) : m \in Touched(c) \/ m \in moved \cap db.marks \/ m \in new
    BY DEF Touched
  <2>4. \A m \in Touched(d) : m[1] \notin e.del.runs /\ m[2] \notin e.del.tags
    BY <1>4, <1>7, <2>1, <2>2, <2>3 DEF PgApart, Barred
  <2> QED BY <1>7, <2>4 DEF PgApart, Barred, SameRuns, SameSpans, SameTags
<1> QED BY <1>1, <1>2, <1>5, <1>6, <1>7 DEF PgDone, PgAims, SameRuns, SameTags

LEMMA DeletesRuns ==
  ASSUME NEW c, NEW s, NEW then, NEW db, NEW d, PgReady(c, s, then, db), s.do = "delete_runs",
         NEW old, \A m : m \in old <=> m \in (db.marks \ c.del.marks) \cup c.ins.marks /\ m[1] \in c.aim,
         SameSpans(c, d), SameTags(c, d), d.upd = c.upd,
         d.ins.runs = c.ins.runs \ c.aim, d.del.runs = c.del.runs \cup (c.aim \cap db.runs),
         d.ins.marks = c.ins.marks \ old, d.del.marks = c.del.marks \cup (old \cap db.marks),
         \A x \in SpansIn(c.aim) : x \notin c.ins.spans /\ (x \in db.spans => x \in c.del.spans)
  PROVE  /\ PgDone(d, then, db)
         /\ \A e : /\ PgApart(c, e, db)
                   /\ \A r \in c.aim : r \notin e.del.runs
                   /\ \A m \in Touched(e) : m[1] \notin c.aim
                   => PgApart(d, e, db)
<1>1. PgSpans(c, {s} \cup then, s) /\ PgAims(c, s) /\ Whole(db) /\ then = {}
  BY DEF PgReady, PgFits
<1>2. \A x : Statement("insert_span", {x}) # s  BY StatementFields
<1>3. \A r : Leaves({s} \cup then, r) => r \in s.rows
  BY <1>1 DEF Leaves
<1>4. \A r \in s.rows : r \in c.ins.runs \/ (\E x \in c.del.spans : x[1] = r) => r \in c.aim
  BY DEF PgReady, PgAims
<1>5. d.del.runs = c.aim \cap db.runs  BY <1>1 DEF PgAims
<1>6. ASSUME NEW after PROVE PgSpans(d, then, after)
  <2>1. \A x \in SpanIds : x[1] \in d.del.runs => x \in d.del.spans
    BY <1>1, <1>5, SpansInFact DEF Whole, SameSpans
  <2>2. \A x \in d.ins.spans : x[1] \in d.ins.runs
    BY <1>1, SpansInFact DEF PgSpans, SameSpans
  <2>3. \A x \in SpansIn(d.ins.runs) : x \in d.ins.spans
    <3> TAKE x \in SpansIn(d.ins.runs)
    <3>1. x \in SpansIn(c.ins.runs) /\ x[1] \in c.ins.runs /\ x[1] \notin c.aim
      BY SpansInFact
    <3>2. ~Leaves({s} \cup then, x[1])  BY ONLY <1>3, <1>4, <3>1
    <3>3. Statement("insert_span", {x}) \notin {s} \cup then
      BY ONLY <1>1, <1>2
    <3>4. x \in c.ins.spans
      BY ONLY <1>1, <3>1, <3>2, <3>3 DEF PgSpans
    <3> QED BY <3>4 DEF SameSpans
  <2>4. \A x \in d.del.spans : x[1] \in d.del.runs
    <3>1. \A x \in c.del.spans : x[1] \in db.runs
      BY <1>1, SpansInFact DEF PgReady, PgMeets, Whole
    <3>2. \A x \in c.del.spans : x[1] \in c.aim
      BY <1>1, <1>3, <1>4 DEF PgSpans, PgAims
    <3> QED BY <1>5, <3>1, <3>2 DEF SameSpans
  <2>5. d.ins.spans \subseteq SpanIds  BY <1>1 DEF PgSpans, SameSpans
  <2> QED BY <1>1, <2>1, <2>2, <2>3, <2>4, <2>5 DEF PgSpans
<1>7. PgMarks(d)
  BY <1>1, <1>5 DEF PgReady, PgMarks, PgAims, SameTags
<1>8. PgMeets(d, db)
  <2>1. d.del.runs \subseteq db.runs /\ d.del.spans \subseteq db.spans
    BY <1>5 DEF PgReady, PgMeets, SameSpans
  <2>2. \A m \in d.ins.marks : m[1] \in db.runs \cup d.ins.runs /\ m[2] \in db.tags \cup d.ins.tags
    BY DEF PgReady, PgMeets, SameTags
  <2>3. \A m \in db.marks : m[1] \in d.del.runs \/ m[2] \in d.del.tags => m \in d.del.marks
    BY <1>1, <1>5 DEF PgAims, SameTags
  <2> QED BY <2>1, <2>2, <2>3 DEF PgMeets
<1>9. ASSUME NEW e, PgApart(c, e, db), \A r \in c.aim : r \notin e.del.runs,
             \A m \in Touched(e) : m[1] \notin c.aim
      PROVE  PgApart(d, e, db)
  <2>1. Barred(d, e)
    BY <1>1, <1>5, <1>9 DEF PgApart, Barred, PgAims, SameSpans, SameTags
  <2>2. \A m \in old \cap db.marks : m[1] \notin e.del.runs /\ m[2] \notin e.del.tags
    BY <1>9 DEF PgApart, PgMeets, Touched
  <2>3. \A m \in Touched(d) : m \in Touched(c) \/ m \in old \cap db.marks
    BY DEF Touched
  <2>4. Barred(e, d)
    BY <1>5, <1>9, <2>2, <2>3 DEF PgApart, Barred, SameSpans
  <2> QED BY <1>9, <2>1, <2>4 DEF PgApart
<1> QED BY <1>1, <1>6, <1>7, <1>8, <1>9 DEF PgDone

LEMMA DeletesTag ==
  ASSUME NEW c, NEW s, NEW then, NEW db, NEW d, PgReady(c, s, then, db), s.do = "delete_tag",
         NEW old, \A m : m \in old <=> m \in (db.marks \ c.del.marks) \cup c.ins.marks /\ m[2] \in c.aim,
         SameSpans(c, d), SameRuns(c, d), d.upd = c.upd,
         d.ins.tags = c.ins.tags \ c.aim, d.del.tags = c.del.tags \cup (c.aim \cap db.tags),
         d.ins.marks = c.ins.marks \ old, d.del.marks = c.del.marks \cup (old \cap db.marks)
  PROVE  /\ PgDone(d, then, db)
         /\ \A e : /\ PgApart(c, e, db)
                   /\ \A m \in Touched(e) : m[2] \notin c.aim
                   => PgApart(d, e, db)
<1>1. PgSpans(c, {s} \cup then, s) /\ PgAims(c, s) /\ then = {}
  BY DEF PgReady, PgFits
<1>2. ASSUME NEW after PROVE PgSpans(d, then, after)
  BY <1>1, SpansAlone
<1>3. d.del.tags = c.aim \cap db.tags  BY <1>1 DEF PgAims
<1>4. PgMarks(d)
  BY <1>1, <1>3 DEF PgReady, PgMarks, PgAims, SameRuns
<1>5. PgMeets(d, db)
  <2>1. d.del.runs \subseteq db.runs /\ d.del.spans \subseteq db.spans
    BY DEF PgReady, PgMeets, SameSpans, SameRuns
  <2>2. \A m \in d.ins.marks : m[1] \in db.runs \cup d.ins.runs /\ m[2] \in db.tags \cup d.ins.tags
    BY DEF PgReady, PgMeets, SameRuns
  <2>3. \A m \in db.marks : m[1] \in d.del.runs \/ m[2] \in d.del.tags => m \in d.del.marks
    BY <1>1, <1>3 DEF PgAims, SameRuns
  <2> QED BY <2>1, <2>2, <2>3 DEF PgMeets
<1>6. ASSUME NEW e, PgApart(c, e, db), \A m \in Touched(e) : m[2] \notin c.aim
      PROVE  PgApart(d, e, db)
  <2>1. Barred(d, e)
    BY <1>1, <1>3, <1>6 DEF PgApart, Barred, PgAims, SameSpans, SameRuns
  <2>2. \A m \in old \cap db.marks : m[1] \notin e.del.runs /\ m[2] \notin e.del.tags
    BY <1>6 DEF PgApart, PgMeets, Touched
  <2>3. \A m \in Touched(d) : m \in Touched(c) \/ m \in old \cap db.marks
    BY DEF Touched
  <2>4. Barred(e, d)
    BY <1>6, <2>2, <2>3 DEF PgApart, Barred, SameSpans, SameRuns
  <2> QED BY <1>6, <2>1, <2>4 DEF PgApart
<1> QED BY <1>1, <1>2, <1>4, <1>5, <1>6 DEF PgDone

-----------------------------------------------------------------------------
(* Each statement of the Postgres store *)

(* A row lock that no other transaction holds. *)
LEMMA NotHeld ==
  ASSUME NEW u, NEW s, NEW aim, NEW e, e = active[u], ~Postgres!Holds(u, s, aim)
  PROVE  /\ s.do = "insert_mark" => \A m \in aim : m[1] \notin e.del.runs /\ m[2] \notin e.del.tags
         /\ s.do \in {"delete_marks", "unmark", "drop_doubles"} => \A m \in aim : m \notin Touched(e)
         /\ s.do = "move_marks" => /\ s.rows # {} => \A m \in aim : m \notin Touched(e)
                                   /\ aim # {} => \A n \in s.rows : n[2] \notin e.del.tags
         /\ s.do = "delete_runs" => /\ \A r \in aim : r \notin e.del.runs
                                    /\ \A m \in Touched(e) : m[1] \notin aim
         /\ s.do = "delete_tag" => \A m \in Touched(e) : m[2] \notin aim
         /\ s.do = "delete_spans" => \A x \in aim : x \notin e.del.spans
<1>1. CASE s.do = "insert_mark"  BY <1>1 DEF Postgres!Holds
<1>2. CASE s.do \in {"delete_marks", "unmark", "drop_doubles"}
  BY <1>2 DEF Postgres!Holds, Touched
<1>3. CASE s.do = "move_marks"
  BY <1>3 DEF Postgres!Holds, Touched
<1>4. CASE s.do = "delete_runs"
  BY <1>4 DEF Postgres!Holds, Touched
<1>5. CASE s.do = "delete_tag"
  BY <1>5 DEF Postgres!Holds, Touched
<1>6. CASE s.do = "delete_spans"  BY <1>6 DEF Postgres!Holds
<1> QED BY <1>1, <1>2, <1>3, <1>4, <1>5, <1>6

LEMMA SeenRows ==
  ASSUME NEW w, NEW c, c = active[w], NEW db, db = Postgres!Seen(w)
  PROVE  /\ db.runs = (disk.runs \ c.del.runs) \cup c.ins.runs
         /\ db.spans = (disk.spans \ c.del.spans) \cup c.ins.spans
         /\ db.marks = (disk.marks \ c.del.marks) \cup c.ins.marks
         /\ db.tags = (disk.tags \ c.del.tags) \cup c.ins.tags
BY DEF Postgres!Seen, Postgres!NoRows

(* The statements ahead are each of their kind. *)
LEMMA SpansAhead ==
  ASSUME NEW op, NEW on, NEW rest, PgOrderly(op, on, rest)
  PROVE  \A a \in Ahead(rest) : a.do = "insert_span" => \E x \in SpanIds : a.rows = {x} /\ x[1] \in on
BY DEF PgOrderly, PgFits, Ahead

LEMMA ThroughInserts ==
  ASSUME NEW w, NEW c, NEW s, NEW then, PgExecutes(w, c, s, then), NEW d, d = Postgres!Through(w),
         s.do \in {"insert_run", "insert_span", "insert_tag", "copy_tag", "insert_mark"}
  PROVE  PgOutcome(w, d, then)
<1>1. /\ c = active[w] /\ PgShape(c) /\ PgReady(c, s, then, disk)
      /\ \A a \in then : a.do = "insert_span" => \E x \in SpanIds : a.rows = {x} /\ x[1] \in c.on
      /\ \A u \in Several : u # w /\ active[u] # None =>
           PgApart(c, active[u], disk) /\ ~Postgres!Holds(u, s, c.aim)
      /\ ~Postgres!Dangles(w)
  BY DEF PgExecutes, PgFree
<1>2. Postgres!Now(w) = s  BY DEF Postgres!Now, PgExecutes
<1>3. "runs" \in TableNames /\ "spans" \in TableNames /\ "marks" \in TableNames /\ "tags" \in TableNames
  BY DEF TableNames
<1>4. ASSUME NEW t \in TableNames, NEW e, e = Postgres!Put(c, t, c.aim)
      PROVE  /\ e.del = c.del /\ e.upd = c.upd
             /\ e.ins[t] = c.ins[t] \cup (c.aim \ (disk[t] \ c.del[t]))
             /\ \A q \in TableNames \ {t} : e.ins[q] = c.ins[q]
  BY <1>1, <1>4, PutRows
<1>5. CASE s.do = "insert_run"
  <2>1. d = Postgres!Put(c, "runs", c.aim)
    BY <1>1, <1>2, <1>5 DEF Postgres!Through
  <2>2. /\ d.del = c.del /\ d.upd = c.upd /\ d.ins.runs = c.ins.runs \cup (c.aim \ (disk.runs \ c.del.runs))
        /\ d.ins.spans = c.ins.spans /\ d.ins.marks = c.ins.marks /\ d.ins.tags = c.ins.tags
    BY <2>1, <1>3, <1>4
  <2> QED BY <1>1, <1>5, <2>2, InsertsRun DEF SameSpans, SameMarks, SameTags, PgOutcome
<1>6. CASE s.do = "insert_span"
  <2>1. d = Postgres!Put(c, "spans", c.aim)
    BY <1>1, <1>2, <1>6 DEF Postgres!Through
  <2>2. /\ d.del = c.del /\ d.upd = c.upd /\ d.ins.spans = c.ins.spans \cup (c.aim \ (disk.spans \ c.del.spans))
        /\ d.ins.runs = c.ins.runs /\ d.ins.marks = c.ins.marks /\ d.ins.tags = c.ins.tags
    BY <2>1, <1>3, <1>4
  <2> QED BY <1>1, <1>6, <2>2, InsertsSpan DEF SameRuns, SameMarks, SameTags, PgOutcome
<1>7. CASE s.do \in {"insert_tag", "copy_tag"}
  <2>1. d = Postgres!Put(c, "tags", c.aim)
    BY <1>1, <1>2, <1>7 DEF Postgres!Through
  <2>2. /\ d.del = c.del /\ d.upd = c.upd /\ d.ins.tags = c.ins.tags \cup (c.aim \ (disk.tags \ c.del.tags))
        /\ d.ins.runs = c.ins.runs /\ d.ins.marks = c.ins.marks /\ d.ins.spans = c.ins.spans
    BY <2>1, <1>3, <1>4
  <2> QED BY <1>1, <1>7, <2>2, InsertsTag DEF SameRuns, SameMarks, SameSpans, PgOutcome
<1>8. CASE s.do = "insert_mark"
  <2>1. PICK e : e = Postgres!Put(c, "marks", c.aim)  OBVIOUS
  <2>2. d = [e EXCEPT !.upd = @ \cup (c.aim \cap disk.marks)]
    BY <1>1, <1>2, <1>8, <2>1 DEF Postgres!Through
  <2>3. PgShape(e)  BY <1>1, <1>3, <2>1, PutFacts
  <2>4. /\ e.del = c.del /\ e.upd = c.upd /\ e.ins.marks = c.ins.marks \cup (c.aim \ (disk.marks \ c.del.marks))
        /\ e.ins.runs = c.ins.runs /\ e.ins.spans = c.ins.spans /\ e.ins.tags = c.ins.tags
    BY <2>1, <1>3, <1>4
  <2>5. d.ins = e.ins /\ d.del = e.del /\ d.upd = c.upd \cup (c.aim \cap disk.marks)
    BY <2>2, <2>3, <2>4 DEF PgShape
  <2>6. \A m \in c.aim : m[1] \in disk.runs \cup c.ins.runs /\ m[2] \in disk.tags \cup c.ins.tags
    <3>1. PICK db : db = Postgres!Seen(w)  OBVIOUS
    <3>2. \A m \in c.aim : m[1] \in db.runs /\ m[2] \in db.tags
      BY <1>1, <1>2, <1>8, <3>1 DEF Postgres!Dangles
    <3> QED BY <1>1, <3>1, <3>2, SeenRows
  <2>7. \A u \in Several : u # w /\ active[u] # None =>
          \A m \in c.aim : m[1] \notin active[u].del.runs /\ m[2] \notin active[u].del.tags
    BY <1>1, <1>8, NotHeld
  <2>8. SameRuns(c, d) /\ SameSpans(c, d) /\ SameTags(c, d) /\ d.del = c.del
    BY <2>4, <2>5 DEF SameRuns, SameSpans, SameTags
  <2>9. d.ins.marks = c.ins.marks \cup (c.aim \ (disk.marks \ c.del.marks))
    BY <2>4, <2>5
  <2>10. /\ PgDone(d, then, disk)
         /\ \A e1 : PgApart(c, e1, disk) /\ (\A m \in c.aim : m[1] \notin e1.del.runs /\ m[2] \notin e1.del.tags) =>
              PgApart(d, e1, disk)
    BY <1>1, <1>8, <2>5, <2>6, <2>8, <2>9, InsertsMark
  <2> QED BY <1>1, <2>7, <2>10 DEF PgOutcome
<1> QED BY <1>5, <1>6, <1>7, <1>8

LEMMA ThroughDeletes ==
  ASSUME NEW w, NEW c, NEW s, NEW then, PgExecutes(w, c, s, then), NEW d, d = Postgres!Through(w),
         s.do \in {"delete_spans", "delete_marks", "unmark", "drop_doubles", "move_marks", "delete_runs", "delete_tag"}
  PROVE  PgOutcome(w, d, then)
<1>1. /\ c = active[w] /\ PgShape(c) /\ PgReady(c, s, then, disk)
      /\ \A u \in Several : u # w /\ active[u] # None =>
           PgApart(c, active[u], disk) /\ ~Postgres!Holds(u, s, c.aim)
      /\ ~Postgres!Dangles(w)
  BY DEF PgExecutes, PgFree
<1>12. PgReady(c, s, then, disk)  BY <1>1
<1>2. Postgres!Now(w) = s
  BY DEF Postgres!Now, PgExecutes
<1>3. "runs" \in TableNames /\ "spans" \in TableNames /\ "marks" \in TableNames /\ "tags" \in TableNames
  BY DEF TableNames
<1>4. ASSUME NEW b, PgShape(b), NEW t \in TableNames, NEW old, NEW e, e = Postgres!Take(b, t, old)
      PROVE  /\ PgShape(e) /\ e.upd = b.upd
             /\ e.ins[t] = b.ins[t] \ old /\ e.del[t] = b.del[t] \cup (old \cap disk[t])
             /\ \A q \in TableNames \ {t} : e.ins[q] = b.ins[q] /\ e.del[q] = b.del[q]
  BY <1>4, TakeRows, TakeFacts
<1>5. PICK db : db = Postgres!Seen(w)  OBVIOUS
<1>6. /\ db.runs = (disk.runs \ c.del.runs) \cup c.ins.runs
      /\ db.spans = (disk.spans \ c.del.spans) \cup c.ins.spans
      /\ db.marks = (disk.marks \ c.del.marks) \cup c.ins.marks
      /\ db.tags = (disk.tags \ c.del.tags) \cup c.ins.tags
  BY <1>1, <1>5, SeenRows
<1>7. CASE s.do = "delete_spans"
  <2>1. PICK e : e = Postgres!Take(c, "spans", c.aim)  OBVIOUS
  <2>2. d = [e EXCEPT !.rest = Tail(@), !.aim = None]
    BY <1>1, <1>2, <1>7, <2>1 DEF Postgres!Through
  <2>3. /\ PgShape(e) /\ e.upd = c.upd
        /\ e.ins.spans = c.ins.spans \ c.aim /\ e.del.spans = c.del.spans \cup (c.aim \cap disk.spans)
        /\ SameRuns(c, e) /\ SameMarks(c, e) /\ SameTags(c, e)
    BY <1>1, <1>3, <1>4, <2>1 DEF SameRuns, SameMarks, SameTags
  <2>4. d.ins = e.ins /\ d.del = e.del /\ d.upd = e.upd
    BY <2>2, <2>3, OverRows
  <2>5. /\ d.ins.spans = c.ins.spans \ c.aim /\ d.del.spans = c.del.spans \cup (c.aim \cap disk.spans)
        /\ SameRuns(c, d) /\ SameMarks(c, d) /\ SameTags(c, d)
    BY <2>3, <2>4 DEF SameRuns, SameMarks, SameTags
  <2>6. \A u \in Several : u # w /\ active[u] # None => \A x \in c.aim : x \notin active[u].del.spans
    BY <1>1, <1>7, NotHeld
  <2>7. /\ PgDone(d, then, disk)
        /\ \A a : PgApart(c, a, disk) /\ (\A x \in c.aim : x \notin a.del.spans) => PgApart(d, a, disk)
    BY <1>1, <1>7, <2>5, DeletesSpans
  <2> QED BY <1>1, <2>6, <2>7 DEF PgOutcome
<1>8. CASE s.do \in {"delete_marks", "unmark", "drop_doubles"}
  <2>1. PICK e : e = Postgres!Take(c, "marks", c.aim)  OBVIOUS
  <2>2. d = [e EXCEPT !.rest = Tail(@), !.aim = None]
    BY <1>1, <1>2, <1>8, <2>1 DEF Postgres!Through
  <2>3. /\ PgShape(e) /\ e.upd = c.upd
        /\ e.ins.marks = c.ins.marks \ c.aim /\ e.del.marks = c.del.marks \cup (c.aim \cap disk.marks)
        /\ SameRuns(c, e) /\ SameSpans(c, e) /\ SameTags(c, e)
    BY <1>1, <1>3, <1>4, <2>1 DEF SameRuns, SameSpans, SameTags
  <2>4. d.ins = e.ins /\ d.del = e.del /\ d.upd = e.upd
    BY <2>2, <2>3, OverRows
  <2>5. /\ d.ins.marks = c.ins.marks \ c.aim /\ d.del.marks = c.del.marks \cup (c.aim \cap disk.marks)
        /\ SameRuns(c, d) /\ SameSpans(c, d) /\ SameTags(c, d) /\ d.upd = c.upd
    BY <2>3, <2>4 DEF SameRuns, SameSpans, SameTags
  <2>6. \A u \in Several : u # w /\ active[u] # None => \A m \in c.aim : m \notin Touched(active[u])
    BY <1>1, <1>8, NotHeld
  <2>7. /\ PgDone(d, then, disk)
        /\ \A a : PgApart(c, a, disk) /\ (\A m \in c.aim : m \notin Touched(a)) => PgApart(d, a, disk)
    BY <1>1, <1>8, <2>5, DeletesMarks
  <2> QED BY <1>1, <2>6, <2>7 DEF PgOutcome
<1>9. CASE s.do = "move_marks"
  <2>1. PICK o, n \in Tags : s.rows = {<<o, n>>}  BY <1>1, <1>9 DEF PgReady, PgFits
  <2>2. (CHOOSE p \in s.rows : TRUE)[2] = n
    <3>1. PICK p : p = <<o, n>>  OBVIOUS
    <3>2. s.rows = {p} /\ p[2] = n  BY <2>1, <3>1
    <3>3. (CHOOSE q \in {p} : TRUE) = p  OBVIOUS
    <3> QED BY ONLY <3>2, <3>3
  <2>3. PICK moved : moved = c.aim \cap db.marks  OBVIOUS
  <2>4. PICK new : new = {<<m[1], n>> : m \in moved}  OBVIOUS
  <2>5. PICK e : e = Postgres!Take(c, "marks", moved)  OBVIOUS
  <2>6. d = Postgres!Put(e, "marks", new)
    BY <1>1, <1>2, <1>5, <1>9, <2>2, <2>3, <2>4, <2>5 DEF Postgres!Through
  <2>7. /\ PgShape(e) /\ e.upd = c.upd
        /\ e.ins.marks = c.ins.marks \ moved /\ e.del.marks = c.del.marks \cup (moved \cap disk.marks)
        /\ SameRuns(c, e) /\ SameSpans(c, e) /\ SameTags(c, e)
    BY <1>1, <1>3, <1>4, <2>5 DEF SameRuns, SameSpans, SameTags
  <2>8. /\ d.del = e.del /\ d.upd = e.upd
        /\ d.ins.marks = e.ins.marks \cup (new \ (disk.marks \ e.del.marks))
        /\ d.ins.runs = e.ins.runs /\ d.ins.spans = e.ins.spans /\ d.ins.tags = e.ins.tags
    BY <1>3, <2>6, <2>7, PutRows
  <2>9. /\ SameRuns(c, d) /\ SameSpans(c, d) /\ SameTags(c, d) /\ d.upd = c.upd
        /\ d.del.marks = c.del.marks \cup (moved \cap disk.marks)
        /\ d.ins.marks = (c.ins.marks \ moved) \cup (new \ (disk.marks \ d.del.marks))
    BY <2>7, <2>8 DEF SameRuns, SameSpans, SameTags
  <2>10. moved # {} => n \in disk.tags \cup c.ins.tags
    <3>1. \A m \in moved : \A p \in s.rows : p[2] \in db.tags
      BY <1>1, <1>2, <1>5, <1>9, <2>3 DEF Postgres!Dangles
    <3>2. <<o, n>> \in s.rows /\ <<o, n>>[2] = n  BY <2>1
    <3> QED BY <1>6, <3>1, <3>2
  <2>11. \A u \in Several : u # w /\ active[u] # None =>
           (\A m \in c.aim : m \notin Touched(active[u])) /\ (moved # {} => n \notin active[u].del.tags)
    <3> TAKE u \in Several
    <3>1. HAVE u # w /\ active[u] # None
    <3>2. <<o, n>> \in s.rows /\ <<o, n>>[2] = n /\ (moved # {} => c.aim # {})
      BY <2>1, <2>3
    <3>3. ~Postgres!Holds(u, s, c.aim)  BY <1>1, <3>1
    <3>4. /\ s.rows # {} => \A m \in c.aim : m \notin Touched(active[u])
          /\ c.aim # {} => \A p \in s.rows : p[2] \notin active[u].del.tags
      BY <1>9, <3>3, NotHeld
    <3> QED BY <3>2, <3>4
  <2>12. /\ \A m : m \in moved <=> m \in c.aim /\ m \in (disk.marks \ c.del.marks) \cup c.ins.marks
         /\ \A p : p \in new => \E m \in moved : p = <<m[1], n>>
    BY <1>6, <2>3, <2>4
  <2>13. /\ PgDone(d, then, disk)
         /\ \A a : /\ PgApart(c, a, disk) /\ (\A m \in c.aim : m \notin Touched(a))
                   /\ moved # {} => n \notin a.del.tags
                   => PgApart(d, a, disk)
    <3>1. Moves(c, d, disk, n, moved, new)
      BY ONLY <2>9, <2>10, <2>12 DEF Moves
    <3> QED BY ONLY <1>9, <1>12, n \in Tags, <3>1, MovesMarks
  <2> QED BY <1>1, <2>11, <2>13 DEF PgOutcome
<1>10. CASE s.do = "delete_runs"
  <2>1. PICK old : old = {m \in db.marks : m[1] \in c.aim}  OBVIOUS
  <2>2. PICK e : e = Postgres!Take(c, "runs", c.aim)  OBVIOUS
  <2>3. PICK f : f = Postgres!Take(e, "marks", old)  OBVIOUS
  <2>4. d = [f EXCEPT !.rest = Tail(@), !.aim = None]
    BY <1>1, <1>2, <1>5, <1>10, <2>1, <2>2, <2>3 DEF Postgres!Through
  <2>5. /\ PgShape(e) /\ e.upd = c.upd
        /\ e.ins.runs = c.ins.runs \ c.aim /\ e.del.runs = c.del.runs \cup (c.aim \cap disk.runs)
        /\ e.ins.marks = c.ins.marks /\ e.del.marks = c.del.marks
        /\ SameSpans(c, e) /\ SameTags(c, e)
    BY <1>1, <1>3, <1>4, <2>2 DEF SameSpans, SameTags
  <2>6. /\ PgShape(f) /\ f.upd = e.upd
        /\ f.ins.marks = e.ins.marks \ old /\ f.del.marks = e.del.marks \cup (old \cap disk.marks)
        /\ SameRuns(e, f) /\ SameSpans(e, f) /\ SameTags(e, f)
    BY <1>3, <1>4, <2>3, <2>5 DEF SameRuns, SameSpans, SameTags
  <2>7. d.ins = f.ins /\ d.del = f.del /\ d.upd = f.upd
    BY <2>4, <2>6, OverRows
  <2>8. /\ SameSpans(c, d) /\ SameTags(c, d) /\ d.upd = c.upd
        /\ d.ins.runs = c.ins.runs \ c.aim /\ d.del.runs = c.del.runs \cup (c.aim \cap disk.runs)
        /\ d.ins.marks = c.ins.marks \ old /\ d.del.marks = c.del.marks \cup (old \cap disk.marks)
    BY <2>5, <2>6, <2>7 DEF SameRuns, SameSpans, SameTags
  <2>9. \A x \in SpansIn(c.aim) : x \notin c.ins.spans /\ (x \in disk.spans => x \in c.del.spans)
    <3>1. SpansIn(c.aim) \cap db.spans = {}
      <4>1. Postgres!SpansIn(c.aim) = SpansIn(c.aim)
        BY DEF Postgres!SpansIn, SpansIn, Postgres!SpanIds, SpanIds
      <4> QED BY <1>1, <1>2, <1>5, <1>10, <4>1 DEF Postgres!Dangles
    <3> QED BY <1>6, <3>1
  <2>10. \A u \in Several : u # w /\ active[u] # None =>
           (\A r \in c.aim : r \notin active[u].del.runs) /\ (\A m \in Touched(active[u]) : m[1] \notin c.aim)
    BY <1>1, <1>10, NotHeld
  <2>11. \A m : m \in old <=> m \in (disk.marks \ c.del.marks) \cup c.ins.marks /\ m[1] \in c.aim
    BY <1>6, <2>1
  <2>12. /\ PgDone(d, then, disk)
         /\ \A a : /\ PgApart(c, a, disk)
                   /\ \A r \in c.aim : r \notin a.del.runs
                   /\ \A m \in Touched(a) : m[1] \notin c.aim
                   => PgApart(d, a, disk)
    BY ONLY <1>10, <1>12, <2>8, <2>9, <2>11, DeletesRuns
  <2> QED BY <1>1, <2>10, <2>12 DEF PgOutcome
<1>11. CASE s.do = "delete_tag"
  <2>1. PICK old : old = {m \in db.marks : m[2] \in c.aim}  OBVIOUS
  <2>2. PICK e : e = Postgres!Take(c, "tags", c.aim)  OBVIOUS
  <2>3. PICK f : f = Postgres!Take(e, "marks", old)  OBVIOUS
  <2>4. d = [f EXCEPT !.rest = Tail(@), !.aim = None]
    BY <1>1, <1>2, <1>5, <1>11, <2>1, <2>2, <2>3 DEF Postgres!Through
  <2>5. /\ PgShape(e) /\ e.upd = c.upd
        /\ e.ins.tags = c.ins.tags \ c.aim /\ e.del.tags = c.del.tags \cup (c.aim \cap disk.tags)
        /\ e.ins.marks = c.ins.marks /\ e.del.marks = c.del.marks
        /\ SameSpans(c, e) /\ SameRuns(c, e)
    BY <1>1, <1>3, <1>4, <2>2 DEF SameSpans, SameRuns
  <2>6. /\ PgShape(f) /\ f.upd = e.upd
        /\ f.ins.marks = e.ins.marks \ old /\ f.del.marks = e.del.marks \cup (old \cap disk.marks)
        /\ SameRuns(e, f) /\ SameSpans(e, f) /\ SameTags(e, f)
    BY <1>3, <1>4, <2>3, <2>5 DEF SameRuns, SameSpans, SameTags
  <2>7. d.ins = f.ins /\ d.del = f.del /\ d.upd = f.upd
    BY <2>4, <2>6, OverRows
  <2>8. /\ SameSpans(c, d) /\ SameRuns(c, d) /\ d.upd = c.upd
        /\ d.ins.tags = c.ins.tags \ c.aim /\ d.del.tags = c.del.tags \cup (c.aim \cap disk.tags)
        /\ d.ins.marks = c.ins.marks \ old /\ d.del.marks = c.del.marks \cup (old \cap disk.marks)
    BY <2>5, <2>6, <2>7 DEF SameRuns, SameSpans, SameTags
  <2>9. \A u \in Several : u # w /\ active[u] # None => \A m \in Touched(active[u]) : m[2] \notin c.aim
    BY <1>1, <1>11, NotHeld
  <2>10. \A m : m \in old <=> m \in (disk.marks \ c.del.marks) \cup c.ins.marks /\ m[2] \in c.aim
    BY <1>6, <2>1
  <2>11. /\ PgDone(d, then, disk)
         /\ \A a : /\ PgApart(c, a, disk)
                   /\ \A m \in Touched(a) : m[2] \notin c.aim
                   => PgApart(d, a, disk)
    BY ONLY <1>11, <1>12, <2>8, <2>10, DeletesTag
  <2> QED BY <1>1, <2>9, <2>11 DEF PgOutcome
<1> QED BY <1>7, <1>8, <1>9, <1>10, <1>11

-----------------------------------------------------------------------------
(* The Postgres store is whole *)

(* Worker w's call becomes c, and the rows others' calls rest on are there. *)
LEMMA PgWholeTurn ==
  ASSUME PgKept, PgWhole, NEW w \in Several, NEW c, active' = [active EXCEPT ![w] = c], Whole(disk'),
         c # None => PgSound(c, disk'),
         \A u \in Several : u # w /\ active[u] # None =>
           PgSound(active[u], disk') /\ (c # None => Barred(c, active[u]) /\ Barred(active[u], c))
  PROVE  PgWhole'
<1>1. /\ DOMAIN active = Several /\ active'[w] = c
      /\ \A u \in Several : u # w => active'[u] = active[u]
  BY PgSent
<1>2. \A u \in Several : active'[u] # None => PgSound(active'[u], disk')
  <2> TAKE u \in Several
  <2>1. CASE u = w  BY <1>1, <2>1
  <2>2. CASE u # w
    BY <1>1, <2>2
  <2> QED BY <2>1, <2>2
<1>3. \A u, v \in Several : u # v /\ active'[u] # None /\ active'[v] # None => Barred(active'[u], active'[v])
  <2> TAKE u, v \in Several
  <2>1. CASE u = w \/ v = w  BY <1>1, <2>1
  <2>2. CASE u # w /\ v # w
    BY <1>1, <2>2 DEF PgWhole
  <2> QED BY <2>1, <2>2
<1> QED
  BY ONLY Whole(disk'), <1>2, <1>3
  DEF PgWhole, Whole, SpansIn, SpanIds, Methods, PgSound, PgOrderly, PgDoes, PgFits, Later, Ahead, Statement, Leaves,
      PgSpans, PgMarks, PgMeets, PgAims, Barred, Touched

(* The rows stay. *)
LEMMA PgWholeUnwritten ==
  ASSUME PgKept, PgWhole, NEW w \in Several, NEW c, active' = [active EXCEPT ![w] = c], disk' = disk,
         c # None => /\ PgSound(c, disk)
                     /\ \A u \in Several : u # w /\ active[u] # None =>
                          Barred(c, active[u]) /\ Barred(active[u], c)
  PROVE  PgWhole'
<1>1. Whole(disk) /\ \A u \in Several : active[u] # None => PgSound(active[u], disk)
  BY DEF PgWhole
<1>2. Whole(disk') /\ (c # None => PgSound(c, disk')) /\ \A u \in Several : active[u] # None => PgSound(active[u], disk')
  BY <1>1
<1> QED BY <1>2, PgWholeTurn

(* A call that has just begun. *)
LEMMA NewSound ==
  ASSUME NEW op \in Methods, NEW on \in SUBSET Traces, NEW prog, PgOpens(op, on, prog),
         NEW c, c = Postgres!Call(op, on, prog)
  PROVE  /\ \A db : PgSound(c, db)
         /\ \A e : Barred(c, e) /\ Barred(e, c)
<1>1. /\ c.op = op /\ c.on = on /\ c.rest = prog /\ c.aim = None /\ c.ins = NoRows /\ c.del = NoRows /\ c.upd = {}
  BY PgTerms DEF Postgres!Call
<1>2. /\ c.ins.runs = {} /\ c.ins.spans = {} /\ c.ins.marks = {} /\ c.ins.tags = {}
      /\ c.del.runs = {} /\ c.del.spans = {} /\ c.del.marks = {} /\ c.del.tags = {}
  BY <1>1 DEF NoRows
<1>3. PgOrderly(op, on, prog) /\ (op = "export" => Head(prog).do = "insert_run")
  BY DEF PgOpens
<1>4. \A a \in Ahead(prog) : a.do \in PgDoes[op]
  BY <1>3 DEF PgOrderly, Ahead
<1>5. \A a \in Ahead(prog) : a.do = "insert_span" => Head(prog).do = "insert_run"
  <2>1. "insert_span" \in PgDoes[op] => op = "export"
    BY DEF PgDoes, Methods
  <2> QED BY <1>3, <1>4, <2>1
<1>6. PgSpans(c, Ahead(prog), Head(prog))
  BY <1>2, <1>5, SpansInFact DEF PgSpans
<1>7. PgMarks(c) /\ (\A db : PgMeets(c, db)) /\ PgAims(c, Head(prog))
  BY <1>1, <1>2 DEF PgMarks, PgMeets, PgAims
<1>8. \A db : PgSound(c, db)
  BY <1>1, <1>3, <1>6, <1>7 DEF PgSound
<1>9. \A e : Barred(c, e) /\ Barred(e, c)  BY <1>1, <1>2 DEF Barred, Touched
<1> QED BY <1>8, <1>9

LEMMA PgWholeBegins ==
  ASSUME PgKept, PgWhole, NEW w \in Several, NEW op \in Methods, NEW on \in SUBSET Traces, NEW prog,
         PgOpens(op, on, prog), disk' = disk, active' = [active EXCEPT ![w] = Postgres!Call(op, on, prog)]
  PROVE  PgWhole'
<1>1. PICK c : c = Postgres!Call(op, on, prog)  OBVIOUS
<1>2. (\A db : PgSound(c, db)) /\ \A e : Barred(c, e) /\ Barred(e, c)
  BY <1>1, NewSound
<1> QED BY <1>1, <1>2, PgWholeUnwritten

LEMMA PgWholeBegun ==
  ASSUME PgKept, PgWhole, NEW w \in Several,
         \/ \E r \in Traces : Postgres!Export(w, r)
         \/ \E R \in SUBSET disk.runs : Postgres!Delete(w, R)
         \/ PgOthers(w)
  PROVE  PgWhole'
<1>1. ASSUME NEW op \in Methods, NEW on \in SUBSET Traces, NEW prog, PgOpens(op, on, prog),
             Postgres!Begin(w, op, on, prog)
      PROVE  PgWhole'
  BY <1>1, PgWholeBegins DEF Postgres!Begin
<1>2. ASSUME NEW r \in Traces, Postgres!Export(w, r) PROVE PgWhole'
  <2>1. /\ disk' = disk
        /\ active' = [active EXCEPT ![w] = Postgres!Call("export", {r}, Postgres!ExportProgram(r))]
    BY <1>2 DEF Postgres!Export
  <2>2. PICK op, on, prog : op = "export" /\ on = {r} /\ prog = Postgres!ExportProgram(r)  OBVIOUS
  <2>3. op \in Methods /\ on \in SUBSET Traces /\ PgOpens(op, on, prog)
    BY <2>2, PgExportOpens DEF Methods
  <2>4. active' = [active EXCEPT ![w] = Postgres!Call(op, on, prog)]
    BY <2>1, <2>2
  <2> QED BY <2>1, <2>3, <2>4, PgWholeBegins
<1>3. ASSUME NEW R \in SUBSET disk.runs, Postgres!Delete(w, R) PROVE PgWhole'
  <2>1. R \in SUBSET Traces  BY PgSent
  <2>2. Postgres!Begin(w, "delete", R, DeleteRuns(R))
    BY <1>3, PgTerms DEF Postgres!Delete
  <2>3. PgOpens("delete", R, DeleteRuns(R))
    BY <2>1, PgDeleteOpens DEF PgOpens
  <2> QED BY <1>1, <2>1, <2>2, <2>3 DEF Methods
<1>4. /\ \A n : PgOpens("prune", {}, <<Postgres!Select("select_old", n)>>)
      /\ \A x, on : PgOpens("untag", on, <<Postgres!Statement("unmark", x)>>)
      /\ \A x : PgOpens("color", {}, <<Postgres!Statement("insert_tag", x)>>)
      /\ \A x : PgOpens("delete_tag", {}, <<Postgres!Statement("delete_tag", x)>>)
  <2>1. \A do, x : Postgres!Statement(do, x) = Statement(do, x) /\ Postgres!Select(do, x) = Statement(do, x)
    BY PgTerms
  <2>2. \A n : PgOpens("prune", {}, <<Statement("select_old", n)>>)
    BY PgOneOpens
  <2>3. \A x, on : PgOpens("untag", on, <<Statement("unmark", x)>>)
    BY PgOneOpens
  <2>4. \A x : PgOpens("color", {}, <<Statement("insert_tag", x)>>)
    BY PgOneOpens
  <2>5. \A x : PgOpens("delete_tag", {}, <<Statement("delete_tag", x)>>)
    BY PgOneOpens
  <2> QED BY ONLY <2>1, <2>2, <2>3, <2>4, <2>5
<1>5. ASSUME NEW n \in 0 .. MaxRuns, Postgres!PruneTo(w, n) PROVE PgWhole'
  <2> DEFINE p == <<Postgres!Select("select_old", n)>>
  <2>1. PgOpens("prune", {}, p) /\ Postgres!Begin(w, "prune", {}, p)
    BY <1>4, <1>5 DEF Postgres!PruneTo
  <2> HIDE DEF p
  <2> QED BY <1>1, <2>1 DEF Methods
<1>6. ASSUME NEW R \in SUBSET Traces, NEW t \in Tags, Postgres!TagRuns(w, R, t) PROVE PgWhole'
  <2>1. PICK e \in Postgres!Orders(R \cap disk.runs) :
               Postgres!Begin(w, "tag", R, Postgres!AssignTag(e, t))
    BY <1>6 DEF Postgres!TagRuns
  <2>2. R \cap disk.runs \in SUBSET Traces  OBVIOUS
  <2>3. PgOpens("tag", R, Postgres!AssignTag(e, t))
    BY <2>1, <2>2, PgAssignOpens
  <2> QED BY <1>1, <2>1, <2>3 DEF Methods
<1>7. ASSUME NEW R \in SUBSET Traces, NEW t \in Tags, Postgres!UntagRuns(w, R, t) PROVE PgWhole'
  <2> DEFINE p == <<Postgres!Statement("unmark", R \X {t})>>
  <2>1. PgOpens("untag", R, p) /\ Postgres!Begin(w, "untag", R, p)
    BY <1>4, <1>7 DEF Postgres!UntagRuns
  <2> HIDE DEF p
  <2> QED BY <1>1, <2>1 DEF Methods
<1>8. ASSUME NEW o \in Tags, NEW n \in Tags, Postgres!RenameTag(w, o, n) PROVE PgWhole'
  <2>1. /\ PgOpens("rename", {}, Postgres!RenameProgram(o, n))
        /\ Postgres!Begin(w, "rename", {}, Postgres!RenameProgram(o, n))
    BY <1>8, PgRenameOpens DEF Postgres!RenameTag
  <2> QED BY <1>1, <2>1 DEF Methods
<1>9. ASSUME NEW t \in Tags, Postgres!SetTagColor(w, t) PROVE PgWhole'
  <2> DEFINE p == <<Postgres!Statement("insert_tag", {t})>>
  <2>1. PgOpens("color", {}, p) /\ Postgres!Begin(w, "color", {}, p)
    BY <1>4, <1>9 DEF Postgres!SetTagColor
  <2> HIDE DEF p
  <2> QED BY <1>1, <2>1 DEF Methods
<1>10. ASSUME NEW t \in Tags, Postgres!DeleteTag(w, t) PROVE PgWhole'
  <2> DEFINE p == <<Postgres!Statement("delete_tag", {t})>>
  <2>1. PgOpens("delete_tag", {}, p) /\ Postgres!Begin(w, "delete_tag", {}, p)
    BY <1>4, <1>10 DEF Postgres!DeleteTag
  <2> HIDE DEF p
  <2> QED BY <1>1, <2>1 DEF Methods
<1> QED BY <1>2, <1>3, <1>5, <1>6, <1>7, <1>8, <1>9, <1>10 DEF PgOthers

(* A statement that starts: what it is to find. *)
LEMMA PgWholeStart ==
  ASSUME PgKept, PgWhole, NEW w \in Several, Postgres!Start(w)
  PROVE  PgWhole'
<1> DEFINE c == active[w]
           s == Head(c.rest)
           aim == Postgres!Found(w, s)
           d == [c EXCEPT !.aim = aim]
<1>1. /\ c # None /\ c.rest # <<>> /\ active' = [active EXCEPT ![w].aim = aim] /\ disk' = disk
  BY DEF Postgres!Start, Postgres!Running, Postgres!Now, Postgres!history
<1>2. active' = [active EXCEPT ![w] = d]  BY <1>1
<1>3. PgCall(c) /\ PgSound(c, disk) /\ Whole(disk)
  BY <1>1, PgCallKept DEF PgWhole
<1>4. PICK db : db = Postgres!Seen(w)  OBVIOUS
<1>5. /\ db.runs = (disk.runs \ c.del.runs) \cup c.ins.runs
      /\ db.spans = (disk.spans \ c.del.spans) \cup c.ins.spans
  BY <1>4, SeenRows
<1>6. /\ s.do \in {"insert_span", "insert_mark"} => aim = s.rows
      /\ s.do = "delete_spans" => aim \subseteq SpansIn(s.rows)
      /\ s.do = "delete_runs" => aim = s.rows \cap db.runs
  <2>1. CASE s.do \in {"insert_span", "insert_mark"}
    BY <2>1 DEF Postgres!Found
  <2>2. CASE s.do = "delete_spans"
    <3>1. Postgres!SpansIn(s.rows) = SpansIn(s.rows)
      BY DEF Postgres!SpansIn, SpansIn, Postgres!SpanIds, SpanIds
    <3> QED BY <2>2, <3>1 DEF Postgres!Found
  <2>3. CASE s.do = "delete_runs"  BY <1>4, <2>3 DEF Postgres!Found
  <2> QED BY <2>1, <2>2, <2>3
<1>7. /\ d.op = c.op /\ d.on = c.on /\ d.rest = c.rest /\ d.aim = aim
      /\ d.ins = c.ins /\ d.del = c.del /\ d.upd = c.upd
  BY <1>3 DEF PgCall, PgShape, Shaped
<1> HIDE DEF d, aim, s
<1>8. c.del.runs = {} /\ c.del.tags = {}  BY <1>1, <1>3 DEF PgSound, PgAims
<1>9. \A x \in c.del.spans : x[1] \in disk.runs
  BY <1>3, SpansInFact DEF PgSound, PgMeets, Whole
<1>10. PgAims(d, s)
  BY <1>5, <1>6, <1>7, <1>8, <1>9, SpansInFact DEF PgAims
<1>11. PgSound(d, disk)
  <2>1. /\ PgOrderly(c.op, c.on, c.rest) /\ PgSpans(c, Ahead(c.rest), s) /\ PgMarks(c) /\ PgMeets(c, disk)
    BY <1>3 DEF PgSound, s
  <2>2. PgSpans(d, Ahead(d.rest), s) /\ PgMarks(d) /\ PgMeets(d, disk)
    BY <1>7, <2>1 DEF PgSpans, PgMarks, PgMeets
  <2>3. c.op \in Methods  BY <1>3 DEF PgSound
  <2> QED BY <1>7, <1>10, <2>1, <2>2, <2>3 DEF PgSound, s
<1>12. \A u \in Several : u # w /\ active[u] # None => Barred(d, active[u]) /\ Barred(active[u], d)
  BY <1>1, <1>7 DEF PgWhole, Barred, Touched
<1> HIDE DEF c
<1> QED BY <1>1, <1>2, <1>11, <1>12, PgWholeUnwritten

(* A search for the runs to prune. *)
LEMMA ThroughSelect ==
  ASSUME NEW w, NEW c, NEW s, NEW then, PgExecutes(w, c, s, then), NEW d, d = Postgres!Through(w),
         s.do = "select_old"
  PROVE  /\ d.ins = c.ins /\ d.del = c.del /\ d.upd = c.upd
         /\ \A ahead, after : (\A a \in ahead : a.do # "insert_span") => PgSpans(d, ahead, after)
         /\ PgMarks(d) /\ PgMeets(d, disk) /\ d.del.runs = {} /\ d.del.tags = {}
<1>1. c = active[w] /\ PgShape(c) /\ PgReady(c, s, then, disk) /\ Postgres!Now(w) = s
  BY DEF PgExecutes, Postgres!Now
<1>2. d = [c EXCEPT !.rest = (IF c.aim = {} THEN <<>> ELSE DeleteRuns(c.aim)) \o Tail(@), !.aim = None]
  BY <1>1, PgTerms DEF Postgres!Through
<1>3. d.ins = c.ins /\ d.del = c.del /\ d.upd = c.upd
  BY <1>1, <1>2 DEF PgShape
<1>4. PgSpans(c, {s}, s) /\ PgMarks(c) /\ PgMeets(c, disk) /\ PgAims(c, s)
  <2>1. then = {}  BY <1>1 DEF PgReady, PgFits
  <2>2. {s} \cup then = {s}
    BY <2>1
  <2>3. PgSpans(c, {s} \cup then, s)  BY <1>1 DEF PgReady
  <2> QED BY <1>1, <2>2, <2>3 DEF PgReady
<1>5. \A x : Statement("insert_span", {x}) # s  BY StatementFields
<1>6. \A r : ~Leaves({s}, r)
  BY DEF Leaves
<1>7. ASSUME NEW ahead, \A a \in ahead : a.do # "insert_span", NEW after PROVE PgSpans(d, ahead, after)
  BY <1>3, <1>4, <1>5, <1>6, <1>7 DEF PgSpans
<1> QED BY <1>3, <1>4, <1>7 DEF PgMarks, PgMeets, PgAims

(* A statement that goes through. *)
LEMMA PgWholeExecute ==
  ASSUME PgKept, PgWhole, NEW w \in Several, Postgres!Execute(w)
  PROVE  PgWhole'
<1> DEFINE c == active[w]
           s == Head(c.rest)
           then == Ahead(Tail(c.rest))
           d == Postgres!Through(w)
<1>1. /\ c # None /\ c.rest # <<>> /\ c.aim # None /\ active' = [active EXCEPT ![w] = d]
      /\ disk' = disk /\ Postgres!WaitsFor(w) = {} /\ ~Postgres!Dangles(w)
      /\ Postgres!Running(w) /\ Postgres!Now(w) = s
  BY DEF Postgres!Execute, Postgres!Running, Postgres!Now
<1>2. /\ PgCall(c) /\ PgSound(c, disk) /\ Whole(disk)
      /\ c.op = "export" => \A r \in c.on : r \notin Past
  BY <1>1, PgCallKept DEF PgWhole
<1>3. /\ PgShape(c) /\ c.rest \in Seq(Statements) /\ Ordered(c.op, c.on, c.rest)
      /\ \A r \in c.ins.runs : c.op = "export" /\ r \in c.on
      /\ s.do = "insert_run" => c.aim = c.on
      /\ s.do = "select_old" => c.aim \in SUBSET Traces
  BY <1>1, <1>2 DEF PgCall
<1>4. disk.runs \subseteq Past /\ disk.runs \subseteq Traces
  BY PgSent
<1>5. /\ s.do \in PgKnown
      /\ s.do = "insert_run" => c.op = "export"
      /\ s.do = "select_old" => Tail(c.rest) = <<>>
  <2> DEFINE rest == c.rest
             op == c.op
             on == c.on
  <2>1. rest \in Seq(Statements) /\ rest # <<>> /\ Ordered(op, on, rest)
    BY <1>1, <1>3
  <2> HIDE DEF rest, op, on
  <2>2. OrderedOn(op, on, rest)  BY ONLY <2>1, OrderedTail
  <2> QED BY ONLY <2>2 DEF rest, op, on, OrderedOn
<1>6. /\ Ahead(c.rest) = {s} \cup then /\ PgOrderly(c.op, c.on, Tail(c.rest))
      /\ s.do \in PgDoes[c.op] /\ PgFits(s, then, c.on)
      /\ Tail(c.rest) \in Seq(Statements)
  <2> DEFINE rest == c.rest
             op == c.op
             on == c.on
  <2>1. rest \in Seq(Statements) /\ rest # <<>> /\ PgOrderly(op, on, rest)
    BY <1>1, <1>2, <1>3 DEF PgSound
  <2> HIDE DEF rest, op, on
  <2>2. Ahead(rest) = {Head(rest)} \cup Ahead(Tail(rest)) /\ Tail(rest) \in Seq(Statements)
    BY ONLY <2>1, AheadTail, TailFacts
  <2>3. PgOrderly(op, on, Tail(rest)) /\ Head(rest).do \in PgDoes[op] /\ PgFits(Head(rest), Ahead(Tail(rest)), on)
    BY ONLY <2>1, PgOrderlyTail
  <2> QED BY ONLY <2>2, <2>3 DEF rest, op, on, s, then
<1>7. PgReady(c, s, then, disk)
  <2>1. PgSpans(c, {s} \cup then, s) /\ PgMarks(c) /\ PgMeets(c, disk) /\ PgAims(c, s)
    BY <1>1, <1>2, <1>6 DEF PgSound
  <2>2. /\ \A r \in c.ins.runs : r \notin disk.runs
        /\ s.do = "insert_run" => \A r \in c.on : r \notin disk.runs
    BY <1>2, <1>3, <1>4, <1>5
  <2> HIDE DEF c, s, then
  <2> QED BY <1>1, <1>2, <1>3, <1>4, <1>6, <2>1, <2>2 DEF PgReady
<1>8. \A u \in Several : u # w /\ active[u] # None =>
        PgApart(c, active[u], disk) /\ ~Postgres!Holds(u, s, c.aim)
  <2> TAKE u \in Several
  <2>1. HAVE u # w /\ active[u] # None
  <2>2. PgSound(active[u], disk) /\ Barred(c, active[u]) /\ Barred(active[u], c)
    BY <1>1, <2>1 DEF PgWhole
  <2>3. PgApart(c, active[u], disk)  BY <2>2 DEF PgApart, PgSound
  <2>4. u \in Postgres!Others(w)
    BY <2>1 DEF Postgres!Others, Postgres!Busy
  <2>5. ~Postgres!Holds(u, s, c.aim)
    BY <1>1, <2>4 DEF Postgres!WaitsFor
  <2> QED BY <2>3, <2>5
<1>9. PgExecutes(w, c, s, then)
  <2>1. \A a \in then : a.do = "insert_span" => \E x \in SpanIds : a.rows = {x} /\ x[1] \in c.on
    BY <1>6, SpansAhead
  <2>2. PgFree(w, c, s)  BY <1>1, <1>8 DEF PgFree
  <2> QED BY <1>1, <1>3, <1>5, <1>6, <1>7, <2>1, <2>2 DEF PgExecutes
<1>10. GoneThrough(c, s, d)
  <2>1. PICK a, b, e : a = c /\ b = s /\ e = d  OBVIOUS
  <2>2. a = active[w] /\ PgShape(a) /\ b = Head(a.rest) /\ b.do \in PgKnown /\ e = Postgres!Through(w)
    BY <1>3, <1>5, <2>1
  <2>3. GoneThrough(a, b, e)  BY ONLY <2>2, ThroughFacts
  <2> QED BY <2>1, <2>3
<1>11. PgAims(c, s)  BY <1>7 DEF PgReady
<1>12. Tail(c.rest) # <<>> => then # {}
  <2> DEFINE t == Tail(c.rest)
  <2>1. t \in Seq(Statements)  BY <1>6
  <2> HIDE DEF t
  <2>2. t # <<>> => Head(t) \in Ahead(t)  BY <2>1, HeadAhead
  <2> QED BY <2>2 DEF t
<1>13. CASE s.do # "select_old"
  <2>1. PgOutcome(w, d, then)
    <3>1. \/ s.do \in {"insert_run", "insert_span", "insert_tag", "copy_tag", "insert_mark"}
          \/ s.do \in {"delete_spans", "delete_marks", "unmark", "drop_doubles", "move_marks", "delete_runs", "delete_tag"}
      BY <1>5, <1>13 DEF PgKnown, Kinds
    <3>2. PICK a, b, f, e : a = c /\ b = s /\ f = then /\ e = d  OBVIOUS
    <3> HIDE DEF c, s, then, d
    <3>3. PgExecutes(w, a, b, f) /\ e = Postgres!Through(w)
      BY <1>9, <3>2 DEF d
    <3>4. PgOutcome(w, e, f)
      BY ONLY <3>1, <3>2, <3>3, ThroughInserts, ThroughDeletes
    <3> QED BY ONLY <3>2, <3>4
  <2>2. d.op = c.op /\ d.on = c.on /\ d.aim = None /\ d.rest = Tail(c.rest)
    BY <1>10, <1>13 DEF GoneThrough
  <2> HIDE DEF d, s
  <2>3. PgDone(d, then, disk)  BY <2>1 DEF PgOutcome
  <2>4. PgSpans(d, then, Head(d.rest)) /\ PgMarks(d) /\ PgMeets(d, disk)
    BY <2>3 DEF PgDone
  <2>5. d.rest # <<>> => PgAims(d, Head(d.rest))
    BY <1>12, <2>2, <2>3 DEF PgDone, PgAims
  <2>6. PgSound(d, disk)
    BY <1>2, <1>6, <2>2, <2>4, <2>5 DEF PgSound
  <2>7. \A u \in Several : u # w /\ active[u] # None => Barred(d, active[u]) /\ Barred(active[u], d)
    BY <2>1 DEF PgOutcome, PgApart
  <2> QED BY <1>1, <2>6, <2>7, PgWholeUnwritten
<1>14. CASE s.do = "select_old"
  <2>1. /\ d.op = c.op /\ d.on = c.on /\ d.aim = None
        /\ d.rest = (IF c.aim = {} THEN <<>> ELSE DeleteRuns(c.aim)) \o Tail(c.rest)
    BY <1>10, <1>14 DEF GoneThrough
  <2>2. d.rest = IF c.aim = {} THEN <<>> ELSE DeleteRuns(c.aim)
    <3>1. PICK p : p = IF c.aim = {} THEN <<>> ELSE DeleteRuns(c.aim)  OBVIOUS
    <3>2. p \in Seq(Statements)
      <4>1. DeleteRuns(c.aim) \in Seq(Statements)
        BY <1>3, <1>14, PlainDelete DEF Plain
      <4>2. <<>> \in Seq(Statements)  OBVIOUS
      <4> QED BY <3>1, <4>1, <4>2
    <3>3. d.rest = p \o <<>>  BY <1>5, <1>14, <2>1, <3>1
    <3> QED BY ONLY <3>1, <3>2, <3>3, ConcatEmptySeq
  <2>3. /\ d.ins = c.ins /\ d.del = c.del /\ d.upd = c.upd
        /\ \A ahead, after : (\A a \in ahead : a.do # "insert_span") => PgSpans(d, ahead, after)
        /\ PgMarks(d) /\ PgMeets(d, disk) /\ d.del.runs = {} /\ d.del.tags = {}
    <3>1. PICK a, b, f, e : a = c /\ b = s /\ f = then /\ e = d  OBVIOUS
    <3>2. b.do = "select_old"  BY <1>14, <3>1
    <3> HIDE DEF c, s, then, d
    <3>3. PgExecutes(w, a, b, f) /\ e = Postgres!Through(w)
      BY <1>9, <3>1 DEF d
    <3>4. /\ e.ins = a.ins /\ e.del = a.del /\ e.upd = a.upd
          /\ \A ahead, after : (\A q \in ahead : q.do # "insert_span") => PgSpans(e, ahead, after)
          /\ PgMarks(e) /\ PgMeets(e, disk) /\ e.del.runs = {} /\ e.del.tags = {}
      BY ONLY <3>2, <3>3, ThroughSelect
    <3> QED BY ONLY <3>1, <3>4
  <2>4. c.op \in {"export", "prune"}
    <3>1. c.op \in Methods  BY <1>2 DEF PgSound
    <3> QED BY <3>1, <1>6, <1>14 DEF PgDoes, Methods
  <2>5. PgOrderly(c.op, c.on, d.rest) /\ \A a \in Ahead(d.rest) : a.do # "insert_span"
    <3>1. CASE c.aim = {}
      <4>1. d.rest = <<>>  BY <2>2, <3>1
      <4> QED BY <4>1, AheadNone, EmptySeq DEF PgOrderly
    <3>2. CASE c.aim # {}
      <4>1. PgOrderly(c.op, c.on, DeleteRuns(c.aim)) /\ PgOrderly("delete", c.on, DeleteRuns(c.aim))
        BY <1>3, <1>14, <2>4, PgDeleteOpens
      <4>2. d.rest = DeleteRuns(c.aim)  BY <2>2, <3>2
      <4>3. \A a \in Ahead(d.rest) : a.do \in PgDoes["delete"]
        BY <4>1, <4>2 DEF PgOrderly, Ahead
      <4> QED BY <4>1, <4>2, <4>3 DEF PgDoes
    <3> QED BY <3>1, <3>2
  <2> HIDE DEF d, s
  <2>6. PgAims(d, Head(d.rest))  BY <2>1, <2>3 DEF PgAims
  <2>7. PgSound(d, disk)
    BY <1>2, <2>1, <2>3, <2>5, <2>6 DEF PgSound
  <2>8. \A u \in Several : u # w /\ active[u] # None => Barred(d, active[u]) /\ Barred(active[u], d)
    BY <1>8, <2>3 DEF PgApart, Barred, Touched
  <2> QED BY <1>1, <2>7, <2>8, PgWholeUnwritten
<1> QED BY <1>13, <1>14

(* The transaction commits. *)
LEMMA PgWholeLand ==
  ASSUME PgKept, PgWhole, NEW w \in Several, Postgres!Land(w)
  PROVE  PgWhole'
<1> DEFINE c == active[w]
<1>1. /\ c # None /\ c.rest = <<>> /\ active' = [active EXCEPT ![w] = None]
      /\ disk' = Postgres!Committed(w)
  BY DEF Postgres!Land
<1>2. /\ disk'.runs = (disk.runs \ c.del.runs) \cup c.ins.runs
      /\ disk'.spans = (disk.spans \ c.del.spans) \cup c.ins.spans
      /\ disk'.marks = (disk.marks \ c.del.marks) \cup c.ins.marks
      /\ disk'.tags = (disk.tags \ c.del.tags) \cup c.ins.tags
  BY <1>1 DEF Postgres!Committed, Postgres!NoRows
<1>3. PgSound(c, disk) /\ Whole(disk)  BY <1>1 DEF PgWhole
<1>4. PICK h : h = Head(c.rest)  OBVIOUS
<1>5. PgSpans(c, {}, h) /\ PgMarks(c) /\ PgMeets(c, disk)
  BY <1>1, <1>3, <1>4, AheadNone DEF PgSound
<1>6. \A u \in Several : u # w /\ active[u] # None =>
        PgSound(active[u], disk) /\ Barred(c, active[u]) /\ Barred(active[u], c)
  BY <1>1 DEF PgWhole
<1> HIDE DEF c
<1>7. Whole(disk')
  <2>1. \A x \in SpanIds : x[1] \in disk'.runs => x \in disk'.spans
    BY <1>2, <1>3, <1>5, SpansInFact DEF PgSpans, Leaves, Whole
  <2>2. \A x \in disk'.spans : x \in SpanIds /\ x[1] \in disk'.runs
    BY <1>2, <1>3, <1>5, SpansInFact DEF PgSpans, Leaves, Whole
  <2>3. disk'.spans = SpansIn(disk'.runs)  BY <2>1, <2>2, SpansInFact
  <2>4. \A m \in disk'.marks : m[1] \in disk'.runs /\ m[2] \in disk'.tags /\ m = <<m[1], m[2]>>
    BY <1>2, <1>3, <1>5 DEF PgMarks, PgMeets, Whole
  <2>5. disk'.marks \subseteq disk'.runs \X disk'.tags
    BY <2>4
  <2> QED BY <2>3, <2>5 DEF Whole
<1>8. ASSUME NEW u \in Several, u # w, active[u] # None PROVE PgSound(active[u], disk')
  <2> DEFINE e == active[u]
  <2>1. PgSound(e, disk) /\ Barred(c, e) /\ Barred(e, c)
    BY <1>6, <1>8
  <2> HIDE DEF e
  <2>2. PgMeets(e, disk) /\ PgMarks(e)  BY <2>1 DEF PgSound
  <2>3. e.del.runs \subseteq disk'.runs /\ e.del.spans \subseteq disk'.spans
    BY <1>2, <2>1, <2>2 DEF PgMeets, Barred
  <2>4. \A m \in e.ins.marks : m[1] \in disk'.runs \cup e.ins.runs /\ m[2] \in disk'.tags \cup e.ins.tags
    BY <1>2, <2>1, <2>2 DEF PgMeets, Barred, Touched
  <2>5. \A m \in disk'.marks : m[1] \in e.del.runs \/ m[2] \in e.del.tags => m \in e.del.marks
    BY <1>2, <2>1, <2>2 DEF PgMeets, Barred, Touched
  <2>6. PgMeets(e, disk')  BY <2>3, <2>4, <2>5 DEF PgMeets
  <2>7. PgSound(e, disk')
    BY <2>1, <2>6 DEF PgSound
  <2> QED BY <2>7 DEF e
<1> QED BY <1>1, <1>7, <1>8, PgWholeTurn

LEMMA PgWholeStep ==
  ASSUME PgKept, PgWhole, Postgres!Next
  PROVE  PgWhole'
<1>1. PICK w \in Several :
        \/ \E r \in Traces : Postgres!Export(w, r) \/ Postgres!DeleteRun(w, r)
        \/ \E s \in Sessions : Postgres!DeleteSession(w, s)
        \/ PgOthers(w)
        \/ Postgres!Start(w) \/ Postgres!Execute(w) \/ Postgres!Commit(w)
        \/ Postgres!Refused(w) \/ Postgres!Deadlocked(w) \/ Postgres!ConnectionLost(w) \/ Postgres!AnswerLost(w)
  BY StoresAssumption DEF Postgres!Next, PgOthers
<1>2. ASSUME NEW r \in Traces, Postgres!DeleteRun(w, r) PROVE PgWhole'
  <2>1. {r} \cap disk.runs \in SUBSET disk.runs /\ Postgres!Delete(w, {r} \cap disk.runs)
    BY <1>2 DEF Postgres!DeleteRun
  <2> QED BY <2>1, PgWholeBegun
<1>3. ASSUME NEW s \in Sessions, Postgres!DeleteSession(w, s) PROVE PgWhole'
  <2> DEFINE R == {r \in disk.runs : SessionOf[r] = s}
  <2>1. R \in SUBSET disk.runs /\ Postgres!Delete(w, R)
    BY <1>3 DEF Postgres!DeleteSession
  <2> HIDE DEF R
  <2> QED BY <2>1, PgWholeBegun
<1>4. Postgres!Commit(w) \/ Postgres!AnswerLost(w) => PgWhole'
  BY PgWholeLand DEF Postgres!Commit, Postgres!AnswerLost
<1>5. CASE Postgres!Refused(w) \/ Postgres!Deadlocked(w) \/ Postgres!ConnectionLost(w)
  <2>1. Postgres!Drop(w)
    BY <1>5 DEF Postgres!Refused, Postgres!Deadlocked, Postgres!ConnectionLost
  <2>2. active' = [active EXCEPT ![w] = None] /\ disk' = disk
    BY <2>1 DEF Postgres!Drop
  <2> QED BY <2>2, PgWholeUnwritten
<1> QED BY <1>1, <1>2, <1>3, <1>4, <1>5, PgWholeBegun, PgWholeStart, PgWholeExecute

LEMMA PgWholeInit == Postgres!Init => PgWhole
<1> SUFFICES ASSUME Postgres!Init PROVE PgWhole  OBVIOUS
<1>1. disk \in Starts /\ active = [w \in Several |-> None]
  BY DEF Postgres!Init
<1>2. Whole(disk)  BY <1>1, StoresAssumption
<1>3. \A w \in Several : active[w] = None
  BY <1>1
<1> QED BY <1>2, <1>3 DEF PgWhole

-----------------------------------------------------------------------------
(* Traces are stored whole, in whichever store *)

LEMMA WholeInit == StoreInit => WholeInv
BY SQLiteWholeInit, PgWholeInit DEF StoreInit, WholeInv

LEMMA WholeStep ==
  ASSUME BackInv, BackInv', WholeInv, StoreNext
  PROVE  WholeInv'
<1>1. CASE store = "alone" /\ Alone!Next /\ UNCHANGED store
  <2>1. SQLiteInv(Single) /\ SQLiteInv(Single)'  BY <1>1 DEF BackInv
  <2>2. OrderlyCalls(Single)' /\ AloneWhole'
    BY <1>1, <2>1, AloneWholeStep DEF WholeInv
  <2>3. store' = "alone"  BY <1>1
  <2> QED BY ONLY <2>2, <2>3 DEF WholeInv
<1>2. CASE store = "pool" /\ Pool!Next /\ UNCHANGED store
  <2>1. OrderlyCalls(Several)' /\ PoolWhole'
    BY <1>2, PoolWholeStep DEF BackInv, WholeInv
  <2>2. store' = "pool"  BY <1>2
  <2> QED BY ONLY <2>1, <2>2 DEF WholeInv
<1>3. CASE store = "postgres" /\ Postgres!Next /\ UNCHANGED <<store, conn, open, crashes>>
  <2>1. PgWhole'
    BY <1>3, PgWholeStep DEF BackInv, WholeInv
  <2>2. store' = "postgres"  BY <1>3
  <2> QED BY ONLY <2>1, <2>2 DEF WholeInv
<1> QED BY <1>1, <1>2, <1>3 DEF StoreNext

LEMMA WholeStutter ==
  ASSUME WholeInv, UNCHANGED storeVars
  PROVE  WholeInv'
<1>1. store' = store /\ disk' = disk /\ conn' = conn /\ open' = open /\ active' = active
  BY DEF storeVars
<1>2. ASSUME NEW W, OrderlyCalls(W) PROVE OrderlyCalls(W)'
  <2>1. \A w \in W : active'[w] # None => Orderly(active'[w].op, active'[w].on, active'[w].rest)
    BY <1>1, <1>2 DEF OrderlyCalls
  <2> QED BY ONLY <2>1 DEF OrderlyCalls, Orderly, Fits, Follows, Later, Does, SpanIds, SpansIn, Statement
<1>3. ASSUME AloneWhole PROVE AloneWhole'
  <2>1. Typed(conn') /\ Typed(disk') /\ Whole(disk') /\ (open' \/ conn' = disk')
    BY <1>1, <1>3 DEF AloneWhole
  <2>2. \A w \in Single : /\ active'[w] = None => Whole(conn')
                          /\ active'[w] # None /\ ~active'[w].raising => Owes(active'[w], conn')
    BY <1>1, <1>3 DEF AloneWhole
  <2> QED
    BY ONLY <2>1, <2>2
    DEF AloneWhole, Typed, Whole, SpanIds, SpansIn, Owes, Owed, OweSpans, OweSweep, OweDelete, OweTags, OweMarks, Todo,
        Ahead, Statement
<1>4. PoolWhole => PoolWhole'
  BY <1>1 DEF PoolWhole, Promised, SpansIn, SpanIds, Ahead, Statement
<1>5. ASSUME PgWhole PROVE PgWhole'
  <2>1. Whole(disk')  BY <1>1, <1>5 DEF PgWhole
  <2>2. \A w \in Several : active'[w] # None => PgSound(active'[w], disk')
    BY <1>1, <1>5 DEF PgWhole
  <2>3. \A w, u \in Several : w # u /\ active'[w] # None /\ active'[u] # None => Barred(active'[w], active'[u])
    BY <1>1, <1>5 DEF PgWhole
  <2> QED
    BY ONLY <2>1, <2>2, <2>3
    DEF PgWhole, Whole, SpansIn, SpanIds, Methods, PgSound, PgOrderly, PgDoes, PgFits, Later, Ahead, Statement, Leaves,
        PgSpans, PgMarks, PgMeets, PgAims, Barred, Touched
<1> QED BY <1>1, <1>2, <1>3, <1>4, <1>5 DEF WholeInv

LEMMA WholeFact == BackInv /\ WholeInv => StoredWhole
<1> SUFFICES ASSUME BackInv, WholeInv PROVE StoredWhole  OBVIOUS
<1>1. store # "pool" => Whole(disk)
  BY DEF BackInv, WholeInv, AloneWhole, PgWhole
<1>2. ASSUME store = "pool", AtRest PROVE disk = conn /\ SpansIn(disk.runs) \subseteq disk.spans
  <2>1. DOMAIN active = Several  BY <1>2, KeptFacts DEF BackInv
  <2>2. \A w \in Several : active[w] = None
    BY <1>2, <2>1 DEF AtRest
  <2>3. PoolWhole  BY <1>2 DEF WholeInv
  <2> QED BY <2>2, <2>3 DEF PoolWhole, Promised
<1> QED BY <1>1, <1>2 DEF StoredWhole

(* A trace is stored with all its spans or not at all, and no row is left   *)
(* of a run or a tag that is not there: whatever fails or crashes between   *)
(* an export's or a deletion's statements (store.py, one connection;        *)
(* postgres.py, overlapping transactions), and, with several workers on one *)
(* SQLite connection, for the spans of stored traces once all have          *)
(* returned.                                                                *)
THEOREM SpecStoresWhole == StoreSpec => []StoredWhole
<1>1. StoreInit => BackInv /\ WholeInv  BY BackInit, WholeInit
<1>2. BackInv /\ WholeInv /\ [StoreNext]_storeVars => (BackInv /\ WholeInv)'
  BY BackStep, BackStutter, WholeStep, WholeStutter
<1>3. BackInv /\ WholeInv => StoredWhole  BY WholeFact
<1> QED BY <1>1, <1>2, <1>3, PTL DEF StoreSpec

-----------------------------------------------------------------------------
(* Retention: how many runs there are.                                      *)

LEMMA TracesFinite ==
  ASSUME NEW S \in SUBSET Traces
  PROVE  IsFiniteSet(S) /\ Cardinality(S) \in Nat /\ \A T \in SUBSET S : Cardinality(T) <= Cardinality(S)
<1>1. IsFiniteSet(Traces)  BY StoresAssumption
<1>2. IsFiniteSet(S)
  BY <1>1, FS_Subset
<1> QED BY <1>2, FS_Subset, FS_CardinalityType

LEMMA ManyGrows ==
  ASSUME NEW T \in SUBSET Traces, NEW S \in SUBSET T, NEW r, Many(S, r)
  PROVE  Many(T, r)
<1> DEFINE s == {q \in S : q > r}
           t == {q \in T : q > r}
<1>1. t \in SUBSET Traces /\ s \in SUBSET t  OBVIOUS
<1>2. Cardinality(s) >= MaxRuns  BY DEF Many
<1> HIDE DEF s, t
<1>3. Cardinality(s) <= Cardinality(t) /\ Cardinality(t) \in Nat /\ Cardinality(s) \in Nat
  <2>1. s \in SUBSET Traces  BY <1>1
  <2> QED BY <1>1, <2>1, TracesFinite
<1>4. MaxRuns \in Nat  BY StoresAssumption
<1>5. Cardinality(t) >= MaxRuns
  BY ONLY <1>2, <1>3, <1>4
<1> QED BY <1>5 DEF Many, t

(* The newest n are at most n: no two of them have as many that are newer.  *)
LEMMA NewestFew ==
  ASSUME NEW R \in SUBSET Traces, NEW n \in Nat
  PROVE  Cardinality(Newest(R, n)) <= n /\ Newest(R, n) \subseteq R
<1> DEFINE N == Newest(R, n)
           above(r) == {q \in R : q > r}
           f == [r \in N |-> Cardinality(above(r))]
<1>0. Traces \subseteq Nat  BY StoresAssumption
<1>1. \A r \in N : r \in R /\ r \in Nat /\ Cardinality(above(r)) < n
  BY <1>0 DEF Newest
<1>2. \A r \in R : above(r) \in SUBSET Traces /\ Cardinality(above(r)) \in Nat /\ IsFiniteSet(above(r))
  BY TracesFinite
<1>3. ASSUME NEW r \in N, NEW s \in N, r < s PROVE Cardinality(above(s)) # Cardinality(above(r))
  <2>0. r \in Nat /\ s \in Nat /\ s \in R  BY <1>1
  <2>1. above(s) \in SUBSET above(r) /\ s \in above(r) /\ s \notin above(s)
    <3>1. \A q \in R : q \in Nat /\ (q > s => q > r)
      BY <1>0, <1>3, <2>0
    <3>2. s > r /\ ~(s > s)  BY <1>3, <2>0
    <3>3. above(s) \subseteq above(r)
      BY ONLY <3>1
    <3>4. s \in above(r) /\ s \notin above(s)  BY ONLY <2>0, <3>2
    <3> QED BY ONLY <3>3, <3>4
  <2>2. IsFiniteSet(above(r))  BY <1>1, <1>2
  <2> HIDE DEF above
  <2> QED BY <2>1, <2>2, FS_Subset
<1>4. \A r \in N : f[r] = Cardinality(above(r))  OBVIOUS
<1>5. ASSUME NEW r \in N PROVE f[r] \in 0 .. n - 1
  <2> HIDE DEF f, N, above
  <2>1. f[r] = Cardinality(above(r)) /\ Cardinality(above(r)) \in Nat /\ Cardinality(above(r)) < n
    BY <1>1, <1>2, <1>4
  <2>2. \A k \in Nat : k < n => k \in 0 .. n - 1  OBVIOUS
  <2> QED BY ONLY <2>1, <2>2
<1>6. f \in [N -> 0 .. n - 1]  BY <1>5
<1>7. \A r, s \in N : r # s => f[r] # f[s]
  BY <1>1, <1>3, <1>4
<1> HIDE DEF f, N, above
<1>8. f \in Injection(N, 0 .. n - 1)
  BY <1>6, <1>7 DEF Injection, IsInjective
<1>9. IsFiniteSet(0 .. n - 1) /\ Cardinality(0 .. n - 1) = n
  <2>1. IsFiniteSet(0 .. n - 1) /\ Cardinality(0 .. n - 1) = IF 0 > n - 1 THEN 0 ELSE (n - 1) - 0 + 1
    BY FS_Interval
  <2> QED BY <2>1
<1>10. Cardinality(N) <= n  BY <1>8, <1>9, FS_Injection
<1>11. N \subseteq R
  BY <1>1
<1> QED BY <1>10, <1>11 DEF N

(* What is not among the newest MaxRuns has so many that are newer. *)
LEMMA NotNewest ==
  ASSUME NEW R \in SUBSET Traces, NEW r \in R, r \notin Newest(R, MaxRuns)
  PROVE  Many(R, r)
<1> DEFINE s == {q \in R : q > r}
<1>1. ~(Cardinality(s) < MaxRuns)  BY DEF Newest
<1>2. s \in SUBSET Traces  OBVIOUS
<1> HIDE DEF s
<1>3. Cardinality(s) \in Nat /\ MaxRuns \in Nat
  BY <1>2, TracesFinite, StoresAssumption
<1>4. Cardinality(s) >= MaxRuns  BY ONLY <1>1, <1>3
<1> QED BY <1>4 DEF Many, s

(* A set each element of which is in B with some element of V, and each of   *)
(* them with one at most.                                                   *)
LEMMA OneEach ==
  ASSUME NEW X, NEW V, IsFiniteSet(V), NEW B,
         \A x \in X : \E v \in V : <<v, x>> \in B,
         \A v \in V : \A x, y \in X : <<v, x>> \in B /\ <<v, y>> \in B => x = y
  PROVE  IsFiniteSet(X) /\ Cardinality(X) <= Cardinality(V)
<1> DEFINE f == [x \in X |-> CHOOSE v \in V : <<v, x>> \in B]
<1>1. \A x \in X : f[x] \in V /\ <<f[x], x>> \in B  OBVIOUS
<1>2. f \in [X -> V]  OBVIOUS
<1> HIDE DEF f
<1>3. \A x, y \in X : x # y => f[x] # f[y]  BY <1>1
<1>4. f \in Injection(X, V)
  BY <1>2, <1>3 DEF Injection, IsInjective
<1> QED BY <1>4, FS_Injection

-----------------------------------------------------------------------------
(* Retention: the invariant of the SQLite stores.                           *)

LEMMA SaidFact ==
  ASSUME NEW W, SQLiteInv(W)
  PROVE  Said \in SUBSET Traces /\ \A r : r \in Said <=> r \in sent /\ (r \in stored \/ \E w \in W : Exports(w, r))
<1>1. DOMAIN active = W /\ sent \in SUBSET Traces
  BY KeptFacts
<1> QED BY <1>1 DEF Said

LEMMA ConnTurn ==
  ASSUME NEW W, SQLiteInv(W), SQLiteInv(W)', ConnKept(W), stored \subseteq sent, NEW w \in W, NEW c,
         active' = [active EXCEPT ![w] = c],
         sent \subseteq sent', stored \subseteq stored', asked \subseteq asked', stored' \subseteq sent', RowsTurn(w, c),
         \A r : Tells(c, r) => r \in sent'
  PROVE  ConnKept(W)'
<1>1. /\ active \in [W -> Alone!Calls \cup {None}] /\ sent \in SUBSET Traces /\ conn.runs \subseteq sent
      /\ Shown \subseteq sent
  BY KeptFacts
<1>2. active'[w] = c /\ DOMAIN active' = W /\ DOMAIN active = W /\ \A u \in W : u # w => active'[u] = active[u]
  BY <1>1
<1>3. /\ \A r : r \in Said <=> r \in sent /\ (r \in stored \/ \E u \in W : Exports(u, r))
      /\ Said \in SUBSET Traces
  BY SaidFact
<1>4. \A r, u : u \in W => (Exports(u, r)' <=> IF u = w THEN Tells(c, r) ELSE Exports(u, r))
  BY <1>2 DEF Exports, Tells
<1>5. /\ \A r : r \in Said' <=> r \in sent' /\ (r \in stored' \/ \E u \in W : Exports(u, r)')
      /\ Said' \in SUBSET Traces
  <2>1. sent' \in SUBSET Traces  BY DEF SQLiteInv, Alike
  <2> QED BY <1>2, <2>1 DEF Said, Exports
<1>6. Said \subseteq Said'
  <2> SUFFICES ASSUME NEW r \in Said PROVE r \in Said'  OBVIOUS
  <2>1. r \in sent'  BY <1>3
  <2>2. CASE r \in stored
    BY <1>5, <2>1, <2>2
  <2>3. ASSUME NEW u \in W, Exports(u, r) PROVE r \in Said'
    <3>1. r \in stored' \/ Exports(u, r)'  BY <1>4, <2>3 DEF RowsTurn
    <3> QED BY <1>5, <2>1, <3>1
  <2> QED BY <1>3, <2>2, <2>3
<1>7. \A r : Tells(c, r) => r \in Said'  BY <1>4, <1>5
<1>8. conn.runs \subseteq Said /\ \A r \in Said : r \in Shown => r \in conn.runs \/ Sure(Said, r)
  BY DEF ConnKept
<1>9. conn'.runs \subseteq Said'  BY <1>6, <1>7, <1>8 DEF RowsTurn
<1>10. \A S : S \subseteq Said => \A r : Many(S, r) => Many(Said', r)
  BY <1>5, <1>6, ManyGrows
<1>11. ASSUME NEW r \in Said', r \in Shown' PROVE r \in conn'.runs \/ r \in asked' \/ Many(Said', r)
  <2>1. \A u \in W : active'[u] # None => ~Awaits(active'[u], r)
    BY <1>2, <1>11 DEF Shown, Awaits
  <2>2. r \in Said
    <3>1. r \in sent' /\ (r \in stored' \/ \E u \in W : Exports(u, r)')
      BY <1>5, <1>11
    <3>2. CASE r \in stored'
      <4>1. r \in stored \/ Exports(w, r)  BY <3>2 DEF RowsTurn
      <4>2. Exports(w, r) => r \in sent
        BY KeptFacts DEF Exports, CallKept
      <4>3. stored \subseteq Said  BY <1>3
      <4> QED BY <1>3, <4>1, <4>2, <4>3
    <3>3. ASSUME NEW u \in W, Exports(u, r)' PROVE r \in Said
      <4>1. CASE u # w
        <5>1. Exports(u, r)  BY <1>4, <3>3, <4>1
        <5>2. r \in sent
          BY <5>1, KeptFacts DEF Exports, CallKept
        <5> QED BY <1>3, <5>1, <5>2
      <4>2. CASE u = w
        <5>1. Tells(c, r) /\ c # None  BY <1>4, <3>3, <4>2 DEF Tells
        <5>2. ~Awaits(c, r)
          BY <1>2, <2>1, <5>1
        <5>3. Exports(w, r)  BY <5>1, <5>2 DEF RowsTurn
        <5>4. r \in sent
          BY <5>3, KeptFacts DEF Exports, CallKept
        <5> QED BY <1>3, <5>3, <5>4
      <4> QED BY <4>1, <4>2
    <3> QED BY <3>1, <3>2, <3>3
  <2>3. CASE r \in Shown
    <3>1. r \in conn.runs \/ r \in asked \/ Many(Said, r)
      BY <1>8, <2>2, <2>3 DEF Sure
    <3>2. Many(Said, r) => Many(Said', r)  BY <1>10
    <3>3. CASE r \in conn.runs
      <4>1. r \in conn'.runs \/ r \in asked' \/ Many(conn.runs, r)
        BY <3>3 DEF RowsTurn
      <4> QED BY <1>8, <1>10, <4>1
    <3> QED BY <3>1, <3>2, <3>3
  <2>4. CASE r \notin Shown
    <3>1. r \in sent  BY <1>3, <2>2
    <3>2. PICK u \in W : active[u] # None /\ Awaits(active[u], r)
      BY <1>2, <2>4, <3>1, ShownFact
    <3>3. u = w  BY <1>2, <2>1, <3>2
    <3>4. c # None => ~Awaits(c, r)
      BY <1>2, <2>1
    <3> QED BY <3>2, <3>3, <3>4 DEF RowsTurn
  <2> QED BY <2>3, <2>4
<1>12. Cardinality(conn'.runs) <= MaxRuns \/ \E u \in W : Excess(active'[u])
  <2>1. CASE Excess(c)  BY <1>2, <2>1
  <2>2. CASE conn'.runs \subseteq conn.runs /\ (Excess(active[w]) => Excess(c))
    <3>1. CASE Cardinality(conn.runs) <= MaxRuns
      <4>1. conn.runs \in SUBSET Traces  BY <1>1
      <4>2. /\ Cardinality(conn'.runs) <= Cardinality(conn.runs) /\ Cardinality(conn.runs) \in Nat
            /\ Cardinality(conn'.runs) \in Nat
        BY <2>2, <4>1, TracesFinite
      <4>3. MaxRuns \in Nat  BY StoresAssumption
      <4> QED BY ONLY <3>1, <4>2, <4>3
    <3>2. ASSUME NEW u \in W, Excess(active[u]) PROVE \E v \in W : Excess(active'[v])
      BY <1>2, <2>2, <3>2
    <3> QED BY <3>1, <3>2 DEF ConnKept
  <2> QED BY <2>1, <2>2 DEF RowsTurn
<1> QED BY ONLY <1>9, <1>11, <1>12 DEF ConnKept, Sure, Many, Excess, Todo, Ahead

(* The invariant after such a step. *)
LEMMA KeptTurn ==
  ASSUME NEW W, SQLiteInv(W), SQLiteInv(W)', SQLiteKept(W), NEW w \in W, NEW c,
         active' = [active EXCEPT ![w] = c],
         sent \subseteq sent', stored \subseteq stored', asked \subseteq asked',
         \A r \in stored' : r \in stored \/ Exports(w, r),
         c # None => Pruning(c, asked'),
         active[w] # None => ~active[w].raising,
         c = None \/ ~c.raising => RowsTurn(w, c)
  PROVE  SQLiteKept(W)'
<1>1. /\ active'[w] = c /\ DOMAIN active' = W
      /\ \A u \in W : u # w => active'[u] = active[u]
  BY KeptFacts
<1>2. stored' \subseteq sent'
  <2>1. \A r : Exports(w, r) => r \in sent
    BY KeptFacts DEF Exports, CallKept
  <2> QED BY <2>1 DEF SQLiteKept
<1>3. ASSUME NEW u \in W, active'[u] # None PROVE Pruning(active'[u], asked')
  <2>1. CASE u = w  BY <1>1, <1>3, <2>1
  <2>2. CASE u # w
    <3>1. Pruning(active[u], asked) /\ active'[u] = active[u]
      BY <1>1, <1>3, <2>2 DEF SQLiteKept
    <3>2. active[u].op = "delete" => active[u].on \subseteq asked'
      BY <3>1 DEF Pruning
    <3> QED BY <3>1, <3>2 DEF Pruning
  <2> QED BY <2>1, <2>2
<1>4. ASSUME \A u \in W : active'[u] # None => ~active'[u].raising
      PROVE  ConnKept(W)'
  <2>1. \A u \in W : active[u] # None => ~active[u].raising
    BY <1>1, <1>4
  <2>2. ConnKept(W) /\ stored \subseteq sent  BY <2>1 DEF SQLiteKept, Calm
  <2>3. RowsTurn(w, c)
    BY <1>1, <1>4
  <2>4. \A r : Tells(c, r) => r \in sent'
    <3>1. active'[w] # None => CallKept(active[w])'
      BY DEF SQLiteInv, NoneBack
    <3>2. active'[w] # None /\ active'[w].op = "export" => active'[w].on \subseteq sent'
      BY <3>1 DEF CallKept
    <3> QED BY <1>1, <3>2 DEF Tells
  <2> QED BY <1>2, <2>2, <2>3, <2>4, ConnTurn
<1> QED
  <2>1. stored' \subseteq sent' /\ (\A u \in W : active'[u] # None => Pruning(active'[u], asked'))
    BY <1>2, <1>3
  <2>2. (\A u \in W : active'[u] # None => ~active'[u].raising) => ConnKept(W)'
    BY <1>4
  <2> QED BY ONLY <2>1, <2>2 DEF SQLiteKept, Calm, Pruning, Todo, Ahead

(* A call that inserts no run. *)
LEMMA NoInsert ==
  ASSUME NEW W, SQLiteInv(W)', NEW w \in W, NEW c, c # None, active' = [active EXCEPT ![w] = c],
         SQLiteInv(W), c.op # "export"
  PROVE  \A x : Pruning(c, x) <=> (c.op = "delete" => c.on \subseteq x)
<1>1. active'[w] = c  BY KeptFacts
<1>2. CallKept(active[w])' /\ active'[w] \in Alone!Calls
  BY <1>1 DEF SQLiteInv, NoneBack, Alike
<1>3. Programmed(c.op, c.on, c.rest) /\ c.rest \in Seq(Statements \cup Alone!Finds)
  BY <1>1, <1>2, CallFields DEF CallKept, Programmed
<1>4. c.rest # <<>> => Head(c.rest).do # "insert_run"
  BY ONLY <1>3, ProgrammedTail, c.op # "export"
<1> QED BY <1>4 DEF Pruning

(* A step that leaves the connection's rows alone, of a call that inserts   *)
(* none and exports none, and becomes another of this kind.                 *)
LEMMA KeptAside ==
  ASSUME NEW W, SQLiteInv(W), SQLiteInv(W)', SQLiteKept(W), NEW w \in W, NEW c,
         active' = [active EXCEPT ![w] = c],
         sent' = sent, stored' = stored, asked \subseteq asked', conn' = conn,
         active[w] # None => active[w].op # "export" /\ ~active[w].raising,
         c # None => c.op # "export" /\ (c.op = "delete" => c.on \subseteq asked')
  PROVE  SQLiteKept(W)'
<1>1. c # None => Pruning(c, asked')  BY NoInsert
<1>2. \A r : ~Exports(w, r) /\ ~Tells(c, r)
  BY DEF Exports, Tells
<1>3. ~Excess(active[w])  BY DEF Excess
<1>4. \A r : active[w] # None => ~Awaits(active[w], r)
  <2>1. active[w] # None => active[w] \in Alone!Calls /\ Programmed(active[w].op, active[w].on, active[w].rest)
    BY KeptFacts DEF CallKept
  <2> QED BY <2>1, AwaitsExports
<1>5. RowsTurn(w, c)  BY <1>2, <1>3, <1>4 DEF RowsTurn
<1> QED BY <1>1, <1>5, KeptTurn

LEMMA BeginKept ==
  ASSUME NEW W, SQLiteInv(W), SQLiteInv(W)', SQLiteKept(W), NEW w \in W,
         NEW op \in Methods \ {"export"}, NEW on, NEW prog, Alone!Begin(w, op, on, prog),
         asked \subseteq asked', op = "delete" => on \subseteq asked'
  PROVE  SQLiteKept(W)'
<1> DEFINE c == Alone!Call(op, on, prog)
<1>1. /\ active[w] = None /\ active' = [active EXCEPT ![w] = c]
      /\ sent' = sent /\ stored' = stored /\ conn' = conn
  BY DEF Alone!Begin
<1>2. c.op = op /\ c.on = on  BY CallFact
<1> HIDE DEF c
<1> QED BY <1>1, <1>2, KeptAside

LEMMA ExportKept ==
  ASSUME NEW W, SQLiteInv(W), SQLiteInv(W)', SQLiteKept(W), NEW w \in W, NEW r \in Traces, Alone!Export(w, r)
  PROVE  SQLiteKept(W)'
<1> DEFINE p == Exporting(r)
           c == Alone!Call("export", {r}, p)
<1>1. /\ active[w] = None /\ active' = [active EXCEPT ![w] = c] /\ r \notin sent
      /\ sent' = sent \cup {r} /\ UNCHANGED <<conn, stored, asked>>
  BY SameTerms DEF Alone!Export
<1>2. c.op = "export" /\ c.on = {r} /\ c.rest = p
  BY CallFact
<1>3. PICK n : n \in Nat /\ n = SpansOf[r]  BY ExportingFacts
<1>4. /\ p \in Seq(Statements) /\ Len(p) = n + 4 /\ p[1] = Statement("insert_run", {r})
      /\ \A j \in 1 .. n : p[j + 1] = Statement("insert_span", {<<r, j>>})
      /\ p[n + 2] = Statement("keep_newest", MaxRuns)
      /\ p[n + 3] = Statement("sweep_spans", {}) /\ p[n + 4] = Statement("sweep_marks", {})
  BY <1>3, ExportingFacts
<1> HIDE DEF p, c
<1>5. p # <<>> /\ Head(p) = p[1]
  <2>1. Len(p) # 0  BY <1>3, <1>4
  <2> QED BY <1>4, <2>1, EmptySeq, TailFacts
<1>6. \A i \in 1 .. Len(p) : p[i].do = "keep_newest" => p[i].rows = MaxRuns
  <2> SUFFICES ASSUME NEW i \in 1 .. Len(p), p[i].do = "keep_newest" PROVE p[i].rows = MaxRuns
    OBVIOUS
  <2>1. \/ i = 1 \/ (i - 1 \in 1 .. n /\ (i - 1) + 1 = i)
        \/ i = n + 2 \/ i = n + 3 \/ i = n + 4
    <3>1. i \in 1 .. n + 4 /\ n \in Nat
      BY ONLY i \in 1 .. Len(p), <1>3, <1>4
    <3> QED BY ONLY <3>1
  <2>2. /\ p[1].do # "keep_newest" /\ (\A j \in 1 .. n : p[j + 1].do # "keep_newest")
        /\ p[n + 2].rows = MaxRuns /\ p[n + 3].do # "keep_newest" /\ p[n + 4].do # "keep_newest"
    <3>1. \A j \in 1 .. n : p[j + 1].do = "insert_span"
      BY <1>4, StatementFields
    <3> QED BY <1>4, <3>1, StatementFields
  <2>3. i - 1 \in 1 .. n => p[(i - 1) + 1].do # "keep_newest"
    BY ONLY <2>2
  <2> QED BY ONLY <2>1, <2>2, <2>3, p[i].do = "keep_newest"
<1>7. \A a \in Ahead(p) : a.do = "keep_newest" => a.rows = MaxRuns
  BY <1>6 DEF Ahead
<1>8. Todo(Ahead(p), "keep_newest")
  <2>1. n + 2 \in 1 .. Len(p)  BY <1>3, <1>4
  <2> QED BY <1>4, <2>1, StatementFields DEF Todo, Ahead
<1>9. Pruning(c, asked')  BY <1>2, <1>7, <1>8 DEF Pruning
<1>10. Awaits(c, r)
  BY <1>2, <1>4, <1>5, StatementFields DEF Awaits
<1>11. RowsTurn(w, c)
  <2>1. \A q : ~Exports(w, q)  BY <1>1 DEF Exports
  <2>2. \A q : Tells(c, q) <=> c # None /\ q = r
    BY <1>2 DEF Tells
  <2>3. ~Excess(active[w])  BY <1>1 DEF Excess
  <2> QED BY <1>1, <1>10, <2>1, <2>2, <2>3 DEF RowsTurn
<1> QED BY <1>1, <1>9, <1>11, KeptTurn

(* A statement that is executed. *)
LEMMA ExecuteKept ==
  ASSUME NEW W, SQLiteInv(W), SQLiteInv(W)', SQLiteKept(W), OrderlyCalls(W), NEW w \in W, Alone!Execute(w)
  PROVE  SQLiteKept(W)'
<1> DEFINE c == active[w]
           s == Head(c.rest)
           then == Ahead(Tail(c.rest))
           d == [c EXCEPT !.rest = Tail(@)]
<1>1. /\ c # None /\ ~c.raising /\ c.rest # <<>> /\ active' = [active EXCEPT ![w] = d]
      /\ sent' = sent /\ stored' = stored
      /\ asked' = IF c.op = "prune" THEN asked \cup (conn.runs \ conn'.runs) ELSE asked
  BY DEF Alone!Execute, Alone!Writes, Alone!Works
<1>2. /\ c.op \in Methods /\ c.on \in SUBSET Traces
      /\ Ahead(c.rest) = {s} \cup then
      /\ s.do = "insert_run" => s.rows = c.on
      /\ \A a \in {s} \cup then : a.do \in Does[c.op]
      /\ Fits(s, then, c.on)
      /\ conn' = Effect(conn, s)
  BY ExecutedFacts
<1>3. c \in Alone!Calls /\ CallKept(c) /\ Pruning(c, asked)
  BY <1>1, KeptFacts DEF SQLiteKept
<1>4. d \in Alone!Calls /\ d # None /\ d.op = c.op /\ d.on = c.on /\ d.rest = Tail(c.rest) /\ d.raising = c.raising
  <2>1. Tail(c.rest) \in Seq(Statements \cup Alone!Finds)
    <3> HIDE DEF c
    <3> QED BY ONLY <1>1, <1>3, CallFields, TailFacts
  <2>2. d \in Alone!Calls /\ d.op = c.op /\ d.on = c.on /\ d.rest = Tail(c.rest) /\ d.raising = c.raising
    BY <1>3, <2>1, CallsFact
  <2> HIDE DEF d, c
  <2> QED BY <2>2, CallFields
<1> HIDE DEF c, d
<1>5. Tail(c.rest) # <<>> => Head(Tail(c.rest)).do # "insert_run"
  <2>1. c.rest \in Seq(Statements \cup Alone!Finds) /\ Programmed(c.op, c.on, c.rest)
    BY <1>3, CallFields DEF CallKept
  <2>2. /\ Programmed(c.op, c.on, Tail(c.rest))
        /\ \A i \in 1 .. Len(Tail(c.rest)) : Tail(c.rest)[i].do # "insert_run"
    BY ONLY <1>1, <2>1, ProgrammedTail
  <2>3. Tail(c.rest) \in Seq(Statements \cup Alone!Finds)
    BY ONLY <1>1, <2>1, TailFacts
  <2>4. Tail(c.rest) # <<>> => Len(Tail(c.rest)) >= 1 /\ Len(Tail(c.rest)) \in Nat /\ Head(Tail(c.rest)) = Tail(c.rest)[1]
    BY ONLY <2>3, TailFacts
  <2>5. Tail(c.rest) # <<>> => 1 \in 1 .. Len(Tail(c.rest))
    BY ONLY <2>4
  <2> QED BY ONLY <2>2, <2>4, <2>5
<1> HIDE DEF s, then
<1>6. asked \subseteq asked'  BY <1>1
<1>7. Pruning(d, asked')
  <2>1. \A a \in then : a \in Ahead(c.rest)  BY <1>2
  <2> QED BY <1>3, <1>4, <1>5, <1>6, <2>1 DEF Pruning, then
<1>8. Shaped(conn) /\ conn.runs \in SUBSET Traces
  BY KeptFacts
<1>9. /\ s.do = "insert_run" => conn'.runs = conn.runs \cup s.rows
      /\ s.do = "delete_runs" => conn'.runs = conn.runs \ s.rows
      /\ s.do = "keep_newest" => conn'.runs = Newest(conn.runs, s.rows)
      /\ s.do \notin {"insert_run", "delete_runs", "keep_newest"} => conn'.runs = conn.runs
  <2> HIDE DEF s
  <2>1. s.do \in Does[c.op]  BY <1>2
  <2>2. s.do \in {"insert_run", "insert_span", "delete_spans", "delete_marks", "delete_runs", "keep_newest",
                  "sweep_spans", "sweep_marks", "find", "insert_mark", "copy_tag", "move_marks", "delete_tag",
                  "unmark", "insert_tag"} /\ s.do # "find"
    BY <1>2, <2>1, WhoDoes, ExecutedFacts DEF s, c
  <2>3. "runs" \in TableNames  BY DEF TableNames
  <2> QED BY ONLY <1>2, <1>8, <2>2, <2>3, EffectRows DEF Changed
<1>10. /\ s.do = "insert_run" => c.op = "export"
       /\ s.do = "delete_runs" => c.op = "delete" /\ s.rows = c.on
       /\ s.do = "keep_newest" => c.op \in {"export", "prune"}
  BY ONLY <1>2, WhoDoes DEF Fits
<1>11. Excess(c) /\ s.do # "keep_newest" => Excess(d)
  BY <1>2, <1>4 DEF Excess, Todo, then
<1>12. (\A r : Exports(w, r) <=> Tells(d, r)) /\ (\A r : Tells(d, r) <=> c.op = "export" /\ r \in c.on)
  BY <1>1, <1>4 DEF Exports, Tells, c
<1>13. \A r \in conn.runs : r \in conn'.runs \/ r \in asked' \/ Many(conn.runs, r)
  <2>1. CASE s.do = "delete_runs"
    BY <1>3, <1>6, <1>9, <1>10, <2>1 DEF Pruning
  <2>2. CASE s.do = "keep_newest" /\ c.op = "prune"
    BY <1>1, <2>2
  <2>3. CASE s.do = "keep_newest" /\ c.op = "export"
    <3>1. s.rows = MaxRuns  BY <1>2, <1>3, <2>3 DEF Pruning
    <3> QED BY <1>8, <1>9, <2>3, <3>1, NotNewest
  <2> QED BY <1>9, <1>10, <2>1, <2>2, <2>3
<1>14. \/ Cardinality(conn'.runs) <= MaxRuns
       \/ Excess(d)
       \/ conn'.runs \subseteq conn.runs /\ (Excess(c) => Excess(d))
  <2>1. CASE s.do = "insert_run"
    <3>1. Todo(Ahead(c.rest), "keep_newest")
      BY <1>1, <1>3, <2>1 DEF Pruning, s
    <3> QED BY <1>1, <1>10, <1>11, <2>1, <3>1 DEF Excess
  <2>2. CASE s.do = "keep_newest" /\ c.op = "prune"
    <3>1. conn'.runs \subseteq conn.runs  BY <1>9, <2>2 DEF Newest
    <3> QED BY <2>2, <3>1 DEF Excess
  <2>3. CASE s.do = "keep_newest" /\ c.op = "export"
    <3>1. s.rows = MaxRuns  BY <1>2, <1>3, <2>3 DEF Pruning
    <3>2. MaxRuns \in Nat
      BY StoresAssumption
    <3> QED BY <1>8, <1>9, <2>3, <3>1, <3>2, NewestFew
  <2>4. CASE s.do \notin {"insert_run", "keep_newest"}
    BY <1>9, <1>11, <2>4
  <2> QED BY <1>10, <2>1, <2>2, <2>3, <2>4
<1>15. RowsTurn(w, d)
  <2>1. \A r : Awaits(c, r) => r \in conn'.runs  BY <1>2, <1>9 DEF Awaits, s
  <2>2. \A r \in conn'.runs : r \in conn.runs \/ Tells(d, r)
    BY <1>2, <1>9, <1>10, <1>12 DEF Newest
  <2> QED BY <1>1, <1>12, <1>13, <1>14, <2>1, <2>2 DEF RowsTurn, c
<1> QED BY <1>1, <1>6, <1>7, <1>15, KeptTurn DEF c

(* A SELECT of tag_runs. *)
LEMMA FindKept ==
  ASSUME NEW W, SQLiteInv(W), SQLiteInv(W)', SQLiteKept(W), NEW w \in W, Alone!Find(w)
  PROVE  SQLiteKept(W)' /\ stored' = stored /\ asked' = asked
<1> DEFINE c == active[w]
           s == Head(c.rest)
<1>1. /\ c # None /\ ~c.raising /\ c.rest # <<>> /\ s.do = "find"
      /\ conn' = conn /\ sent' = sent /\ stored' = stored /\ asked' = asked
  BY DEF Alone!Find, Alone!Works, Alone!Now, Alone!history
<1>2. c.rest \in Seq(Statements \cup Alone!Finds) /\ Programmed(c.op, c.on, c.rest)
  BY <1>1, KeptFacts, CallFields DEF CallKept
<1> HIDE DEF c
<1>3. c.op = "tag"
  <2>1. s.do \in Known \/ c.op = "tag"
    BY ONLY <1>1, <1>2, ProgrammedTail DEF s
  <2>2. "find" \notin Known  BY DEF Known, Kinds
  <2> QED BY <1>1, <2>1, <2>2
<1>4. PICK d : active' = [active EXCEPT ![w] = d] /\ (d = None \/ d.op = c.op)
  <2> DEFINE found == c.on \ (s.rows \ conn.runs)
             after == IF Tail(c.rest) # <<>> THEN Tail(c.rest) ELSE Alone!AssignTag(Alone!InOrder(found), s.tag)
             e == [c EXCEPT !.on = found, !.rest = after]
  <2>1. active' = [active EXCEPT ![w] = None] \/ active' = [active EXCEPT ![w] = e]
    BY DEF Alone!Find, Alone!Now, c
  <2>2. e.op = c.op
    <3>1. c \in Alone!Calls  BY <1>1, KeptFacts DEF c
    <3> HIDE DEF found, after
    <3> QED BY <3>1, CallsFact
  <2> HIDE DEF e
  <2> QED BY <2>1, <2>2
<1> QED BY <1>1, <1>3, <1>4, KeptAside DEF c

(* The call returns. *)
LEMMA CommitKept ==
  ASSUME NEW W, SQLiteInv(W), SQLiteInv(W)', SQLiteKept(W), NEW w \in W, Alone!Commit(w)
  PROVE  SQLiteKept(W)'
<1>1. /\ active[w] # None /\ ~active[w].raising /\ active[w].rest = <<>>
      /\ active' = [active EXCEPT ![w] = None] /\ conn' = conn /\ sent' = sent /\ asked' = asked
      /\ stored' = IF active[w].op = "export" THEN stored \cup active[w].on ELSE stored
  BY DEF Alone!Commit, Alone!Works
<1>2. ~Excess(active[w]) /\ \A r : ~Awaits(active[w], r)
  BY <1>1, AheadNone DEF Excess, Todo, Awaits
<1>3. \A r : ~Tells(None, r)  BY DEF Tells
<1>4. \A r : r \in stored' <=> r \in stored \/ Exports(w, r)
  BY <1>1 DEF Exports
<1>5. RowsTurn(w, None)
  BY <1>1, <1>2, <1>3, <1>4 DEF RowsTurn
<1> QED BY <1>1, <1>4, <1>5, KeptTurn

LEMMA SharedKept ==
  ASSUME NEW W, SQLiteInv(W), SQLiteKept(W), OrderlyCalls(W), NEW w \in W, Shared(w)
  PROVE  SQLiteKept(W)'
<1>0. SQLiteInv(W)'  BY SharedStep
<1>1. ASSUME NEW r \in Traces, Alone!Export(w, r) PROVE SQLiteKept(W)'
  BY <1>0, <1>1, ExportKept
<1>2. ASSUME NEW R, Alone!Delete(w, R) PROVE SQLiteKept(W)'
  <2>1. /\ "delete" \in Methods \ {"export"} /\ Alone!Begin(w, "delete", R, Alone!DeleteRuns(R))
        /\ asked' = asked \cup R
    BY <1>2 DEF Methods, Alone!Delete
  <2> QED BY <1>0, <2>1, BeginKept
<1>3. ASSUME NEW r \in Traces, Alone!DeleteRun(w, r) PROVE SQLiteKept(W)'
  BY <1>2, <1>3 DEF Alone!DeleteRun
<1>4. ASSUME NEW s \in Sessions, Alone!DeleteSession(w, s) PROVE SQLiteKept(W)'
  BY <1>2, <1>4 DEF Alone!DeleteSession
<1>5. ASSUME \/ \E n \in 0 .. MaxRuns : Alone!PruneTo(w, n)
             \/ \E R \in SUBSET Traces, t \in Tags : Alone!TagRuns(w, R, t) \/ Alone!UntagRuns(w, R, t)
             \/ \E o, n \in Tags : Alone!RenameTag(w, o, n)
             \/ \E t \in Tags : Alone!SetTagColor(w, t) \/ Alone!DeleteTag(w, t)
      PROVE  SQLiteKept(W)'
  <2>1. {"prune", "tag", "untag", "rename", "color", "delete_tag"} \subseteq Methods \ {"export", "delete"}
    BY DEF Methods
  <2>2. \E op \in Methods \ {"export", "delete"} : \E on, prog : Alone!Begin(w, op, on, prog) /\ asked' = asked
    BY <1>5, <2>1 DEF Alone!PruneTo, Alone!TagRuns, Alone!UntagRuns, Alone!RenameTag,
                      Alone!SetTagColor, Alone!DeleteTag
  <2>3. PICK op \in Methods \ {"export", "delete"} : \E on, prog : Alone!Begin(w, op, on, prog) /\ asked' = asked
    BY ONLY <2>2
  <2> QED BY <1>0, <2>3, BeginKept
<1>6. Alone!Execute(w) => SQLiteKept(W)'  BY <1>0, ExecuteKept
<1>7. Alone!Find(w) => SQLiteKept(W)'
  BY <1>0, FindKept
<1>8. Alone!Commit(w) => SQLiteKept(W)'  BY <1>0, CommitKept
<1> QED BY <1>1, <1>3, <1>4, <1>5, <1>6, <1>7, <1>8 DEF Shared

(* No worker has a call, and the connection has the committed rows. *)
LEMMA RestKept ==
  ASSUME NEW W, SQLiteInv(W)', DiskKept, stored \subseteq sent,
         conn' = disk, UNCHANGED <<sent, stored, asked>>, \A w \in W : active'[w] = None
  PROVE  SQLiteKept(W)'
<1>1. DOMAIN active' = W  BY DEF SQLiteInv, Alike
<1>2. Said' = stored
  BY <1>1 DEF Said, Exports
<1>3. /\ conn'.runs \subseteq Said' /\ Cardinality(conn'.runs) <= MaxRuns
      /\ \A r \in Said' : r \in conn'.runs \/ r \in asked' \/ Many(Said', r)
  BY <1>2 DEF DiskKept, Sure
<1>4. ConnKept(W)'
  BY ONLY <1>3 DEF ConnKept, Sure, Many
<1>5. stored' \subseteq sent' /\ \A w \in W : active'[w] # None => Pruning(active'[w], asked')
  OBVIOUS
<1> QED BY ONLY <1>4, <1>5 DEF SQLiteKept, Pruning, Todo, Ahead

LEMMA RaiseKept ==
  ASSUME NEW W, SQLiteInv(W), SQLiteKept(W), NEW w \in W, Alone!Works(w), Alone!Raise(w)
  PROVE  SQLiteKept(W)'
<1> DEFINE c == active[w]
           d == [c EXCEPT !.raising = TRUE]
<1>0. SQLiteInv(W)'  BY RaiseTurn
<1>1. /\ c # None /\ ~c.raising /\ active' = [active EXCEPT ![w] = IF c.op = "export" THEN d ELSE None]
      /\ conn' = conn /\ sent' = sent /\ stored' = stored /\ asked' = asked
  BY DEF Alone!Raise, Alone!Works, Alone!history
<1>2. CASE c.op = "export"
  <2>1. d \in Alone!Calls /\ d.op = c.op /\ d.on = c.on /\ d.rest = c.rest /\ d.raising = TRUE
    <3>1. c \in Alone!Calls  BY <1>1, KeptFacts
    <3> QED BY <3>1, CallsFact
  <2>2. Pruning(c, asked)  BY <1>1 DEF SQLiteKept
  <2>3. active' = [active EXCEPT ![w] = d] /\ ~active[w].raising
    BY <1>1, <1>2
  <2> HIDE DEF c, d
  <2>4. Pruning(d, asked') /\ d # None
    BY <1>1, <2>1, <2>2, CallFields DEF Pruning
  <2> QED BY <1>0, <1>1, <2>1, <2>3, <2>4, KeptTurn
<1>3. CASE c.op # "export"
  <2>1. active' = [active EXCEPT ![w] = None]  BY <1>1, <1>3
  <2> QED BY <1>0, <1>1, <1>3, <2>1, KeptAside
<1> QED BY <1>2, <1>3

(* What is committed with nothing else under way. *)
LEMMA CommitsKept ==
  ASSUME SQLiteInv(Single), SQLiteKept(Single), NEW w, Single = {w}, Alone!Commit(w)
  PROVE  DiskKept'
<1>1. /\ active[w] # None /\ ~active[w].raising /\ active[w].rest = <<>> /\ disk' = conn
      /\ asked' = asked /\ stored' = IF active[w].op = "export" THEN stored \cup active[w].on ELSE stored
  BY DEF Alone!Commit, Alone!Works
<1>2. w \in Single /\ \A u \in Single : u = w  OBVIOUS
<1>3. ConnKept(Single) /\ stored \subseteq sent
  BY <1>1, <1>2 DEF SQLiteKept, Calm
<1>4. ~Excess(active[w]) /\ \A r : ~Awaits(active[w], r)
  BY <1>1, AheadNone DEF Excess, Todo, Awaits
<1>5. \A r : r \in stored' <=> r \in stored \/ Exports(w, r)
  BY <1>1 DEF Exports
<1>6. \A r : r \in Said <=> r \in stored'
  <2>1. \A r : r \in Said <=> r \in sent /\ (r \in stored \/ Exports(w, r))
    BY <1>2, SaidFact
  <2>2. \A r : Exports(w, r) => r \in sent
    BY <1>2, KeptFacts DEF Exports, CallKept
  <2> QED BY <1>3, <1>5, <2>1, <2>2
<1>7. Said = stored'
  <2> HIDE DEF Said
  <2>1. Said \subseteq Traces  BY SaidFact
  <2>2. \A r \in stored' : r \in Said
    BY <1>6
  <2> QED BY <1>6
<1>8. \A r \in Said : r \in Shown
  <2>1. DOMAIN active = Single  BY KeptFacts
  <2>2. \A r \in Said : r \in sent
    BY SaidFact
  <2> QED BY <1>2, <1>4, <2>1, <2>2, ShownFact
<1>9. /\ disk'.runs \subseteq stored' /\ Cardinality(disk'.runs) <= MaxRuns
      /\ \A r \in stored' : r \in disk'.runs \/ r \in asked' \/ Many(stored', r)
  BY <1>1, <1>2, <1>3, <1>4, <1>7, <1>8 DEF ConnKept, Sure
<1> QED BY ONLY <1>9 DEF DiskKept, Sure, Many

LEMMA AloneKeptStep ==
  ASSUME SQLiteInv(Single), SQLiteInv(Single)', OrderlyCalls(Single), SQLiteKept(Single), DiskKept, Alone!Next
  PROVE  SQLiteKept(Single)' /\ DiskKept'
<1>1. PICK w \in Single : Single = {w}  BY StoresAssumption
<1>2. ASSUME disk' = disk, stored' = stored, asked \subseteq asked' PROVE DiskKept'
  <2>1. /\ disk'.runs \subseteq stored' /\ Cardinality(disk'.runs) <= MaxRuns
        /\ \A r \in stored' : r \in disk'.runs \/ r \in asked' \/ Many(stored', r)
    BY <1>2 DEF DiskKept, Sure
  <2> QED BY ONLY <2>1 DEF DiskKept, Sure, Many
<1>3. CASE Shared(w)
  <2>1. SQLiteKept(Single)'  BY <1>3, SharedKept
  <2>2. CASE Alone!Commit(w)
    BY <1>1, <2>1, <2>2, CommitsKept
  <2>3. CASE ~Alone!Commit(w)
    <3>1. disk' = disk /\ stored' = stored /\ asked \subseteq asked'
      <4>1. CASE Alone!Execute(w)  BY <4>1 DEF Alone!Execute
      <4>2. CASE Alone!Find(w)
        BY <4>2, FindKept, <1>3, SharedStep, FindTurn
      <4>3. CASE \E r \in Traces : Alone!Export(w, r)
        BY <4>3 DEF Alone!Export
      <4>4. CASE (\E r \in Traces : Alone!DeleteRun(w, r)) \/ \E s \in Sessions : Alone!DeleteSession(w, s)
        BY <4>4 DEF Alone!DeleteRun, Alone!DeleteSession, Alone!Delete, Alone!Begin
      <4>5. CASE \/ \E n \in 0 .. MaxRuns : Alone!PruneTo(w, n)
                 \/ \E R \in SUBSET Traces, t \in Tags : Alone!TagRuns(w, R, t) \/ Alone!UntagRuns(w, R, t)
                 \/ \E o, n \in Tags : Alone!RenameTag(w, o, n)
                 \/ \E t \in Tags : Alone!SetTagColor(w, t) \/ Alone!DeleteTag(w, t)
        BY <4>5 DEF Alone!PruneTo, Alone!TagRuns, Alone!UntagRuns, Alone!RenameTag,
                    Alone!SetTagColor, Alone!DeleteTag, Alone!Begin
      <4> QED BY <1>3, <2>3, <4>1, <4>2, <4>3, <4>4, <4>5 DEF Shared
    <3> QED BY <1>2, <2>1, <3>1
  <2> QED BY <2>2, <2>3
<1>4. CASE Alone!Locked(w) \/ Alone!Unbindable(w)
  <2>1. Alone!Works(w) /\ Alone!Raise(w)
    BY <1>4 DEF Alone!Locked, Alone!Unbindable, Alone!Writes
  <2>2. disk' = disk /\ stored' = stored /\ asked' = asked
    BY <2>1 DEF Alone!Raise, Alone!history
  <2> QED BY <1>2, <2>1, <2>2, RaiseKept
<1>5. CASE Alone!Rollback(w) \/ Alone!Crash
  <2>1. disk' = disk /\ conn' = disk /\ sent' = sent /\ stored' = stored /\ asked' = asked
    BY <1>5 DEF Alone!Rollback, Alone!Crash, Alone!history
  <2>2. active'[w] = None
    BY <1>5, KeptFacts DEF Alone!Rollback, Alone!Crash
  <2>3. \A u \in Single : active'[u] = None  BY <1>1, <2>2
  <2>4. stored \subseteq sent
    BY DEF SQLiteKept
  <2> QED BY <1>2, <2>1, <2>3, <2>4, RestKept
<1>6. Shared(w) \/ Alone!Locked(w) \/ Alone!Unbindable(w) \/ Alone!Rollback(w) \/ Alone!Crash
  BY <1>1 DEF Alone!Next, Shared
<1> QED BY <1>3, <1>4, <1>5, <1>6

LEMMA SQLiteKeptInit ==
  /\ Alone!Init => SQLiteKept(Single) /\ DiskKept
  /\ Pool!Init => SQLiteKept(Several)
<1>0. Cardinality({}) <= MaxRuns  BY FS_EmptySet, StoresAssumption
<1>1. ASSUME NEW W, disk = NoRows, conn = NoRows, active = [w \in W |-> None], sent = {}, stored = {}
      PROVE  SQLiteKept(W) /\ DiskKept
  <2>1. \A w \in W : active[w] = None  BY <1>1
  <2>2. Said = {}
    BY <1>1 DEF Said
  <2>3. conn.runs = {} /\ disk.runs = {}  BY <1>1 DEF NoRows
  <2> QED BY <1>0, <1>1, <2>1, <2>2, <2>3 DEF SQLiteKept, ConnKept, DiskKept
<1> QED BY <1>1, SameTerms DEF Alone!Init, Pool!Init

(* Retention is what the invariants say, once all calls are over. *)
LEMMA DiskRetained ==
  DiskKept => Cardinality(disk.runs) <= MaxRuns /\ \A r \in stored : r \in disk.runs \/ Due(r)
BY DEF DiskKept, Sure, Due, Many

LEMMA PoolRetained ==
  ASSUME SQLiteInv(Several), SQLiteKept(Several), PoolWhole, AtRest
  PROVE  Cardinality(disk.runs) <= MaxRuns /\ \A r \in stored : r \in disk.runs \/ Due(r)
<1>1. DOMAIN active = Several  BY KeptFacts
<1>2. \A w \in Several : active[w] = None
  BY <1>1 DEF AtRest
<1>3. disk = conn  BY <1>2 DEF PoolWhole
<1>4. ConnKept(Several) /\ stored \subseteq sent
  BY <1>2 DEF SQLiteKept, Calm
<1>5. Said = stored
  BY <1>1, <1>2, <1>4 DEF Said, Exports
<1>6. \A r \in Said : r \in Shown
  BY <1>1, <1>2, SaidFact, ShownFact
<1>7. Cardinality(disk.runs) <= MaxRuns
  BY <1>2, <1>3, <1>4 DEF ConnKept, Excess
<1>8. \A r \in stored : r \in disk.runs \/ Sure(stored, r)
  BY <1>3, <1>4, <1>5, <1>6 DEF ConnKept
<1> QED BY <1>7, <1>8 DEF Sure, Due, Many

-----------------------------------------------------------------------------
(* Retention: the invariant of the Postgres store.  Exports of several      *)
(* connections prune by what each of them sees.                             *)

(* The turn of one call: the others' go on by what they rested on. *)
LEMMA DoomedFact ==
  ASSUME NEW c, NEW S, c.rest \in Seq(S), NEW T, NEW taken, NEW runs, PgPruning(c, T, taken, runs),
         c.rest # <<>>, Head(c.rest).do = "delete_runs"
  PROVE  \A r \in Traces : r \in Head(c.rest).rows => r \in T \cup Own(c)
<1>1. Head(c.rest) \in Ahead(c.rest)  BY HeadAhead
<1>2. \A r \in Traces : r \in Head(c.rest).rows => r \in Doomed(c)
  BY <1>1 DEF Doomed, Leaves
<1> QED BY <1>2 DEF PgPruning

LEMMA SpentGrows ==
  ASSUME NEW T \in SUBSET Traces, NEW S \in SUBSET T, NEW taken, NEW before \in SUBSET taken, NEW r,
         Spent(S, before, r)
  PROVE  Spent(T, taken, r)
BY ManyGrows DEF Spent

LEMMA PruningGrows ==
  ASSUME NEW c, NEW S, c.rest \in Seq(S), NEW T, NEW before, NEW runs, PgPruning(c, T, before, runs),
         NEW T2 \in SUBSET Traces, T \subseteq T2, NEW taken, before \subseteq taken,
         NEW found \in SUBSET Traces, \A r \in Own(c) : r \notin T2,
         \A r \in found : r \in runs \/ r \notin T \cup Own(c)
  PROVE  PgPruning(c, T2, taken, found)
<1> DEFINE t == T \cup Own(c)
           t2 == T2 \cup Own(c)
<1>1. t2 \in SUBSET Traces /\ t \in SUBSET t2  BY DEF Own
<1>2. /\ Looks(c) => c.aim \subseteq t
      /\ \A r \in Doomed(c) : r \in t /\ Spent(t, before, r)
      /\ \A r \in Own(c) :
           Todo(Ahead(c.rest), "insert_run") \/ r \in c.ins.runs \/ Spent(t, before, r)
  BY DEF PgPruning
<1>3. c.rest # <<>> /\ Head(c.rest).do = "delete_runs" => \A r \in Traces : r \in Head(c.rest).rows => r \in t
  BY DoomedFact
<1>4. c.rest # <<>> /\ Head(c.rest).do = "delete_runs" /\ c.aim # None =>
        /\ \A r \in c.aim : r \in Head(c.rest).rows
        /\ \A r \in Head(c.rest).rows : r \in found => r \in c.aim
  BY <1>3 DEF PgPruning
<1> HIDE DEF t, t2
<1>5. \A r : Spent(t, before, r) => Spent(t2, taken, r)
  BY <1>1, SpentGrows
<1>6. /\ Looks(c) => c.aim \subseteq t2
      /\ \A r \in Doomed(c) : r \in t2 /\ Spent(t2, taken, r)
      /\ \A r \in Own(c) :
           Todo(Ahead(c.rest), "insert_run") \/ r \in c.ins.runs \/ Spent(t2, taken, r)
  BY <1>1, <1>2, <1>5
<1> QED BY <1>4, <1>6 DEF PgPruning, t2

LEMMA SurplusFact ==
  /\ Cardinality(Several) \in Nat /\ MaxRuns \in Nat
  /\ \A w \in Several : Cardinality(Several \ {w}) = Cardinality(Several) - 1
<1>1. IsFiniteSet(Several)  BY RetentionAssumption
<1>2. \A w \in Several : Cardinality(Several \ {w}) = Cardinality(Several) - 1
  BY <1>1, FS_RemoveElement
<1> QED BY <1>1, <1>2, FS_CardinalityType, StoresAssumption

(* No more are left, if fewer runs are. *)
LEMMA FewerLeft ==
  ASSUME NEW N, NEW L \in SUBSET Traces, NEW K \in SUBSET L, N \in Nat, Cardinality(L) <= N
  PROVE  Cardinality(K) <= N
<1>1. Cardinality(L) \in Nat /\ Cardinality(K) <= Cardinality(L) /\ Cardinality(K) \in Nat
  <2>1. K \in SUBSET Traces  OBVIOUS
  <2> QED BY <2>1, TracesFinite
<1> QED BY <1>1

(* Worker w's call becomes c. *)
LEMMA PgRetainsTurn ==
  ASSUME PgKept, PgRetains, NEW w \in Several, NEW c, active' = [active EXCEPT ![w] = c],
         disk'.runs \subseteq stored', stored' \subseteq sent',
         \A r \in stored' : r \in disk'.runs \/ Spent(stored', asked', r),
         c # None => PgPruning(c, stored', asked', disk'.runs),
         \A u \in Several : u # w /\ active[u] # None => PgPruning(active[u], stored', asked', disk'.runs),
         \A Q \in SUBSET Several :
           Choosing(Q, active') =>
             Cardinality(Left(Q, active', disk'.runs)) <= MaxRuns + Cardinality(Several) - 1
  PROVE  PgRetains'
<1>1. /\ DOMAIN active = Several /\ active'[w] = c
      /\ \A u \in Several : u # w => active'[u] = active[u]
  BY PgSent
<1>2. \A u \in Several : active'[u] # None => PgPruning(active'[u], stored', asked', disk'.runs)
  <2> TAKE u \in Several
  <2>1. CASE u = w  BY <1>1, <2>1
  <2>2. CASE u # w
    BY <1>1, <2>2
  <2> QED BY <2>1, <2>2
<1>3. /\ disk'.runs \subseteq stored' /\ stored' \subseteq sent'
      /\ \A r \in stored' : r \in disk'.runs \/ Spent(stored', asked', r)
      /\ \A Q \in SUBSET Several :
           Choosing(Q, active') =>
             Cardinality(Left(Q, active', disk'.runs)) <= MaxRuns + Cardinality(Several) - 1
  OBVIOUS
<1> QED
  BY ONLY <1>2, <1>3
  DEF PgRetains, FewLeft, Choosing, Chosen, Left, Doomed, PgPruning, Spent, Many, Own, Looks, Leaves, Todo, Ahead

(* The runs stay. *)
LEMMA PgRetainsUnwritten ==
  ASSUME PgKept, PgRetains, NEW w \in Several, NEW c, active' = [active EXCEPT ![w] = c],
         disk' = disk, stored' = stored, sent \subseteq sent', asked \subseteq asked',
         c # None => PgPruning(c, stored, asked', disk.runs),
         \A Q \in SUBSET Several :
           w \in Q /\ c # None /\ Chosen(c) /\ Choosing(Q, active') =>
             Cardinality(Left(Q, active', disk.runs)) <= MaxRuns + Cardinality(Several) - 1
  PROVE  PgRetains'
<1>1. /\ DOMAIN active = Several /\ active'[w] = c
      /\ \A u \in Several : u # w => active'[u] = active[u]
      /\ disk.runs \subseteq Traces /\ stored \subseteq Traces
  BY PgSent DEF PgRetains
<1>2. /\ disk.runs \subseteq stored /\ stored \subseteq sent'
      /\ \A r \in stored : r \in disk.runs \/ Spent(stored, asked', r)
  BY DEF PgRetains, Spent
<1>3. ASSUME NEW u \in Several, u # w, active[u] # None
      PROVE  PgPruning(active[u], stored, asked', disk.runs)
  <2>1. PICK e : e = active[u]  OBVIOUS
  <2>2. PgPruning(e, stored, asked, disk.runs) /\ e.rest \in Seq(Statements)
    BY <1>3, <2>1, PgCallKept DEF PgRetains, PgCall
  <2>3. \A r \in Own(e) : r \notin stored  BY <2>2 DEF PgPruning
  <2>4. PgPruning(e, stored, asked', disk.runs)
    BY <1>1, <2>2, <2>3, PruningGrows
  <2> QED BY <2>1, <2>4
<1>4. ASSUME NEW Q \in SUBSET Several, Choosing(Q, active')
      PROVE  Cardinality(Left(Q, active', disk.runs)) <= MaxRuns + Cardinality(Several) - 1
  <2>1. CASE w \in Q  BY <1>1, <1>4, <2>1 DEF Choosing
  <2>2. CASE w \notin Q
    <3>1. \A u \in Q : active'[u] = active[u]  BY <1>1, <2>2
    <3>2. Choosing(Q, active)
      BY <1>4, <3>1 DEF Choosing
    <3>3. Left(Q, active', disk.runs) = Left(Q, active, disk.runs)
      BY ONLY <3>1 DEF Left
    <3> QED BY <3>2, <3>3 DEF PgRetains, FewLeft
  <2> QED BY <2>1, <2>2
<1> QED BY <1>2, <1>3, <1>4, PgRetainsTurn

(* The transaction is dropped. *)
LEMMA PgRetainsDrop ==
  ASSUME PgKept, PgRetains, NEW w \in Several, Postgres!Drop(w)
  PROVE  PgRetains'
<1>1. /\ active' = [active EXCEPT ![w] = None] /\ disk' = disk /\ sent' = sent /\ stored' = stored /\ asked' = asked
  BY DEF Postgres!Drop
<1> QED BY <1>1, PgRetainsUnwritten

(* A call that has just begun. *)
LEMMA PgRetainsBegins ==
  ASSUME PgKept, PgRetains, NEW w \in Several, NEW op, NEW on \in SUBSET Traces, NEW prog \in Seq(Statements),
         active' = [active EXCEPT ![w] = Postgres!Call(op, on, prog)],
         disk' = disk, stored' = stored, sent \subseteq sent', asked \subseteq asked',
         op = "export" => /\ \A a \in Ahead(prog) : a.do = "select_old" => a.rows = MaxRuns
                          /\ \A q, r \in on : q = r
                          /\ \A r \in on : r \notin sent
                          /\ Todo(Ahead(prog), "insert_run"),
         Todo(Ahead(prog), "insert_run") => Todo(Ahead(prog), "select_old"),
         \A r \in Traces : Leaves(Ahead(prog), r) => r \in stored /\ r \in asked'
  PROVE  PgRetains'
<1>1. PICK c : c = Postgres!Call(op, on, prog)  OBVIOUS
<1>2. c.op = op /\ c.on = on /\ c.rest = prog /\ c.aim = None /\ c.ins.runs = {} /\ c.del.runs = {}
  BY <1>1, PgTerms DEF Postgres!Call, NoRows
<1>3. stored \subseteq sent  BY DEF PgRetains
<1>4. ~Looks(c) /\ ~Chosen(c)
  BY <1>2 DEF Looks, Chosen
<1>5. \A r \in Doomed(c) : r \in stored /\ r \in asked'
  BY <1>2, <1>4 DEF Doomed
<1>6. \A r \in Own(c) : op = "export" /\ r \in on
  BY <1>2 DEF Own
<1>7. PgPruning(c, stored, asked', disk.runs)
  BY <1>2, <1>3, <1>4, <1>5, <1>6 DEF PgPruning, Spent
<1> QED BY <1>1, <1>4, <1>7, PgRetainsUnwritten

(* A call that inserts and deletes no run. *)
LEMMA PgRetainsAside ==
  ASSUME PgKept, PgRetains, NEW w \in Several, NEW op, op # "export", NEW on \in SUBSET Traces,
         NEW prog, Plain(prog), \A a \in Ahead(prog) : a.do # "delete_runs",
         Postgres!Begin(w, op, on, prog), asked' = asked
  PROVE  PgRetains'
<1>1. /\ disk' = disk /\ stored' = stored /\ sent' = sent
      /\ active' = [active EXCEPT ![w] = Postgres!Call(op, on, prog)]
  BY DEF Postgres!Begin
<1>2. prog \in Seq(Statements) /\ ~Todo(Ahead(prog), "insert_run")
  BY DEF Plain, Todo, Ahead
<1>3. \A r : ~Leaves(Ahead(prog), r)  BY DEF Leaves
<1> QED BY <1>1, <1>2, <1>3, PgRetainsBegins

LEMMA PgRetainsDelete ==
  ASSUME PgKept, PgRetains, NEW w \in Several, NEW R \in SUBSET disk.runs, Postgres!Delete(w, R)
  PROVE  PgRetains'
<1>1. R \in SUBSET Traces /\ R \subseteq stored
  BY PgSent DEF PgRetains
<1>2. PICK prog : prog = DeleteRuns(R)  OBVIOUS
<1>3. Plain(prog) /\ Ordered("delete", R, prog)
  BY <1>1, <1>2, PlainDelete
<1>4. /\ disk' = disk /\ stored' = stored /\ sent' = sent /\ asked' = asked \cup R
      /\ active' = [active EXCEPT ![w] = Postgres!Call("delete", R, prog)]
  BY <1>2, PgTerms DEF Postgres!Delete, Postgres!Begin
<1>5. prog \in Seq(Statements) /\ ~Todo(Ahead(prog), "insert_run")
  BY <1>3 DEF Plain, Todo, Ahead
<1>6. \A r : Leaves(Ahead(prog), r) => r \in R
  BY <1>3 DEF Ordered, Leaves, Ahead
<1>7. asked \subseteq asked' /\ \A r \in Traces : Leaves(Ahead(prog), r) => r \in stored /\ r \in asked'
  BY <1>1, <1>4, <1>6
<1> QED BY <1>1, <1>4, <1>5, <1>7, PgRetainsBegins

LEMMA PgRetainsExport ==
  ASSUME PgKept, PgRetains, NEW w \in Several, NEW r \in Traces, Postgres!Export(w, r)
  PROVE  PgRetains'
<1>1. PICK op, on, prog : op = "export" /\ on = {r} /\ prog = Postgres!ExportProgram(r)  OBVIOUS
<1>2. /\ disk' = disk /\ stored' = stored /\ sent \subseteq sent' /\ asked \subseteq asked' /\ r \notin sent
      /\ active' = [active EXCEPT ![w] = Postgres!Call(op, on, prog)]
  BY <1>1 DEF Postgres!Export
<1>3. PICK n \in Nat :
        /\ prog \in Seq(Statements) /\ Len(prog) = n + 2
        /\ prog[1] = Statement("insert_run", {r})
        /\ \A j \in 1 .. n : prog[j + 1] = Statement("insert_span", {<<r, j>>})
        /\ prog[n + 2] = Statement("select_old", MaxRuns)
  BY <1>1, PgExportingFacts
<1>4. /\ prog[1].do = "insert_run"
      /\ prog[n + 2].do = "select_old" /\ prog[n + 2].rows = MaxRuns
  BY ONLY <1>3, StatementFields
<1>5. \A j \in 1 .. n : prog[j + 1].do = "insert_span"
  <2> TAKE j \in 1 .. n
  <2>1. PICK x : prog[j + 1] = Statement("insert_span", x)
    BY ONLY <1>3
  <2> QED BY ONLY <2>1, StatementFields
<1>6. \A i \in 1 .. n + 2 : \/ i = 1 \/ (i - 1 \in 1 .. n /\ (i - 1) + 1 = i)
                            \/ i = n + 2
  OBVIOUS
<1>7. 1 \in 1 .. n + 2 /\ n + 2 \in 1 .. n + 2  OBVIOUS
<1>8. \A i \in 1 .. n + 2 : /\ prog[i].do # "delete_runs"
                            /\ prog[i].do = "select_old" => prog[i].rows = MaxRuns
  BY ONLY <1>4, <1>5, <1>6
<1>9. Ahead(prog) = {prog[i] : i \in 1 .. n + 2}
  BY <1>3 DEF Ahead
<1>10. /\ \A a \in Ahead(prog) : a.do = "select_old" => a.rows = MaxRuns
       /\ Todo(Ahead(prog), "insert_run") /\ Todo(Ahead(prog), "select_old")
       /\ \A q : ~Leaves(Ahead(prog), q)
  BY ONLY <1>4, <1>7, <1>8, <1>9 DEF Todo, Leaves
<1>11. on \in SUBSET Traces /\ (\A p, q \in on : p = q) /\ \A q \in on : q \notin sent
  BY <1>1, <1>2
<1> QED BY <1>2, <1>3, <1>10, <1>11, PgRetainsBegins

LEMMA PgRetainsBegun ==
  ASSUME PgKept, PgRetains, NEW w \in Several, PgOthers(w)
  PROVE  PgRetains'
<1>1. ASSUME NEW op \in {"tag", "untag", "rename", "color", "delete_tag"}, NEW on, NEW prog, PgOpens(op, on, prog)
      PROVE  \A a \in Ahead(prog) : a.do # "delete_runs"
  BY <1>1 DEF PgOpens, PgOrderly, PgDoes, Ahead
<1>2. ASSUME NEW n \in 0 .. MaxRuns, Postgres!PruneTo(w, n) PROVE PgRetains'
  <2> DEFINE p == <<Postgres!Select("select_old", n)>>
  <2>1. n \in Nat  BY StoresAssumption
  <2>2. Plain(p) /\ Postgres!Begin(w, "prune", {}, p) /\ asked' = asked
    BY <1>2, <2>1, PlainPrograms DEF Postgres!PruneTo
  <2>3. p = <<Statement("select_old", n)>>  BY PgTerms
  <2>4. Len(p) = 1 /\ p[1] = Statement("select_old", n)
    BY ONLY <2>3
  <2> HIDE DEF p
  <2>5. \A a \in Ahead(p) : a.do # "delete_runs"
    BY ONLY <2>4, OfOne, StatementFields
  <2> QED BY <2>2, <2>5, PgRetainsAside
<1>3. ASSUME NEW R \in SUBSET Traces, NEW t \in Tags, Postgres!TagRuns(w, R, t) PROVE PgRetains'
  <2>1. PICK e \in Postgres!Orders(R \cap disk.runs) :
               Postgres!Begin(w, "tag", R, Postgres!AssignTag(e, t))
    BY <1>3 DEF Postgres!TagRuns
  <2>2. R \cap disk.runs \in SUBSET Traces /\ asked' = asked
    BY <1>3 DEF Postgres!TagRuns
  <2>3. PgOpens("tag", R, Postgres!AssignTag(e, t)) /\ Plain(Postgres!AssignTag(e, t))
    BY <2>1, <2>2, PgAssignOpens, PlainAssign
  <2> QED BY <1>1, <2>1, <2>2, <2>3, PgRetainsAside
<1>4. ASSUME NEW R \in SUBSET Traces, NEW t \in Tags, Postgres!UntagRuns(w, R, t) PROVE PgRetains'
  <2> DEFINE p == <<Postgres!Statement("unmark", R \X {t})>>
  <2>1. Plain(p) /\ Postgres!Begin(w, "untag", R, p) /\ asked' = asked
    BY <1>4, PlainPrograms DEF Postgres!UntagRuns
  <2>2. PgOpens("untag", R, p)  BY PgTerms, PgOneOpens
  <2> HIDE DEF p
  <2> QED BY <1>1, <2>1, <2>2, PgRetainsAside
<1>5. ASSUME NEW o \in Tags, NEW n \in Tags, Postgres!RenameTag(w, o, n) PROVE PgRetains'
  <2>1. /\ Plain(Postgres!RenameProgram(o, n)) /\ PgOpens("rename", {}, Postgres!RenameProgram(o, n))
        /\ Postgres!Begin(w, "rename", {}, Postgres!RenameProgram(o, n)) /\ asked' = asked
    BY <1>5, PgRenameOpens, PlainPrograms DEF Postgres!RenameTag
  <2> QED BY <1>1, <2>1, PgRetainsAside
<1>6. ASSUME NEW t \in Tags, Postgres!SetTagColor(w, t) PROVE PgRetains'
  <2> DEFINE p == <<Postgres!Statement("insert_tag", {t})>>
  <2>1. Plain(p) /\ Postgres!Begin(w, "color", {}, p) /\ asked' = asked
    BY <1>6, PlainPrograms DEF Postgres!SetTagColor
  <2>2. PgOpens("color", {}, p)  BY PgTerms, PgOneOpens
  <2> HIDE DEF p
  <2> QED BY <1>1, <2>1, <2>2, PgRetainsAside
<1>7. ASSUME NEW t \in Tags, Postgres!DeleteTag(w, t) PROVE PgRetains'
  <2> DEFINE p == <<Postgres!Statement("delete_tag", {t})>>
  <2>1. Plain(p) /\ Postgres!Begin(w, "delete_tag", {}, p) /\ asked' = asked
    BY <1>7, PlainPrograms DEF Postgres!DeleteTag
  <2>2. PgOpens("delete_tag", {}, p)  BY PgTerms, PgOneOpens
  <2> HIDE DEF p
  <2> QED BY <1>1, <2>1, <2>2, PgRetainsAside
<1> QED BY <1>2, <1>3, <1>4, <1>5, <1>6, <1>7 DEF PgOthers

LEMMA PgFindsFact ==
  ASSUME PgKept, PgWhole, PgRetains, NEW w \in Several, NEW c, c = active[w], c # None, c.rest # <<>>,
         c.aim = None, NEW s, s = Head(c.rest), NEW aim, aim = Postgres!Found(w, s),
         NEW d, d = [c EXCEPT !.aim = aim], NEW seen, seen = disk.runs \cup c.ins.runs
  PROVE  PgFinds(c, s, aim, d, seen)
<1>1. PgCall(c) /\ PgSound(c, disk) /\ PgPruning(c, stored, asked, disk.runs)
  BY PgCallKept DEF PgWhole, PgRetains
<1>2. c.del.runs = {}  BY <1>1 DEF PgSound, PgAims
<1>3. PICK db : db = Postgres!Seen(w)  OBVIOUS
<1>4. db.runs = seen  BY <1>2, <1>3, SeenRows
<1>5. /\ s.do = "delete_runs" => aim = s.rows \cap seen
      /\ s.do = "select_old" => aim = seen \ Newest(seen, s.rows)
  <2>1. CASE s.do = "delete_runs"
    BY <1>3, <1>4, <2>1 DEF Postgres!Found
  <2>2. CASE s.do = "select_old"
    <3>1. \A R, n : Postgres!Newest(R, n) = Newest(R, n)
      BY DEF Postgres!Newest, Newest, Postgres!Cardinality, Cardinality
    <3>2. aim = db.runs \ Postgres!Newest(db.runs, s.rows)
      BY <1>3, <2>2 DEF Postgres!Found
    <3> QED BY <1>4, <2>2, <3>1, <3>2
  <2> QED BY <2>1, <2>2
<1>6. /\ d.op = c.op /\ d.on = c.on /\ d.rest = c.rest /\ d.aim = aim /\ d.ins = c.ins /\ d.del = c.del
      /\ c.rest \in Seq(Statements) /\ Ordered(c.op, c.on, c.rest)
      /\ c.on \in SUBSET Traces /\ \A r \in c.ins.runs : c.op = "export" /\ r \in c.on
  BY <1>1 DEF PgCall, PgShape, Shaped
<1>7. s.do = "select_old" => Ahead(c.rest) = {s}
  <2> DEFINE rest == c.rest
             op == c.op
             on == c.on
  <2>1. rest \in Seq(Statements) /\ rest # <<>> /\ Ordered(op, on, rest) /\ s = Head(rest)
    BY <1>6
  <2> HIDE DEF rest, op, on
  <2>2. OrderedOn(op, on, rest) /\ Ahead(rest) = {Head(rest)} \cup Ahead(Tail(rest))
    BY ONLY <2>1, OrderedTail, AheadTail
  <2>3. s.do = "select_old" => Tail(rest) = <<>>  BY ONLY <2>1, <2>2 DEF OrderedOn
  <2>4. s.do = "select_old" => Ahead(rest) = {s}
    BY ONLY <2>1, <2>2, <2>3, AheadNone
  <2> QED BY <2>4 DEF rest
<1>8. seen \subseteq stored \cup Own(c)  BY <1>6 DEF PgRetains, Own
<1> QED BY <1>1, <1>5, <1>6, <1>7, <1>8 DEF PgFinds

LEMMA FindsPruning ==
  ASSUME PgRetains, sent \in SUBSET Traces, NEW c, NEW s, NEW aim, NEW d, NEW seen, PgFinds(c, s, aim, d, seen)
  PROVE  PgPruning(d, stored, asked, disk.runs)
<1> DEFINE t == stored \cup Own(c)
<1>1. /\ d.op = c.op /\ d.on = c.on /\ d.rest = c.rest /\ d.aim = aim /\ d.ins = c.ins /\ d.del = c.del
      /\ s = Head(c.rest) /\ c.rest # <<>> /\ ~Looks(c) /\ PgPruning(c, stored, asked, disk.runs)
  BY DEF PgFinds, Looks
<1>2. Own(d) = Own(c)  BY <1>1 DEF Own
<1>3. Looks(d) => aim = seen \ Newest(seen, s.rows) /\ Ahead(c.rest) = {s} /\ s.do = "select_old"
  BY <1>1 DEF PgFinds, Looks
<1>4. seen \in SUBSET t /\ t \in SUBSET Traces  BY DEF PgFinds, Own, PgRetains
<1>5. Looks(d) => aim \subseteq t
  BY <1>3, <1>4
<1>6. ASSUME Looks(d), c.op = "export", NEW r \in aim PROVE r \in t /\ Many(t, r)
  <2>1. s.rows = MaxRuns  BY <1>1, <1>3, <1>6 DEF PgPruning
  <2>2. r \in seen /\ r \notin Newest(seen, MaxRuns)
    BY <1>3, <1>6, <2>1
  <2> HIDE DEF t
  <2>3. Many(seen, r)  BY <1>4, <2>2, NotNewest
  <2> QED BY <1>4, <2>2, <2>3, ManyGrows
<1>7. \A r \in Doomed(d) : r \in t /\ Spent(t, asked, r)
  <2>1. \A r \in Doomed(d) : r \in Doomed(c) \/ (c.op = "export" /\ Looks(d) /\ r \in aim)
    BY <1>1 DEF Doomed
  <2> QED BY <1>1, <1>6, <2>1 DEF PgPruning, Spent
<1>8. c.rest # <<>> /\ Head(c.rest).do = "delete_runs" /\ aim # None =>
        /\ \A r \in aim : r \in Head(c.rest).rows
        /\ \A r \in Head(c.rest).rows : r \in disk.runs => r \in aim
  BY DEF PgFinds
<1>9. /\ c.op = "export" => /\ \A a \in Ahead(c.rest) : a.do = "select_old" => a.rows = MaxRuns
                            /\ \A q, r \in c.on : q = r
      /\ \A r \in Own(c) : r \notin stored
      /\ Todo(Ahead(c.rest), "insert_run") => Todo(Ahead(c.rest), "select_old")
      /\ \A r \in Own(c) :
           Todo(Ahead(c.rest), "insert_run") \/ r \in c.ins.runs \/ Spent(t, asked, r)
  BY <1>1 DEF PgPruning
<1> QED BY ONLY <1>1, <1>2, <1>5, <1>7, <1>8, <1>9 DEF PgPruning, t

(* The runs that others' exports have inserted: one each. *)
LEMMA OthersFew ==
  ASSUME PgKept, PgRetains, NEW w \in Several,
         NEW X \in SUBSET Traces,
         \A r \in X : \E u \in Several \ {w} : active[u] # None /\ r \in active[u].ins.runs
  PROVE  IsFiniteSet(X) /\ Cardinality(X) <= Cardinality(Several) - 1
<1> DEFINE V == Several \ {w}
           B == {p \in V \X Traces : active[p[1]] # None /\ p[2] \in Own(active[p[1]])}
<1>1. \A u \in V, r \in Traces : <<u, r>> \in B <=> active[u] # None /\ r \in Own(active[u])
  OBVIOUS
<1>2. \A x \in X : \E v \in V : <<v, x>> \in B
  <2> TAKE x \in X
  <2>1. PICK v \in V : active[v] # None /\ x \in active[v].ins.runs  OBVIOUS
  <2>2. x \in Own(active[v])
    BY <2>1, PgCallKept DEF PgCall, Own
  <2> QED BY <1>1, <2>1, <2>2
<1>3. \A v \in V : \A x, y \in X : <<v, x>> \in B /\ <<v, y>> \in B => x = y
  <2> SUFFICES ASSUME NEW v \in V, NEW x \in X, NEW y \in X, <<v, x>> \in B, <<v, y>> \in B PROVE x = y
    OBVIOUS
  <2>1. active[v] # None /\ x \in Own(active[v]) /\ y \in Own(active[v])
    BY <1>1
  <2>2. PgPruning(active[v], stored, asked, disk.runs)
    BY <2>1 DEF PgRetains
  <2> QED BY <2>1, <2>2 DEF PgPruning, Own
<1>4. IsFiniteSet(V) /\ Cardinality(V) = Cardinality(Several) - 1
  BY SurplusFact, RetentionAssumption, FS_Subset
<1> HIDE DEF V, B
<1>5. IsFiniteSet(X) /\ Cardinality(X) <= Cardinality(V)
  BY ONLY <1>2, <1>3, <1>4, OneEach
<1> QED BY <1>4, <1>5

LEMMA JoinedFew ==
  ASSUME NEW X \in SUBSET Traces, NEW Y \in SUBSET Traces, NEW L \in SUBSET (X \cup Y), NEW m \in Nat, NEW n \in Int,
         Cardinality(X) <= m, Cardinality(Y) <= n
  PROVE  Cardinality(L) <= m + n
<1>1. IsFiniteSet(X) /\ IsFiniteSet(Y) /\ Cardinality(X) \in Nat /\ Cardinality(Y) \in Nat
  BY TracesFinite
<1>2. /\ Cardinality(X \cup Y) = Cardinality(X) + Cardinality(Y) - Cardinality(X \cap Y)
  BY <1>1, FS_Union
<1>3. Cardinality(X \cap Y) \in Nat /\ Cardinality(X \cup Y) \in Nat
  <2>1. X \cap Y \in SUBSET Traces /\ X \cup Y \in SUBSET Traces  OBVIOUS
  <2> QED BY <2>1, TracesFinite
<1>4. Cardinality(L) \in Nat /\ Cardinality(L) <= Cardinality(X \cup Y)
  <2>1. X \cup Y \in SUBSET Traces /\ L \in SUBSET Traces  OBVIOUS
  <2> QED BY <2>1, TracesFinite
<1> QED
  BY ONLY <1>1, <1>2, <1>3, <1>4, m \in Nat, n \in Int, Cardinality(X) <= m, Cardinality(Y) <= n

(* The search for what is too much: all but the newest of what it sees, and *)
(* what others may add.                                                     *)
LEMMA FindsLeft ==
  ASSUME PgKept, PgRetains, NEW w \in Several, NEW c, c = active[w], c # None, NEW s, NEW aim, NEW d, NEW seen,
         PgFinds(c, s, aim, d, seen), NEW a, a[w] = d, \A u \in Several : u # w => a[u] = active[u],
         NEW Q \in SUBSET Several, w \in Q, Chosen(d), Choosing(Q, a)
  PROVE  Cardinality(Left(Q, a, disk.runs)) <= MaxRuns + Cardinality(Several) - 1
<1> DEFINE L == Left(Q, a, disk.runs)
<1>1. /\ d.op = c.op /\ d.rest = c.rest /\ d.aim = aim /\ d.ins = c.ins /\ d.del = c.del
      /\ ~Looks(c)
  BY DEF PgFinds, Looks
<1>2. L \subseteq Traces  BY DEF Left
<1>3. CASE Looks(d)
  <2>1. /\ aim = seen \ Newest(seen, s.rows) /\ Ahead(c.rest) = {s} /\ s.do = "select_old"
        /\ seen = disk.runs \cup c.ins.runs /\ PgPruning(c, stored, asked, disk.runs)
    BY <1>1, <1>3 DEF PgFinds, Looks
  <2>2. c.op = "export"  BY <1>1 DEF Chosen
  <2>3. s.rows = MaxRuns
    BY <2>1, <2>2 DEF PgPruning
  <2>4. seen \in SUBSET Traces
    BY PgSent DEF PgFinds, PgRetains, Own
  <2>5. Cardinality(Newest(seen, MaxRuns)) <= MaxRuns /\ Newest(seen, MaxRuns) \subseteq seen
    BY <2>4, NewestFew, SurplusFact
  <2>6. \A r \in L : r \notin aim
    BY <1>1, <1>3, <2>2 DEF Left, Doomed
  <2>7. \A r \in L : r \in seen \/ \E u \in Several \ {w} : active[u] # None /\ r \in active[u].ins.runs
    <3> TAKE r \in L
    <3>1. r \in disk.runs \/ \E u \in Q : r \in a[u].ins.runs
      BY DEF Left
    <3>2. \A u \in Q : u # w => a[u] = active[u] /\ active[u] # None
      BY DEF Choosing
    <3>3. a[w].ins.runs = c.ins.runs  BY <1>1
    <3> QED BY <2>1, <3>1, <3>2, <3>3
  <2> DEFINE N == Newest(seen, MaxRuns)
             X == {r \in L : \E u \in Several \ {w} : active[u] # None /\ r \in active[u].ins.runs}
  <2>8. X \in SUBSET Traces /\ N \in SUBSET Traces
    BY <1>2, <2>4, <2>5
  <2>9. L \in SUBSET (N \cup X)  BY <2>1, <2>3, <2>6, <2>7
  <2>10. Cardinality(X) <= Cardinality(Several) - 1
    BY <2>8, OthersFew
  <2>11. Cardinality(N) <= MaxRuns  BY <2>5
  <2>12. MaxRuns \in Nat /\ Cardinality(Several) - 1 \in Int
    BY SurplusFact
  <2> HIDE DEF N, X, L
  <2>13. Cardinality(L) <= MaxRuns + (Cardinality(Several) - 1)
    BY ONLY <2>8, <2>9, <2>10, <2>11, <2>12, JoinedFew
  <2>14. Cardinality(L) <= MaxRuns + Cardinality(Several) - 1
    BY ONLY <2>13, SurplusFact
  <2> QED BY <2>14 DEF L
<1>4. CASE ~Looks(d)
  <2>1. Doomed(d) = Doomed(c) /\ Chosen(c)  BY <1>1, <1>4 DEF Doomed, Chosen
  <2>2. \A u \in Q : Doomed(a[u]) = Doomed(active[u]) /\ a[u].ins = active[u].ins
    BY <1>1, <2>1
  <2>3. Choosing(Q, active)  BY <2>1 DEF Choosing
  <2>4. L = Left(Q, active, disk.runs)
    BY ONLY <2>2 DEF Left
  <2> QED BY <2>3, <2>4 DEF PgRetains, FewLeft
<1> QED BY <1>3, <1>4

LEMMA PgRetainsStart ==
  ASSUME PgKept, PgWhole, PgRetains, NEW w \in Several, Postgres!Start(w)
  PROVE  PgRetains'
<1>1. PICK c, s, aim : c = active[w] /\ s = Head(c.rest) /\ aim = Postgres!Found(w, s)  OBVIOUS
<1>2. PICK d, seen : d = [c EXCEPT !.aim = aim] /\ seen = disk.runs \cup c.ins.runs
  OBVIOUS
<1>3. /\ c # None /\ c.rest # <<>> /\ c.aim = None /\ active' = [active EXCEPT ![w].aim = aim]
      /\ disk' = disk /\ sent' = sent /\ stored' = stored /\ asked' = asked
  BY <1>1 DEF Postgres!Start, Postgres!Running, Postgres!Now, Postgres!history
<1>4. active' = [active EXCEPT ![w] = d]  BY <1>1, <1>2, <1>3
<1>5. PgFinds(c, s, aim, d, seen)
  BY <1>1, <1>2, <1>3, PgFindsFact
<1>6. PgPruning(d, stored, asked, disk.runs)  BY <1>5, FindsPruning, PgSent
<1>7. active'[w] = d /\ \A u \in Several : u # w => active'[u] = active[u]
  BY <1>4, PgSent
<1>8. \A Q \in SUBSET Several :
        w \in Q /\ d # None /\ Chosen(d) /\ Choosing(Q, active') =>
          Cardinality(Left(Q, active', disk.runs)) <= MaxRuns + Cardinality(Several) - 1
  BY <1>1, <1>3, <1>5, <1>7, FindsLeft
<1> QED BY <1>3, <1>4, <1>6, <1>8, PgRetainsUnwritten

LEMMA DeleteRunsAhead ==
  ASSUME NEW R \in SUBSET Traces, NEW p, p = IF R = {} THEN <<>> ELSE DeleteRuns(R)
  PROVE  /\ \A a \in Ahead(p) : a.do \notin {"insert_run", "select_old"}
         /\ \A r : Leaves(Ahead(p), r) <=> r \in R
<1>1. CASE R = {}
  <2>1. Ahead(p) = {}  BY <1>1, AheadNone
  <2> QED BY <1>1, <2>1 DEF Leaves
<1>2. CASE R # {}
  <2>1. p = DeleteRuns(R)  BY <1>2
  <2>2. /\ Len(p) = 3 /\ p[1].do = "delete_spans" /\ p[2].do = "delete_marks" /\ p[3].do = "delete_runs"
        /\ p[3].rows = R
    BY <2>1, DeleteFacts, StatementFields
  <2>3. Ahead(p) = {p[1], p[2], p[3]}  BY ONLY <2>2, OfThree
  <2> QED BY ONLY <2>2, <2>3 DEF Leaves
<1> QED BY <1>1, <1>2

LEMMA PgGoesFact ==
  ASSUME PgKept, PgWhole, NEW w \in Several, NEW c, c = active[w], c # None, c.rest # <<>>, c.aim # None,
         NEW s, s = Head(c.rest), NEW d, d = Postgres!Through(w), NEW then, then = Ahead(d.rest)
  PROVE  PgGoes(c, s, d, then)
<1>1. /\ PgCall(c) /\ PgSound(c, disk)
      /\ c.op = "export" => \A r \in c.on : r \notin disk.runs
  BY PgCallKept, PgSent DEF PgWhole
<1>2. /\ PgShape(c) /\ c.on \in SUBSET Traces /\ c.rest \in Seq(Statements) /\ Ordered(c.op, c.on, c.rest)
      /\ \A r \in c.ins.runs : c.op = "export" /\ r \in c.on
      /\ s.do = "insert_run" => c.aim = c.on
      /\ s.do = "select_old" => c.aim \in SUBSET Traces
  BY <1>1 DEF PgCall
<1>3. PgOrderly(c.op, c.on, c.rest) /\ PgAims(c, s) /\ c.op \in Methods
  BY <1>1 DEF PgSound
<1>4. /\ s.do \in PgKnown /\ s.do \in PgDoes[c.op]
      /\ s.do = "insert_run" => c.op = "export"
      /\ s.do = "select_old" => Tail(c.rest) = <<>>
      /\ Ahead(c.rest) = {s} \cup Ahead(Tail(c.rest)) /\ Tail(c.rest) \in Seq(Statements)
  <2> DEFINE rest == c.rest
             op == c.op
             on == c.on
  <2>1. rest \in Seq(Statements) /\ rest # <<>> /\ Ordered(op, on, rest) /\ s = Head(rest) /\ PgOrderly(op, on, rest)
    BY <1>2, <1>3
  <2> HIDE DEF rest, op, on
  <2>2. OrderedOn(op, on, rest)  BY ONLY <2>1, OrderedTail
  <2>3. Ahead(rest) = {s} \cup Ahead(Tail(rest)) /\ Tail(rest) \in Seq(Statements)
    BY ONLY <2>1, AheadTail, TailFacts
  <2>4. s.do \in PgDoes[op]  BY ONLY <2>1, PgOrderlyTail
  <2>5. /\ s.do \in PgKnown
        /\ s.do = "insert_run" => op = "export"
        /\ s.do = "select_old" => Tail(rest) = <<>>
    BY ONLY <2>1, <2>2 DEF OrderedOn
  <2> QED BY ONLY <2>3, <2>4, <2>5 DEF rest, op
<1>5. GoneThrough(c, s, d)
  BY ONLY <1>2, <1>4, ThroughFacts, c = active[w], s = Head(c.rest), d = Postgres!Through(w)
<1>6. s.do = "select_old" => c.op \in {"export", "prune"}
  BY <1>3, <1>4 DEF PgDoes, Methods
<1>7. s.do # "select_old" => Ahead(c.rest) = {s} \cup then
  BY <1>4, <1>5 DEF GoneThrough
<1>8. s.do = "select_old" => /\ Ahead(c.rest) = {s}
                             /\ \A a \in then : a.do \notin {"insert_run", "select_old"}
                             /\ \A r : Leaves(then, r) <=> r \in c.aim
  <2> SUFFICES ASSUME s.do = "select_old"
               PROVE  /\ Ahead(c.rest) = {s}
                      /\ \A a \in then : a.do \notin {"insert_run", "select_old"}
                      /\ \A r : Leaves(then, r) <=> r \in c.aim
    OBVIOUS
  <2>1. PICK R, p : R = c.aim /\ p = IF R = {} THEN <<>> ELSE DeleteRuns(R)  OBVIOUS
  <2>2. R \in SUBSET Traces /\ d.rest = p \o <<>>
    BY <1>2, <1>4, <1>5, <2>1 DEF GoneThrough
  <2>3. p \in Seq(Statements)
    <3>1. DeleteRuns(R) \in Seq(Statements)  BY <2>2, PlainDelete DEF Plain
    <3>2. <<>> \in Seq(Statements)  OBVIOUS
    <3> QED BY ONLY <2>1, <3>1, <3>2
  <2>4. d.rest = p
    BY ONLY <2>2, <2>3, ConcatEmptySeq
  <2>5. /\ \A a \in Ahead(p) : a.do \notin {"insert_run", "select_old"}
        /\ \A r : Leaves(Ahead(p), r) <=> r \in R
    BY ONLY <2>1, <2>2, DeleteRunsAhead
  <2>6. Ahead(c.rest) = {s}  BY <1>4, AheadNone
  <2> QED BY <2>1, <2>4, <2>5, <2>6
<1>9. /\ d.op = c.op /\ d.on = c.on /\ d.aim = None
      /\ s.do \notin {"insert_run", "delete_runs"} => d.ins.runs = c.ins.runs /\ d.del.runs = c.del.runs
      /\ s.do = "insert_run" => /\ d.ins.runs = c.ins.runs \cup (c.aim \ (disk.runs \ c.del.runs))
                                /\ d.del.runs = c.del.runs
      /\ s.do = "delete_runs" => /\ d.ins.runs = c.ins.runs \ c.aim
                                 /\ d.del.runs = c.del.runs \cup (c.aim \cap disk.runs)
  BY <1>5 DEF GoneThrough
<1>10. s.do = "delete_runs" => \A r \in s.rows : r \in c.ins.runs => r \in c.aim
  BY <1>3 DEF PgAims
<1>11. \A r \in c.ins.runs : r \in Own(c)  BY <1>2 DEF Own
<1> QED BY <1>1, <1>2, <1>4, <1>6, <1>7, <1>8, <1>9, <1>10, <1>11 DEF PgGoes

LEMMA GoesPruning ==
  ASSUME PgRetains, NEW c, NEW s, NEW d, NEW then, PgGoes(c, s, d, then), PgPruning(c, stored, asked, disk.runs),
         NEW taken, asked \subseteq taken, c.op = "prune" /\ s.do = "select_old" => c.aim \subseteq taken
  PROVE  PgPruning(d, stored, taken, disk.runs)
<1> DEFINE t == stored \cup Own(c)
<1>1. /\ d.op = c.op /\ d.on = c.on /\ d.aim = None /\ then = Ahead(d.rest)
      /\ c.rest # <<>> /\ s = Head(c.rest) /\ c.aim # None
      /\ Own(d) = Own(c) /\ ~Looks(d)
  BY DEF PgGoes, Own, Looks
<1>2. s.do # "select_old" => Ahead(c.rest) = {s} \cup then
  BY DEF PgGoes
<1>3. s.do = "select_old" => /\ Ahead(c.rest) = {s} /\ Looks(c) /\ c.op \in {"export", "prune"}
                             /\ \A a \in then : a.do \notin {"insert_run", "select_old"}
                             /\ \A r : Leaves(then, r) <=> r \in c.aim
  BY DEF PgGoes, Looks
<1>4. \A r : Spent(t, asked, r) => Spent(t, taken, r)
  BY DEF Spent
<1>5. \A a \in then : a \in Ahead(c.rest) \/ a.do \notin {"insert_run", "select_old"}
  BY <1>2, <1>3
<1>6. Todo(then, "insert_run") => Todo(then, "select_old")
  <2>1. CASE s.do = "select_old"  BY <1>3, <2>1 DEF Todo
  <2>2. CASE s.do # "select_old"
    BY <1>2, <2>2 DEF PgPruning, Todo
  <2> QED BY <2>1, <2>2
<1>7. \A r \in Doomed(d) : r \in Doomed(c) \/ (c.op = "prune" /\ s.do = "select_old" /\ r \in c.aim)
  <2> SUFFICES ASSUME NEW r \in Doomed(d)
               PROVE  r \in Doomed(c) \/ (c.op = "prune" /\ s.do = "select_old" /\ r \in c.aim)
    OBVIOUS
  <2>1. r \in Traces /\ (r \in d.del.runs \/ Leaves(then, r))
    BY <1>1 DEF Doomed
  <2>2. CASE s.do = "select_old"
    <3>1. d.del.runs = c.del.runs  BY <2>2 DEF PgGoes
    <3> QED BY <1>3, <2>1, <2>2, <3>1 DEF Doomed
  <2>3. CASE s.do = "delete_runs"
    <3>1. d.del.runs = c.del.runs \cup (c.aim \cap disk.runs)
      BY <2>3 DEF PgGoes
    <3>2. \A q \in c.aim : q \in s.rows  BY <1>1, <2>3 DEF PgPruning
    <3>3. Leaves(Ahead(c.rest), r) <=> r \in s.rows \/ Leaves(then, r)
      BY <1>2, <2>3 DEF Leaves
    <3> QED BY <2>1, <3>1, <3>2, <3>3 DEF Doomed
  <2>4. CASE s.do \notin {"select_old", "delete_runs"}
    <3>1. d.del.runs = c.del.runs  BY <2>4 DEF PgGoes
    <3>2. Leaves(then, r) => Leaves(Ahead(c.rest), r)
      BY <1>2, <2>4 DEF Leaves
    <3> QED BY <2>1, <3>1, <3>2 DEF Doomed
  <2> QED BY <2>2, <2>3, <2>4
<1>8. \A r \in Doomed(d) : r \in t /\ Spent(t, taken, r)
  <2>1. \A r \in Doomed(c) : r \in t /\ Spent(t, taken, r)
    BY <1>4 DEF PgPruning
  <2>2. s.do = "select_old" => c.aim \subseteq t  BY <1>3 DEF PgPruning
  <2> HIDE DEF t
  <2> QED BY <1>7, <2>1, <2>2 DEF Spent
<1>9. \A r \in Own(c) : Todo(then, "insert_run") \/ r \in d.ins.runs \/ Spent(t, taken, r)
  <2> SUFFICES ASSUME NEW r \in Own(c) PROVE Todo(then, "insert_run") \/ r \in d.ins.runs \/ Spent(t, taken, r)
    OBVIOUS
  <2>1. Todo(Ahead(c.rest), "insert_run") \/ r \in c.ins.runs \/ Spent(t, taken, r)
    BY <1>4 DEF PgPruning
  <2>2. CASE s.do = "insert_run"  BY <2>2 DEF PgGoes, Own
  <2>3. CASE s.do # "insert_run"
    <3>1. Todo(Ahead(c.rest), "insert_run") => Todo(then, "insert_run")
      BY <1>2, <1>3, <2>3 DEF Todo
    <3>2. CASE s.do = "delete_runs" /\ r \in c.aim
      <4>1. r \in s.rows  BY <1>1, <3>2 DEF PgPruning
      <4>2. r \in Doomed(c)
        BY <1>2, <3>2, <4>1 DEF Doomed, Leaves, Own
      <4> QED BY <1>4, <4>2 DEF PgPruning
    <3>3. CASE ~(s.do = "delete_runs" /\ r \in c.aim)
      <4>1. r \in c.ins.runs => r \in d.ins.runs  BY <2>3, <3>3 DEF PgGoes
      <4> QED BY <2>1, <3>1, <4>1
    <3> QED BY <3>2, <3>3
  <2> QED BY <2>2, <2>3
<1>10. /\ c.op = "export" => /\ \A a \in then : a.do = "select_old" => a.rows = MaxRuns
                             /\ \A q, r \in c.on : q = r
       /\ \A r \in Own(c) : r \notin stored
  BY <1>5 DEF PgPruning
<1> QED BY ONLY <1>1, <1>6, <1>8, <1>9, <1>10 DEF PgPruning, t

(* What an export has found to prune does not grow less, and it inserts no  *)
(* more.                                                                    *)
LEMMA GoesLeft ==
  ASSUME PgKept, PgRetains, NEW w \in Several, NEW c, c = active[w], c # None, NEW s, NEW d, NEW then,
         PgGoes(c, s, d, then), NEW a, a[w] = d, \A u \in Several : u # w => a[u] = active[u],
         NEW Q \in SUBSET Several, w \in Q, Chosen(d), Choosing(Q, a)
  PROVE  Cardinality(Left(Q, a, disk.runs)) <= MaxRuns + Cardinality(Several) - 1
<1> DEFINE t == stored \cup Own(c)
<1>1. /\ d.op = c.op /\ d.aim = None /\ then = Ahead(d.rest)
      /\ c.rest # <<>> /\ s = Head(c.rest) /\ c.aim # None /\ ~Looks(d)
      /\ PgPruning(c, stored, asked, disk.runs)
  BY DEF PgGoes, Looks, PgRetains
<1>2. c.op = "export" /\ ~Todo(then, "select_old")
  BY <1>1 DEF Chosen
<1>3. s.do # "select_old" => Ahead(c.rest) = {s} \cup then
  BY DEF PgGoes
<1>4. s.do = "select_old" => Looks(c) /\ Ahead(c.rest) = {s} /\ \A r : Leaves(then, r) <=> r \in c.aim
  BY DEF PgGoes, Looks
<1>5. Chosen(c) /\ s.do # "insert_run"
  <2>1. Chosen(c)
    BY <1>2, <1>3, <1>4 DEF Chosen, Todo
  <2>2. s.do # "insert_run"
    BY <1>1, <1>2, <1>3 DEF PgPruning, Todo
  <2> QED BY <2>1, <2>2
<1>6. \A u \in Q : u # w => a[u] = active[u] /\ active[u] # None /\ Chosen(active[u])
  BY DEF Choosing
<1>7. Choosing(Q, active)  BY <1>5, <1>6 DEF Choosing
<1>8. \A r \in d.ins.runs : r \in c.ins.runs
  BY <1>5 DEF PgGoes
<1>9. ASSUME NEW r \in Traces, r \in Doomed(c), r \in disk.runs \cup d.ins.runs PROVE r \in Doomed(d)
  <2>1. CASE s.do = "delete_runs"
    <3>1. /\ d.ins.runs = c.ins.runs \ c.aim /\ d.del.runs = c.del.runs \cup (c.aim \cap disk.runs)
          /\ \A q \in s.rows : q \in c.ins.runs => q \in c.aim
      BY <2>1 DEF PgGoes
    <3>2. \A q \in s.rows : q \in disk.runs => q \in c.aim
      BY <1>1, <2>1 DEF PgPruning
    <3>3. r \in c.del.runs \/ Leaves(then, r) \/ r \in s.rows
      <4>1. ~Looks(c)  BY <1>1, <2>1 DEF Looks
      <4> QED BY <1>3, <1>9, <2>1, <4>1 DEF Doomed, Leaves
    <3>4. r \in d.del.runs \/ Leaves(then, r)  BY <1>9, <3>1, <3>2, <3>3
    <3> QED BY <1>1, <3>4 DEF Doomed
  <2>2. CASE s.do = "select_old"
    <3>1. d.del.runs = c.del.runs  BY <2>2 DEF PgGoes
    <3>2. r \in d.del.runs \/ Leaves(then, r)
      BY <1>4, <1>9, <2>2, <3>1 DEF Doomed, Leaves
    <3> QED BY <1>1, <3>2 DEF Doomed
  <2>3. CASE s.do \notin {"delete_runs", "select_old"}
    <3>1. d.del.runs = c.del.runs  BY <1>5, <2>3 DEF PgGoes
    <3>2. ~Looks(c)
      BY <1>1, <2>3 DEF Looks
    <3>3. Leaves(Ahead(c.rest), r) => Leaves(then, r)
      BY <1>3, <2>3 DEF Leaves
    <3> QED BY <1>1, <1>9, <3>1, <3>2, <3>3 DEF Doomed
  <2> QED BY <2>1, <2>2, <2>3
<1>10. ASSUME NEW r \in Left(Q, a, disk.runs) PROVE r \in Left(Q, active, disk.runs)
  <2>1. r \in Traces /\ (r \in disk.runs \/ \E u \in Q : r \in a[u].ins.runs) /\ \A u \in Q : r \notin Doomed(a[u])
    BY DEF Left
  <2>2. r \in disk.runs \/ \E u \in Q : r \in active[u].ins.runs
    BY <1>6, <1>8, <2>1
  <2>3. r \notin Doomed(c)
    <3> SUFFICES ASSUME r \in Doomed(c) PROVE FALSE  OBVIOUS
    <3>1. r \in t  BY <1>1 DEF PgPruning
    <3>2. ASSUME NEW u \in Q, u # w, r \in a[u].ins.runs PROVE FALSE
      <4>1. PICK e : e = active[u]  OBVIOUS
      <4>2. e # None /\ r \in e.ins.runs  BY <1>6, <3>2, <4>1
      <4>3. PgCall(e) /\ PgPruning(e, stored, asked, disk.runs)
        BY <4>1, <4>2, PgCallKept DEF PgRetains
      <4>4. e.op = "export" /\ r \in e.on /\ r \in Own(e)
        BY <2>1, <4>2, <4>3 DEF PgCall, Own
      <4>5. r \notin stored  BY <4>3, <4>4 DEF PgPruning
      <4>6. Exports(w, r) /\ Exports(u, r)
        BY <3>1, <4>1, <4>2, <4>4, <4>5 DEF Exports, Own
      <4> QED BY <2>1, <3>2, <4>6 DEF PgKept
    <3>3. r \in disk.runs \cup d.ins.runs  BY <2>1, <3>2
    <3>4. r \in Doomed(d)
      BY <1>9, <2>1, <3>3
    <3> QED BY <2>1, <3>4
  <2>4. \A u \in Q : r \notin Doomed(active[u])  BY <1>6, <2>1, <2>3
  <2> QED BY <2>1, <2>2, <2>4 DEF Left
<1> DEFINE L == Left(Q, active, disk.runs)
           K == Left(Q, a, disk.runs)
           n == MaxRuns + Cardinality(Several) - 1
<1>11. Cardinality(L) <= n  BY <1>7 DEF PgRetains, FewLeft
<1>12. L \in SUBSET Traces /\ K \in SUBSET L
  BY <1>10 DEF Left
<1>13. n \in Nat
  <2>1. IsFiniteSet(Several) /\ Several # {}  BY RetentionAssumption
  <2>2. Cardinality(Several) # 0
    BY <2>1, FS_EmptySet
  <2> QED BY <2>2, SurplusFact
<1> HIDE DEF L, K, n
<1>14. Cardinality(K) <= n
  BY ONLY <1>11, <1>12, <1>13, FewerLeft
<1> QED BY <1>14 DEF K, n

LEMMA PgRetainsExecute ==
  ASSUME PgKept, PgWhole, PgRetains, NEW w \in Several, Postgres!Execute(w)
  PROVE  PgRetains'
<1>1. PICK c, s : c = active[w] /\ s = Head(c.rest)  OBVIOUS
<1>2. PICK d, then : d = Postgres!Through(w) /\ then = Ahead(d.rest)  OBVIOUS
<1>3. /\ c # None /\ c.rest # <<>> /\ c.aim # None /\ active' = [active EXCEPT ![w] = d]
      /\ disk' = disk /\ sent' = sent /\ stored' = stored
      /\ asked' = IF c.op = "prune" /\ s.do = "select_old" THEN asked \cup c.aim ELSE asked
  BY <1>1, <1>2 DEF Postgres!Execute, Postgres!Running, Postgres!Now
<1>4. PgGoes(c, s, d, then)  BY <1>1, <1>2, <1>3, PgGoesFact
<1>5. asked \subseteq asked' /\ (c.op = "prune" /\ s.do = "select_old" => c.aim \subseteq asked')
  BY <1>3
<1>6. PgPruning(c, stored, asked, disk.runs)  BY <1>1, <1>3 DEF PgRetains
<1>7. PgPruning(d, stored, asked', disk.runs)
  BY <1>4, <1>5, <1>6, GoesPruning
<1>8. active'[w] = d /\ \A u \in Several : u # w => active'[u] = active[u]
  BY <1>3, PgSent
<1>9. \A Q \in SUBSET Several :
        w \in Q /\ d # None /\ Chosen(d) /\ Choosing(Q, active') =>
          Cardinality(Left(Q, active', disk.runs)) <= MaxRuns + Cardinality(Several) - 1
  BY <1>1, <1>3, <1>4, <1>8, GoesLeft
<1> QED BY <1>3, <1>5, <1>7, <1>9, PgRetainsUnwritten

(* The transaction commits: its export is one of those that are left. *)
LEMMA PgRetainsLand ==
  ASSUME PgKept, PgWhole, PgRetains, NEW w \in Several, Postgres!Land(w)
  PROVE  PgRetains'
<1>1. PICK c : c = active[w]  OBVIOUS
<1> DEFINE t == stored \cup Own(c)
           n == MaxRuns + Cardinality(Several) - 1
<1>2. /\ c # None /\ c.rest = <<>> /\ active' = [active EXCEPT ![w] = None]
      /\ disk' = Postgres!Committed(w) /\ sent' = sent /\ asked' = asked
      /\ stored' = IF c.op = "export" THEN stored \cup c.on ELSE stored
  BY <1>1 DEF Postgres!Land
<1>3. disk'.runs = (disk.runs \ c.del.runs) \cup c.ins.runs
  BY <1>1, <1>2 DEF Postgres!Committed, Postgres!NoRows
<1>4. /\ PgCall(c) /\ PgSound(c, disk) /\ PgPruning(c, stored, asked, disk.runs)
      /\ c.op = "export" => \A r \in c.on : Exports(w, r) /\ r \notin Past /\ r \in sent
      /\ c.on \subseteq Traces
  BY <1>1, <1>2, PgCallKept DEF PgWhole, PgRetains, PgKept
<1>5. stored' = t  BY <1>2, <1>4 DEF Own
<1>6. /\ ~Looks(c) /\ Ahead(c.rest) = {} /\ Doomed(c) = {r \in Traces : r \in c.del.runs}
  BY <1>2, AheadNone DEF Looks, Doomed, Leaves
<1>7. \A r \in c.ins.runs : r \in Own(c)  BY <1>4 DEF PgCall, Own
<1>8. /\ \A r \in Own(c) : r \in Traces /\ r \in sent /\ r \notin stored /\ r \notin disk.runs /\ Exports(w, r)
  BY <1>4, PgSent DEF PgPruning, Own
<1>9. c.del.runs \subseteq disk.runs /\ disk.runs \subseteq Traces /\ disk.runs \subseteq stored /\ stored \subseteq sent
  BY <1>4, PgSent DEF PgSound, PgMeets, PgRetains
<1>10. t \in SUBSET Traces /\ t \subseteq sent /\ disk'.runs \subseteq t
  BY <1>3, <1>7, <1>8, <1>9, PgSent DEF Own
<1>11. \A r \in t : r \in disk'.runs \/ Spent(t, asked, r)
  <2> TAKE r \in t
  <2>1. r \in c.del.runs => Spent(t, asked, r)
    BY <1>4, <1>6, <1>10 DEF PgPruning
  <2>2. CASE r \in stored
    <3>1. r \in disk.runs \/ Spent(stored, asked, r)
      BY <2>2 DEF PgRetains
    <3>2. Spent(stored, asked, r) => Spent(t, asked, r)
      <4>1. stored \in SUBSET t  OBVIOUS
      <4> HIDE DEF t
      <4> QED BY <1>10, <4>1, SpentGrows
    <3> QED BY <1>3, <2>1, <3>1, <3>2
  <2>3. CASE r \in Own(c)
    <3>1. ~Todo(Ahead(c.rest), "insert_run")  BY <1>6 DEF Todo
    <3> QED BY <1>3, <1>4, <2>3, <3>1 DEF PgPruning
  <2> QED BY <2>2, <2>3
<1>12. ASSUME NEW u \in Several, u # w, active[u] # None
       PROVE  PgPruning(active[u], t, asked, disk'.runs)
  <2>1. PICK e, runs, found : e = active[u] /\ runs = disk.runs /\ found = disk'.runs  OBVIOUS
  <2>2. PgPruning(e, stored, asked, runs) /\ e.rest \in Seq(Statements)
    BY <1>12, <2>1, PgCallKept DEF PgRetains, PgCall
  <2>3. \A r \in Own(e) : r \notin Own(c)
    <3> SUFFICES ASSUME NEW r \in Own(e), r \in Own(c) PROVE FALSE  OBVIOUS
    <3>1. Exports(u, r) /\ Exports(w, r) /\ r \in Traces
      BY <1>8, <1>12, <2>1 DEF Exports, Own
    <3> QED BY <1>12, <3>1 DEF PgKept
  <2>4. \A r \in Own(e) : r \notin t  BY <2>2, <2>3 DEF PgPruning
  <2>5. \A r \in found : r \in runs \/ r \notin stored \cup Own(e)
    BY <1>3, <1>7, <1>8, <2>1, <2>3
  <2>6. found \in SUBSET Traces /\ stored \subseteq t
    BY <1>10, <2>1
  <2> HIDE DEF t
  <2>7. PgPruning(e, t, asked, found)
    BY ONLY <1>10, <2>2, <2>4, <2>5, <2>6, PruningGrows
  <2> QED BY <2>1, <2>7
<1>13. ASSUME NEW Q \in SUBSET Several, Choosing(Q, active')
       PROVE  Cardinality(Left(Q, active', disk'.runs)) <= n
  <2>1. active'[w] = None /\ \A u \in Several : u # w => active'[u] = active[u]
    BY <1>2, PgSent
  <2>2. w \notin Q  BY <1>13, <2>1 DEF Choosing
  <2>3. \A u \in Q : active'[u] = active[u] /\ active[u] # None /\ Chosen(active[u])
    BY <1>13, <2>1, <2>2 DEF Choosing
  <2>4. PICK P : P = IF c.op = "export" THEN Q \cup {w} ELSE Q  OBVIOUS
  <2>5. P \in SUBSET Several /\ Choosing(P, active)
    <3>1. c.op = "export" => Chosen(c)  BY <1>6 DEF Chosen, Todo
    <3> QED BY <1>1, <1>2, <2>3, <2>4, <3>1 DEF Choosing
  <2>6. ASSUME NEW r \in Left(Q, active', disk'.runs) PROVE r \in Left(P, active, disk.runs)
    <3>1. /\ r \in Traces /\ \A u \in Q : r \notin Doomed(active[u])
          /\ r \in disk'.runs \/ \E u \in Q : r \in active[u].ins.runs
      BY <2>3 DEF Left
    <3>2. r \in disk.runs \/ \E u \in P : r \in active[u].ins.runs
      <4>1. r \in c.ins.runs => c.op = "export"  BY <1>7 DEF Own
      <4> QED BY <1>1, <1>3, <2>4, <3>1, <4>1
    <3>3. c.op = "export" => r \notin Doomed(c)
      <4>1. CASE r \in disk'.runs
        <5>1. r \notin c.del.runs  BY <1>3, <1>7, <1>8, <1>9, <4>1
        <5> QED BY <1>6, <5>1
      <4>2. CASE \E u \in Q : r \in active[u].ins.runs
        <5>1. PICK u \in Q : r \in active[u].ins.runs  BY <4>2
        <5>2. r \notin Past
          BY <2>3, <5>1, PgCallKept DEF PgCall
        <5>3. r \notin c.del.runs  BY <1>9, <5>2, PgSent
        <5> QED BY <1>6, <5>3
      <4> QED BY <3>1, <4>1, <4>2
    <3>4. \A u \in P : r \notin Doomed(active[u])  BY <1>1, <2>4, <3>1, <3>3
    <3> QED BY <3>1, <3>2, <3>4 DEF Left
  <2> DEFINE L == Left(P, active, disk.runs)
             K == Left(Q, active', disk'.runs)
  <2>7. Cardinality(L) <= n  BY <2>5 DEF PgRetains, FewLeft
  <2>8. L \in SUBSET Traces /\ K \in SUBSET L
    BY <2>6 DEF Left
  <2>9. n \in Nat
    <3>1. IsFiniteSet(Several) /\ Several # {}  BY RetentionAssumption
    <3>2. Cardinality(Several) # 0
      BY <3>1, FS_EmptySet
    <3> QED BY <3>2, SurplusFact
  <2> HIDE DEF L, K, n
  <2>10. Cardinality(K) <= n
    BY ONLY <2>7, <2>8, <2>9, FewerLeft
  <2> QED BY <2>10 DEF K
<1>14. /\ disk'.runs \subseteq stored' /\ stored' \subseteq sent'
       /\ \A r \in stored' : r \in disk'.runs \/ Spent(stored', asked', r)
       /\ \A u \in Several : u # w /\ active[u] # None => PgPruning(active[u], stored', asked', disk'.runs)
  <2> HIDE DEF t
  <2> QED BY <1>2, <1>5, <1>10, <1>11, <1>12
<1>15. \A Q \in SUBSET Several :
         Choosing(Q, active') =>
           Cardinality(Left(Q, active', disk'.runs)) <= MaxRuns + Cardinality(Several) - 1
  BY <1>13
<1> QED BY <1>2, <1>14, <1>15, PgRetainsTurn

LEMMA PgRetainsStep ==
  ASSUME PgKept, PgWhole, PgRetains, Postgres!Next
  PROVE  PgRetains'
<1>1. PICK w \in Several :
        \/ \E r \in Traces : Postgres!Export(w, r) \/ Postgres!DeleteRun(w, r)
        \/ \E s \in Sessions : Postgres!DeleteSession(w, s)
        \/ PgOthers(w)
        \/ Postgres!Start(w) \/ Postgres!Execute(w) \/ Postgres!Commit(w)
        \/ Postgres!Refused(w) \/ Postgres!Deadlocked(w) \/ Postgres!ConnectionLost(w) \/ Postgres!AnswerLost(w)
  BY StoresAssumption DEF Postgres!Next, PgOthers
<1>2. ASSUME NEW r \in Traces, Postgres!DeleteRun(w, r) PROVE PgRetains'
  <2>1. {r} \cap disk.runs \in SUBSET disk.runs /\ Postgres!Delete(w, {r} \cap disk.runs)
    BY <1>2 DEF Postgres!DeleteRun
  <2> QED BY <2>1, PgRetainsDelete
<1>3. ASSUME NEW s \in Sessions, Postgres!DeleteSession(w, s) PROVE PgRetains'
  <2> DEFINE R == {r \in disk.runs : SessionOf[r] = s}
  <2>1. R \in SUBSET disk.runs /\ Postgres!Delete(w, R)
    BY <1>3 DEF Postgres!DeleteSession
  <2> HIDE DEF R
  <2> QED BY <2>1, PgRetainsDelete
<1>4. Postgres!Commit(w) \/ Postgres!AnswerLost(w) => PgRetains'
  BY PgRetainsLand DEF Postgres!Commit, Postgres!AnswerLost
<1>5. Postgres!Refused(w) \/ Postgres!Deadlocked(w) \/ Postgres!ConnectionLost(w) => PgRetains'
  BY PgRetainsDrop DEF Postgres!Refused, Postgres!Deadlocked, Postgres!ConnectionLost
<1> QED
  BY <1>1, <1>2, <1>3, <1>4, <1>5, PgRetainsExport, PgRetainsBegun, PgRetainsStart, PgRetainsExecute

LEMMA PgRetainsInit == Postgres!Init => PgRetains
<1> SUFFICES ASSUME Postgres!Init PROVE PgRetains  OBVIOUS
<1>1. disk \in Starts /\ active = [w \in Several |-> None] /\ stored = disk.runs /\ sent = disk.runs
  BY DEF Postgres!Init
<1>2. \A w \in Several : active[w] = None  BY <1>1
<1>3. ASSUME NEW Q \in SUBSET Several, Choosing(Q, active)
      PROVE  Cardinality(Left(Q, active, disk.runs)) <= MaxRuns + Cardinality(Several) - 1
  <2>1. Q = {}  BY <1>2, <1>3 DEF Choosing
  <2>2. disk.runs \subseteq Traces
    BY <1>1, StoresAssumption DEF Tables
  <2>3. Left(Q, active, disk.runs) = disk.runs  BY <2>1, <2>2 DEF Left
  <2> QED BY <1>1, <2>3, RetentionAssumption
<1> QED BY <1>1, <1>2, <1>3 DEF PgRetains, FewLeft

(* With no export chosen, those that are left are those that are there. *)
LEMMA PgRetained ==
  ASSUME PgKept, PgRetains
  PROVE  /\ Cardinality(disk.runs) <= MaxRuns + Cardinality(Several) - 1
         /\ \A r \in stored : r \in disk.runs \/ Due(r)
<1>1. Left({}, active, disk.runs) = disk.runs  BY PgSent DEF Left
<1>2. Choosing({}, active)
  BY DEF Choosing
<1>3. {} \in SUBSET Several  OBVIOUS
<1>4. Cardinality(disk.runs) <= MaxRuns + Cardinality(Several) - 1
  BY <1>1, <1>2, <1>3 DEF PgRetains, FewLeft
<1>5. \A r \in stored : r \in disk.runs \/ Spent(stored, asked, r)
  BY DEF PgRetains
<1> QED BY <1>4, <1>5 DEF Spent, Due, Many

-----------------------------------------------------------------------------
(* Retention, in whichever store *)

LEMMA RetainedInit == StoreInit => RetainedInv
BY SQLiteKeptInit, PgRetainsInit DEF StoreInit, RetainedInv

LEMMA RetainedStep ==
  ASSUME BackInv, BackInv', WholeInv, RetainedInv, StoreNext
  PROVE  RetainedInv'
<1>1. CASE store = "alone" /\ Alone!Next /\ UNCHANGED store
  <2>1. SQLiteInv(Single) /\ SQLiteInv(Single)'  BY <1>1 DEF BackInv
  <2>2. OrderlyCalls(Single) /\ SQLiteKept(Single) /\ DiskKept
    BY <1>1 DEF WholeInv, RetainedInv
  <2>3. SQLiteKept(Single)' /\ DiskKept'
    BY <1>1, <2>1, <2>2, AloneKeptStep
  <2>4. store' = "alone"  BY <1>1
  <2> QED BY ONLY <2>3, <2>4 DEF RetainedInv
<1>2. CASE store = "pool" /\ Pool!Next /\ UNCHANGED store
  <2>1. SQLiteInv(Several) /\ PoolCalm /\ OrderlyCalls(Several) /\ SQLiteKept(Several)
    BY <1>2 DEF BackInv, WholeInv, RetainedInv
  <2>2. PICK w \in Several : Shared(w)  BY <1>2, <2>1, PoolShared
  <2>3. SQLiteKept(Several)'
    BY <2>1, <2>2, SharedKept
  <2>4. store' = "pool"  BY <1>2
  <2> QED BY ONLY <2>3, <2>4 DEF RetainedInv
<1>3. CASE store = "postgres" /\ Postgres!Next /\ UNCHANGED <<store, conn, open, crashes>>
  <2>1. PgRetains'
    BY <1>3, PgRetainsStep DEF BackInv, WholeInv, RetainedInv
  <2>2. store' = "postgres"  BY <1>3
  <2> QED BY ONLY <2>1, <2>2 DEF RetainedInv
<1> QED BY <1>1, <1>2, <1>3 DEF StoreNext

LEMMA RetainedStutter ==
  ASSUME RetainedInv, UNCHANGED storeVars
  PROVE  RetainedInv'
<1>1. /\ store' = store /\ disk' = disk /\ conn' = conn /\ active' = active
      /\ sent' = sent /\ stored' = stored /\ asked' = asked /\ failed' = failed /\ gone' = gone
  BY DEF storeVars
<1>2. Said' = Said /\ Shown' = Shown  BY <1>1 DEF Said, Shown, Exports
<1>3. ASSUME NEW W, SQLiteKept(W) PROVE SQLiteKept(W)'
  <2>1. stored' \subseteq sent' /\ \A w \in W : active'[w] # None => Pruning(active'[w], asked')
    BY <1>1, <1>3 DEF SQLiteKept
  <2>2. Calm(W)' => Calm(W)  BY <1>1 DEF Calm
  <2>3. ConnKept(W) => ConnKept(W)'
    <3> SUFFICES ASSUME ConnKept(W) PROVE ConnKept(W)'  OBVIOUS
    <3>1. /\ conn'.runs \subseteq Said'
          /\ \A r \in Said' : r \in Shown' => r \in conn'.runs \/ r \in asked' \/ Many(Said', r)
          /\ Cardinality(conn'.runs) <= MaxRuns \/ \E w \in W : Excess(active'[w])
      BY <1>1, <1>2 DEF ConnKept, Sure
    <3> QED BY ONLY <3>1 DEF ConnKept, Sure, Many, Excess, Todo, Ahead
  <2>4. Calm(W)' => ConnKept(W)'
    BY <1>3, <2>2, <2>3 DEF SQLiteKept
  <2> QED BY ONLY <2>1, <2>4 DEF SQLiteKept, Pruning, Todo, Ahead
<1>4. ASSUME DiskKept PROVE DiskKept'
  <2>1. /\ disk'.runs \subseteq stored' /\ Cardinality(disk'.runs) <= MaxRuns
        /\ \A r \in stored' : r \in disk'.runs \/ r \in asked' \/ Many(stored', r)
    BY <1>1, <1>4 DEF DiskKept, Sure
  <2> QED BY ONLY <2>1 DEF DiskKept, Sure, Many
<1>5. ASSUME PgRetains PROVE PgRetains'
  <2>1. /\ disk'.runs \subseteq stored' /\ stored' \subseteq sent'
        /\ \A r \in stored' : r \in disk'.runs \/ Spent(stored', asked', r)
        /\ \A w \in Several : active'[w] # None => PgPruning(active'[w], stored', asked', disk'.runs)
        /\ FewLeft(active', disk'.runs)
    BY <1>1, <1>5 DEF PgRetains
  <2> QED
    BY ONLY <2>1
    DEF PgRetains, FewLeft, Choosing, Chosen, Left, Doomed, PgPruning, Spent, Many, Own, Looks, Leaves, Todo, Ahead
<1> QED BY <1>1, <1>3, <1>4, <1>5 DEF RetainedInv

LEMMA RetainedFact == BackInv /\ WholeInv /\ RetainedInv => Retained
<1> SUFFICES ASSUME BackInv, WholeInv, RetainedInv PROVE Retained  OBVIOUS
<1>1. Cardinality(Several) \in Nat /\ MaxRuns \in Nat
  BY SurplusFact
<1>2. CASE store = "alone"
  <2>1. Cardinality(disk.runs) <= MaxRuns /\ \A r \in stored : r \in disk.runs \/ Due(r)
    BY <1>2, DiskRetained DEF RetainedInv
  <2>2. Surplus = 0 /\ MaxRuns + 0 = MaxRuns  BY <1>1, <1>2 DEF Surplus
  <2> QED BY <2>1, <2>2 DEF Retained
<1>3. CASE store = "pool"
  <2>1. AtRest => Cardinality(disk.runs) <= MaxRuns /\ \A r \in stored : r \in disk.runs \/ Due(r)
    BY <1>3, PoolRetained DEF BackInv, WholeInv, RetainedInv
  <2>2. Surplus = 0 /\ MaxRuns + 0 = MaxRuns  BY <1>1, <1>3 DEF Surplus
  <2> QED BY <1>3, <2>1, <2>2 DEF Retained
<1>4. CASE store = "postgres"
  <2>1. /\ Cardinality(disk.runs) <= MaxRuns + Cardinality(Several) - 1
        /\ \A r \in stored : r \in disk.runs \/ Due(r)
    BY <1>4, PgRetained DEF BackInv, RetainedInv
  <2>2. Surplus = Cardinality(Several) - 1  BY <1>4 DEF Surplus
  <2>3. MaxRuns + Surplus = MaxRuns + Cardinality(Several) - 1
    BY <1>1, <2>2
  <2> QED BY <2>1, <2>3 DEF Retained
<1> QED BY <1>2, <1>3, <1>4 DEF BackInv

(* There are never more traces than max_runs, and none is missing that was  *)
(* stored before a deletion was to take it or max_runs later ones were      *)
(* stored: an export prunes in the transaction that inserts ("insert and    *)
(* retention commit together", _export_sync of store.py).  Of the exports   *)
(* of postgres.py each prunes by what its own connection sees, and they may *)
(* leave one too many for every other connection.                           *)
THEOREM SpecRetains == StoreSpec => []Retained
<1>1. StoreInit => BackInv /\ WholeInv /\ RetainedInv
  BY BackInit, WholeInit, RetainedInit
<1>2. BackInv /\ WholeInv /\ RetainedInv /\ [StoreNext]_storeVars => (BackInv /\ WholeInv /\ RetainedInv)'
  BY BackStep, BackStutter, WholeStep, WholeStutter, RetainedStep, RetainedStutter
<1>3. BackInv /\ WholeInv /\ RetainedInv => Retained
  BY RetainedFact
<1> QED BY <1>1, <1>2, <1>3, PTL DEF StoreSpec
=============================================================================
