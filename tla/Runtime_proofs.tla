--------------------------- MODULE Runtime_proofs ---------------------------
(* What TLAPS proves of Runtime, for every set of agents and artifacts.     *)
(*                                                                         *)
(* The inductive invariant is Inv: types, every snapshot sound, and, while  *)
(* the agents run, the peeked batch accounted for by the work it was        *)
(* matched to and the part the budget cut.                                  *)
EXTENDS Runtime, FiniteSetTheorems, TLAPS

(* What consume-after-commit keeps true of any one Context: the two         *)
(* properties, and that the queue and the history speak of emitted events   *)
(* only, so that the event of a new version is new to both.                 *)
Sound(c) ==
  /\ c.queue \subseteq Emitted(c)
  /\ \A p \in c.ran : p[1] \in Emitted(c)
  /\ NoTriggerLostIn(c)
  /\ NoReplayIn(c)

BatchAccounted ==
  pc = "dispatch" =>
    /\ batch \subseteq Emitted(ctx)
    /\ work \cup cut = Matches(batch)

Inv ==
  /\ TypeOK
  /\ \A c \in Snapshots : Sound(c)
  /\ BatchAccounted

-----------------------------------------------------------------------------
(* Contexts *)

LEMMA EmittedMember ==
  ASSUME NEW c \in Contexts, NEW i \in Items, NEW v
  PROVE  <<i, v>> \in Emitted(c) <=> v \in 0 .. c.version[i]
  BY DEF Emitted

LEMMA EmittedEvents ==
  ASSUME NEW c \in Contexts
  PROVE  Emitted(c) \subseteq Events
  BY DEF Emitted, Events, Contexts

LEMMA EmittedFinite ==
  ASSUME NEW c \in Contexts
  PROVE  IsFiniteSet(Emitted(c))
  <1> DEFINE of(i) == {i} \X (0 .. c.version[i])
  <1>1. \A i \in Items : IsFiniteSet(of(i))
    <2> TAKE i \in Items
    <2>1. IsFiniteSet({i}) BY FS_Singleton
    <2>2. c.version[i] \in Int BY DEF Contexts
    <2>3. IsFiniteSet(0 .. c.version[i]) BY <2>2, FS_Interval
    <2> QED BY <2>1, <2>3, FS_Product
  <1>2. IsFiniteSet({of(i) : i \in Items})
    <2> DEFINE f == [i \in Items |-> of(i)]
    <2>1. f \in Surjection(Items, {of(i) : i \in Items})
      BY DEF Surjection
    <2> QED BY <2>1, FS_Surjection, ItemsAssumption DEF ItemsAssumption
  <1> QED BY <1>1, <1>2, FS_UNION DEF Emitted

-----------------------------------------------------------------------------
(* What the operators of the model do to a sound Context *)

LEMMA EmptyContextSound ==
  EmptyContext \in Contexts /\ Sound(EmptyContext)
  <1>1. EmptyContext \in Contexts
    BY DEF EmptyContext, Contexts, Statuses
  <1>2. Emitted(EmptyContext) = {}
    BY DEF Emitted, EmptyContext
  <1> QED BY <1>1, <1>2 DEF Sound, NoTriggerLostIn, NoReplayIn, EmptyContext

LEMMA NextVersion ==
  ASSUME NEW v \in Nat \cup {-1}
  PROVE  0 .. v + 1 = (0 .. v) \cup {v + 1}
  OBVIOUS

LEMMA BumpType ==
  ASSUME NEW c \in Contexts, NEW i \in Items
  PROVE  /\ Bump(c, i) \in Contexts
         /\ Emitted(Bump(c, i)) = Emitted(c) \cup {<<i, c.version[i] + 1>>}
         /\ <<i, c.version[i] + 1>> \notin Emitted(c)
  <1> DEFINE d == Bump(c, i)
  <1>1. c.version[i] + 1 \in Nat
    BY DEF Contexts
  <1>2. d \in Contexts
    <2>1. <<i, c.version[i] + 1>> \in Events
      BY <1>1 DEF Events
    <2>2. [c.version EXCEPT ![i] = @ + 1] \in [Items -> Nat \cup {-1}]
      BY <1>1 DEF Contexts
    <2>3. c.queue \cup {<<i, c.version[i] + 1>>} \in SUBSET Events
      BY <2>1 DEF Contexts
    <2> QED BY <2>2, <2>3 DEF Bump, Contexts
  <1>3. \A j \in Items : d.version[j] = IF j = i THEN c.version[i] + 1 ELSE c.version[j]
    BY DEF Bump, Contexts
  <1>4. 0 .. d.version[i] = (0 .. c.version[i]) \cup {c.version[i] + 1}
    <2>1. c.version[i] \in Nat \cup {-1} BY DEF Contexts
    <2> QED BY <1>3, <2>1, NextVersion
  <1>5. Emitted(d) = Emitted(c) \cup {<<i, c.version[i] + 1>>}
    <2>1. \A j \in Items : \A v :
            <<j, v>> \in Emitted(d) <=> <<j, v>> \in Emitted(c) \cup {<<i, c.version[i] + 1>>}
      <3> TAKE j \in Items
      <3> TAKE v
      <3>1. <<j, v>> \in Emitted(d) <=> v \in 0 .. d.version[j]
        BY <1>2, EmittedMember
      <3>2. <<j, v>> \in Emitted(c) <=> v \in 0 .. c.version[j]
        BY EmittedMember
      <3>3. CASE j = i
        BY <3>1, <3>2, <3>3, <1>4
      <3>4. CASE j # i
        BY <3>1, <3>2, <3>4, <1>3
      <3> QED BY <3>3, <3>4
    <2>2. Emitted(d) \subseteq Items \X Nat /\ Emitted(c) \subseteq Items \X Nat
      BY <1>2, EmittedEvents DEF Events
    <2> HIDE DEF d
    <2> QED BY <1>1, <2>1, <2>2
  <1>6. <<i, c.version[i] + 1>> \notin Emitted(c)
    BY <1>1 DEF Emitted, Contexts
  <1> QED BY <1>2, <1>5, <1>6

(* Creating or updating an artifact announces it: nothing is lost, nothing  *)
(* already handled comes back.                                              *)
LEMMA BumpSound ==
  ASSUME NEW c \in Contexts, NEW i \in Items, Sound(c)
  PROVE  Sound(Bump(c, i))
  <1> DEFINE d == Bump(c, i)
             e == <<i, c.version[i] + 1>>
  <1>1. Emitted(d) = Emitted(c) \cup {e} /\ e \notin Emitted(c)
    BY BumpType
  <1>2. /\ d.queue = c.queue \cup {e} /\ d.ran = c.ran /\ d.shed = c.shed /\ d.wasted = c.wasted
        /\ d.torn = c.torn
    BY DEF Bump, Contexts
  <1> HIDE DEF d, e
  <1>3. NoTriggerLostIn(d)
    BY <1>1, <1>2 DEF Sound, NoTriggerLostIn
  <1>4. NoReplayIn(d)
    BY <1>1, <1>2 DEF Sound, NoReplayIn
  <1>5. d.queue \subseteq Emitted(d) /\ \A p \in d.ran : p[1] \in Emitted(d)
    BY <1>1, <1>2 DEF Sound
  <1> QED BY <1>3, <1>4, <1>5 DEF Sound, d

LEMMA SetStatusSound ==
  ASSUME NEW c \in Contexts, NEW x \in Actions, NEW s \in Statuses
  PROVE  /\ SetStatus(c, x, s) \in Contexts
         /\ Emitted(SetStatus(c, x, s)) = Emitted(Bump(c, x))
         /\ Sound(c) => Sound(SetStatus(c, x, s))
  <1> DEFINE d == SetStatus(c, x, s)
             b == Bump(c, x)
  <1>1. x \in Items
    BY ItemsAssumption DEF ItemsAssumption
  <1>2. b \in Contexts
    BY <1>1, BumpType
  <1>3. d = [b EXCEPT !.status[x] = s]
    BY DEF SetStatus
  <1> HIDE DEF b, d
  <1>4. d \in Contexts
    BY <1>2, <1>3 DEF Contexts
  <1>5. /\ d.version = b.version /\ d.queue = b.queue /\ d.ran = b.ran
        /\ d.shed = b.shed /\ d.wasted = b.wasted /\ d.torn = b.torn
    BY <1>2, <1>3 DEF Contexts
  <1>6. Emitted(d) = Emitted(b)
    BY <1>5 DEF Emitted
  <1>7. Sound(b) => Sound(d)
    BY <1>5, <1>6 DEF Sound, NoTriggerLostIn, NoReplayIn
  <1> QED BY <1>1, <1>4, <1>6, <1>7, BumpSound DEF b, d

(* drain_events gives the whole queue up.                                   *)
LEMMA DrainedSound ==
  ASSUME NEW c \in Contexts, Sound(c),
         NEW d, d = [c EXCEPT !.queue = {}, !.shed = @ \cup Matches(c.queue)]
  PROVE  d \in Contexts /\ Sound(d) /\ Emitted(d) = Emitted(c)
  <1>1. /\ d.version = c.version /\ d.queue = {} /\ d.ran = c.ran
        /\ d.shed = c.shed \cup Matches(c.queue) /\ d.wasted = c.wasted
    BY DEF Contexts
  <1>2. Matches(c.queue) \subseteq Pairs
    BY DEF Matches, Pairs, Contexts
  <1>3. d \in Contexts
    BY <1>2 DEF Contexts
  <1>4. Emitted(d) = Emitted(c)
    BY <1>1 DEF Emitted
  <1>5. \A e \in c.queue, a \in Agents : e[1] \in Consumes[a] => <<e, a>> \in Matches(c.queue)
    BY DEF Matches
  <1> QED BY <1>1, <1>3, <1>4, <1>5 DEF Sound, NoTriggerLostIn, NoReplayIn

LEMMA MatchesPairs ==
  ASSUME NEW evs \in SUBSET Events
  PROVE  Matches(evs) \subseteq Pairs
  BY DEF Matches, Pairs

(* The commits of a generation announce every version they reach, none of   *)
(* which had been announced before.                                         *)
LEMMA PatchesEmit ==
  ASSUME ctx \in Contexts, NEW kept \in SUBSET Pairs, NEW writing, NEW g \in Growths(writing),
         NEW d, d = ApplyPatches(kept, g)
  PROVE  /\ d \in Contexts
         /\ d.queue = ctx.queue \cup NewEvents(g)
         /\ d.ran = ctx.ran \cup kept /\ d.shed = ctx.shed /\ d.wasted = ctx.wasted
         /\ d.torn = ctx.torn
         /\ Emitted(d) = Emitted(ctx) \cup NewEvents(g)
         /\ NewEvents(g) \cap Emitted(ctx) = {}
  <1>1. ctx.version \in [Items -> Nat \cup {-1}]
    BY DEF Contexts
  <1>2. /\ g \in [Items -> Nat \cup {-1}]
        /\ \A i \in Items : ctx.version[i] <= g[i]
    <2>1. g \in [Items -> -1 .. MaxVersion + 2]
      BY DEF Growths
    <2>2. -1 .. MaxVersion + 2 \subseteq Nat \cup {-1}
      BY KnobsAssumption DEF KnobsAssumption
    <2>3. ASSUME NEW i \in Items PROVE ctx.version[i] <= g[i]
      <3>1. g[i] = ctx.version[i] \/ g[i] \in ctx.version[i] + 1 .. ctx.version[i] + Writers(writing, i)
        BY DEF Growths
      <3> QED BY <1>1, <3>1
    <2> QED BY <2>1, <2>2, <2>3
  <1>3. NewEvents(g) \in SUBSET Events
    BY <1>1, <1>2 DEF NewEvents, Events
  <1>4. /\ d.version = g
        /\ d.queue = ctx.queue \cup NewEvents(g)
        /\ d.ran = ctx.ran \cup kept /\ d.shed = ctx.shed /\ d.wasted = ctx.wasted
        /\ d.torn = ctx.torn
    BY DEF ApplyPatches, Contexts
  <1>5. d \in Contexts
    <2>1. [x \in Actions |-> IF ctx.version[x] = -1 /\ g[x] = 0 THEN "pending" ELSE ctx.status[x]]
            \in [Actions -> Statuses]
      BY DEF Contexts, Statuses
    <2> QED BY <1>2, <1>3, <2>1 DEF ApplyPatches, Contexts
  <1>6. \A i \in Items : \A v :
          <<i, v>> \in NewEvents(g) <=> v \in ctx.version[i] + 1 .. g[i]
    BY DEF NewEvents
  <1>7. \A i \in Items : \A v :
          <<i, v>> \in Emitted(d) <=> <<i, v>> \in Emitted(ctx) \cup NewEvents(g)
    <2> TAKE i \in Items
    <2> TAKE v
    <2>1. <<i, v>> \in Emitted(d) <=> v \in 0 .. g[i]
      BY <1>4, <1>5, EmittedMember
    <2>2. <<i, v>> \in Emitted(ctx) <=> v \in 0 .. ctx.version[i]
      BY EmittedMember
    <2> QED BY <1>1, <1>2, <1>6, <2>1, <2>2
  <1>8. Emitted(d) = Emitted(ctx) \cup NewEvents(g)
    BY <1>3, <1>5, <1>7, EmittedEvents DEF Events
  <1>9. NewEvents(g) \cap Emitted(ctx) = {}
    <2>1. ASSUME NEW i \in Items, NEW v
          PROVE  ~(<<i, v>> \in NewEvents(g) /\ <<i, v>> \in Emitted(ctx))
      <3>1. <<i, v>> \in NewEvents(g) <=> v \in ctx.version[i] + 1 .. g[i]
        BY <1>6
      <3>2. <<i, v>> \in Emitted(ctx) <=> v \in 0 .. ctx.version[i]
        BY EmittedMember
      <3>3. ctx.version[i] \in Int
        BY <1>1
      <3> QED BY <3>1, <3>2, <3>3
    <2> QED BY <1>3, <2>1 DEF Events
  <1> QED BY <1>4, <1>5, <1>8, <1>9

(* The heart of the argument: consuming the batch after the commits, by     *)
(* identity, keeps the Context sound when the batch's matches are all among *)
(* what was committed, given up or thrown away.                             *)
LEMMA SettleSound ==
  ASSUME ctx \in Contexts, Sound(ctx), batch \subseteq Emitted(ctx),
         NEW kept \in SUBSET Pairs, NEW given \in SUBSET Pairs, NEW lost \in SUBSET Pairs,
         Matches(batch) = kept \cup given \cup lost,
         NEW new, NEW d \in Contexts,
         d.queue = ctx.queue \cup new, Emitted(d) = Emitted(ctx) \cup new,
         new \cap Emitted(ctx) = {},
         d.ran = ctx.ran \cup kept, d.shed = ctx.shed, d.wasted = ctx.wasted, d.torn = ctx.torn
  PROVE  Settle(d, given, lost) \in Contexts /\ Sound(Settle(d, given, lost))
  <1> DEFINE s == Settle(d, given, lost)
  <1>1. /\ s.version = d.version
        /\ s.queue = (ctx.queue \cup new) \ batch
        /\ s.ran = ctx.ran \cup kept
        /\ s.shed = ctx.shed \cup given
        /\ s.wasted = ctx.wasted \cup lost
        /\ s.torn = {p \in ctx.torn : p[1] \notin batch}
    BY DEF Settle, ConsumeEvents, Contexts
  <1>2. s \in Contexts
    BY DEF Settle, ConsumeEvents, Contexts
  <1>3. Emitted(s) = Emitted(ctx) \cup new
    BY <1>1 DEF Emitted
  <1> HIDE DEF s
  <1>4. \A p \in kept : p[1] \in batch
    BY DEF Matches, Pairs
  <1>5. s.queue \subseteq Emitted(s) /\ \A p \in s.ran : p[1] \in Emitted(s)
    BY <1>1, <1>3, <1>4 DEF Sound
  <1>6. NoTriggerLostIn(s)
    <2>1. SUFFICES ASSUME NEW e \in Emitted(s) \ s.queue, NEW a \in Agents, e[1] \in Consumes[a]
                   PROVE  <<e, a>> \in s.ran \cup s.shed \cup s.wasted
      BY DEF NoTriggerLostIn
    <2>2. e \in Emitted(ctx)
      BY <1>1, <1>3
    <2>3. CASE e \in batch
      <3>1. <<e, a>> \in Matches(batch)
        BY <2>1, <2>3 DEF Matches
      <3> QED BY <3>1, <1>1
    <2>4. CASE e \notin batch
      <3>1. e \notin ctx.queue
        BY <1>1, <2>4
      <3>2. <<e, a>> \in ctx.ran \cup ctx.shed \cup ctx.wasted
        BY <2>1, <2>2, <3>1 DEF Sound, NoTriggerLostIn
      <3> QED BY <1>1, <3>2
    <2> QED BY <2>3, <2>4
  <1>7. NoReplayIn(s)
    <2> SUFFICES ASSUME NEW p \in s.ran \ s.torn PROVE p[1] \notin s.queue
      BY DEF NoReplayIn
    <2>1. CASE p[1] \in batch
      <3>1. p[1] \in Emitted(ctx)
        BY <2>1
      <3> QED BY <1>1, <2>1, <3>1
    <2>2. CASE p[1] \notin batch
      <3>1. p \in ctx.ran \ ctx.torn
        BY <1>1, <1>4, <2>2
      <3>2. p[1] \in Emitted(ctx) /\ p[1] \notin ctx.queue
        BY <3>1 DEF Sound, NoReplayIn
      <3> QED BY <1>1, <3>2
    <2> QED BY <2>1, <2>2
  <1> QED BY <1>2, <1>5, <1>6, <1>7 DEF Sound, s

-----------------------------------------------------------------------------
(* Writes on their way *)

LEMMA RangeAppended ==
  ASSUME NEW S, NEW s \in Seq(S), NEW t \in Seq(S)
  PROVE  /\ s \o t \in Seq(S)
         /\ Range(s \o t) \subseteq Range(s) \cup Range(t)
  BY DEF Range

LEMMA RangeRemoved ==
  ASSUME NEW S, NEW s \in Seq(S), NEW k \in DOMAIN s
  PROVE  /\ RemoveAt(s, k) \in Seq(S)
         /\ Range(RemoveAt(s, k)) \subseteq Range(s)
  <1> DEFINE front == SubSeq(s, 1, k - 1)
             back  == SubSeq(s, k + 1, Len(s))
  <1>1. k \in 1 .. Len(s) /\ Len(s) \in Nat
    OBVIOUS
  <1>2. front \in Seq(S) /\ back \in Seq(S)
    BY <1>1
  <1>3. Range(front) \subseteq Range(s)
    BY <1>1, <1>2 DEF Range
  <1>4. Range(back) \subseteq Range(s)
    BY <1>1, <1>2 DEF Range
  <1>5. RemoveAt(s, k) = front \o back
    BY DEF RemoveAt
  <1> HIDE DEF front, back
  <1> QED BY <1>2, <1>3, <1>4, <1>5, RangeAppended

-----------------------------------------------------------------------------
(* The steps: what each does to the Contexts *)

StoreInv == StoreTyped /\ \A c \in Snapshots : Sound(c)

LEMMA WorkFinite ==
  ASSUME Inv, pc = "dispatch"
  PROVE  IsFiniteSet(work)
  <1>1. IsFiniteSet(Emitted(ctx))
    BY EmittedFinite DEF Inv, TypeOK, StoreTyped
  <1>2. IsFiniteSet(Emitted(ctx) \X Agents)
    BY <1>1, FS_Product, ItemsAssumption DEF ItemsAssumption
  <1>3. work \subseteq Emitted(ctx) \X Agents
    BY DEF Inv, BatchAccounted, Matches
  <1> QED BY <1>2, <1>3, FS_Subset

(* The backend is left alone and the live Context stays sound.              *)
LEMMA ContextStep ==
  ASSUME StoreInv, UNCHANGED storeVars, ctx' \in Contexts, Sound(ctx')
  PROVE  StoreInv'
  BY DEF StoreInv, StoreTyped, Snapshots, storeVars

LEMMA SubmitStore ==
  ASSUME StoreInv, NEW i \in Items, Submit(i)
  PROVE  StoreInv' /\ Emitted(ctx) \subseteq Emitted(ctx')
  <1>1. ctx \in Contexts /\ Sound(ctx)
    BY DEF StoreInv, StoreTyped, Snapshots
  <1>2. ctx' = Bump(ctx, i) /\ UNCHANGED storeVars
    BY DEF Submit
  <1> QED BY <1>1, <1>2, BumpType, BumpSound, ContextStep

LEMMA StatusStore ==
  ASSUME StoreInv, NEW x \in Actions, NEW s \in Statuses,
         ctx' = SetStatus(ctx, x, s), UNCHANGED storeVars
  PROVE  StoreInv' /\ Emitted(ctx) \subseteq Emitted(ctx')
  <1>1. ctx \in Contexts /\ Sound(ctx)
    BY DEF StoreInv, StoreTyped, Snapshots
  <1>2. x \in Items
    BY ItemsAssumption DEF ItemsAssumption
  <1>3. ctx' \in Contexts /\ Sound(ctx')
    BY <1>1, SetStatusSound
  <1>4. Emitted(ctx) \subseteq Emitted(ctx')
    BY <1>1, <1>2, SetStatusSound, BumpType
  <1> QED BY <1>3, <1>4, ContextStep

LEMMA DrainEventsStore ==
  ASSUME StoreInv, DrainEvents
  PROVE  StoreInv' /\ Emitted(ctx) \subseteq Emitted(ctx')
  <1>1. ctx \in Contexts /\ Sound(ctx)
    BY DEF StoreInv, StoreTyped, Snapshots
  <1>2. ctx' = [ctx EXCEPT !.queue = {}, !.shed = @ \cup Matches(ctx.queue)]
        /\ UNCHANGED storeVars
    BY DEF DrainEvents
  <1>3. ctx' \in Contexts /\ Sound(ctx') /\ Emitted(ctx') = Emitted(ctx)
    BY <1>1, <1>2, DrainedSound
  <1> QED BY <1>2, <1>3, ContextStep

LEMMA CommitStore ==
  ASSUME Inv, NEW failed \in SUBSET work, NEW g \in Growths(work \ failed),
         CommitGeneration(failed, g)
  PROVE  StoreInv'
  <1> DEFINE kept == work \ failed
             d    == ApplyPatches(kept, g)
  <1>1. ctx \in Contexts /\ Sound(ctx) /\ StoreInv
    BY DEF Inv, TypeOK, StoreInv, StoreTyped, Snapshots
  <1>2. batch \subseteq Emitted(ctx) /\ work \cup cut = Matches(batch)
    BY DEF Inv, BatchAccounted, CommitGeneration
  <1>3. kept \in SUBSET Pairs /\ failed \cup cut \in SUBSET Pairs
    BY DEF Inv, TypeOK, TurnTyped
  <1>4. /\ d \in Contexts
        /\ d.queue = ctx.queue \cup NewEvents(g)
        /\ d.ran = ctx.ran \cup kept /\ d.shed = ctx.shed /\ d.wasted = ctx.wasted
        /\ d.torn = ctx.torn
        /\ Emitted(d) = Emitted(ctx) \cup NewEvents(g)
        /\ NewEvents(g) \cap Emitted(ctx) = {}
    BY <1>1, <1>3, PatchesEmit
  <1>5. ctx' = Settle(d, failed \cup cut, {}) /\ UNCHANGED storeVars
    BY DEF CommitGeneration
  <1>6. Matches(batch) = kept \cup (failed \cup cut) \cup {}
    BY <1>2
  <1> HIDE DEF d, kept
  <1>7. ctx' \in Contexts /\ Sound(ctx')
    BY <1>1, <1>2, <1>3, <1>4, <1>5, <1>6, SettleSound
  <1> QED BY <1>1, <1>5, <1>7, ContextStep

LEMMA DiscardStore ==
  ASSUME Inv, DiscardResults
  PROVE  StoreInv'
  <1>1. ctx \in Contexts /\ Sound(ctx) /\ StoreInv
    BY DEF Inv, TypeOK, StoreInv, StoreTyped, Snapshots
  <1>2. batch \subseteq Emitted(ctx) /\ Matches(batch) = {} \cup cut \cup work
    BY DEF Inv, BatchAccounted, DiscardResults
  <1>3. cut \in SUBSET Pairs /\ work \in SUBSET Pairs
    BY DEF Inv, TypeOK, TurnTyped
  <1>4. ctx' = Settle(ctx, cut, work) /\ UNCHANGED storeVars
    BY DEF DiscardResults
  <1> DEFINE none == {}
  <1>5. /\ ctx.queue = ctx.queue \cup none /\ Emitted(ctx) = Emitted(ctx) \cup none
        /\ ctx.ran = ctx.ran \cup none
        /\ none \in SUBSET Pairs /\ none \cap Emitted(ctx) = {}
        /\ Matches(batch) = none \cup cut \cup work
    BY <1>2
  <1> HIDE DEF none
  <1>6. ctx' \in Contexts /\ Sound(ctx')
    BY <1>1, <1>2, <1>3, <1>4, <1>5, SettleSound
  <1> QED BY <1>1, <1>4, <1>6, ContextStep

(* The clock runs out among the results: those before are committed, those  *)
(* after thrown away.                                                       *)
LEMMA CutResultsStore ==
  ASSUME Inv, ClockExpiresInResults
  PROVE  StoreInv'
  <1>1. ctx \in Contexts /\ Sound(ctx) /\ StoreInv
    BY DEF Inv, TypeOK, StoreInv, StoreTyped, Snapshots
  <1>2. batch \subseteq Emitted(ctx) /\ work \cup cut = Matches(batch)
    BY DEF Inv, BatchAccounted, ClockExpiresInResults
  <1>3. work \in SUBSET Pairs /\ cut \in SUBSET Pairs
    BY DEF Inv, TypeOK, TurnTyped
  <1>4. PICK lost \in SUBSET work, failed \in SUBSET work :
          \E g \in Growths(work \ (failed \cup lost)) :
            ctx' = Settle(ApplyPatches(work \ (failed \cup lost), g), failed \cup cut, lost)
    BY DEF ClockExpiresInResults
  <1> DEFINE kept  == work \ (failed \cup lost)
             given == failed \cup cut
  <1>5. PICK g \in Growths(kept) : ctx' = Settle(ApplyPatches(kept, g), given, lost)
    BY <1>4
  <1>6. kept \in SUBSET Pairs /\ given \in SUBSET Pairs /\ lost \in SUBSET Pairs
    BY <1>3
  <1>7. Matches(batch) = kept \cup given \cup lost
    BY <1>2
  <1> DEFINE d == ApplyPatches(kept, g)
  <1> HIDE DEF kept, given
  <1>8. /\ d \in Contexts
        /\ d.queue = ctx.queue \cup NewEvents(g)
        /\ d.ran = ctx.ran \cup kept /\ d.shed = ctx.shed /\ d.wasted = ctx.wasted
        /\ d.torn = ctx.torn
        /\ Emitted(d) = Emitted(ctx) \cup NewEvents(g)
        /\ NewEvents(g) \cap Emitted(ctx) = {}
    BY <1>1, <1>6, PatchesEmit
  <1>9. ctx' = Settle(d, given, lost)
    BY <1>5
  <1> HIDE DEF d
  <1>10. ctx' \in Contexts /\ Sound(ctx')
    BY <1>1, <1>2, <1>6, <1>7, <1>8, <1>9, SettleSound
  <1>11. UNCHANGED storeVars
    BY DEF ClockExpiresInResults
  <1> QED BY <1>1, <1>10, <1>11, ContextStep

(* What a patch that raised leaves behind, spelt out.                       *)
LEMMA TornCommit ==
  ASSUME NEW c \in TornCommits
  PROVE  \E applied \in SUBSET work : \E more : \E g \in Growths(more) :
           c = [ApplyPatches(applied, g) EXCEPT !.torn = @ \cup applied]
  <1>1. PICK applied \in SUBSET work :
          c \in {[ApplyPatches(applied, g) EXCEPT !.torn = @ \cup applied] :
                   g \in UNION {Growths(applied \cup {p}) : p \in work \ applied}}
    BY DEF TornCommits
  <1>2. PICK g \in UNION {Growths(applied \cup {p}) : p \in work \ applied} :
          c = [ApplyPatches(applied, g) EXCEPT !.torn = @ \cup applied]
    BY <1>1
  <1>3. PICK p \in work \ applied : g \in Growths(applied \cup {p})
    BY <1>2
  <1> QED BY <1>1, <1>2, <1>3

(* The batch is queued still, and what was committed of it is on record.    *)
LEMMA TornStore ==
  ASSUME Inv, CommitRaises
  PROVE  StoreInv'
  <1>1. ctx \in Contexts /\ Sound(ctx) /\ StoreInv
    BY DEF Inv, TypeOK, StoreInv, StoreTyped, Snapshots
  <1>2. batch \subseteq Emitted(ctx) /\ work \subseteq Matches(batch)
    BY DEF Inv, BatchAccounted, CommitRaises
  <1>3. ctx' \in TornCommits /\ UNCHANGED storeVars
    BY DEF CommitRaises
  <1>4. PICK applied \in SUBSET work : \E more : \E g \in Growths(more) :
          ctx' = [ApplyPatches(applied, g) EXCEPT !.torn = @ \cup applied]
    BY <1>3, TornCommit
  <1>5. PICK more : \E g \in Growths(more) :
          ctx' = [ApplyPatches(applied, g) EXCEPT !.torn = @ \cup applied]
    BY <1>4
  <1>6. PICK g \in Growths(more) :
          ctx' = [ApplyPatches(applied, g) EXCEPT !.torn = @ \cup applied]
    BY <1>5
  <1>7. applied \in SUBSET Pairs
    BY DEF Inv, TypeOK, TurnTyped
  <1> DEFINE d == ApplyPatches(applied, g)
  <1>8. /\ d \in Contexts
        /\ d.queue = ctx.queue \cup NewEvents(g)
        /\ d.ran = ctx.ran \cup applied /\ d.shed = ctx.shed /\ d.wasted = ctx.wasted
        /\ d.torn = ctx.torn
        /\ Emitted(d) = Emitted(ctx) \cup NewEvents(g)
        /\ NewEvents(g) \cap Emitted(ctx) = {}
    BY <1>1, <1>7, PatchesEmit
  <1>9. ctx' = [d EXCEPT !.torn = @ \cup applied]
    BY <1>6
  <1> HIDE DEF d
  <1>10. /\ ctx' \in Contexts
         /\ ctx'.version = d.version /\ ctx'.queue = d.queue /\ ctx'.ran = d.ran
         /\ ctx'.shed = d.shed /\ ctx'.wasted = d.wasted /\ ctx'.torn = ctx.torn \cup applied
    BY <1>7, <1>8, <1>9 DEF Contexts
  <1>11. Emitted(ctx') = Emitted(ctx) \cup NewEvents(g)
    BY <1>8, <1>10 DEF Emitted
  <1>12. \A p \in applied : p[1] \in Emitted(ctx)
    BY <1>2 DEF Matches
  <1>13. ctx'.queue \subseteq Emitted(ctx') /\ \A p \in ctx'.ran : p[1] \in Emitted(ctx')
    BY <1>1, <1>8, <1>10, <1>11, <1>12 DEF Sound
  <1>14. NoTriggerLostIn(ctx')
    BY <1>1, <1>8, <1>10, <1>11 DEF Sound, NoTriggerLostIn
  <1>15. NoReplayIn(ctx')
    BY <1>1, <1>8, <1>10 DEF Sound, NoReplayIn
  <1>16. Sound(ctx')
    BY <1>13, <1>14, <1>15 DEF Sound
  <1> QED BY <1>1, <1>3, <1>10, <1>16, ContextStep

LEMMA OneWrite ==
  ASSUME NEW S, NEW c \in S, NEW s, s = <<c>> \/ s = <<>>
  PROVE  s \in Seq(S) /\ Len(s) <= 1
  <1>1. <<c>> \in Seq(S) /\ Len(<<c>>) = 1
    OBVIOUS
  <1>2. <<>> \in Seq(S) /\ Len(<<>>) = 0
    OBVIOUS
  <1>3. CASE s = <<c>>
    BY <1>1, <1>3
  <1>4. CASE s = <<>>
    BY <1>2, <1>4
  <1> QED BY <1>3, <1>4

(* The actions that write: what reaches the disk is a snapshot there was.   *)
LEMMA SnapshotStep ==
  ASSUME StoreInv, StoreTyped', Snapshots' \subseteq Snapshots
  PROVE  StoreInv'
  BY DEF StoreInv

LEMMA DrainDoneStore ==
  ASSUME StoreInv, DrainDone
  PROVE  StoreInv'
  <1>1. saving' = <<ctx>> \/ saving' = saving
    BY DEF DrainDone, SaveAfterDrain
  <1>2. UNCHANGED <<ctx, disk, stray>>
    BY DEF DrainDone
  <1>3. StoreTyped'
    <2>1. ctx \in Contexts /\ saving \in Seq(Contexts) /\ Len(saving) <= 1
      BY DEF StoreInv, StoreTyped
    <2>2. saving' \in Seq(Contexts) /\ Len(saving') <= 1
      BY <1>1, <2>1, OneWrite
    <2> QED BY <1>2, <2>2 DEF StoreInv, StoreTyped
  <1>4. Snapshots' \subseteq Snapshots
    BY <1>1, <1>2 DEF Snapshots, Range
  <1> QED BY <1>3, <1>4, SnapshotStep

LEMMA EndTurnStore ==
  ASSUME StoreInv, EndTurn
  PROVE  StoreInv'
  <1>1. saving' = <<ctx>> \/ saving' = <<>>
    BY DEF EndTurn
  <1>2. UNCHANGED <<ctx, disk, stray>>
    BY DEF EndTurn
  <1>3. StoreTyped'
    <2>1. ctx \in Contexts /\ saving \in Seq(Contexts) /\ Len(saving) <= 1
      BY DEF StoreInv, StoreTyped
    <2>2. saving' \in Seq(Contexts) /\ Len(saving') <= 1
      BY <1>1, <2>1, OneWrite
    <2> QED BY <1>2, <2>2 DEF StoreInv, StoreTyped
  <1>4. Snapshots' \subseteq Snapshots
    BY <1>1, <1>2 DEF Snapshots, Range
  <1> QED BY <1>3, <1>4, SnapshotStep

LEMMA LandOwnStore ==
  ASSUME Inv, LandOwn
  PROVE  StoreInv'
  <1>1. saving # <<>>
    BY DEF Inv, TypeOK, PhaseOK, LandOwn
  <1>2. saving[1] \in Contexts /\ saving[1] \in Range(saving)
    BY <1>1 DEF Inv, TypeOK, StoreTyped, Range
  <1>3. disk' = saving[1] /\ saving' = <<>> /\ UNCHANGED <<ctx, stray>>
    BY DEF LandOwn
  <1>4. StoreTyped'
    BY <1>2, <1>3 DEF Inv, TypeOK, StoreTyped
  <1>5. Snapshots' \subseteq Snapshots
    BY <1>2, <1>3 DEF Snapshots, Range
  <1> QED BY <1>4, <1>5, SnapshotStep DEF Inv, TypeOK, StoreInv

LEMMA SaveRaisesStore ==
  ASSUME Inv, SaveRaises
  PROVE  StoreInv'
  <1>1. saving # <<>>
    BY DEF Inv, TypeOK, PhaseOK, SaveRaises
  <1>2. saving[1] \in Contexts /\ saving[1] \in Range(saving)
    BY <1>1 DEF Inv, TypeOK, StoreTyped, Range
  <1>3. disk' \in {disk, saving[1]} /\ saving' = <<>> /\ UNCHANGED <<ctx, stray>>
    BY DEF SaveRaises
  <1>4. StoreTyped'
    BY <1>2, <1>3 DEF Inv, TypeOK, StoreTyped
  <1>5. Snapshots' \subseteq Snapshots
    BY <1>2, <1>3 DEF Snapshots, Range
  <1> QED BY <1>4, <1>5, SnapshotStep DEF Inv, TypeOK, StoreInv

LEMMA StrayRaisesStore ==
  ASSUME StoreInv, NEW k \in DOMAIN stray, StrayRaises(k)
  PROVE  StoreInv'
  <1>1. stray' = RemoveAt(stray, k) /\ UNCHANGED <<ctx, disk, saving>>
    BY DEF StrayRaises
  <1>2. stray' \in Seq(Contexts) /\ Range(stray') \subseteq Range(stray)
    BY <1>1, RangeRemoved DEF StoreInv, StoreTyped
  <1>3. StoreTyped' /\ Snapshots' \subseteq Snapshots
    BY <1>1, <1>2 DEF StoreInv, StoreTyped, Snapshots
  <1> QED BY <1>3, SnapshotStep

LEMMA LandStrayStore ==
  ASSUME StoreInv, NEW k \in DOMAIN stray, LandStray(k)
  PROVE  StoreInv'
  <1>1. stray[k] \in Contexts /\ stray[k] \in Range(stray)
    BY DEF StoreInv, StoreTyped, Range
  <1>2. disk' = stray[k] /\ stray' = RemoveAt(stray, k) /\ UNCHANGED <<ctx, saving>>
    BY DEF LandStray
  <1>3. stray' \in Seq(Contexts) /\ Range(stray') \subseteq Range(stray)
    BY <1>2, RangeRemoved DEF StoreInv, StoreTyped
  <1>4. StoreTyped'
    BY <1>1, <1>2, <1>3 DEF StoreInv, StoreTyped
  <1>5. Snapshots' \subseteq Snapshots
    BY <1>1, <1>2, <1>3 DEF Snapshots
  <1> QED BY <1>4, <1>5, SnapshotStep

LEMMA InterruptStore ==
  ASSUME StoreInv, Interrupt, UNCHANGED <<ctx, disk>>
  PROVE  StoreInv'
  <1>1. stray' = stray \o saving \/ stray' = stray
    BY DEF Interrupt
  <1>2. saving' = <<>>
    BY DEF Interrupt
  <1>3. stray' \in Seq(Contexts) /\ Range(stray') \subseteq Range(stray) \cup Range(saving)
    BY <1>1, RangeAppended DEF StoreInv, StoreTyped
  <1>4. StoreTyped'
    BY <1>2, <1>3 DEF StoreInv, StoreTyped
  <1>5. Range(saving') = {}
    BY <1>2 DEF Range
  <1>6. Snapshots' \subseteq Snapshots
    BY <1>3, <1>5 DEF Snapshots
  <1> QED BY <1>4, <1>6, SnapshotStep

(* A crash brings the snapshot on disk back to life.                        *)
LEMMA CrashStore ==
  ASSUME StoreInv, Crash
  PROVE  StoreInv'
  <1>1. ctx' = disk /\ disk' = disk /\ saving' = <<>> /\ stray' = <<>>
    BY DEF Crash
  <1>2. StoreTyped'
    BY <1>1 DEF StoreInv, StoreTyped
  <1>3. Snapshots' \subseteq Snapshots
    BY <1>1 DEF Snapshots, Range
  <1> QED BY <1>2, <1>3, SnapshotStep

-----------------------------------------------------------------------------
(* The steps: what each does to the turn *)

TurnInv == TurnTyped /\ PhaseOK /\ BatchAccounted

(* At the boundaries and outside a turn nothing is dispatched or drained.   *)
LEMMA BoundaryTurn ==
  ASSUME Inv, Boundary
  PROVE  TurnInv' /\ StoreInv'
  <1> USE DEF Inv, TypeOK, TurnInv, TurnTyped, PhaseOK, BatchAccounted, turnVars,
              batchVars, drainVars, storeVars, worldVars, LeaveLoop, ExitTurn,
              ForgetBatch, AtLoopHead, Pcs
  <1>1. UNCHANGED <<ctx, storeVars>>
    BY DEF Boundary, IterationsExhausted, StopAtBoundary, BudgetStopsLoop,
           NothingToDo, BudgetStopsOnce
  <1>2. StoreInv'
    BY <1>1 DEF StoreInv, StoreTyped, Snapshots
  <1> SUFFICES TurnInv'
    BY <1>2
  <1>3. CASE IterationsExhausted
    BY <1>3 DEF IterationsExhausted, Outcomes
  <1>4. CASE StopAtBoundary
    BY <1>4 DEF StopAtBoundary, Outcomes
  <1>5. CASE BudgetStopsLoop
    BY <1>5 DEF BudgetStopsLoop, Exhausted, Outcomes
  <1>6. CASE NothingToDo
    BY <1>6 DEF NothingToDo, MayGenerate
  <1>7. CASE BudgetStopsOnce
    BY <1>7 DEF BudgetStopsOnce, MayGenerate, Exhausted, Outcomes
  <1> QED BY <1>3, <1>4, <1>5, <1>6, <1>7 DEF Boundary

LEMMA DispatchTurn ==
  ASSUME Inv, NEW w \in SUBSET Matches(ctx.queue),
         StartGeneration(w) \/ ClockExpiresWhileMatching(w)
  PROVE  TurnInv' /\ StoreInv'
  <1>1. ctx.queue \subseteq Emitted(ctx) /\ ctx.queue \in SUBSET Events
    BY DEF Inv, TypeOK, StoreTyped, Snapshots, Sound, Contexts
  <1>2. w \subseteq Pairs /\ Matches(ctx.queue) \subseteq Pairs
    BY <1>1, MatchesPairs
  <1>3. Dispatch(w) /\ UNCHANGED storeVars /\ UNCHANGED ctx
    BY DEF StartGeneration, ClockExpiresWhileMatching, Dispatch, storeVars
  <1>4. StoreInv'
    BY <1>3 DEF Inv, TypeOK, StoreInv, StoreTyped, Snapshots, storeVars
  <1>5. /\ pc' \in Pcs /\ gen' \in Nat /\ cutNow' \in BOOLEAN
        /\ batch' \subseteq Events /\ work' \subseteq Pairs /\ cut' \subseteq Pairs
        /\ UNCHANGED <<policy, mode, cap, runs, ranNow, drainVars, stop, worldVars>>
    BY <1>1, <1>2, <1>3 DEF Dispatch, Inv, TypeOK, TurnTyped, Pcs
  <1>6. faults' \in Nat /\ outcome' \in Outcomes /\ spent' \subseteq {"time", "quota", "tokens"}
    BY DEF StartGeneration, ClockExpiresWhileMatching, Misfortune, Inv, TypeOK, TurnTyped,
       Outcomes
  <1>7. TurnTyped'
    BY <1>3, <1>5, <1>6 DEF Inv, TypeOK, TurnTyped, drainVars, worldVars, storeVars
  <1>8. PhaseOK'
    BY <1>3 DEF Dispatch, MayGenerate, Inv, TypeOK, PhaseOK, drainVars, storeVars
  <1>9. BatchAccounted'
    BY <1>1, <1>3 DEF Dispatch, BatchAccounted
  <1> QED BY <1>4, <1>7, <1>8, <1>9 DEF TurnInv

LEMMA CommitTurn ==
  ASSUME Inv, NEW failed \in SUBSET work, NEW g \in Growths(work \ failed),
         CommitGeneration(failed, g)
  PROVE  TurnInv'
  <1>1. Cardinality(work) \in Nat
    BY WorkFinite, FS_CardinalityType DEF CommitGeneration
  <1>2. TurnTyped'
    BY <1>1 DEF CommitGeneration, EnterDrain, ForgetBatch, PendingActions, Inv, TypeOK,
       TurnTyped, worldVars, storeVars, Pcs
  <1>3. PhaseOK' /\ BatchAccounted'
    BY DEF CommitGeneration, EnterDrain, ForgetBatch, Inv, TypeOK, PhaseOK, batchVars,
       storeVars, BatchAccounted
  <1> QED BY <1>2, <1>3 DEF TurnInv

LEMMA DiscardTurn ==
  ASSUME Inv, DiscardResults
  PROVE  TurnInv'
  <1>1. TurnTyped'
    BY DEF DiscardResults, EnterDrain, ForgetBatch, PendingActions, Inv, TypeOK,
       TurnTyped, worldVars, storeVars, Pcs, Exhausted, Outcomes
  <1>2. PhaseOK' /\ BatchAccounted'
    BY DEF DiscardResults, EnterDrain, ForgetBatch, Inv, TypeOK, PhaseOK, batchVars,
       storeVars, BatchAccounted
  <1> QED BY <1>1, <1>2 DEF TurnInv

LEMMA CutResultsTurn ==
  ASSUME Inv, ClockExpiresInResults
  PROVE  TurnInv'
  <1>1. IsFiniteSet(work)
    BY WorkFinite DEF ClockExpiresInResults
  <1>2. \A lost \in SUBSET work : Cardinality(work \ lost) \in Nat
    BY <1>1, FS_Subset, FS_CardinalityType
  <1>3. runs' \in Nat /\ ranNow' \in Nat
    <2>1. PICK lost \in SUBSET work :
            runs' = runs + Cardinality(work \ lost) /\ ranNow' = Cardinality(work \ lost)
      BY DEF ClockExpiresInResults
    <2>2. runs \in Nat
      BY DEF Inv, TypeOK, TurnTyped
    <2> QED BY <1>2, <2>1, <2>2
  <1>4. TurnTyped'
    BY <1>3 DEF ClockExpiresInResults, Misfortune, EnterDrain, ForgetBatch, PendingActions,
       Inv, TypeOK, TurnTyped, worldVars, storeVars, Pcs, Outcomes
  <1>5. PhaseOK' /\ BatchAccounted'
    BY DEF ClockExpiresInResults, EnterDrain, ForgetBatch, Inv, TypeOK, PhaseOK, batchVars,
       storeVars, BatchAccounted
  <1> QED BY <1>4, <1>5 DEF TurnInv

(* Where an exception leaves the turn.                                      *)
LEMMA RaisedTurn ==
  ASSUME Raised
  PROVE  /\ pc' \in {"idle", "ending"} /\ ForgetBatch
         /\ outcome' \in {outcome, "budget_time"} /\ (pc' = "ending" => outcome' = "budget_time")
         /\ UNCHANGED <<mode, cap, gen, runs, ranNow, cutNow>>
  BY DEF Raised, ExitTurn, LeaveLoop

LEMMA DrainTurn ==
  ASSUME Inv, Drain
  PROVE  TurnInv'
  <1> USE DEF Inv, TypeOK, TurnInv, TurnTyped, PhaseOK, BatchAccounted, turnVars,
              batchVars, drainVars, storeVars, worldVars
  <1>1. ASSUME NEW x \in Actions, Perform(x) PROVE TurnInv'
    BY <1>1 DEF Perform
  <1>2. CASE DispatcherReturns
    BY <1>2 DEF DispatcherReturns
  <1>3. CASE DrainDone
    <2>1. \/ pc' = "save" /\ saving' = <<ctx>>
          \/ pc' \in {"idle", "ending", "generation"} /\ saving' = saving
      BY <1>3 DEF DrainDone, SaveAfterDrain, AfterGeneration
    <2>2. (saving' # <<>>) = (pc' \in {"save", "endsave"})
      <3>1. saving = <<>>
        BY <1>3 DEF DrainDone
      <3>2. <<ctx>> # <<>>
        OBVIOUS
      <3> QED BY ONLY <2>1, <3>1, <3>2
    <2>3. unsaved' \in BOOLEAN
      BY <1>3 DEF DrainDone, SaveAfterDrain
    <2>4. TurnTyped'
      BY <1>3, <2>1, <2>3 DEF DrainDone, Pcs
    <2> QED BY <1>3, <2>1, <2>2, <2>4 DEF DrainDone
  <1> QED BY <1>1, <1>2, <1>3 DEF Drain

LEMMA WriteTurn ==
  ASSUME Inv, LandOwn \/ EndTurn \/ (\E k \in DOMAIN stray : LandStray(k))
  PROVE  TurnInv'
  <1> USE DEF Inv, TypeOK, TurnInv, TurnTyped, PhaseOK, BatchAccounted, turnVars,
              batchVars, drainVars, storeVars, worldVars, Pcs
  <1>1. CASE LandOwn
    BY <1>1 DEF LandOwn, AfterGeneration
  <1>2. CASE EndTurn
    <2>1. \/ pc' = "endsave" /\ saving' = <<ctx>>
          \/ pc' = "idle" /\ saving' = <<>>
      BY <1>2 DEF EndTurn
    <2>2. (saving' # <<>>) = (pc' \in {"save", "endsave"})
      <3>1. <<ctx>> # <<>>
        OBVIOUS
      <3> QED BY ONLY <2>1, <3>1
    <2>3. TurnTyped'
      BY <1>2, <2>1 DEF EndTurn
    <2> QED BY <1>2, <2>1, <2>2, <2>3 DEF EndTurn
  <1>3. CASE \E k \in DOMAIN stray : LandStray(k)
    BY <1>3 DEF LandStray
  <1> QED BY <1>1, <1>2, <1>3

LEMMA InterruptTurn ==
  ASSUME Inv, Deadline \/ Cancel
  PROVE  TurnInv' /\ StoreInv'
  <1>1. Interrupt /\ UNCHANGED <<ctx, disk>>
    BY DEF Deadline, Cancel
  <1>2. StoreInv'
    BY <1>1, InterruptStore DEF Inv, TypeOK, StoreInv
  <1>3. sends' \in [Actions -> Nat] /\ todo' = {} /\ busy' = NoAction /\ saving' = <<>>
    BY <1>1 DEF Interrupt, Inv, TypeOK, TurnTyped
  <1>4. ForgetBatch /\ pc' \in {"idle", "ending"}
    BY DEF Deadline, Cancel, LeaveLoop, ExitTurn
  <1>5. /\ outcome' \in Outcomes /\ faults' \in Nat
        /\ UNCHANGED <<policy, mode, cap, gen, runs, ranNow, cutNow, spent, stop, sent, unsaved>>
    BY DEF Deadline, Cancel, Misfortune, LeaveLoop, ExitTurn, Inv, TypeOK, TurnTyped, Outcomes
  <1>7. TurnTyped'
    BY <1>3, <1>4, <1>5 DEF ForgetBatch, Inv, TypeOK, TurnTyped, Pcs
  <1>6. PhaseOK' /\ BatchAccounted'
    BY <1>3, <1>4 DEF ForgetBatch, PhaseOK, batchVars, BatchAccounted
  <1> QED BY <1>2, <1>6, <1>7 DEF TurnInv

LEMMA FailureTurn ==
  ASSUME Inv,
         \/ GenerationRaises \/ CommitRaises
         \/ \E x \in Actions : DispatcherFails(x)
         \/ SaveRaises \/ (\E k \in DOMAIN stray : StrayRaises(k))
         \/ ClockExpires
         \/ TokensRunOut
         \/ Crash
  PROVE  TurnInv'
  <1> USE DEF Inv, TypeOK, TurnInv, TurnTyped, PhaseOK, BatchAccounted, turnVars,
              batchVars, drainVars, storeVars, worldVars, Pcs, ForgetBatch, Misfortune
  <1>r. ASSUME Raised, todo' = {}, busy' = NoAction, saving' = <<>>, faults' \in Nat,
               unsaved' \in BOOLEAN, UNCHANGED <<policy, spent, stop, worldVars>>
        PROVE  TurnInv'
    <2>1. /\ pc' \in {"idle", "ending"} /\ outcome' \in Outcomes
          /\ batch' = {} /\ work' = {} /\ cut' = {}
          /\ UNCHANGED <<mode, cap, gen, runs, ranNow, cutNow>>
      BY <1>r, RaisedTurn DEF Outcomes
    <2>2. TurnTyped'
      BY <1>r, <2>1
    <2> QED BY <1>r, <2>1, <2>2
  <1>1. CASE GenerationRaises \/ CommitRaises
    <2>1. /\ Raised /\ todo' = {} /\ busy' = NoAction /\ saving' = <<>> /\ faults' \in Nat
          /\ UNCHANGED <<unsaved, policy, spent, stop, worldVars>>
      BY <1>1, ItemsAssumption DEF GenerationRaises, CommitRaises, ItemsAssumption
    <2> QED BY <1>r, <2>1
  <1>2. CASE \E x \in Actions : DispatcherFails(x)
    <2>1. /\ Raised /\ todo' = {} /\ busy' = NoAction /\ saving' = <<>> /\ faults' \in Nat
          /\ UNCHANGED <<unsaved, policy, spent, stop, worldVars>>
      BY <1>2 DEF DispatcherFails
    <2> QED BY <1>r, <2>1
  <1>6. CASE SaveRaises
    <2>1. /\ Raised /\ todo' = {} /\ busy' = NoAction /\ saving' = <<>> /\ faults' \in Nat
          /\ unsaved' \in BOOLEAN /\ UNCHANGED <<policy, spent, stop, worldVars>>
      BY <1>6, ItemsAssumption DEF SaveRaises, ItemsAssumption
    <2> QED BY <1>r, <2>1
  <1>7. CASE \E k \in DOMAIN stray : StrayRaises(k)
    BY <1>7 DEF StrayRaises
  <1>3. CASE ClockExpires
    BY <1>3 DEF ClockExpires
  <1>4. CASE TokensRunOut
    BY <1>4 DEF TokensRunOut
  <1>5. CASE Crash
    <2>1. sends' \in [Actions -> Nat]
      BY <1>5 DEF Crash
    <2>4. /\ pc' = "idle" /\ todo' = {} /\ stop' = FALSE /\ unsaved' = FALSE /\ faults' \in Nat
          /\ batch' = {} /\ work' = {} /\ cut' = {}
          /\ UNCHANGED <<policy, mode, cap, gen, runs, ranNow, outcome, cutNow, spent, sent>>
      BY <1>5 DEF Crash
    <2>2. TurnTyped'
      BY <2>1, <2>4
    <2>3. PhaseOK' /\ BatchAccounted'
      BY <1>5 DEF Crash
    <2> QED BY <2>2, <2>3
  <1> QED BY <1>1, <1>2, <1>3, <1>4, <1>5, <1>6, <1>7

LEMMA ApplicationTurn ==
  ASSUME Inv, Application, Emitted(ctx) \subseteq Emitted(ctx')
  PROVE  TurnInv'
  <1> USE DEF Inv, TypeOK, TurnInv, TurnTyped, PhaseOK, BatchAccounted, turnVars,
              batchVars, drainVars, storeVars, worldVars, Pcs, Misfortune
  <1>1. CASE \E m \in {"arun", "once"}, c \in RunCaps : BeginTurn(m, c)
    <2>1. /\ pc = "idle" /\ pc' = "generation"
          /\ mode' \in Modes /\ cap' \in Nat /\ outcome' \in Outcomes
          /\ spent' \subseteq {"time", "quota", "tokens"}
          /\ gen' = 0 /\ runs' = 0 /\ ranNow' = 0 /\ cutNow' = FALSE
      BY <1>1, KnobsAssumption DEF BeginTurn, KnobsAssumption, Modes, Outcomes
    <2>2. UNCHANGED <<saving, unsaved, policy, batchVars, drainVars, stop, worldVars, faults>>
      BY <1>1 DEF BeginTurn
    <2>3. TurnTyped'
      BY <2>1, <2>2
    <2> QED BY <2>1, <2>2, <2>3
  <1>2. CASE FlushPendingActions
    BY <1>2 DEF FlushPendingActions, PendingActions, Modes
  <1>3. CASE \E i \in Items : Submit(i)
    BY <1>3 DEF Submit
  <1>4. CASE \E x \in Actions : RetryAction(x)
    BY <1>4 DEF RetryAction
  <1>5. CASE DrainEvents
    BY <1>5 DEF DrainEvents
  <1>6. CASE RequestStop
    BY <1>6 DEF RequestStop
  <1>7. CASE NewRuntime
    BY <1>7 DEF NewRuntime
  <1> QED BY <1>1, <1>2, <1>3, <1>4, <1>5, <1>6, <1>7 DEF Application

-----------------------------------------------------------------------------
(* The theorems *)

LEMMA InvInit == Init => Inv
  <1> SUFFICES ASSUME Init PROVE Inv
    OBVIOUS
  <1>1. EmptyContext \in Contexts /\ Sound(EmptyContext)
    BY EmptyContextSound
  <1>2. StoreTyped
    BY <1>1 DEF Init, StoreTyped
  <1>3. TurnTyped
    BY DEF Init, TurnTyped, Pcs, Modes, Outcomes
  <1>4. PhaseOK /\ BatchAccounted
    BY DEF Init, PhaseOK, BatchAccounted, batchVars
  <1>5. Snapshots = {EmptyContext}
    BY DEF Init, Snapshots, Range
  <1> QED BY <1>1, <1>2, <1>3, <1>4, <1>5 DEF Inv, TypeOK

LEMMA InvNext == Inv /\ [Next]_vars => Inv'
  <1> SUFFICES ASSUME Inv, [Next]_vars PROVE TurnInv' /\ StoreInv'
    BY DEF Inv, TypeOK, TurnInv, StoreInv
  <1>0. StoreInv /\ ctx \in Contexts /\ Sound(ctx)
    BY DEF Inv, TypeOK, StoreInv, StoreTyped, Snapshots
  <1>u. ASSUME UNCHANGED <<ctx, storeVars>> PROVE StoreInv'
    BY <1>0, <1>u DEF StoreInv, StoreTyped, Snapshots, storeVars
  <1>1. CASE Boundary
    BY <1>1, BoundaryTurn
  <1>2. CASE Generation
    <2>1. CASE \E w \in SUBSET Matches(ctx.queue) : StartGeneration(w)
      BY <2>1, DispatchTurn
    <2>2. CASE \E failed \in SUBSET work :
                 \E g \in Growths(work \ failed) : CommitGeneration(failed, g)
      BY <2>2, CommitTurn, CommitStore
    <2>3. CASE DiscardResults
      BY <2>3, DiscardTurn, DiscardStore
    <2> QED BY <1>2, <2>1, <2>2, <2>3 DEF Generation
  <1>3. CASE Drain
    <2>1. TurnInv'
      BY <1>3, DrainTurn
    <2>2. CASE \E x \in Actions : Perform(x)
      BY <2>1, <2>2, <1>u DEF Perform
    <2>3. CASE DispatcherReturns
      <3>1. busy \in Actions
        BY <2>3 DEF DispatcherReturns, Inv, TypeOK, TurnTyped, PhaseOK
      <3> QED BY <1>0, <2>1, <2>3, <3>1, StatusStore DEF DispatcherReturns, Statuses
    <2>4. CASE DrainDone
      BY <1>0, <2>1, <2>4, DrainDoneStore
    <2> QED BY <1>3, <2>2, <2>3, <2>4 DEF Drain
  <1>4. CASE LandOwn
    BY <1>4, WriteTurn, LandOwnStore
  <1>5. CASE EndTurn
    BY <1>0, <1>5, WriteTurn, EndTurnStore
  <1>6. CASE \E k \in DOMAIN stray : LandStray(k)
    BY <1>0, <1>6, WriteTurn, LandStrayStore
  <1>7. CASE Deadline \/ Cancel
    BY <1>7, InterruptTurn
  <1>8. CASE Failure /\ ~Cancel
    <2>1. CASE \E w \in SUBSET Matches(ctx.queue) : ClockExpiresWhileMatching(w)
      BY <2>1, DispatchTurn
    <2>2. CASE GenerationRaises
      BY <2>2, <1>u, FailureTurn DEF GenerationRaises
    <2>7. CASE CommitRaises
      BY <2>7, FailureTurn, TornStore
    <2>8. CASE ClockExpiresInResults
      BY <2>8, CutResultsTurn, CutResultsStore
    <2>9. CASE SaveRaises
      BY <2>9, FailureTurn, SaveRaisesStore
    <2>10. CASE \E k \in DOMAIN stray : StrayRaises(k)
      BY <1>0, <2>10, FailureTurn, StrayRaisesStore
    <2>3. CASE \E x \in Actions : DispatcherFails(x)
      BY <1>0, <2>3, FailureTurn, StatusStore DEF DispatcherFails, Statuses
    <2>4. CASE ClockExpires
      BY <2>4, <1>u, FailureTurn DEF ClockExpires
    <2>5. CASE TokensRunOut
      BY <2>5, <1>u, FailureTurn DEF TokensRunOut
    <2>6. CASE Crash
      BY <1>0, <2>6, FailureTurn, CrashStore
    <2> QED BY <1>8, <2>1, <2>2, <2>3, <2>4, <2>5, <2>6, <2>7, <2>8, <2>9, <2>10 DEF Failure
  <1>9. CASE Application
    <2>1. SUFFICES StoreInv' /\ Emitted(ctx) \subseteq Emitted(ctx')
      BY <1>9, ApplicationTurn
    <2>2. CASE \E i \in Items : Submit(i)
      BY <1>0, <2>2, SubmitStore
    <2>3. CASE \E x \in Actions : RetryAction(x)
      BY <1>0, <2>3, StatusStore DEF RetryAction, Statuses
    <2>4. CASE DrainEvents
      BY <1>0, <2>4, DrainEventsStore
    <2>5. CASE \/ \E m \in {"arun", "once"}, c \in RunCaps : BeginTurn(m, c)
               \/ FlushPendingActions \/ RequestStop \/ NewRuntime
      <3>1. UNCHANGED <<ctx, storeVars>>
        BY <2>5 DEF BeginTurn, FlushPendingActions, RequestStop, NewRuntime
      <3> QED BY <3>1, <1>u
    <2> QED BY <1>9, <2>2, <2>3, <2>4, <2>5 DEF Application
  <1>10. CASE UNCHANGED vars
    <2>1. StoreInv'
      BY <1>10, <1>u DEF vars
    <2>2. TurnInv'
      BY <1>10 DEF vars, turnVars, batchVars, drainVars, storeVars, worldVars, Inv, TypeOK,
         TurnInv, TurnTyped, PhaseOK, BatchAccounted
    <2> QED BY <2>1, <2>2
  <1> QED BY <1>1, <1>2, <1>3, <1>4, <1>5, <1>6, <1>7, <1>8, <1>9, <1>10 DEF Next, System, Failure

LEMMA InvAlways == Spec => []Inv
  BY InvInit, InvNext, PTL DEF Spec

(* The variables stay in their ranges and a turn's locals die with it.      *)
THEOREM TypeCorrect == Spec => []TypeOK
  <1>1. Inv => TypeOK
    BY DEF Inv
  <1> QED BY <1>1, InvAlways, PTL

(* Whatever the interleaving, the failures and the crashes: an event leaves *)
(* the queue, of memory and of every snapshot, only with every agent it     *)
(* wakes accounted for (runtime.py: peek, commit, then consume_events).     *)
THEOREM NoTriggerIsLost == Spec => []NoTriggerLost
  <1>1. Inv => NoTriggerLost
    BY DEF Inv, Sound, NoTriggerLost
  <1> QED BY <1>1, InvAlways, PTL

(* And no snapshot keeps the event of a committed run in its queue, so that *)
(* a reopened session does not run the agent for it once more.              *)
THEOREM NoCommittedRunIsReplayed == Spec => []NoReplay
  <1>1. Inv => NoReplay
    BY DEF Inv, Sound, NoReplay
  <1> QED BY <1>1, InvAlways, PTL

-----------------------------------------------------------------------------
(* On top of Inv: a turn of Runtime.  First the outbox: an action recorded  *)
(* as dispatched was performed, and is performed once.  Then the limits: a  *)
(* turn keeps to its run cap, what its outcome claims is so, and under      *)
(* per_commit the disk has what the generations before have consumed.       *)

-----------------------------------------------------------------------------
(* The outbox *)


(* An action that does not exist has no status; one that is dispatched is   *)
(* among those ever performed.                                              *)
Faithful(c, performed) ==
  \A x \in Actions :
    /\ c.version[x] = -1 => c.status[x] = "none"
    /\ c.status[x] = "dispatched" => x \in performed

(* What the drain still has to do is pending, and what is pending has not   *)
(* been performed yet, but for the action the dispatcher is at.             *)
OutboxInv ==
  /\ \A c \in Snapshots : Faithful(c, sent)
  /\ busy # NoAction => busy \in sent
  /\ todo \subseteq PendingActions(ctx)
  /\ \A x \in Actions : sends[x] <= 1
  /\ \A x \in Actions \ {busy} : ctx.status[x] \in {"none", "pending"} => sends[x] = 0

-----------------------------------------------------------------------------
(* Contexts *)

LEMMA SetStatusFaithful ==
  ASSUME NEW c \in Contexts, NEW x \in Actions, NEW s \in Statuses,
         NEW p, NEW q, Faithful(c, p), p \subseteq q,
         s = "dispatched" => x \in q
  PROVE  Faithful(SetStatus(c, x, s), q)
  <1> DEFINE d == SetStatus(c, x, s)
  <1>1. x \in Items /\ Actions \subseteq Items
    BY ItemsAssumption DEF ItemsAssumption
  <1>2. d.status = [c.status EXCEPT ![x] = s] /\ d.version = [c.version EXCEPT ![x] = @ + 1]
    BY DEF SetStatus, Bump, Contexts
  <1>3. c.version \in [Items -> Nat \cup {-1}] /\ c.status \in [Actions -> Statuses]
    BY DEF Contexts
  <1> HIDE DEF d
  <1>4. ASSUME NEW y \in Actions
        PROVE  /\ d.version[y] = -1 => d.status[y] = "none"
               /\ d.status[y] = "dispatched" => y \in q
    <2>1. CASE y = x
      <3>1. d.version[x] # -1
        BY <1>1, <1>2, <1>3
      <3>2. d.status[x] = s
        BY <1>2, <1>3
      <3> QED BY <2>1, <3>1, <3>2
    <2>2. CASE y # x
      <3>1. d.version[y] = c.version[y] /\ d.status[y] = c.status[y]
        BY <1>1, <1>2, <1>3, <2>2
      <3> QED BY <3>1 DEF Faithful
    <2> QED BY <2>1, <2>2
  <1> QED BY <1>4 DEF Faithful, d

(* Patches only propose: a status changes from none to pending.             *)
LEMMA PatchedStatus ==
  ASSUME ctx \in Contexts, NEW kept, NEW writing, NEW g \in Growths(writing),
         NEW given, NEW lost,
         NEW s, s = Settle(ApplyPatches(kept, g), given, lost)
  PROVE  /\ s.version = g
         /\ \A x \in Actions :
              \/ s.status[x] = ctx.status[x]
              \/ ctx.version[x] = -1 /\ g[x] = 0 /\ s.status[x] = "pending"
  BY DEF Settle, ConsumeEvents, ApplyPatches, Contexts

LEMMA PatchedFaithful ==
  ASSUME ctx \in Contexts, Faithful(ctx, sent),
         NEW kept, NEW writing, NEW g \in Growths(writing), NEW given, NEW lost
  PROVE  Faithful(Settle(ApplyPatches(kept, g), given, lost), sent)
  <1> DEFINE s == Settle(ApplyPatches(kept, g), given, lost)
  <1>1. /\ s.version = g
        /\ \A x \in Actions :
             \/ s.status[x] = ctx.status[x]
             \/ ctx.version[x] = -1 /\ g[x] = 0 /\ s.status[x] = "pending"
    BY PatchedStatus
  <1> HIDE DEF s
  <1>2. \A x \in Actions : g[x] = -1 => ctx.version[x] = -1
    <2> SUFFICES ASSUME NEW x \in Actions, g[x] = -1 PROVE ctx.version[x] = -1
      OBVIOUS
    <2>1. x \in Items
      BY ItemsAssumption DEF ItemsAssumption
    <2>2. ctx.version[x] \in Nat \cup {-1}
      BY <2>1 DEF Contexts
    <2>3. g[x] = ctx.version[x]
          \/ g[x] \in ctx.version[x] + 1 .. ctx.version[x] + Writers(writing, x)
      BY <2>1 DEF Growths
    <2> QED BY <2>2, <2>3
  <1> QED BY <1>1, <1>2 DEF Faithful, s

LEMMA SettledStatus ==
  ASSUME ctx \in Contexts, NEW given, NEW lost
  PROVE  /\ Settle(ctx, given, lost).version = ctx.version
         /\ Settle(ctx, given, lost).status = ctx.status
  BY DEF Settle, ConsumeEvents, Contexts

-----------------------------------------------------------------------------
(* What a step may bring into the world: at most the new live Context.      *)

LEMMA NewSnapshots ==
  ASSUME Inv, [Next]_vars
  PROVE  Snapshots' \subseteq Snapshots \cup {ctx'}
  <1>0. StoreTyped
    BY DEF Inv, TypeOK
  <1>u. ASSUME UNCHANGED storeVars PROVE Snapshots' \subseteq Snapshots \cup {ctx'}
    BY <1>u DEF Snapshots, storeVars
  <1>1. CASE Boundary
    BY <1>1, <1>u DEF Boundary, IterationsExhausted, StopAtBoundary, BudgetStopsLoop,
       NothingToDo, BudgetStopsOnce
  <1>2. CASE Generation
    BY <1>2, <1>u DEF Generation, StartGeneration, Dispatch, CommitGeneration, DiscardResults,
       drainVars, storeVars
  <1>3. CASE \E x \in Actions : Perform(x)
    BY <1>3, <1>u DEF Perform
  <1>4. CASE DispatcherReturns
    BY <1>4, <1>u DEF DispatcherReturns
  <1>5. CASE DrainDone \/ EndTurn
    <2>1. saving' \in {<<ctx>>, saving, <<>>}
      BY <1>5 DEF DrainDone, EndTurn, SaveAfterDrain
    <2>2. UNCHANGED <<ctx, disk, stray>>
      BY <1>5 DEF DrainDone, EndTurn
    <2> QED BY <2>1, <2>2 DEF Snapshots, Range
  <1>6. CASE LandOwn
    <2>1. saving # <<>>
      BY <1>6 DEF Inv, TypeOK, PhaseOK, LandOwn
    <2>2. saving[1] \in Range(saving)
      BY <1>0, <2>1 DEF StoreTyped, Range
    <2> QED BY <1>6, <2>2 DEF LandOwn, Snapshots, Range
  <1>7. CASE \E k \in DOMAIN stray : LandStray(k)
    <2>1. PICK k \in DOMAIN stray : LandStray(k)
      BY <1>7
    <2>2. stray[k] \in Range(stray)
      BY DEF Range
    <2>3. Range(stray') \subseteq Range(stray)
      BY <1>0, <2>1, RangeRemoved DEF StoreTyped, LandStray
    <2> QED BY <2>1, <2>2, <2>3 DEF LandStray, Snapshots
  <1>8. CASE Deadline \/ Cancel
    <2>1. stray' \in {stray \o saving, stray} /\ saving' = <<>> /\ UNCHANGED <<ctx, disk>>
      BY <1>8 DEF Deadline, Cancel, Interrupt
    <2>2. Range(stray') \subseteq Range(stray) \cup Range(saving)
      BY <1>0, <2>1, RangeAppended DEF StoreTyped
    <2>3. Range(saving') = {}
      BY <2>1 DEF Range
    <2> QED BY <2>1, <2>2, <2>3 DEF Snapshots
  <1>9. CASE \/ \E w \in SUBSET Matches(ctx.queue) : ClockExpiresWhileMatching(w)
             \/ ClockExpiresInResults \/ GenerationRaises \/ CommitRaises
             \/ \E x \in Actions : DispatcherFails(x)
             \/ ClockExpires \/ TokensRunOut
    BY <1>9, <1>u DEF ClockExpiresWhileMatching, Dispatch, ClockExpiresInResults,
       GenerationRaises, CommitRaises, DispatcherFails, ClockExpires, TokensRunOut, drainVars,
       storeVars
  <1>13. CASE SaveRaises
    <2>1. saving # <<>>
      BY <1>13 DEF Inv, TypeOK, PhaseOK, SaveRaises
    <2>2. saving[1] \in Range(saving)
      BY <1>0, <2>1 DEF StoreTyped, Range
    <2> QED BY <1>13, <2>2 DEF SaveRaises, Snapshots, Range
  <1>14. CASE \E k \in DOMAIN stray : StrayRaises(k)
    <2>1. PICK k \in DOMAIN stray : StrayRaises(k)
      BY <1>14
    <2>2. Range(stray') \subseteq Range(stray)
      BY <1>0, <2>1, RangeRemoved DEF StoreTyped, StrayRaises
    <2> QED BY <2>1, <2>2 DEF StrayRaises, Snapshots
  <1>10. CASE Crash
    BY <1>10 DEF Crash, Snapshots, Range
  <1>11. CASE Application
    BY <1>11, <1>u DEF Application, BeginTurn, FlushPendingActions, Submit, RetryAction,
       DrainEvents, RequestStop, NewRuntime
  <1>12. CASE UNCHANGED vars
    BY <1>12, <1>u DEF vars
  <1> QED BY <1>1, <1>2, <1>3, <1>4, <1>5, <1>6, <1>7, <1>8, <1>9, <1>10, <1>11, <1>12,
             <1>13, <1>14
     DEF Next, System, Drain, Failure

(* It is enough to look at the new live Context.                            *)
LEMMA FaithfulStep ==
  ASSUME Inv, [Next]_vars, \A c \in Snapshots : Faithful(c, sent),
         sent \subseteq sent', Faithful(ctx', sent')
  PROVE  \A c \in Snapshots' : Faithful(c, sent')
  BY NewSnapshots DEF Faithful

-----------------------------------------------------------------------------
(* The steps.  Most leave the outbox as it is, or drop what the drain had   *)
(* still to do.                                                             *)

LEMMA SameStatusStep ==
  ASSUME Inv, OutboxInv, [Next]_vars, UNCHANGED <<sends, sent>>, ctx' \in Contexts,
         Faithful(ctx', sent), ctx'.status = ctx.status,
         UNCHANGED <<todo, busy>> \/ (todo' \subseteq PendingActions(ctx) /\ busy' = NoAction /\ busy = NoAction)
  PROVE  OutboxInv'
  <1>1. \A c \in Snapshots' : Faithful(c, sent')
    BY FaithfulStep DEF OutboxInv
  <1>2. todo' \subseteq PendingActions(ctx')
    BY DEF OutboxInv, PendingActions
  <1> QED BY <1>1, <1>2 DEF OutboxInv

(* The action in hand, if there is one, is taken out of it.                 *)
LEMMA StatusStep ==
  ASSUME Inv, OutboxInv, [Next]_vars, NEW x \in Actions, NEW s \in {"dispatched", "failed"},
         ctx' = SetStatus(ctx, x, s), UNCHANGED <<sends, sent>>,
         busy \in {x, NoAction}, busy' = NoAction, todo' \subseteq todo \ {x},
         s = "dispatched" => x \in sent
  PROVE  OutboxInv'
  <1>1. ctx \in Contexts /\ Faithful(ctx, sent) /\ ctx.status \in [Actions -> Statuses]
    BY DEF Inv, TypeOK, StoreTyped, OutboxInv, Snapshots, Contexts
  <1>2. s \in Statuses
    BY DEF Statuses
  <1>3. ctx'.status = [ctx.status EXCEPT ![x] = s]
    BY <1>1 DEF SetStatus, Bump, Contexts
  <1>4. \A c \in Snapshots' : Faithful(c, sent')
    BY <1>1, <1>2, SetStatusFaithful, FaithfulStep DEF OutboxInv
  <1>5. todo' \subseteq PendingActions(ctx')
    BY <1>1, <1>3 DEF OutboxInv, PendingActions
  <1>6. \A y \in Actions \ {busy'} : ctx'.status[y] \in {"none", "pending"} => sends'[y] = 0
    <2> SUFFICES ASSUME NEW y \in Actions, ctx'.status[y] \in {"none", "pending"}
                 PROVE  sends[y] = 0
      OBVIOUS
    <2>1. y # x
      BY <1>1, <1>3
    <2>2. ctx.status[y] = ctx'.status[y]
      BY <1>1, <1>3, <2>1
    <2>3. y # busy
      BY <2>1, ItemsAssumption DEF ItemsAssumption
    <2> QED BY <2>2, <2>3 DEF OutboxInv
  <1> QED BY <1>4, <1>5, <1>6 DEF OutboxInv

LEMMA PerformStep ==
  ASSUME Inv, OutboxInv, [Next]_vars, NEW x \in Actions, Perform(x)
  PROVE  OutboxInv'
  <1>1. /\ busy = NoAction /\ x \in todo /\ busy' = x
        /\ sends' = [sends EXCEPT ![x] = @ + 1] /\ sent' = sent \cup {x}
        /\ UNCHANGED <<ctx, todo>>
    BY DEF Perform
  <1>2. sends \in [Actions -> Nat] /\ x # NoAction
    BY ItemsAssumption DEF ItemsAssumption, Inv, TypeOK, TurnTyped
  <1>3. sends[x] = 0
    BY <1>1, <1>2 DEF OutboxInv, PendingActions
  <1>4. Faithful(ctx, sent) => Faithful(ctx', sent')
    BY <1>1 DEF Faithful
  <1>5. \A c \in Snapshots' : Faithful(c, sent')
    BY <1>1, <1>4, FaithfulStep DEF OutboxInv, Snapshots
  <1>6. \A y \in Actions : sends'[y] = IF y = x THEN 1 ELSE sends[y]
    BY <1>1, <1>2, <1>3
  <1>7. \A y \in Actions : sends'[y] <= 1
    BY <1>6 DEF OutboxInv
  <1>8. \A y \in Actions \ {busy'} : ctx'.status[y] \in {"none", "pending"} => sends'[y] = 0
    BY <1>1, <1>2, <1>6, ItemsAssumption DEF OutboxInv, ItemsAssumption
  <1>9. busy' \in sent' /\ todo' \subseteq PendingActions(ctx')
    BY <1>1 DEF OutboxInv
  <1> QED BY <1>5, <1>7, <1>8, <1>9 DEF OutboxInv

(* Cancelled: the performance that was not recorded is excused.             *)
LEMMA InterruptStep ==
  ASSUME Inv, OutboxInv, [Next]_vars, Interrupt, UNCHANGED <<ctx, sent>>
  PROVE  OutboxInv'
  <1>1. /\ todo' = {} /\ busy' = NoAction
        /\ sends' = [x \in Actions |-> IF x = busy THEN 0 ELSE sends[x]]
    BY DEF Interrupt
  <1>2. \A c \in Snapshots' : Faithful(c, sent')
    BY FaithfulStep DEF OutboxInv, Snapshots
  <1>3. \A x \in Actions : sends'[x] <= 1
    BY <1>1 DEF OutboxInv
  <1>4. \A x \in Actions : ctx'.status[x] \in {"none", "pending"} => sends'[x] = 0
    BY <1>1 DEF OutboxInv
  <1> QED BY <1>1, <1>2, <1>3, <1>4 DEF OutboxInv

LEMMA CrashStep ==
  ASSUME Inv, OutboxInv, [Next]_vars, Crash
  PROVE  OutboxInv'
  <1>1. /\ ctx' = disk /\ todo' = {} /\ busy' = NoAction /\ sent' = sent
        /\ sends' = [x \in Actions |-> IF disk.status[x] = "dispatched" THEN sends[x] ELSE 0]
    BY DEF Crash
  <1>2. \A c \in Snapshots' : Faithful(c, sent')
    BY <1>1, FaithfulStep DEF OutboxInv, Snapshots
  <1>3. \A x \in Actions : sends'[x] <= 1
    BY <1>1 DEF OutboxInv
  <1>4. \A x \in Actions : ctx'.status[x] \in {"none", "pending"} => sends'[x] = 0
    BY <1>1
  <1> QED BY <1>1, <1>2, <1>3, <1>4 DEF OutboxInv

(* The application asked for the second performance.                        *)
LEMMA RetryStep ==
  ASSUME Inv, OutboxInv, [Next]_vars, NEW x \in Actions, RetryAction(x)
  PROVE  OutboxInv'
  <1>1. ctx \in Contexts /\ Faithful(ctx, sent) /\ ctx.status \in [Actions -> Statuses]
    BY DEF Inv, TypeOK, StoreTyped, OutboxInv, Snapshots, Contexts
  <1>2. /\ ctx.status[x] \in {"failed", "dispatched"} /\ ctx' = SetStatus(ctx, x, "pending")
        /\ sends' = [sends EXCEPT ![x] = 0] /\ UNCHANGED <<sent, todo, busy>>
    BY DEF RetryAction, drainVars
  <1>3. "pending" \in Statuses
    BY DEF Statuses
  <1>4. ctx'.status = [ctx.status EXCEPT ![x] = "pending"]
    BY <1>1, <1>2 DEF SetStatus, Bump, Contexts
  <1>5. Faithful(ctx', sent)
    BY <1>1, <1>2, <1>3, SetStatusFaithful
  <1>6. \A c \in Snapshots' : Faithful(c, sent')
    BY <1>2, <1>5, FaithfulStep DEF OutboxInv
  <1>7. todo' \subseteq PendingActions(ctx')
    BY <1>1, <1>2, <1>4 DEF OutboxInv, PendingActions
  <1>8. sends \in [Actions -> Nat]
    BY DEF Inv, TypeOK, TurnTyped
  <1>9. \A y \in Actions : sends'[y] <= 1
    BY <1>2, <1>8 DEF OutboxInv
  <1>10. \A y \in Actions \ {busy'} : ctx'.status[y] \in {"none", "pending"} => sends'[y] = 0
    BY <1>1, <1>2, <1>4, <1>8 DEF OutboxInv
  <1> QED BY <1>2, <1>6, <1>7, <1>9, <1>10 DEF OutboxInv

(* A generation ends: what it committed may propose actions, and the drain  *)
(* takes up what is pending.                                                *)
LEMMA CommitStep ==
  ASSUME Inv, OutboxInv, [Next]_vars, ctx' \in Contexts,
         NEW failed, NEW g \in Growths(work \ failed), CommitGeneration(failed, g)
  PROVE  OutboxInv'
  <1>1. ctx \in Contexts /\ Faithful(ctx, sent)
    BY DEF Inv, TypeOK, StoreTyped, OutboxInv, Snapshots
  <1>2. /\ ctx' = Settle(ApplyPatches(work \ failed, g), failed \cup cut, {})
        /\ todo' = (IF HasDispatcher THEN PendingActions(ctx') ELSE {})
        /\ UNCHANGED <<sends, sent, busy>>
    BY DEF CommitGeneration, EnterDrain, worldVars
  <1>3. busy = NoAction
    BY ItemsAssumption DEF ItemsAssumption, CommitGeneration, Inv, TypeOK, PhaseOK
  <1>4. /\ ctx'.version = g
        /\ \A x \in Actions :
             \/ ctx'.status[x] = ctx.status[x]
             \/ ctx.version[x] = -1 /\ g[x] = 0 /\ ctx'.status[x] = "pending"
    BY <1>1, <1>2 DEF Settle, ConsumeEvents, ApplyPatches, Contexts
  <1>5. Faithful(ctx', sent)
    BY <1>1, <1>2, PatchedFaithful
  <1>6. \A c \in Snapshots' : Faithful(c, sent')
    BY <1>2, <1>5, FaithfulStep DEF OutboxInv
  <1>7. \A x \in Actions \ {busy} : ctx'.status[x] \in {"none", "pending"} => sends[x] = 0
    BY <1>1, <1>4 DEF OutboxInv, Faithful
  <1> QED BY <1>2, <1>3, <1>6, <1>7 DEF OutboxInv

(* The same of the generation whose results the clock cut.                  *)
LEMMA CutResultsStep ==
  ASSUME Inv, OutboxInv, [Next]_vars, ctx' \in Contexts, ClockExpiresInResults
  PROVE  OutboxInv'
  <1>1. ctx \in Contexts /\ Faithful(ctx, sent)
    BY DEF Inv, TypeOK, StoreTyped, OutboxInv, Snapshots
  <1>2. PICK lost \in SUBSET work, failed \in SUBSET work :
          \E g \in Growths(work \ (failed \cup lost)) :
            ctx' = Settle(ApplyPatches(work \ (failed \cup lost), g), failed \cup cut, lost)
    BY DEF ClockExpiresInResults
  <1>3. PICK g \in Growths(work \ (failed \cup lost)) :
          ctx' = Settle(ApplyPatches(work \ (failed \cup lost), g), failed \cup cut, lost)
    BY <1>2
  <1>4. /\ todo' = (IF HasDispatcher THEN PendingActions(ctx') ELSE {})
        /\ UNCHANGED <<sends, sent, busy>>
    BY DEF ClockExpiresInResults, EnterDrain, worldVars
  <1>5. busy = NoAction
    BY ItemsAssumption DEF ItemsAssumption, ClockExpiresInResults, Inv, TypeOK, PhaseOK
  <1>6. /\ ctx'.version = g
        /\ \A x \in Actions :
             \/ ctx'.status[x] = ctx.status[x]
             \/ ctx.version[x] = -1 /\ g[x] = 0 /\ ctx'.status[x] = "pending"
    BY <1>1, <1>3, PatchedStatus
  <1>7. Faithful(ctx', sent)
    BY <1>1, <1>3, PatchedFaithful
  <1>8. \A c \in Snapshots' : Faithful(c, sent')
    BY <1>4, <1>7, FaithfulStep DEF OutboxInv
  <1>9. \A x \in Actions \ {busy} : ctx'.status[x] \in {"none", "pending"} => sends[x] = 0
    BY <1>1, <1>6 DEF OutboxInv, Faithful
  <1> QED BY <1>4, <1>5, <1>8, <1>9 DEF OutboxInv

(* What a patch that raised leaves behind may propose actions too; nothing  *)
(* is drained.                                                              *)
LEMMA TornStep ==
  ASSUME Inv, OutboxInv, [Next]_vars, ctx' \in Contexts, CommitRaises
  PROVE  OutboxInv'
  <1>1. ctx \in Contexts /\ Faithful(ctx, sent)
    BY DEF Inv, TypeOK, StoreTyped, OutboxInv, Snapshots
  <1>2. ctx' \in TornCommits /\ UNCHANGED <<sends, sent, todo, busy>>
    BY DEF CommitRaises, drainVars, worldVars
  <1>3. PICK applied \in SUBSET work : \E more : \E g \in Growths(more) :
          ctx' = [ApplyPatches(applied, g) EXCEPT !.torn = @ \cup applied]
    BY <1>2, TornCommit
  <1>4. PICK more : \E g \in Growths(more) :
          ctx' = [ApplyPatches(applied, g) EXCEPT !.torn = @ \cup applied]
    BY <1>3
  <1>5. PICK g \in Growths(more) :
          ctx' = [ApplyPatches(applied, g) EXCEPT !.torn = @ \cup applied]
    BY <1>4
  <1> DEFINE s == Settle(ApplyPatches(applied, g), {}, {})
  <1>6. ctx'.version = s.version /\ ctx'.status = s.status
    BY <1>1, <1>5 DEF ApplyPatches, Settle, ConsumeEvents, Contexts
  <1>7. /\ s.version = g
        /\ \A x \in Actions :
             \/ s.status[x] = ctx.status[x]
             \/ ctx.version[x] = -1 /\ g[x] = 0 /\ s.status[x] = "pending"
    BY <1>1, PatchedStatus
  <1>8. Faithful(s, sent)
    BY <1>1, PatchedFaithful
  <1> HIDE DEF s
  <1>9. Faithful(ctx', sent)
    BY <1>6, <1>8 DEF Faithful
  <1>10. \A c \in Snapshots' : Faithful(c, sent')
    BY <1>2, <1>9, FaithfulStep DEF OutboxInv
  <1>11. todo = {}
    BY DEF CommitRaises, Inv, TypeOK, PhaseOK
  <1>12. \A x \in Actions \ {busy} : ctx'.status[x] \in {"none", "pending"} => sends[x] = 0
    BY <1>1, <1>6, <1>7 DEF OutboxInv, Faithful
  <1> QED BY <1>2, <1>10, <1>11, <1>12 DEF OutboxInv

-----------------------------------------------------------------------------

LEMMA OutboxNext ==
  ASSUME Inv, Inv', OutboxInv, [Next]_vars
  PROVE  OutboxInv'
  <1>0. ctx \in Contexts /\ ctx' \in Contexts /\ Faithful(ctx, sent) /\ NoAction \notin Actions
    BY ItemsAssumption DEF ItemsAssumption, Inv, TypeOK, StoreTyped, OutboxInv, Snapshots
  <1>s. ASSUME UNCHANGED <<ctx, sends, sent, todo, busy>> PROVE OutboxInv'
    BY <1>0, <1>s, SameStatusStep
  <1>1. CASE Boundary
    BY <1>1, <1>s DEF Boundary, IterationsExhausted, StopAtBoundary, BudgetStopsLoop,
       NothingToDo, BudgetStopsOnce, drainVars, worldVars
  <1>2. CASE \E w \in SUBSET Matches(ctx.queue) :
               StartGeneration(w) \/ ClockExpiresWhileMatching(w)
    BY <1>2, <1>s DEF StartGeneration, ClockExpiresWhileMatching, Dispatch, drainVars, worldVars
  <1>3. CASE \E failed \in SUBSET work :
               \E g \in Growths(work \ failed) : CommitGeneration(failed, g)
    BY <1>0, <1>3, CommitStep
  <1>4. CASE DiscardResults
    <2>1. ctx'.status = ctx.status /\ ctx'.version = ctx.version
      BY <1>0, <1>4, SettledStatus DEF DiscardResults
    <2>2. Faithful(ctx', sent)
      BY <1>0, <2>1 DEF Faithful
    <2>3. todo' \subseteq PendingActions(ctx)
      BY <1>4, <2>1 DEF DiscardResults, EnterDrain, PendingActions
    <2>4. busy = NoAction /\ UNCHANGED <<sends, sent, busy>>
      BY <1>0, <1>4 DEF DiscardResults, worldVars, Inv, TypeOK, PhaseOK
    <2> QED BY <1>0, <2>1, <2>2, <2>3, <2>4, SameStatusStep
  <1>5. CASE \E x \in Actions : Perform(x)
    BY <1>5, PerformStep
  <1>6. CASE DispatcherReturns
    <2>1. busy \in Actions /\ busy \in sent
      BY <1>6 DEF DispatcherReturns, Inv, TypeOK, TurnTyped, PhaseOK, OutboxInv
    <2> QED BY <1>6, <2>1, StatusStep DEF DispatcherReturns, worldVars
  <1>7. CASE \E x \in Actions : DispatcherFails(x)
    <2>1. PICK x \in Actions : DispatcherFails(x)
      BY <1>7
    <2>2. busy \in {x, NoAction} /\ todo' = {} /\ busy' = NoAction
          /\ ctx' = SetStatus(ctx, x, "failed") /\ UNCHANGED <<sends, sent>>
      BY <2>1 DEF DispatcherFails, worldVars
    <2> QED BY <2>2, StatusStep
  <1>8. CASE \/ DrainDone \/ LandOwn \/ SaveRaises \/ EndTurn
             \/ \E k \in DOMAIN stray : LandStray(k) \/ StrayRaises(k)
    BY <1>8, <1>s DEF DrainDone, LandOwn, SaveRaises, EndTurn, LandStray, StrayRaises,
       drainVars, worldVars
  <1>9. CASE Deadline \/ Cancel
    BY <1>9, InterruptStep DEF Deadline, Cancel
  <1>10. CASE GenerationRaises \/ ClockExpires \/ TokensRunOut
    BY <1>10, <1>s DEF GenerationRaises, ClockExpires, TokensRunOut, drainVars, worldVars
  <1>11. CASE Crash
    BY <1>11, CrashStep
  <1>12. CASE \/ \E m \in {"arun", "once"}, c \in RunCaps : BeginTurn(m, c)
             \/ RequestStop \/ NewRuntime
    BY <1>12, <1>s DEF BeginTurn, RequestStop, NewRuntime, drainVars, worldVars
  <1>13. CASE FlushPendingActions
    <2>1. busy = NoAction /\ UNCHANGED <<ctx, sends, sent, busy>> /\ todo' = PendingActions(ctx)
      BY <1>0, <1>13 DEF FlushPendingActions, worldVars, Inv, TypeOK, PhaseOK
    <2> QED BY <1>0, <2>1, SameStatusStep
  <1>14. CASE \E i \in Items : Submit(i)
    <2>1. PICK i \in Items : Submit(i)
      BY <1>14
    <2>2. /\ ctx' = Bump(ctx, i) /\ ctx.version \in [Items -> Nat \cup {-1}]
          /\ UNCHANGED <<sends, sent, todo, busy>>
      BY <1>0, <2>1 DEF Submit, drainVars, worldVars, Contexts
    <2>3. ctx'.status = ctx.status /\ ctx'.version = [ctx.version EXCEPT ![i] = @ + 1]
      BY <1>0, <2>2 DEF Bump, Contexts
    <2>4. Actions \subseteq Items
      BY ItemsAssumption DEF ItemsAssumption
    <2>5. \A x \in Actions : ctx'.version[x] = -1 => ctx.version[x] = -1
      BY <2>2, <2>3, <2>4
    <2>6. Faithful(ctx', sent)
      BY <1>0, <2>3, <2>5 DEF Faithful
    <2> QED BY <1>0, <2>2, <2>3, <2>6, SameStatusStep
  <1>15. CASE \E x \in Actions : RetryAction(x)
    BY <1>15, RetryStep
  <1>16. CASE DrainEvents
    <2>1. /\ ctx'.status = ctx.status /\ ctx'.version = ctx.version
          /\ UNCHANGED <<sends, sent, todo, busy>>
      BY <1>0, <1>16 DEF DrainEvents, drainVars, worldVars, Contexts
    <2>2. Faithful(ctx', sent)
      BY <1>0, <2>1 DEF Faithful
    <2> QED BY <1>0, <2>1, <2>2, SameStatusStep
  <1>17. CASE UNCHANGED vars
    BY <1>17, <1>s DEF vars, drainVars, worldVars
  <1>18. CASE ClockExpiresInResults
    BY <1>0, <1>18, CutResultsStep
  <1>19. CASE CommitRaises
    BY <1>0, <1>19, TornStep
  <1> QED BY <1>1, <1>2, <1>3, <1>4, <1>5, <1>6, <1>7, <1>8, <1>9, <1>10, <1>11, <1>12,
             <1>13, <1>14, <1>15, <1>16, <1>17, <1>18, <1>19
     DEF Next, System, Generation, Drain, Failure, Application

LEMMA OutboxInit == Init => OutboxInv
  <1> SUFFICES ASSUME Init PROVE OutboxInv
    OBVIOUS
  <1>1. Snapshots = {EmptyContext}
    BY DEF Init, Snapshots, Range
  <1>2. Faithful(EmptyContext, sent)
    BY DEF Faithful, EmptyContext
  <1> QED BY <1>1, <1>2 DEF Init, OutboxInv

LEMMA OutboxAlways == Spec => []OutboxInv
  <1>1. Inv /\ Inv' /\ OutboxInv /\ [Next]_vars => OutboxInv'
    BY OutboxNext
  <1> QED BY <1>1, OutboxInit, InvAlways, PTL DEF Spec

(* runtime.py, _drain_actions: the record follows the I/O, in memory and in *)
(* every snapshot, also when the dispatcher fails, is cancelled or crashes. *)
THEOREM DispatchedIsTrue == Spec => []DispatchedWasPerformed
  <1>1. OutboxInv => DispatchedWasPerformed
    BY DEF OutboxInv, Faithful, DispatchedWasPerformed
  <1> QED BY <1>1, OutboxAlways, PTL

(* And no action is performed again once it is on record, whatever turns,   *)
(* flushes, reopened sessions and retries of others come after it.          *)
THEOREM PerformedOnce == Spec => []OncePerStableId
  <1>1. OutboxInv => OncePerStableId
    BY DEF OutboxInv, OncePerStableId
  <1> QED BY <1>1, OutboxAlways, PTL

-----------------------------------------------------------------------------
(* The limits of a turn, its outcome and its saves *)


InGenerations == pc \in {"generation", "dispatch", "drain", "save"} /\ mode # "flush"

(* Work that was sliced off while the outcome still reads completed was     *)
(* sliced off by max_runs, which is then used up to the last run: the next  *)
(* boundary cannot miss it, and the generation that did it ran somebody, so *)
(* that the loop does come to a next boundary.                              *)
CutUsesCap ==
  cutNow /\ outcome = "completed" =>
    IF pc = "dispatch" THEN work # {} /\ runs + Cardinality(work) = cap
    ELSE runs = cap /\ (pc \in {"drain", "save"} => ranNow > 0)

BudgetInv ==
  /\ pc \in {"generation", "dispatch"} => mode # "flush"
  /\ InGenerations =>
       /\ runs <= cap
       /\ pc = "dispatch" => runs + Cardinality(work) <= cap
       /\ CutUsesCap

LEMMA ExhaustedOutcome ==
  /\ Exhausted = "no" => ~(runs >= cap)
  /\ Exhausted # "completed"
  BY DEF Exhausted

(* The smaller of two numbers, as FiniteSetsExt defines it.                 *)
LEMMA MinOfTwo ==
  ASSUME NEW a \in Int, NEW b \in Int
  PROVE  Min({a, b}) = IF a <= b THEN a ELSE b
  <1> DEFINE m == IF a <= b THEN a ELSE b
  <1>1. m \in {a, b} /\ \A y \in {a, b} : m <= y
    OBVIOUS
  <1>2. \A x \in {a, b} : (\A y \in {a, b} : x <= y) => x = m
    OBVIOUS
  <1> HIDE DEF m
  <1>3. (CHOOSE x \in {a, b} : \A y \in {a, b} : x <= y) = m
    BY <1>1, <1>2
  <1> QED BY <1>3 DEF Min, m

LEMMA MatchesFinite ==
  ASSUME Inv
  PROVE  IsFiniteSet(Matches(ctx.queue))
  <1>1. ctx \in Contexts /\ ctx.queue \subseteq Emitted(ctx)
    BY DEF Inv, TypeOK, StoreTyped, Snapshots, Sound
  <1>2. IsFiniteSet(Emitted(ctx) \X Agents)
    BY <1>1, EmittedFinite, FS_Product, ItemsAssumption DEF ItemsAssumption
  <1>3. Matches(ctx.queue) \subseteq Emitted(ctx) \X Agents
    BY <1>1 DEF Matches
  <1> QED BY <1>2, <1>3, FS_Subset

-----------------------------------------------------------------------------
(* The steps *)

(* The slice of a generation: all of the work, or what max_runs leaves.     *)
LEMMA SliceBudget ==
  ASSUME Inv, BudgetInv, NEW w \in SUBSET Matches(ctx.queue),
         StartGeneration(w) \/ ClockExpiresWhileMatching(w)
  PROVE  BudgetInv'
  <1>1. /\ Dispatch(w) /\ pc = "generation" /\ pc' = "dispatch" /\ work' = w
        /\ cut' = Matches(ctx.queue) \ w /\ cutNow' = (cutNow \/ cut' # {})
        /\ UNCHANGED <<mode, cap, runs>> /\ Exhausted = "no"
    BY DEF StartGeneration, ClockExpiresWhileMatching, Dispatch, MayGenerate
  <1>2. cap \in Nat /\ runs \in Nat
    BY DEF Inv, TypeOK, TurnTyped
  <1>3. runs < cap
    BY <1>1, <1>2, ExhaustedOutcome
  <1>4. /\ IsFiniteSet(w) /\ Cardinality(w) \in Nat
        /\ Cardinality(Matches(ctx.queue)) \in Nat
    BY MatchesFinite, FS_Subset, FS_CardinalityType
  <1> DEFINE all == Cardinality(Matches(ctx.queue))
  <1>5. CASE StartGeneration(w)
    <2>1. Cardinality(w) = IF all <= cap - runs THEN all ELSE cap - runs
      <3>1. Cardinality(w) = Min({all, cap - runs})
        BY <1>5 DEF StartGeneration, RunsLeft
      <3> HIDE DEF all
      <3> QED BY <1>2, <1>4, <3>1, MinOfTwo DEF all
    <2>2. runs + Cardinality(w) <= cap
      BY <1>2, <1>4, <2>1
    <2>3. ASSUME cutNow', outcome' = "completed"
          PROVE  w # {} /\ runs + Cardinality(w) = cap
      <3>1. outcome = "completed"
        BY <1>5, <2>3 DEF StartGeneration
      <3>2. ~cutNow
        BY <1>1, <1>2, <1>3, <3>1 DEF BudgetInv, InGenerations, CutUsesCap
      <3>3. w # Matches(ctx.queue)
        BY <1>1, <2>3, <3>2
      <3>4. Cardinality(w) < all
        <4>1. Cardinality(w) <= all /\ (Cardinality(w) = all => w = Matches(ctx.queue))
          BY MatchesFinite, FS_Subset
        <4> QED BY <1>4, <3>3, <4>1
      <3>5. Cardinality(w) = cap - runs
        BY <1>2, <1>4, <2>1, <3>4
      <3>6. Cardinality({}) = 0
        BY FS_EmptySet
      <3> QED BY <1>2, <1>3, <3>5, <3>6
    <2> QED BY <1>1, <1>2, <1>3, <2>2, <2>3 DEF BudgetInv, InGenerations, CutUsesCap
  <1>6. CASE ClockExpiresWhileMatching(w)
    <2>1. Cardinality(w) <= cap - runs /\ outcome' = "budget_time"
      BY <1>6 DEF ClockExpiresWhileMatching, RunsLeft
    <2>2. runs + Cardinality(w) <= cap
      BY <1>2, <1>4, <2>1
    <2> QED BY <1>1, <1>2, <1>3, <2>1, <2>2 DEF BudgetInv, InGenerations, CutUsesCap
  <1> QED BY <1>5, <1>6

(* The runs are charged when the results are in, or never.                  *)
LEMMA ChargeBudget ==
  ASSUME Inv, BudgetInv,
         \/ DiscardResults \/ ClockExpiresInResults
         \/ \E failed \in SUBSET work :
              \E g \in Growths(work \ failed) : CommitGeneration(failed, g)
  PROVE  BudgetInv'
  <1>1. pc = "dispatch" /\ pc' = "drain" /\ UNCHANGED <<mode, cap, cutNow>>
    BY DEF DiscardResults, ClockExpiresInResults, CommitGeneration, EnterDrain
  <1>2. cap \in Nat /\ runs \in Nat /\ Cardinality(work) \in Nat
    BY <1>1, WorkFinite, FS_CardinalityType DEF Inv, TypeOK, TurnTyped
  <1>3. mode # "flush" /\ runs + Cardinality(work) <= cap /\ CutUsesCap
    BY <1>1 DEF BudgetInv, InGenerations
  <1>4. CASE DiscardResults
    <2>1. outcome' # "completed" /\ runs' = runs
      BY <1>4, ExhaustedOutcome DEF DiscardResults
    <2> QED BY <1>1, <1>2, <1>3, <2>1 DEF BudgetInv, InGenerations, CutUsesCap
  <1>5. CASE \E failed \in SUBSET work :
               \E g \in Growths(work \ failed) : CommitGeneration(failed, g)
    <2>1. runs' = runs + Cardinality(work) /\ ranNow' = Cardinality(work) /\ outcome' = outcome
      BY <1>5 DEF CommitGeneration
    <2>2. work # {} => Cardinality(work) > 0
      BY <1>1, <1>2, WorkFinite, FS_EmptySet
    <2>3. cutNow /\ outcome = "completed" => runs' = cap /\ ranNow' > 0
      BY <1>1, <1>3, <2>1, <2>2 DEF CutUsesCap
    <2> QED BY <1>1, <1>2, <1>3, <2>1, <2>3 DEF BudgetInv, InGenerations, CutUsesCap
  <1>6. CASE ClockExpiresInResults
    <2>1. PICK lost \in SUBSET work : runs' = runs + Cardinality(work \ lost)
      BY <1>6 DEF ClockExpiresInResults
    <2>2. Cardinality(work \ lost) \in Nat /\ Cardinality(work \ lost) <= Cardinality(work)
      BY <1>1, WorkFinite, FS_Subset, FS_CardinalityType
    <2>3. outcome' = "budget_time" /\ runs' <= cap
      BY <1>2, <1>3, <1>6, <2>1, <2>2 DEF ClockExpiresInResults
    <2> QED BY <1>1, <1>3, <2>3 DEF BudgetInv, InGenerations, CutUsesCap
  <1> QED BY <1>4, <1>5, <1>6

(* The drain and the save are behind it: the loop goes round or ends.       *)
LEMMA RoundBudget ==
  ASSUME Inv, BudgetInv, DrainDone \/ LandOwn
  PROVE  BudgetInv'
  <1>1. /\ UNCHANGED turnVars
        /\ pc \in {"drain", "save", "endsave"}
        /\ pc' \in {"save", "idle", "ending", "generation"}
        /\ pc' = "generation" => pc \in {"drain", "save"} /\ mode # "flush"
        /\ pc' = "save" => pc = "drain"
    BY DEF DrainDone, SaveAfterDrain, AfterGeneration, LandOwn
  <1> QED BY <1>1 DEF turnVars, BudgetInv, InGenerations, CutUsesCap

(* Steps that leave the turn where it is and what it counts.                *)
LEMMA SameBudget ==
  ASSUME BudgetInv, UNCHANGED <<pc, mode, cap, runs, ranNow, work, cutNow, outcome>>
  PROVE  BudgetInv'
  BY DEF BudgetInv, InGenerations, CutUsesCap

(* Steps that leave the generations.                                        *)
LEMMA OverBudget ==
  ASSUME pc' \in {"idle", "ending", "endsave"}
  PROVE  BudgetInv'
  BY DEF BudgetInv, InGenerations

LEMMA BudgetNext ==
  ASSUME Inv, BudgetInv, [Next]_vars
  PROVE  BudgetInv'
  <1>1. CASE Boundary \/ EndTurn \/ Deadline \/ Cancel \/ Crash
    <2>1. pc' \in {"idle", "ending", "endsave"}
      BY <1>1 DEF Boundary, IterationsExhausted, StopAtBoundary, BudgetStopsLoop, NothingToDo,
         BudgetStopsOnce, EndTurn, Deadline, Cancel, Crash, LeaveLoop, ExitTurn
    <2> QED BY <2>1, OverBudget
  <1>8. CASE GenerationRaises \/ CommitRaises \/ SaveRaises \/ (\E x \in Actions : DispatcherFails(x))
    <2>1. Raised
      BY <1>8 DEF GenerationRaises, CommitRaises, SaveRaises, DispatcherFails
    <2> QED BY <2>1, RaisedTurn, OverBudget
  <1>2. CASE \E w \in SUBSET Matches(ctx.queue) :
               StartGeneration(w) \/ ClockExpiresWhileMatching(w)
    BY <1>2, SliceBudget
  <1>3. CASE \/ DiscardResults \/ ClockExpiresInResults
             \/ \E failed \in SUBSET work :
                  \E g \in Growths(work \ failed) : CommitGeneration(failed, g)
    BY <1>3, ChargeBudget
  <1>4. CASE DrainDone \/ LandOwn
    BY <1>4, RoundBudget
  <1>5. CASE \/ \E x \in Actions : Perform(x) \/ RetryAction(x)
             \/ DispatcherReturns
             \/ \E k \in DOMAIN stray : LandStray(k) \/ StrayRaises(k)
             \/ ClockExpires \/ TokensRunOut
             \/ \E i \in Items : Submit(i)
             \/ DrainEvents \/ RequestStop \/ NewRuntime
             \/ UNCHANGED vars
    <2>1. UNCHANGED <<pc, turnVars>>
      BY <1>5 DEF Perform, RetryAction, DispatcherReturns, LandStray, StrayRaises, ClockExpires,
         TokensRunOut, Submit, DrainEvents, RequestStop, NewRuntime, vars
    <2> QED BY <2>1, SameBudget DEF turnVars, batchVars
  <1>6. CASE \E m \in {"arun", "once"}, c \in RunCaps : BeginTurn(m, c)
    <2>1. /\ pc' = "generation" /\ mode' # "flush" /\ runs' = 0 /\ cap' \in Nat /\ ~cutNow'
      BY <1>6, KnobsAssumption DEF BeginTurn, KnobsAssumption
    <2> QED BY <2>1 DEF BudgetInv, InGenerations, CutUsesCap
  <1>7. CASE FlushPendingActions
    <2>1. pc' = "drain" /\ mode' = "flush"
      BY <1>7 DEF FlushPendingActions
    <2> QED BY <2>1 DEF BudgetInv, InGenerations
  <1> QED BY <1>1, <1>2, <1>3, <1>4, <1>5, <1>6, <1>7, <1>8
     DEF Next, System, Generation, Drain, Failure, Application

LEMMA BudgetInit == Init => BudgetInv
  BY DEF Init, BudgetInv, InGenerations

LEMMA BudgetAlways == Spec => [](Inv /\ BudgetInv)
  <1>1. Inv /\ BudgetInv /\ [Next]_vars => BudgetInv'
    BY BudgetNext
  <1> QED BY <1>1, BudgetInit, InvAlways, InvNext, PTL DEF Spec

(* runtime.py, _arun_once_impl: the slice by max_runs minus _runs_used, the *)
(* charge after the agents and the check at the boundary never let one turn *)
(* run more agents than Budget.max_runs.                                    *)
THEOREM CapHolds == Spec => []RunsWithinCap
  <1>1. Inv /\ BudgetInv => RunsWithinCap
    BY DEF BudgetInv, InGenerations, RunsWithinCap
  <1> QED BY <1>1, BudgetAlways, PTL

(* What AfterGeneration and NothingToDo see is quiescence; every other exit *)
(* of the loop renames the outcome.                                         *)
LEMMA CompletedStep ==
  ASSUME Inv, BudgetInv, [Next]_vars
  PROVE  pc # "ending" /\ pc' = "ending" /\ outcome' = "completed"
           => ~HasPendingWork(ctx') /\ ~cutNow'
  <1> SUFFICES ASSUME pc # "ending", pc' = "ending", outcome' = "completed"
               PROVE  ~HasPendingWork(ctx') /\ ~cutNow'
    OBVIOUS
  <1>0. cap \in Nat /\ runs \in Nat /\ ranNow \in Nat /\ mode \in Modes
    BY DEF Inv, TypeOK, TurnTyped
  <1>1. CASE NothingToDo
    <2>1. /\ pc = "generation" /\ mode # "once" /\ ~HasPendingWork(ctx)
          /\ UNCHANGED <<ctx, outcome, cutNow>>
      BY <1>1 DEF NothingToDo, MayGenerate, turnVars
    <2>2. mode = "arun"
      BY <1>0, <2>1 DEF BudgetInv, Modes
    <2>3. runs < cap
      BY <1>0, <1>1, <2>2, ExhaustedOutcome DEF NothingToDo, MayGenerate
    <2>4. ~cutNow
      BY <1>0, <2>1, <2>2, <2>3 DEF BudgetInv, InGenerations, CutUsesCap
    <2> QED BY <2>1, <2>4
  <1>2. CASE DrainDone \/ LandOwn
    <2>1. /\ pc \in {"drain", "save"} /\ mode # "flush"
          /\ ranNow = 0 /\ ~HasPendingWork(ctx)
          /\ UNCHANGED <<ctx, turnVars>>
      BY <1>2 DEF DrainDone, LandOwn, SaveAfterDrain, AfterGeneration
    <2>2. UNCHANGED <<outcome, cutNow>>
      BY <2>1 DEF turnVars
    <2>3. ~cutNow
      BY <1>0, <2>1, <2>2 DEF BudgetInv, InGenerations, CutUsesCap
    <2> QED BY <2>1, <2>2, <2>3
  <1>3. CASE IterationsExhausted \/ StopAtBoundary \/ BudgetStopsLoop \/ Deadline
    <2>1. outcome' # "completed"
      BY <1>3, ExhaustedOutcome DEF IterationsExhausted, StopAtBoundary, BudgetStopsLoop,
         Deadline, LeaveLoop
    <2> QED BY <2>1
  <1>5. CASE GenerationRaises \/ CommitRaises \/ SaveRaises \/ (\E x \in Actions : DispatcherFails(x))
    <2>1. Raised
      BY <1>5 DEF GenerationRaises, CommitRaises, SaveRaises, DispatcherFails
    <2> QED BY <2>1, RaisedTurn
  <1>4. CASE \/ BudgetStopsOnce \/ Generation \/ EndTurn \/ Application
             \/ \E w \in SUBSET Matches(ctx.queue) : ClockExpiresWhileMatching(w)
             \/ ClockExpiresInResults \/ Cancel \/ ClockExpires \/ TokensRunOut \/ Crash
             \/ \E k \in DOMAIN stray : StrayRaises(k)
             \/ \E x \in Actions : Perform(x)
             \/ DispatcherReturns
             \/ \E k \in DOMAIN stray : LandStray(k)
             \/ UNCHANGED vars
    <2>1. pc' # "ending" \/ pc' = pc
      BY <1>4 DEF BudgetStopsOnce, Generation, StartGeneration, Dispatch, CommitGeneration,
         DiscardResults, EnterDrain, EndTurn, ClockExpiresWhileMatching,
         ClockExpiresInResults, Cancel, ClockExpires, TokensRunOut, Crash, StrayRaises,
         ExitTurn, Application, BeginTurn, FlushPendingActions, Submit, RetryAction,
         DrainEvents, RequestStop, NewRuntime, Perform, DispatcherReturns, LandStray, vars
    <2> QED BY <2>1
  <1> QED BY <1>1, <1>2, <1>3, <1>4, <1>5 DEF Next, System, Boundary, Drain, Failure

(* An arun that reports COMPLETED has nothing queued, nothing in its outbox *)
(* and cut no generation short.                                             *)
THEOREM CompletedIsHonest == Spec => CompletedMeansDone
  <1>1. Inv /\ BudgetInv /\ [Next]_vars
          => [pc # "ending" /\ pc' = "ending" /\ outcome' = "completed"
                => ~HasPendingWork(ctx') /\ ~cutNow']_vars
    BY CompletedStep
  <1> QED BY <1>1, BudgetAlways, PTL DEF Spec, CompletedMeansDone

-----------------------------------------------------------------------------
(* What the disk has consumed *)

(* The events the agents of a Context's history have reacted to.            *)
Consumed(c) == Emitted(c) \ c.queue

(* Between the drain and the boundary the write holds what was consumed;    *)
(* at the boundary it is on disk and no older write is on its way.          *)
DurableInv ==
  WritesInOrder /\ policy = "per_commit" =>
    /\ pc = "generation" /\ gen > 0 =>
         stray = <<>> /\ Consumed(ctx) \subseteq Consumed(disk)
    /\ pc = "save" => Consumed(ctx) \subseteq Consumed(saving[1])

LEMMA BumpConsumes ==
  ASSUME NEW c \in Contexts, NEW i \in Items
  PROVE  Consumed(Bump(c, i)) \subseteq Consumed(c)
  <1>1. Bump(c, i).queue = c.queue \cup {<<i, c.version[i] + 1>>}
    BY DEF Bump, Contexts
  <1> QED BY <1>1, BumpType DEF Consumed

LEMMA StatusConsumes ==
  ASSUME NEW c \in Contexts, NEW x \in Actions, NEW s \in Statuses
  PROVE  Consumed(SetStatus(c, x, s)) \subseteq Consumed(c)
  <1>1. x \in Items
    BY ItemsAssumption DEF ItemsAssumption
  <1>2. SetStatus(c, x, s).queue = Bump(c, x).queue
    BY DEF SetStatus, Bump, Contexts
  <1> QED BY <1>1, <1>2, SetStatusSound, BumpConsumes DEF Consumed

(* Nothing that happens while the turn stays where it is consumes anything  *)
(* but inside a generation.                                                 *)
LEMMA StayDurable ==
  ASSUME Inv, DurableInv, UNCHANGED <<pc, gen, policy, saving>>,
         \/ UNCHANGED <<disk, stray>>
         \/ \E k \in DOMAIN stray : LandStray(k) \/ StrayRaises(k),
         pc \in {"generation", "save"} => Consumed(ctx') \subseteq Consumed(ctx)
  PROVE  DurableInv'
  <1>1. CASE UNCHANGED <<disk, stray>>
    BY <1>1 DEF DurableInv
  <1>2. CASE \E k \in DOMAIN stray : LandStray(k) \/ StrayRaises(k)
    <2>1. stray # <<>>
      BY <1>2
    <2> QED BY <1>2, <2>1 DEF DurableInv
  <1> QED BY <1>1, <1>2

LEMMA DurableNext ==
  ASSUME Inv, DurableInv, [Next]_vars
  PROVE  DurableInv'
  <1>0. ctx \in Contexts /\ StoreTyped
    BY DEF Inv, TypeOK, StoreTyped
  <1>1. CASE \/ Boundary \/ Generation \/ EndTurn \/ Deadline \/ FlushPendingActions
             \/ \E w \in SUBSET Matches(ctx.queue) : ClockExpiresWhileMatching(w)
             \/ ClockExpiresInResults \/ Cancel \/ Crash
    <2>1. pc' \notin {"generation", "save"}
      BY <1>1 DEF Boundary, IterationsExhausted, StopAtBoundary, BudgetStopsLoop, NothingToDo,
         BudgetStopsOnce, Generation, StartGeneration, Dispatch, CommitGeneration,
         DiscardResults, EnterDrain, EndTurn, Deadline, ClockExpiresWhileMatching,
         ClockExpiresInResults, Cancel, Crash, LeaveLoop, ExitTurn, FlushPendingActions
    <2> QED BY <2>1 DEF DurableInv
  <1>9. CASE GenerationRaises \/ CommitRaises \/ SaveRaises \/ (\E x \in Actions : DispatcherFails(x))
    <2>1. Raised
      BY <1>9 DEF GenerationRaises, CommitRaises, SaveRaises, DispatcherFails
    <2> QED BY <2>1, RaisedTurn DEF DurableInv
  <1>2. CASE \E m \in {"arun", "once"}, c \in RunCaps : BeginTurn(m, c)
    BY <1>2 DEF BeginTurn, DurableInv
  <1>3. CASE DrainDone
    <2>1. ASSUME policy = "per_commit"
          PROVE  pc' = "save" /\ saving' = <<ctx>> /\ UNCHANGED ctx
      BY <1>3, <2>1 DEF DrainDone, SaveAfterDrain
    <2>2. policy' = policy
      BY <1>3 DEF DrainDone
    <2>3. <<ctx>>[1] = ctx
      OBVIOUS
    <2> QED BY <2>1, <2>2, <2>3 DEF DurableInv
  <1>4. CASE LandOwn
    <2>1. /\ UNCHANGED <<ctx, policy, stray>> /\ disk' = saving[1]
          /\ WritesInOrder => stray = <<>>
          /\ pc' # "save" /\ (pc' = "generation" => pc = "save")
      BY <1>4 DEF LandOwn, AfterGeneration
    <2> QED BY <2>1 DEF DurableInv
  <1>5. CASE \/ \E k \in DOMAIN stray : LandStray(k) \/ StrayRaises(k)
             \/ ClockExpires \/ RequestStop \/ NewRuntime \/ UNCHANGED vars
    <2>1. /\ UNCHANGED <<pc, gen, policy, saving, ctx>>
          /\ \/ UNCHANGED <<disk, stray>>
             \/ \E k \in DOMAIN stray : LandStray(k) \/ StrayRaises(k)
      BY <1>5 DEF LandStray, StrayRaises, ClockExpires, RequestStop, NewRuntime, vars, turnVars, storeVars
    <2>2. Consumed(ctx') \subseteq Consumed(ctx)
      BY <2>1
    <2> QED BY <2>1, <2>2, StayDurable
  <1>6. CASE \/ \E x \in Actions : Perform(x)
             \/ DispatcherReturns \/ TokensRunOut \/ DrainEvents
    <2>1. /\ UNCHANGED <<pc, gen, policy, saving, disk, stray>>
          /\ pc \notin {"generation", "save"}
      BY <1>6 DEF Perform, DispatcherReturns, TokensRunOut, DrainEvents, turnVars, storeVars
    <2> QED BY <2>1, StayDurable
  <1>7. CASE \E i \in Items : Submit(i)
    <2>1. PICK i \in Items : Submit(i)
      BY <1>7
    <2>2. UNCHANGED <<pc, gen, policy, saving, disk, stray>> /\ ctx' = Bump(ctx, i)
      BY <2>1 DEF Submit, turnVars, storeVars
    <2>3. Consumed(ctx') \subseteq Consumed(ctx)
      BY <1>0, <2>2, BumpConsumes
    <2> QED BY <2>2, <2>3, StayDurable
  <1>8. CASE \E x \in Actions : RetryAction(x)
    <2>1. PICK x \in Actions : RetryAction(x)
      BY <1>8
    <2>2. /\ UNCHANGED <<pc, gen, policy, saving, disk, stray>>
          /\ ctx' = SetStatus(ctx, x, "pending")
      BY <2>1 DEF RetryAction, turnVars, storeVars
    <2>3. "pending" \in Statuses
      BY DEF Statuses
    <2>4. Consumed(ctx') \subseteq Consumed(ctx)
      BY <1>0, <2>2, <2>3, StatusConsumes
    <2> QED BY <2>2, <2>4, StayDurable
  <1> QED BY <1>1, <1>2, <1>3, <1>4, <1>5, <1>6, <1>7, <1>8, <1>9
     DEF Next, System, Drain, Failure, Application

(* With a backend that keeps the order of its writes, what a per_commit     *)
(* turn has consumed at a generation boundary is consumed on disk: a crash  *)
(* there repeats no generation, also not after a cancelled turn whose       *)
(* shielded save is still on its way.                                       *)
THEOREM BoundariesAreDurable ==
  ASSUME WritesInOrder
  PROVE  Spec => []LastGenerationDurable
  <1>1. Init => DurableInv
    BY DEF Init, DurableInv
  <1>2. Inv /\ DurableInv /\ [Next]_vars => DurableInv'
    BY DurableNext
  <1>3. DurableInv => LastGenerationDurable
    BY DEF DurableInv, LastGenerationDurable, Consumed
  <1> QED BY <1>1, <1>2, <1>3, InvAlways, PTL DEF Spec
=============================================================================
