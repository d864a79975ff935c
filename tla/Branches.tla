------------------------------ MODULE Branches ------------------------------
(***************************************************************************)
(* Contexts that are run, rolled back, compacted, reloaded, forked and     *)
(* merged (reactifact/context.py, branching.py).  One agent of a Context   *)
(* may be under way: it has read its inputs and its patch is committed     *)
(* later, after whatever happened in between.                              *)
(*                                                                         *)
(* An artifact holding Pending, Dispatched or Failed is an outbox action:  *)
(* one intent, to be sent, sent, or given up after its dispatch failed;    *)
(* any other value is data.                                                *)
(***************************************************************************)
EXTENDS ContextStore

CONSTANTS
  Names,       \* the Contexts
  Pending,     \* a PendingAction not yet performed
  Dispatched,  \* the same action, performed
  Failed,      \* the same action, its dispatch failed
  MaxSteps,    \* bound on everything that happens
  MaxForks     \* bound on forks

ASSUME BranchesAssumption ==
  /\ {Pending, Dispatched, Failed} \subseteq Vals
  /\ Pending # Dispatched /\ Pending # Failed /\ Dispatched # Failed
  /\ MaxSteps \in Nat /\ MaxForks \in Nat

VARIABLES
  ctx,       \* the Contexts
  exists,    \* the names in use
  agent,     \* <<>>, or <<the reads of the agent under way>>
  loose,     \* history: items whose live data the commits do not account for
  reborn,    \* history: items whose version counter started over
  sent,      \* history: items whose present intent was performed
  ancestor,  \* history: <<the data at the last fork>>
  merged,    \* history: a merge has succeeded since the last fork
  steps, forks

history == <<loose, reborn, sent, ancestor, merged>>
vars    == <<ctx, exists, agent, history, steps, forks>>

(* _data_sig: the dispatch bookkeeping of an action is not its intent.      *)
Sig(v) == IF v \in {Dispatched, Failed} THEN Pending ELSE v

IsAction(v) == Sig(v) = Pending

(* What an agent or the application writes: never the dispatch bookkeeping. *)
Proposals == Vals \ {Dispatched, Failed}

Step == steps < MaxSteps /\ steps' = steps + 1

Idle(n) == agent[n] = <<>>

-----------------------------------------------------------------------------
(* One Context *)

(* collect_inputs: an agent reads some artifacts.                           *)
StartAgent(n, S) ==
  /\ Step
  /\ Idle(n)
  /\ S # {} /\ S \subseteq Live(ctx[n])
  /\ agent' = [agent EXCEPT ![n] = <<ReadsOf(ctx[n], S)>>]
  /\ UNCHANGED <<ctx, exists, history, forks>>

(* effects.act finds an action that exists: an intent is not proposed anew. *)
Repeats(n, i, op) == op.val = Pending /\ i \in Live(ctx[n]) /\ IsAction(ctx[n].art[i].val)

(* Another intent, or none, is at n's item i now.                           *)
Rewritten(n, i) == sent' = [sent EXCEPT ![n] = @ \ {i}]

Reborn(n) == reborn' = [reborn EXCEPT ![n] = @ \cup (Live(ctx[n]) \ Live(ctx'[n]))]

(* The agent's patch, or one of an agent that read nothing.  A Create of an *)
(* artifact that exists does what an Update does.                           *)
Commit(n, i, op) ==
  /\ Step
  /\ ~Repeats(n, i, op)
  /\ op.kind = "create" => i \notin Live(ctx[n])
  /\ \E reads \in {{}} \cup {agent[n][k] : k \in DOMAIN agent[n]} :
       /\ ctx' = [ctx EXCEPT ![n] = Patched(@, [k \in {i} |-> op], reads)]
       /\ agent' = [agent EXCEPT ![n] = IF reads = {} THEN @ ELSE <<>>]
  /\ loose' = [loose EXCEPT ![n] = IF op.kind = "update" /\ i \notin Live(ctx[n])
                                     THEN @ \cup {i} ELSE @ \ {i}]
  /\ Rewritten(n, i)
  /\ reborn' = [reborn EXCEPT ![n] = IF op.kind = "delete" THEN @ \cup {i} ELSE @]
  /\ UNCHANGED <<exists, ancestor, merged, forks>>

(* create, update, delete called by the application, outside any commit.    *)
Touch(n, i, v) ==
  /\ Step
  /\ Data(ctx[n])[i] # v
  /\ ~Repeats(n, i, [val |-> v])
  /\ ctx' = [ctx EXCEPT ![n] = WithOps(@, [k \in {i} |->
       [kind |-> IF v = Absent THEN "delete" ELSE "create", val |-> v]])]
  /\ loose' = [loose EXCEPT ![n] = @ \cup {i}]
  /\ Rewritten(n, i)
  /\ Reborn(n)
  /\ UNCHANGED <<exists, agent, ancestor, merged, forks>>

(* The bookkeeping of an action is an update outside any commit.            *)
Marked(n, i, v) ==
  /\ Step
  /\ ctx' = [ctx EXCEPT ![n] = WithOps(@, [k \in {i} |-> [kind |-> "update", val |-> v]])]
  /\ loose' = [loose EXCEPT ![n] = @ \cup {i}]
  /\ UNCHANGED <<exists, agent, reborn, ancestor, merged, forks>>

(* _drain_actions: the action is performed and mark_dispatched records it,  *)
(* or the dispatcher raises and mark_failed does.                           *)
Dispatch(n, i) ==
  /\ i \in Live(ctx[n]) /\ ctx[n].art[i].val = Pending
  /\ Marked(n, i, Dispatched)
  /\ sent' = [sent EXCEPT ![n] = @ \cup {i}]

DispatchFails(n, i) ==
  /\ i \in Live(ctx[n]) /\ ctx[n].art[i].val = Pending
  /\ Marked(n, i, Failed)
  /\ UNCHANGED sent

(* retry_action, whatever the status: what was performed is asked for anew. *)
Retry(n, i) ==
  /\ i \in Live(ctx[n]) /\ ctx[n].art[i].val \in {Dispatched, Failed}
  /\ Marked(n, i, Pending)
  /\ Rewritten(n, i)

(* Between turns.  What a rollback rebuilds has no memory of having been    *)
(* performed.                                                               *)
Checkout(n, v) ==
  /\ Step
  /\ Idle(n)
  /\ v \in ctx[n].log.floor .. Version(ctx[n].log)
  /\ ctx' = [ctx EXCEPT ![n] = RolledBack(@, v)]
  /\ LET rebuilt == Touched(ctx[n].log, v) \cup (Items \ Live(ctx[n]))
     IN  /\ loose'  = [loose EXCEPT ![n] = @ \ rebuilt]
         /\ reborn' = [reborn EXCEPT ![n] = @ \cup rebuilt]
         /\ sent'   = [sent EXCEPT ![n] = @ \ rebuilt]
  /\ UNCHANGED <<exists, agent, ancestor, merged, forks>>

Compact(n, keep) ==
  /\ Step
  /\ Idle(n)
  /\ CanCompact(ctx[n], keep)
  /\ ctx' = [ctx EXCEPT ![n] = Compacted(@, keep)]
  /\ UNCHANGED <<exists, agent, history, forks>>

(* The process ends and the Context is loaded from its to_dict.             *)
Reload(n) ==
  /\ Step
  /\ ctx' = [ctx EXCEPT ![n] = Copied(@)]
  /\ agent' = [agent EXCEPT ![n] = <<>>]
  /\ UNCHANGED <<exists, history, forks>>

-----------------------------------------------------------------------------
(* Forks and merges *)

(* Context.branch; the name may have been in use for a Context now dropped. *)
Fork(m, n) ==
  /\ Step
  /\ m # n
  /\ forks < MaxForks /\ forks' = forks + 1
  /\ ctx' = [ctx EXCEPT ![n] = Forked(ctx[m])]
  /\ exists' = exists \cup {n}
  /\ agent'  = [agent EXCEPT ![n] = <<>>]
  /\ loose'  = [loose EXCEPT ![n] = loose[m]]
  /\ reborn' = [reborn EXCEPT ![n] = reborn[m]]
  /\ sent'   = [sent EXCEPT ![n] = sent[m]]
  /\ ancestor' = <<Data(ctx[m])>>
  /\ merged' = FALSE

(* The base a merge of o into t compares with.                              *)
MergeBase(t, o) ==
  IF ctx[o].base # <<>> THEN ctx[o].base[1]
  ELSE IF ctx[t].base # <<>> THEN ctx[t].base[1] ELSE NoArtifacts

(* One intent that only o has sent.                                         *)
OnlySentBy(vo, vt) == IsAction(vt) /\ vt # Dispatched /\ vo = Dispatched

(* A bug: what the target does not have is always adopted.                  *)
VerdictAbsent(t, o, i) ==
  LET vt == Data(ctx[t])[i]
      vo == Data(ctx[o])[i]
      sb == Sig(MergeBase(t, o)[i])
  IN  CASE Sig(vt) = Sig(vo) -> IF OnlySentBy(vo, vt) THEN "sent" ELSE "same"
        [] Sig(vt) # Sig(vo) /\ vt = Absent -> "adopt"
        [] Sig(vt) # Sig(vo) /\ vt # Absent ->
             IF Sig(vo) = sb THEN "keep" ELSE IF Sig(vt) = sb THEN "adopt" ELSE "conflict"

(* A bug: a deletion of the other side is not adopted.                      *)
VerdictUndeleted(t, o, i) ==
  LET vt == Data(ctx[t])[i]
      vo == Data(ctx[o])[i]
      sb == Sig(MergeBase(t, o)[i])
  IN  CASE Sig(vt) = Sig(vo) -> IF OnlySentBy(vo, vt) THEN "sent" ELSE "same"
        [] Sig(vt) # Sig(vo) /\ (Sig(vo) = sb \/ vo = Absent) -> "keep"
        [] Sig(vt) # Sig(vo) /\ Sig(vo) # sb /\ vo # Absent ->
             IF Sig(vt) = sb THEN "adopt" ELSE "conflict"

(* A bug: same intent, so nothing to do.                                    *)
VerdictUnsent(t, o, i) ==
  LET vt == Data(ctx[t])[i]
      vo == Data(ctx[o])[i]
      sb == Sig(MergeBase(t, o)[i])
  IN  CASE Sig(vt) = Sig(vo) -> "same"
        [] Sig(vt) # Sig(vo) /\ Sig(vo) = sb -> "keep"
        [] Sig(vt) # Sig(vo) /\ Sig(vo) # sb -> IF Sig(vt) = sb THEN "adopt" ELSE "conflict"

(* Who moved item i since the fork.  Of one intent the target keeps its own *)
(* record, pending or failed, unless the other side has sent it.            *)
Verdict(t, o, i) ==
  LET vt == Data(ctx[t])[i]
      vo == Data(ctx[o])[i]
      sb == Sig(MergeBase(t, o)[i])
  IN  CASE OnlySentBy(vo, vt)                          -> "sent"
        [] Sig(vt) = Sig(vo) /\ ~OnlySentBy(vo, vt)    -> "same"
        [] Sig(vt) # Sig(vo) /\ Sig(vo) = sb           -> "keep"
        [] Sig(vt) # Sig(vo) /\ Sig(vo) # sb           -> IF Sig(vt) = sb THEN "adopt" ELSE "conflict"

Conflicts(t, o) == {i \in Items : Verdict(t, o, i) = "conflict"}
Adopted(t, o)   == {i \in Items : Verdict(t, o, i) \in {"sent", "adopt"}}

(* An adopted artifact the target does not have becomes a Create without an *)
(* artifact_id, which the chain will not replay.                            *)
AdoptOp(t, v, i) ==
  [kind |-> IF v = Absent THEN "delete" ELSE IF i \in Live(ctx[t]) THEN "update" ELSE "adopt",
   val  |-> v]

MergeOps(t, o) == [i \in Adopted(t, o) |-> AdoptOp(t, Data(ctx[o])[i], i)]

(* existing.update takes equal data for a new version as well.              *)
MergedArt(t, o) ==
  [i \in Items |->
     LET v == Data(ctx[o])[i]
     IN  IF i \notin Adopted(t, o) THEN ctx[t].art[i]
         ELSE IF v = Absent THEN Absent
         ELSE IF i \in Live(ctx[t]) THEN [val |-> v, ver |-> ctx[t].art[i].ver + 1]
         ELSE Fresh(v)]

MergedData(t, o) ==
  [i \in Items |-> IF i \in Adopted(t, o) THEN Data(ctx[o])[i] ELSE Data(ctx[t])[i]]

(* The histories after t took over the items `adopted` of o.                *)
TakenOver(t, ops) ==
  /\ loose' = [loose EXCEPT ![t] =
       (@ \ DOMAIN ops) \cup {i \in DOMAIN ops : ops[i].kind = "adopt"}]
  /\ Reborn(t)
  /\ UNCHANGED <<exists, agent, ancestor, forks>>

(* merge_contexts, unless it raises MergeConflict: then nothing changes.    *)
Merge(t, o) ==
  /\ Step
  /\ t # o /\ Idle(t)
  /\ Conflicts(t, o) = {}
  /\ LET ops == MergeOps(t, o)
         moved == [ctx[t] EXCEPT !.art = MergedArt(t, o)]
     IN  /\ ops # <<>>
         /\ ctx' = [ctx EXCEPT ![t] = Recomputed(Logged(moved, CommitOf(moved, ops, {}, {})))]
         /\ TakenOver(t, ops)
         /\ sent' = [sent EXCEPT ![t] = {i \in Items :
              /\ IsAction(MergedData(t, o)[i])
              /\ \E n \in {t, o} : i \in sent[n] /\ IsAction(Data(ctx[n])[i])}]
  /\ merged' = TRUE

(* merge_context_from: whatever o has at a higher version, or t not at all, *)
(* an action's bookkeeping included: one that t has performed can become    *)
(* pending again.                                                           *)
MergeFrom(t, o) ==
  LET newer == {i \in Live(ctx[o]) : i \in Live(ctx[t]) => ctx[o].art[i].ver > ctx[t].art[i].ver}
      ops   == [i \in newer |-> AdoptOp(t, ctx[o].art[i].val, i)]
      moved == WithOps(ctx[t], ops)
  IN  /\ Step
      /\ t # o /\ Idle(t)
      /\ newer # {}
      /\ ctx' = [ctx EXCEPT ![t] = Logged(moved, CommitOf(moved, ops, {}, {}))]
      /\ TakenOver(t, ops)
      /\ sent' = [sent EXCEPT ![t] = (@ \ newer) \cup (newer \cap sent[o])]
      /\ merged' = TRUE

-----------------------------------------------------------------------------
(* A Context the application seeded with v at the items S, and one in which *)
(* an agent has derived j from i.                                           *)
Seeded(S, v) ==
  [EmptyContext EXCEPT !.art = [i \in Items |-> IF i \in S THEN Fresh(v) ELSE Absent]]

Derived(i, u, j, v) ==
  LET source == Patched(EmptyContext, [k \in {i} |-> [kind |-> "create", val |-> u]], {})
  IN  Patched(source, [k \in {j} |-> [kind |-> "create", val |-> v]], ReadsOf(source, {i}))

Begin(n, c, S) ==
  /\ ctx = [m \in Names |-> IF m = n THEN c ELSE EmptyContext]
  /\ loose = [m \in Names |-> IF m = n THEN S ELSE {}]

Init ==
  /\ \E root \in Names :
       /\ exists = {root}
       /\ \E v \in Proposals :
            \/ \E S \in SUBSET Items : Begin(root, Seeded(S, v), S)
            \/ \E i, j \in Items, u \in Proposals :
                 i # j /\ Begin(root, Derived(i, u, j, v), {})
  /\ agent = [n \in Names |-> <<>>]
  /\ reborn = [n \in Names |-> {}]
  /\ sent = [n \in Names |-> {}]
  /\ ancestor = <<>>
  /\ merged = FALSE
  /\ steps = 0
  /\ forks = 0

Next ==
  \/ \E n \in exists :
       \/ \E S \in SUBSET Items : StartAgent(n, S)
       \/ \E i \in Items :
            \/ \E op \in Ops : op.val \in Proposals \cup {Absent} /\ Commit(n, i, op)
            \/ \E v \in Proposals \cup {Absent} : Touch(n, i, v)
            \/ Dispatch(n, i) \/ DispatchFails(n, i) \/ Retry(n, i)
       \/ \E v \in 0 .. MaxSteps : Checkout(n, v)
       \/ \E keep \in 0 .. MaxSteps : Compact(n, keep)
       \/ Reload(n)
       \/ \E m \in Names : Fork(n, m)
       \/ \E o \in exists : Merge(n, o) \/ MergeFrom(n, o)

Spec == Init /\ [][Next]_vars

-----------------------------------------------------------------------------
(* Properties *)

(* Whatever was committed, rolled back, compacted, copied and merged: live  *)
(* data that no one touched outside the commits is what replaying the       *)
(* retained chain yields.                                                   *)
LiveMatchesLog ==
  \A n \in exists : \A i \in Items \ loose[n] : Data(ctx[n])[i] = Committed(ctx[n].log)[i]

(* The producer index, maintained commit by commit and rebuilt after each   *)
(* cut of the chain, holds the reads of every artifact's last writer.       *)
IndexIsExact ==
  \A n \in exists : \A s \in Items :
    ctx[n].deps[s] = {w \in Items : /\ HasProducer(ctx[n].log, w)
                                    /\ s \in Sources(Producer(ctx[n].log, w))}

(* An artifact derived from data that has since changed is in the stale     *)
(* set, unless the source had already moved when the commit was logged (an  *)
(* earlier patch of the same generation, the commit's own write), or a      *)
(* version counter involved has started over (delete, checkout).            *)
ChangeMakesStale ==
  \A n \in exists : \A i \in Live(ctx[n]) \ (ctx[n].stale \cup reborn[n]) :
    HasProducer(ctx[n].log, i) =>
      LET producer == Producer(ctx[n].log, i)
      IN  \A r \in producer.reads :
            \/ r.item \notin Live(ctx[n]) \/ ctx[n].art[r.item].val = r.was
            \/ r.item \in producer.behind \cup reborn[n]

(* Nothing is stale without a cause: a source of its last writer is at a    *)
(* newer version, or was deleted or rolled back.                            *)
StaleHasCause ==
  \A n \in exists : \A i \in ctx[n].stale :
    /\ HasProducer(ctx[n].log, i)
    /\ \E r \in Producer(ctx[n].log, i).reads : Outdated(ctx[n], r) \/ r.item \in reborn[n]

(* Where everything came from is known: the index and the stale set that    *)
(* are kept step by step agree with the log (the three parts above).        *)
DependenciesTracked == IndexIsExact /\ ChangeMakesStale /\ StaleHasCause

(* An intent that was performed in one of two merged branches is on record  *)
(* as performed, neither pending nor failed, whichever is the target; only  *)
(* retry_action asks for it again.                                          *)
NothingSentIsPending ==
  \A n \in exists : \A i \in sent[n] : Data(ctx[n])[i] \notin {Pending, Failed}

(* With one base for both, it does not matter which branch is the target:   *)
(* the same merges raise, and the others end in the same data.  One record  *)
(* depends on the direction: of an intent that one side failed to send and  *)
(* the other still has pending, the target keeps its own.                   *)
MergeIsSymmetric ==
  \A t, o \in exists :
    MergeBase(t, o) = MergeBase(o, t) =>
      /\ Conflicts(t, o) = Conflicts(o, t)
      /\ Conflicts(t, o) = {} =>
           \A i \in Items :
             IF {Data(ctx[t])[i], Data(ctx[o])[i]} = {Pending, Failed}
               THEN MergedData(t, o)[i] = Data(ctx[t])[i]
               ELSE MergedData(t, o)[i] = MergedData(o, t)[i]

(* The first merge after a fork keeps what only the target changed and      *)
(* brings what only the other changed, if the base is where they parted.    *)
MergeKeepsBothSides ==
  [][\A t, o \in exists :
       (Merge(t, o) /\ ~merged /\ ancestor = <<MergeBase(t, o)>>) =>
         \A i \in Items :
           LET changed(n) == Sig(Data(ctx[n])[i]) # Sig(ancestor[1][i])
               after == Sig(Data(ctx'[t])[i])
           IN  /\ changed(t) => after = Sig(Data(ctx[t])[i])
               /\ changed(o) => after = Sig(Data(ctx[o])[i])]_vars

(* Versions are immutable while they are retained: every step commits on    *)
(* top, rolls back from the top, compacts from the bottom or forks.         *)
Histories ==
  [n \in Names |-> IF n \in exists
                     THEN [v \in ctx[n].log.floor .. Version(ctx[n].log) |-> ReplayState(ctx[n].log, v)]
                     ELSE <<>>]

Versions == INSTANCE VersionedState WITH Blank <- NoArtifacts, hist <- Histories

KeepsHistory == Versions!Spec

=============================================================================
