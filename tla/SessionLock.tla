---------------------------- MODULE SessionLock ----------------------------
(***************************************************************************)
(* What ChatAssistant._locked_session promises (reactifact/chat.py): the   *)
(* turns of one session run one at a time, in the order they were asked    *)
(* for, sessions do not wait for each other, and a turn that is over is    *)
(* followed by the next one.                                               *)
(***************************************************************************)
EXTENDS Sequences, SequencesExt

CONSTANTS Requests, Sessions

VARIABLES
  inside,  \* per session: the requests in their turn
  line     \* per session: the requests waiting, in order

vars == <<inside, line>>

Init ==
  /\ inside = [s \in Sessions |-> {}]
  /\ line = [s \in Sessions |-> <<>>]

Unknown(r) == \A s \in Sessions : r \notin inside[s] \cup ToSet(line[s])

Ask(r, s) ==
  /\ Unknown(r)
  /\ IF inside[s] = {} /\ line[s] = <<>>
       THEN inside' = [inside EXCEPT ![s] = {r}] /\ UNCHANGED line
       ELSE line' = [line EXCEPT ![s] = Append(@, r)] /\ UNCHANGED inside

Grant(s) ==
  /\ inside[s] = {} /\ line[s] # <<>>
  /\ inside' = [inside EXCEPT ![s] = {Head(line[s])}]
  /\ line' = [line EXCEPT ![s] = Tail(@)]

Withdraw(r, s) ==
  /\ \E i \in DOMAIN line[s] : line[s][i] = r /\ line' = [line EXCEPT ![s] = RemoveAt(@, i)]
  /\ UNCHANGED inside

Leave(r, s) ==
  /\ r \in inside[s]
  /\ inside' = [inside EXCEPT ![s] = @ \ {r}]
  /\ UNCHANGED line

Next ==
  \E s \in Sessions : Grant(s) \/ \E r \in Requests : Ask(r, s) \/ Withdraw(r, s) \/ Leave(r, s)

(* A free turn does not stay free while someone waits.                      *)
Fairness == \A s \in Sessions : WF_vars(Grant(s))

Spec == Init /\ [][Next]_vars /\ Fairness
=============================================================================
