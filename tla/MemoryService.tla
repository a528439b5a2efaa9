---------------------------- MODULE MemoryService ----------------------------
(***************************************************************************)
(* What the agent memory promises its callers: every request takes effect  *)
(* at one instant between its arrival and its answer, and the answer is    *)
(* that of this instant; a refused request has no effect; only a request   *)
(* answered with 503 or not at all may or may not have had its effect,     *)
(* and it had it once if at all.                                           *)
(***************************************************************************)
EXTENDS MemoryRequests

CONSTANTS
  Requests,   \* slots of a run's history, each used once
  UserOf      \* the user of a run

VARIABLES
  table,
  asked,      \* the request in each slot, or {}
  outcome,    \* what a served request is to be answered
  reply       \* what it was answered

vars == <<table, asked, outcome, reply>>

(* A slot holds a set of at most one request.                              *)
Open(r) == asked[r] # {} /\ reply[r] = Nothing

Init ==
  /\ table = [k \in Keys |-> NoRow]
  /\ asked = [r \in Requests |-> {}]
  /\ outcome = [r \in Requests |-> Nothing] /\ reply = [r \in Requests |-> Nothing]

Ask(r, q) ==
  /\ asked[r] = {}
  /\ asked' = [asked EXCEPT ![r] = {q}]
  /\ UNCHANGED <<table, outcome, reply>>

(* A new record gets a key of its own.                                     *)
KeysFor(q) ==
  IF q.id = NoId THEN {k \in Keys : k[1] = q.collection /\ table[k] = NoRow}
  ELSE {<<q.collection, q.id>>}

Serve(r) ==
  /\ Open(r) /\ outcome[r] = Nothing
  /\ \E q \in asked[r] : \E k \in KeysFor(q) :
       /\ table' = Effect(table, q, k, UserOf[q.run])
       /\ outcome' = [outcome EXCEPT ![r] = Result(table, q, k, UserOf[q.run])]
  /\ UNCHANGED <<asked, reply>>

Answer(r) ==
  /\ Open(r) /\ outcome[r] # Nothing
  /\ reply' = [reply EXCEPT ![r] = outcome[r]]
  /\ outcome' = [outcome EXCEPT ![r] = Nothing]
  /\ UNCHANGED <<table, asked>>

Refuse(r) ==
  /\ Open(r) /\ outcome[r] = Nothing
  /\ \E status \in {401, 405, 408, 422} : reply' = [reply EXCEPT ![r] = Bare(status)]
  /\ UNCHANGED <<table, asked, outcome>>

(* 503: with the effect, if it was not had before, or without.             *)
Fail(r) ==
  /\ Open(r)
  /\ reply' = [reply EXCEPT ![r] = Bare(503)]
  /\ outcome' = [outcome EXCEPT ![r] = Nothing]
  /\ \/ table' = table
     \/ /\ outcome[r] = Nothing
        /\ \E q \in asked[r] : \E k \in KeysFor(q) :
             table' = Effect(table, q, k, UserOf[q.run])
  /\ UNCHANGED asked

(* A run ends: what is open is never answered.                             *)
Lose ==
  /\ reply' = [r \in Requests |-> IF Open(r) THEN Bare(503) ELSE reply[r]]
  /\ outcome' = [r \in Requests |-> Nothing]
  /\ UNCHANGED <<table, asked>>

Next ==
  \/ \E r \in Requests :
       \/ \E q \in Menu : Ask(r, q)
       \/ Serve(r) \/ Answer(r) \/ Refuse(r) \/ Fail(r)
  \/ Lose

Spec == Init /\ [][Next]_vars

=============================================================================
