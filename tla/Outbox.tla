------------------------------- MODULE Outbox -------------------------------
(***************************************************************************)
(* The transactional outbox (apps/api/src/events/outbox.service.ts and the *)
(* outbox_events table): every domain change inserts its event in the same *)
(* transaction, and two independent readers follow the table.              *)
(*                                                                         *)
(* An event is named by its sequence, the BIGSERIAL value its INSERT drew. *)
(* The value is drawn at the INSERT and shown at the COMMIT, so events     *)
(* become visible in another order than their sequence, and a rollback     *)
(* leaves a hole that never fills.                                         *)
(***************************************************************************)
EXTENDS Naturals, FiniteSets

CONSTANT Events    \* the sequences drawn during the behaviour
ASSUME EventsAssumption == Events \subseteq Nat \ {0}   \* BIGSERIAL starts at 1

VARIABLES
  phase,      \* of the transaction that drew each sequence
  overtaken   \* history variable: events a higher sequence committed before

outboxVars == <<phase, overtaken>>

OutboxInit ==
  /\ phase = [e \in Events |-> "new"]
  /\ overtaken = {}

Committed == {e \in Events : phase[e] = "committed"}

\* tx.outboxEvent.createMany, somewhere inside a transaction.
Insert(e) ==
  /\ phase[e] = "new"
  /\ \A f \in Events : f < e => phase[f] # "new"
  /\ phase' = [phase EXCEPT ![e] = "open"]
  /\ UNCHANGED overtaken

CommitEvent(e) ==
  /\ phase[e] = "open"
  /\ phase' = [phase EXCEPT ![e] = "committed"]
  /\ overtaken' = IF \E f \in Committed : f > e THEN overtaken \union {e}
                                                ELSE overtaken

RollbackEvent(e) ==
  /\ phase[e] = "open"
  /\ phase' = [phase EXCEPT ![e] = "rolledback"]
  /\ UNCHANGED overtaken

OutboxNext == \E e \in Events : Insert(e) \/ CommitEvent(e) \/ RollbackEvent(e)

OutboxTypeOK ==
  /\ phase \in [Events -> {"new", "open", "committed", "rolledback"}]
  /\ overtaken \subseteq Committed

Least(S) == CHOOSE e \in S : \A f \in S : e <= f
Greatest(S) == CHOOSE e \in S : \A f \in S : f <= e

\* ORDER BY sequence ASC LIMIT n
FirstBySequence(S, n) == {e \in S : Cardinality({f \in S : f < e}) < n}
=============================================================================
