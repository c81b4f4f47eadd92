-------------------------- MODULE OutboxPublisher --------------------------
(***************************************************************************)
(* OutboxPublisher.drainOnce (apps/worker/src/outbox-publisher.ts): moves  *)
(* committed events to Redis.  One worker is the deployment and more are   *)
(* allowed ("the worker can be restarted or scaled"); nothing stops two    *)
(* from reading the same batch.  A subscriber that is always connected     *)
(* hears what is published; `heard` keeps the order in which it first      *)
(* heard each event, for duplicates are its own to drop.                   *)
(*                                                                         *)
(* outbox_events.attempts and lastError are written and never read.        *)
(***************************************************************************)
EXTENDS OutboxReader, Sequences

CONSTANT Publishers

VARIABLES
  status,    \* outbox_events.status
  batch,     \* what each publisher has read: still to send, and sent
  heard,     \* events in the order a subscriber first hears them
  bounced    \* history variable: events a publish of which has failed

publisherVars == <<status, batch, heard, bounced>>

PublisherInit ==
  /\ status = [e \in Events |-> "PENDING"]
  /\ batch = [p \in Publishers |-> Idle]
  /\ heard = <<>>
  /\ bounced = {}

Heard == {heard[i] : i \in 1 .. Len(heard)}

\* Mutant: the reader also sees what is not committed.
PendingUncommitted == {e \in Events : phase[e] # "new" /\ status[e] = "PENDING"}

Pending == {e \in Committed : status[e] = "PENDING"}

\* findMany: PENDING, by sequence, one batch.
Read(p) ==
  /\ batch[p] = Idle
  /\ Pending # {}
  /\ batch' = [batch EXCEPT ![p] =
                 [todo |-> FirstBySequence(Pending, BatchSize), sent |-> {}]]
  /\ UNCHANGED <<outboxVars, status, heard, bounced, faults>>

\* Mutant: the batch is sent in no particular order.
NextToSendAny(p, e) == batch[p] # Idle /\ e \in batch[p].todo

\* The loop goes through the batch as it was read.
NextToSend(p, e) ==
  /\ batch[p] # Idle
  /\ batch[p].todo # {}
  /\ e = Least(batch[p].todo)

Publish(p, e) ==
  /\ NextToSend(p, e)
  /\ heard' = IF e \in Heard THEN heard ELSE Append(heard, e)
  /\ batch' = [batch EXCEPT ![p] =
                 [todo |-> @.todo \ {e}, sent |-> @.sent \union {e}]]
  /\ UNCHANGED <<outboxVars, status, bounced, faults>>

\* Redis refused: the event is left PENDING and the loop goes on.
PublishFails(p, e) ==
  /\ NextToSend(p, e)
  /\ faults < MaxFaults
  /\ faults' = faults + 1
  /\ batch' = [batch EXCEPT ![p].todo = @ \ {e}]
  /\ bounced' = bounced \union {e}
  /\ UNCHANGED <<outboxVars, status, heard>>

\* Mutant: everything up to the last sent event is marked, as a watermark would.
MarkAll(p) ==
  /\ batch[p] # Idle
  /\ batch[p].todo = {}
  /\ status' = [e \in Events |->
                  IF \E f \in batch[p].sent : e <= f THEN "PROCESSED" ELSE status[e]]
  /\ batch' = [batch EXCEPT ![p] = Idle]
  /\ UNCHANGED <<outboxVars, heard, bounced, faults>>

\* After the loop: only what was sent becomes PROCESSED.
Mark(p) ==
  /\ batch[p] # Idle
  /\ batch[p].todo = {}
  /\ status' = [e \in Events |->
                  IF e \in batch[p].sent THEN "PROCESSED" ELSE status[e]]
  /\ batch' = [batch EXCEPT ![p] = Idle]
  /\ UNCHANGED <<outboxVars, heard, bounced, faults>>

\* The worker dies, or the update that marks the batch fails: nothing is marked.
Crash(p) ==
  /\ batch[p] # Idle
  /\ faults < MaxFaults
  /\ faults' = faults + 1
  /\ batch' = [batch EXCEPT ![p] = Idle]
  /\ UNCHANGED <<outboxVars, status, heard, bounced>>

Drain(p) ==
  \/ Read(p)
  \/ \E e \in Events : Publish(p, e)
  \/ Mark(p)

PublisherFault(p) ==
  \/ \E e \in Events : PublishFails(p, e)
  \/ Crash(p)

PublisherNext ==
  \/ OutboxNext /\ UNCHANGED <<publisherVars, faults>>
  \/ \E p \in Publishers : Drain(p) \/ PublisherFault(p)

----------------------------------------------------------------------------
Batch == [todo : SUBSET Events, sent : SUBSET Events]
ASSUME IdleIsNoBatch == Idle \notin Batch

PublisherTypeOK ==
  /\ status \in [Events -> {"PENDING", "PROCESSED"}]
  /\ batch \in [Publishers -> Batch \union {Idle}]
  /\ heard \in Seq(Events)
  /\ bounced \subseteq Events
  /\ \A p \in Publishers : batch[p] # Idle =>
       batch[p].todo \union batch[p].sent \subseteq Committed

(***************************************************************************)
(* The outbox closes the "database updated but event lost" gap: a row is   *)
(* PROCESSED only after subscribers heard it, whoever crashed in between,  *)
(* and they hear only what was committed, each event first once.           *)
(***************************************************************************)
NothingLost ==
  /\ \A e \in Events : status[e] = "PROCESSED" => e \in Heard
  /\ Heard \subseteq Committed
  /\ Cardinality(Heard) = Len(heard)

(***************************************************************************)
(* "Sequence order, so subscribers see events in the order they happened": *)
(* an event is first heard after one of a higher sequence only if it       *)
(* committed after it, or a publish of it failed.                          *)
(***************************************************************************)
HeardInOrder ==
  \A i, j \in 1 .. Len(heard) :
    i < j /\ heard[i] > heard[j] => heard[j] \in overtaken \union bounced

(***************************************************************************)
(* At-least-once: every committed event is heard in the end, through       *)
(* failed publishes and worker deaths.                                     *)
(***************************************************************************)
EveryEventIsHeard == \A e \in Events : phase[e] = "committed" ~> e \in Heard

(***************************************************************************)
(* The publisher reads the outbox as EventLog says, one stream of all      *)
(* events, and knows by its row what an event's subscribers have heard.    *)
(***************************************************************************)
Processed == {e \in Events : status[e] = "PROCESSED"}

PublisherLog == INSTANCE EventLog
  WITH Wanted <- Events, StreamOf <- [e \in Events |-> 0], ByPosition <- FALSE,
       committed <- Committed, late <- overtaken, refused <- bounced,
       served <- Heard, behind <- Processed
=============================================================================
