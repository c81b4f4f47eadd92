----------------------- MODULE NotificationDispatcher -----------------------
(***************************************************************************)
(* NotificationDispatcher.dispatchOnce (packages/notifications/src/        *)
(* dispatcher.ts): the second reader of the outbox.  It keeps a watermark  *)
(* in outbox_cursors, reads the events above it as an ordered log, plans   *)
(* the notifications they imply with one transaction per tenant, and only  *)
(* then advances the watermark.                                            *)
(*                                                                         *)
(* Who is to be told, and on which channel, is in NotificationRouting:     *)
(* `planned` counts here the rows an event has for one recipient on one    *)
(* channel, which the table's unique constraint keeps at one.              *)
(***************************************************************************)
EXTENDS OutboxReader

CONSTANTS
  Tenants, TenantOf,
  Relevant,      \* events that imply a notification (specFor is not null)
  Dispatchers

ASSUME TenantOfAssumption == TenantOf \in [Events -> Tenants]
ASSUME RelevantAssumption == Relevant \subseteq Events

VARIABLES
  cursor,    \* outbox_cursors.last_sequence of consumer 'notifications'
  planned,   \* notifications rows of each event
  pass       \* what each dispatcher is in the middle of

dispatcherVars == <<cursor, planned, pass>>

DispatcherInit ==
  /\ cursor = 0
  /\ planned = [e \in Events |-> 0]
  /\ pass = [d \in Dispatchers |-> Idle]

\* readCursor, a query of its own.
ReadCursor(d) ==
  /\ pass[d] = Idle
  /\ pass' = [pass EXCEPT ![d] = [at |-> "read", from |-> cursor,
                                  batch |-> {}, todo |-> {}]]
  /\ UNCHANGED <<outboxVars, cursor, planned, faults>>

Beyond(n) == {e \in Committed : e > n}

\* The events above it that are committed NOW.  None is the end of the pass.
ReadBatch(d) ==
  /\ pass[d] # Idle
  /\ pass[d].at = "read"
  /\ LET batch == FirstBySequence(Beyond(pass[d].from), BatchSize) IN
       pass' = [pass EXCEPT ![d] =
                  IF batch = {} THEN Idle
                  ELSE [@ EXCEPT !.at = "plan", !.batch = batch, !.todo = batch]]
  /\ UNCHANGED <<outboxVars, cursor, planned, faults>>

\* createMany with skipDuplicates.
InsertRows(es) ==
  planned' = [e \in Events |-> IF e \in es \intersect Relevant
                               THEN 1 ELSE planned[e]]

\* byTenant is a Map in the order of each tenant's first event; one transaction
\* plans all of a tenant's events of the batch.
DispatchForTenant(d) ==
  /\ pass[d] # Idle
  /\ pass[d].todo # {}
  /\ LET t  == TenantOf[Least(pass[d].todo)]
         es == {e \in pass[d].todo : TenantOf[e] = t}
     IN /\ InsertRows(es)
        /\ pass' = [pass EXCEPT ![d].todo = @ \ es]
  /\ UNCHANGED <<outboxVars, cursor, faults>>

\* Mutant: the watermark moves before the last tenant is planned.
AdvanceEarly(d) ==
  /\ pass[d] # Idle
  /\ pass[d].at = "plan"
  /\ cursor' = Greatest(pass[d].batch)
  /\ pass' = [pass EXCEPT ![d] = IF @.todo = {} THEN Idle ELSE @]
  /\ UNCHANGED <<outboxVars, planned, faults>>

\* After every tenant: an upsert of the highest sequence of the batch, over
\* whatever is there.
AdvanceCursor(d) ==
  /\ pass[d] # Idle
  /\ pass[d].at = "plan" /\ pass[d].todo = {}
  /\ cursor' = Greatest(pass[d].batch)
  /\ pass' = [pass EXCEPT ![d] = Idle]
  /\ UNCHANGED <<outboxVars, planned, faults>>

\* A tenant's transaction fails, or the worker dies: the pass is over and the
\* watermark has not moved.
DispatcherFault(d) ==
  /\ pass[d] # Idle
  /\ faults < MaxFaults
  /\ faults' = faults + 1
  /\ pass' = [pass EXCEPT ![d] = Idle]
  /\ UNCHANGED <<outboxVars, cursor, planned>>

Dispatch(d) ==
  ReadCursor(d) \/ ReadBatch(d) \/ DispatchForTenant(d) \/ AdvanceCursor(d)

DispatcherNext ==
  \/ OutboxNext /\ UNCHANGED <<dispatcherVars, faults>>
  \/ \E d \in Dispatchers : Dispatch(d) \/ DispatcherFault(d)

----------------------------------------------------------------------------
Pass == [at : {"read", "plan"}, from : Events \union {0},
         batch : SUBSET Events, todo : SUBSET Events]
ASSUME IdleIsNoPass == Idle \notin Pass

\* The type invariant; a replayed event is a no-op rather than a second row.
DispatcherTypeOK ==
  /\ cursor \in Events \union {0}
  /\ planned \in [Events -> 0 .. 1]
  /\ pass \in [Dispatchers -> Pass \union {Idle}]

Planned == {e \in Events : planned[e] > 0}

(***************************************************************************)
(* "Advanced only after every tenant's rows are committed": an event below *)
(* the watermark has been planned, through crashes, failed tenants and a   *)
(* second dispatcher, unless it committed after a higher sequence had.     *)
(* Nothing is planned for an event that did not commit.                    *)
(***************************************************************************)
Owed == {e \in Committed \intersect Relevant : e <= cursor}

OnlyOvertakenAreSkipped ==
  /\ Owed \ overtaken \subseteq Planned
  /\ Planned \subseteq Committed

(***************************************************************************)
(* Every event that was not overtaken leads to its notification, however   *)
(* many passes fail on the way.                                            *)
(***************************************************************************)
EveryEventIsPlanned ==
  \A e \in Relevant :
    phase[e] = "committed" /\ e \notin overtaken ~> e \in Planned

(***************************************************************************)
(* The watermark is there so that no notification goes missing.  A         *)
(* transaction that draws its sequence early and commits late breaks this  *)
(* (run dispatcher_gap).                                                   *)
(***************************************************************************)
NoNotificationMissing == Owed \subseteq Planned

(***************************************************************************)
(* The dispatcher reads it as EventLog says too: a stream for each tenant, *)
(* and a watermark for what is behind.                                     *)
(***************************************************************************)
DispatcherLog == INSTANCE EventLog
  WITH Wanted <- Relevant, StreamOf <- TenantOf, ByPosition <- TRUE,
       committed <- Committed, late <- overtaken, refused <- {},
       served <- Planned, behind <- {e \in Events : e <= cursor}
=============================================================================
