------------------------------ MODULE MCEvents ------------------------------
(***************************************************************************)
(* The worker's two readers of the outbox.  Neither touches what the other *)
(* keeps: a behaviour is one of one of them, the other at rest in its      *)
(* initial state, so that the run has the sum of their states and not the  *)
(* product.                                                                *)
(***************************************************************************)
EXTENDS OutboxPublisher, NotificationDispatcher

CONSTANTS p1, p2, d1, d2, t1, t2

MCTenantOf == [e \in Events |-> IF e % 2 = 1 THEN t1 ELSE t2]

\* The publisher's part ends before the last event.
Published == Events \ {Greatest(Events)}

VARIABLE part

Init ==
  /\ part \in {"publisher", "dispatcher"}
  /\ ReaderInit /\ PublisherInit /\ DispatcherInit

readerVars == <<outboxVars, faults>>

Next ==
  /\ UNCHANGED part
  /\ \/ /\ part = "publisher" /\ PublisherNext
        /\ \A e \in Events \ Published : phase'[e] = "new"
        /\ UNCHANGED dispatcherVars
     \/ /\ part = "dispatcher" /\ DispatcherNext
        /\ UNCHANGED publisherVars

vars == <<part, readerVars, publisherVars, dispatcherVars>>

\* Each timer comes back after every pass, and a restarted worker starts anew: in the
\* behaviours of each reader, its instances go on.
Fairness ==
  /\ \A p \in Publishers : WF_<<readerVars, publisherVars>>(part = "publisher" /\ Drain(p))
  /\ \A d \in Dispatchers : WF_<<readerVars, dispatcherVars>>(part = "dispatcher" /\ Dispatch(d))

Spec == Init /\ [][Next]_vars /\ Fairness

\* Type correctness of the two modules and of what the readers share.
TypeOK == ReaderTypeOK /\ PublisherTypeOK /\ DispatcherTypeOK

\* What each of the two owes in the end, in the behaviours that are its own: every
\* committed event is heard,
EventsAreHeard == part = "publisher" => EveryEventIsHeard

\* and every event that was not overtaken is planned.
EventsArePlanned == part = "dispatcher" => EveryEventIsPlanned

\* Each of the two implements EventLog: what it leaves behind was served, within a
\* stream in order, but for the exceptions EventLog names.
ImplementsLog == PublisherLog!Spec /\ DispatcherLog!Spec
=============================================================================
