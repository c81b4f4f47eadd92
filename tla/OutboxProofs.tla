---------------------------- MODULE OutboxProofs ----------------------------
(***************************************************************************)
(* What the outbox and its two readers promise for any set of events, any  *)
(* number of workers, any batch size and any number of faults: the type    *)
(* invariants, that subscribers lose no event and hear each in order, and  *)
(* that the watermark of the notifications skips only an event that        *)
(* committed after a higher sequence had.                                  *)
(***************************************************************************)
EXTENDS MCEvents, FiniteSetTheorems, WellFoundedInduction, TLAPS

\* Each reader alone, with the transactions that feed it.
PublisherSpec ==
  ReaderInit /\ PublisherInit /\ [][PublisherNext]_<<readerVars, publisherVars>>
DispatcherSpec ==
  ReaderInit /\ DispatcherInit /\ [][DispatcherNext]_<<readerVars, dispatcherVars>>

----------------------------------------------------------------------------
(* Reading by sequence. *)

\* A set of sequences has a least one, which is where a batch begins.
LEMMA LeastExists ==
  ASSUME NEW S, S \subseteq Nat, S # {}
  PROVE  Least(S) \in S /\ \A f \in S : Least(S) <= f
<1> DEFINE R == OpToRel(<, Nat)
<1>1. \E x \in S : \A y \in S : ~(<<y, x>> \in R)
  <2> HIDE DEF R
  <2>1. IsWellFoundedOn(R, Nat)
    BY NatLessThanWellFounded DEF R
  <2> QED  BY <2>1, WFMin
<1>2. \A x, y \in Nat : <<y, x>> \in R <=> y < x
  BY DEF OpToRel
<1> HIDE DEF R
<1>3. \E x \in S : \A y \in S : x <= y
  <2>1. PICK x \in S : \A y \in S : ~(<<y, x>> \in R)
    BY <1>1
  <2>2. \A y \in S : x <= y
    <3> TAKE y \in S
    <3>1. ~(<<y, x>> \in R)
      BY <2>1
    <3>2. ~(y < x)
      BY <1>2, <3>1
    <3> QED  BY <3>2
  <2> QED  BY <2>2
<1> QED  BY <1>3 DEF Least

\* A finite set of sequences has a greatest one: the fewer above, the higher.
LEMMA GreatestExists ==
  ASSUME NEW S, S \subseteq Nat, S # {}, IsFiniteSet(S)
  PROVE  Greatest(S) \in S /\ \A f \in S : f <= Greatest(S)
<1> DEFINE Above(e) == {f \in S : f > e}
           Counts == {Cardinality(Above(e)) : e \in S}
<1>1. \A e \in S : IsFiniteSet(Above(e)) /\ Cardinality(Above(e)) \in Nat
  BY FS_Subset, FS_CardinalityType
<1>2. /\ Least(Counts) \in Counts
      /\ \A n \in Counts : Least(Counts) <= n
  <2>1. Counts \subseteq Nat /\ Counts # {}
    BY <1>1
  <2> QED  BY <2>1, LeastExists
<1>3. PICK e \in S : \A f \in S : Cardinality(Above(e)) <= Cardinality(Above(f))
  BY <1>2
<1>4. ASSUME NEW f \in S, f > e
      PROVE  FALSE
  <2>1. Above(f) \in SUBSET Above(e) /\ f \in Above(e) /\ f \notin Above(f)
    <3>1. e \in Nat /\ f \in Nat
      OBVIOUS
    <3>2. ASSUME NEW x \in S, x > f
          PROVE  x > e
      <4>1. x \in Nat
        OBVIOUS
      <4> QED  BY <1>4, <3>1, <3>2, <4>1
    <3>3. ~(f > f)
      BY <3>1
    <3> QED  BY <1>4, <3>2, <3>3
  <2>2. /\ Cardinality(Above(f)) <= Cardinality(Above(e))
        /\ Cardinality(Above(f)) # Cardinality(Above(e))
    <3> HIDE DEF Above
    <3> QED  BY <1>1, <2>1, FS_Subset
  <2>3. Cardinality(Above(e)) <= Cardinality(Above(f))
    BY <1>3
  <2> HIDE DEF Above
  <2> QED  BY <1>1, <2>2, <2>3
<1>5. \A f \in S : f <= e
  BY <1>4
<1> QED  BY <1>5 DEF Greatest

\* The events below one of a set of them are finitely many.
LEMMA BelowIsFinite ==
  ASSUME NEW S, S \subseteq Nat, NEW e \in Nat
  PROVE  /\ IsFiniteSet({f \in S : f < e})
         /\ Cardinality({f \in S : f < e}) \in Nat
<1> DEFINE B == {f \in S : f < e}
<1>1. B \in SUBSET (0 .. e)
  <2> SUFFICES ASSUME NEW f \in S, f < e PROVE f \in 0 .. e
    OBVIOUS
  <2>1. f \in Nat
    OBVIOUS
  <2> QED  BY <2>1
<1> HIDE DEF B
<1>2. IsFiniteSet(B)
  <2>1. IsFiniteSet(0 .. e)
    BY FS_Interval
  <2> QED  BY <1>1, <2>1, FS_Subset
<1>3. IsFiniteSet(B) /\ Cardinality(B) \in Nat
  BY <1>2, FS_CardinalityType
<1> QED  BY <1>3 DEF B

\* A batch by sequence has nothing missing below it, is never empty for want of
\* room, and is finite, so it has a highest sequence.
LEMMA BatchIsAPrefix ==
  ASSUME NEW S, S \subseteq Nat, NEW n \in Nat \ {0}
  PROVE  LET F == FirstBySequence(S, n) IN
           /\ F \subseteq S
           /\ \A e \in F, f \in S : f < e => f \in F
           /\ S # {} => F # {}
           /\ IsFiniteSet(F)
<1> DEFINE F == FirstBySequence(S, n)
           Below(e) == {f \in S : f < e}
<1>1. F = {e \in S : Cardinality(Below(e)) < n}
  BY DEF FirstBySequence
<1>2. \A e \in S : IsFiniteSet(Below(e)) /\ Cardinality(Below(e)) \in Nat
  BY BelowIsFinite
<1>3. ASSUME NEW e \in S, NEW f \in S, f < e
      PROVE  Cardinality(Below(f)) < Cardinality(Below(e))
  <2>1. Below(f) \in SUBSET Below(e) /\ f \in Below(e) /\ f \notin Below(f)
    <3>1. e \in Nat /\ f \in Nat
      OBVIOUS
    <3>2. ASSUME NEW x \in S, x < f
          PROVE  x < e
      <4>1. x \in Nat
        OBVIOUS
      <4> QED  BY <1>3, <3>1, <3>2, <4>1
    <3>3. ~(f < f)
      BY <3>1
    <3> QED  BY <1>3, <3>2, <3>3
  <2>2. /\ Cardinality(Below(f)) <= Cardinality(Below(e))
        /\ Cardinality(Below(f)) # Cardinality(Below(e))
    <3> HIDE DEF Below
    <3> QED  BY <1>2, <2>1, FS_Subset
  <2> HIDE DEF Below
  <2> QED  BY <1>2, <2>2
<1>4. S # {} => F # {}
  <2> SUFFICES ASSUME S # {} PROVE F # {}
    OBVIOUS
  <2>1. Least(S) \in S /\ Below(Least(S)) = {}
    <3>1. Least(S) \in S /\ \A f \in S : Least(S) <= f
      BY LeastExists
    <3>2. Least(S) \in Nat /\ \A f \in S : f \in Nat
      BY <3>1
    <3>3. \A f \in S : ~(f < Least(S))
      BY <3>1, <3>2
    <3> QED  BY <3>1, <3>3
  <2>2. Cardinality(Below(Least(S))) = 0
    BY <2>1, FS_EmptySet
  <2> HIDE DEF Below
  <2> QED  BY <1>1, <2>1, <2>2
<1>5. IsFiniteSet(F)
  <2> DEFINE rank == [e \in F |-> Cardinality(Below(e))]
  <2>1. rank \in [F -> 0 .. n - 1]
    <3>1. \A e \in F : Cardinality(Below(e)) \in 0 .. n - 1
      <4> SUFFICES ASSUME NEW e \in F PROVE Cardinality(Below(e)) \in 0 .. n - 1
        OBVIOUS
      <4>1. Cardinality(Below(e)) \in Nat /\ Cardinality(Below(e)) < n
        BY <1>1, <1>2
      <4> HIDE DEF Below, F
      <4> QED  BY <4>1
    <3> QED  BY <3>1
  <2>2. \A e, f \in F : rank[e] = rank[f] => e = f
    <3> SUFFICES ASSUME NEW e \in F, NEW f \in F, rank[e] = rank[f], e # f
                 PROVE  FALSE
      OBVIOUS
    <3>1. e \in S /\ f \in S
      BY <1>1
    <3>4. e \in Nat /\ f \in Nat
      BY <3>1
    <3>5. e < f \/ f < e
      BY <3>4
    <3>2. Cardinality(Below(e)) = Cardinality(Below(f))
      OBVIOUS
    <3> HIDE DEF Below
    <3> QED  BY <1>2, <1>3, <3>1, <3>2, <3>5
  <2>3. rank \in Injection(F, 0 .. n - 1)
    <3> HIDE DEF rank
    <3> QED  BY <2>1, <2>2 DEF Injection, IsInjective
  <2>4. IsFiniteSet(0 .. n - 1)
    BY FS_Interval
  <2> QED  BY <2>3, <2>4, FS_Injection
<1>6. \A e \in F, f \in S : f < e => f \in F
  <2> SUFFICES ASSUME NEW e \in F, NEW f \in S, f < e
               PROVE  Cardinality(Below(f)) < n
    BY <1>1
  <2>1. e \in S /\ Cardinality(Below(e)) < n
    BY <1>1
  <2>2. Cardinality(Below(f)) < Cardinality(Below(e))
    BY <1>3, <2>1
  <2> HIDE DEF Below
  <2> QED  BY <1>2, <2>1, <2>2
<1>7. F \subseteq S
  BY <1>1
<1> HIDE DEF F
<1> QED  BY <1>4, <1>5, <1>6, <1>7 DEF F

----------------------------------------------------------------------------
(* The transactions that write the outbox. *)

LEMMA OutboxKeepsType ==
  ASSUME OutboxTypeOK, OutboxNext
  PROVE  OutboxTypeOK'
  BY DEF OutboxTypeOK, OutboxNext, Insert, CommitEvent, RollbackEvent, Committed

\* What is committed stays so, and an event that commits below another that has
\* is an overtaken one.
LEMMA LateCommitsAreOvertaken ==
  ASSUME OutboxTypeOK, OutboxNext
  PROVE  /\ Committed \subseteq Committed'
         /\ overtaken \subseteq overtaken'
         /\ \A e \in Committed' \ Committed : \A f \in Committed :
              f > e => e \in overtaken'
  BY DEF OutboxTypeOK, OutboxNext, Insert, CommitEvent, RollbackEvent, Committed

LEMMA CommittedAreSequences == Committed \subseteq Nat /\ Committed \subseteq Events
  BY EventsAssumption DEF Committed

----------------------------------------------------------------------------
(* The publisher. *)

\* Events a subscriber may hear out of order.
Excused == overtaken \union bounced

\* A publisher marks only what was heard, and each event was first heard once.
LossInv ==
  /\ \A e \in Events : status[e] = "PROCESSED" => e \in Heard
  /\ \A p \in Publishers : batch[p] # Idle => batch[p].sent \subseteq Heard
  /\ Heard \subseteq Committed
  /\ IsFiniteSet(Heard)
  /\ Cardinality(Heard) = Len(heard)

\* Below an event that was heard, or that a publisher is about to send, every
\* committed event was heard, is excused, or comes before it in the batch.
OrderInv ==
  /\ HeardInOrder
  /\ \A f \in Heard, e \in Committed : e < f => e \in Heard \union Excused
  /\ \A p \in Publishers : batch[p] # Idle =>
       \A f \in batch[p].todo, e \in Committed :
         e < f => e \in Heard \union Excused \union batch[p].todo

LEMMA BatchIsNotIdle ==
  ASSUME PublisherTypeOK, NEW p \in Publishers
  PROVE  batch[p] # Idle <=> batch[p] \in Batch
  BY IdleIsNoBatch DEF PublisherTypeOK

\* The event a publisher sends next: the lowest of its batch.
LEMMA NextIsLowest ==
  ASSUME PublisherTypeOK, NEW p \in Publishers, NEW e, NextToSend(p, e)
  PROVE  /\ batch[p] \in Batch
         /\ e \in batch[p].todo /\ e \in Committed /\ e \in Events
         /\ \A f \in batch[p].todo : e <= f
<1>1. batch[p] \in Batch
  BY BatchIsNotIdle DEF NextToSend
<1>2. batch[p].todo \subseteq Committed /\ batch[p].todo # {}
  BY DEF NextToSend, PublisherTypeOK
<1>3. batch[p].todo \subseteq Nat
  BY <1>2, CommittedAreSequences
<1> QED  BY <1>1, <1>2, <1>3, LeastExists, CommittedAreSequences DEF NextToSend

\* Hearing an event for the first time puts it after all the others.
LEMMA HearingAppends ==
  ASSUME heard \in Seq(Events), NEW e \in Events, heard' = Append(heard, e)
  PROVE  /\ heard' \in Seq(Events)
         /\ Heard' = Heard \union {e}
         /\ Len(heard') = Len(heard) + 1
         /\ heard'[Len(heard) + 1] = e
         /\ \A i \in 1 .. Len(heard) : heard'[i] = heard[i] /\ heard[i] \in Heard
<1>1. /\ heard' \in Seq(Events)
      /\ Len(heard') = Len(heard) + 1
      /\ heard'[Len(heard) + 1] = e
      /\ \A i \in 1 .. Len(heard) : heard'[i] = heard[i]
  OBVIOUS
<1>2. 1 .. Len(heard') = (1 .. Len(heard)) \union {Len(heard) + 1}
  BY <1>1
<1>3. Heard' = Heard \union {e}
  BY <1>1, <1>2 DEF Heard
<1> QED  BY <1>1, <1>3 DEF Heard

LEMMA PublisherInitTypes ==
  ReaderInit /\ PublisherInit => ReaderTypeOK /\ PublisherTypeOK
  BY MaxFaultsAssumption
     DEF ReaderInit, OutboxInit, PublisherInit, ReaderTypeOK, OutboxTypeOK,
         PublisherTypeOK, Committed

LEMMA PublisherKeepsTypes ==
  ASSUME ReaderTypeOK, PublisherTypeOK,
         [PublisherNext]_<<readerVars, publisherVars>>
  PROVE  ReaderTypeOK' /\ PublisherTypeOK'
<1> USE DEF ReaderTypeOK, PublisherTypeOK, publisherVars, readerVars
<1>0. ASSUME UNCHANGED outboxVars
      PROVE  OutboxTypeOK' /\ Committed' = Committed
  BY <1>0 DEF outboxVars, OutboxTypeOK, Committed
<1>1. CASE OutboxNext /\ UNCHANGED <<publisherVars, faults>>
  <2>1. OutboxTypeOK' /\ Committed \subseteq Committed'
    BY <1>1, OutboxKeepsType, LateCommitsAreOvertaken
  <2> QED  BY <1>1, <2>1
<1>2. ASSUME NEW p \in Publishers, Read(p)
      PROVE  ReaderTypeOK' /\ PublisherTypeOK'
  <2>1. FirstBySequence(Pending, BatchSize) \subseteq Pending
    BY DEF FirstBySequence
  <2>2. FirstBySequence(Pending, BatchSize) \subseteq Committed
    BY <2>1 DEF Pending
  <2> DEFINE new == [todo |-> FirstBySequence(Pending, BatchSize), sent |-> {}]
  <2>3. new \in Batch /\ new.todo \union new.sent \subseteq Committed
    BY <2>2, CommittedAreSequences DEF Batch
  <2> HIDE DEF new
  <2>4. batch' = [batch EXCEPT ![p] = new]
    BY <1>2 DEF Read, new
  <2> QED  BY <1>0, <1>2, <2>3, <2>4 DEF Read
<1>3. ASSUME NEW p \in Publishers, NEW e \in Events, Publish(p, e)
      PROVE  ReaderTypeOK' /\ PublisherTypeOK'
  <2>1. batch[p] \in Batch /\ e \in batch[p].todo
    BY <1>3, NextIsLowest DEF Publish
  <2> DEFINE new == [todo |-> batch[p].todo \ {e}, sent |-> batch[p].sent \union {e}]
  <2>2. new \in Batch /\ new.todo \union new.sent \subseteq Committed
    BY <2>1, BatchIsNotIdle DEF Batch
  <2> HIDE DEF new
  <2>3. batch' = [batch EXCEPT ![p] = new]
    BY <1>3 DEF Publish, new
  <2>4. heard' \in Seq(Events)
    BY <1>3, HearingAppends DEF Publish
  <2> QED  BY <1>0, <1>3, <2>2, <2>3, <2>4 DEF Publish
<1>4. ASSUME NEW p \in Publishers, NEW e \in Events, PublishFails(p, e)
      PROVE  ReaderTypeOK' /\ PublisherTypeOK'
  <2>1. batch[p] \in Batch
    BY <1>4, NextIsLowest DEF PublishFails
  <2> DEFINE new == [batch[p] EXCEPT !.todo = @ \ {e}]
  <2>2. new \in Batch /\ new.todo \union new.sent \subseteq Committed
    BY <2>1, BatchIsNotIdle DEF Batch
  <2> HIDE DEF new
  <2>3. batch' = [batch EXCEPT ![p] = new]
    BY <1>4 DEF PublishFails, new
  <2>4. faults' \in 0 .. MaxFaults
    BY <1>4, MaxFaultsAssumption DEF PublishFails
  <2> QED  BY <1>0, <1>4, <2>2, <2>3, <2>4 DEF PublishFails
<1>5. ASSUME NEW p \in Publishers, Mark(p)
      PROVE  ReaderTypeOK' /\ PublisherTypeOK'
  BY <1>0, <1>5 DEF Mark
<1>6. ASSUME NEW p \in Publishers, Crash(p)
      PROVE  ReaderTypeOK' /\ PublisherTypeOK'
  BY <1>0, <1>6, MaxFaultsAssumption DEF Crash
<1>7. CASE UNCHANGED <<readerVars, publisherVars>>
  BY <1>0, <1>7
<1> QED
  BY <1>1, <1>2, <1>3, <1>4, <1>5, <1>6, <1>7
     DEF PublisherNext, Drain, PublisherFault

\* What has been heard only grows, and nothing that is excused stops being so.
LEMMA PublisherKeepsLossInv ==
  ASSUME ReaderTypeOK, PublisherTypeOK, LossInv,
         [PublisherNext]_<<readerVars, publisherVars>>
  PROVE  LossInv'
<1> USE DEF publisherVars, readerVars
<1>1. CASE OutboxNext /\ UNCHANGED <<publisherVars, faults>>
  <2>1. Heard' = Heard /\ Committed \subseteq Committed'
    BY <1>1, LateCommitsAreOvertaken DEF Heard, ReaderTypeOK
  <2> QED  BY <1>1, <2>1 DEF LossInv
<1>2. ASSUME UNCHANGED <<outboxVars, heard>>
      PROVE  Heard' = Heard /\ Committed' = Committed
  BY <1>2 DEF outboxVars, Heard, Committed
<1>3. ASSUME NEW p \in Publishers, Read(p)
      PROVE  LossInv'
  BY <1>2, <1>3 DEF Read, LossInv, PublisherTypeOK
<1>4. ASSUME NEW p \in Publishers, NEW e \in Events, Publish(p, e)
      PROVE  LossInv'
  <2>1. batch[p] \in Batch /\ e \in Committed
    BY <1>4, NextIsLowest DEF Publish
  <2>2. Heard' = Heard \union {e} /\ Committed' = Committed
    <3>1. heard \in Seq(Events)
      BY DEF PublisherTypeOK
    <3>2. CASE e \in Heard
      BY <1>2, <1>4, <3>2 DEF Publish
    <3>3. CASE e \notin Heard
      BY <1>4, <3>1, <3>3, HearingAppends DEF Publish, outboxVars, Committed
    <3> QED  BY <3>2, <3>3
  <2>3. IsFiniteSet(Heard') /\ Cardinality(Heard') = Len(heard')
    <3>1. CASE e \in Heard
      BY <1>2, <1>4, <3>1 DEF Publish, LossInv
    <3>2. CASE e \notin Heard
      <4>1. Len(heard') = Len(heard) + 1
        BY <1>4, <3>2, HearingAppends DEF Publish, PublisherTypeOK
      <4>2. /\ IsFiniteSet(Heard \union {e})
            /\ Cardinality(Heard \union {e}) = Cardinality(Heard) + 1
        BY <3>2, FS_AddElement DEF LossInv
      <4> QED  BY <2>2, <4>1, <4>2 DEF LossInv
    <3> QED  BY <3>1, <3>2
  <2>4. \A q \in Publishers : batch'[q] # Idle => batch'[q].sent \subseteq Heard'
    <3> DEFINE new == [todo |-> batch[p].todo \ {e},
                       sent |-> batch[p].sent \union {e}]
    <3>1. batch' = [batch EXCEPT ![p] = new]
      BY <1>4 DEF Publish
    <3>2. new.sent \subseteq Heard'
      BY <2>1, <2>2, BatchIsNotIdle DEF LossInv
    <3> HIDE DEF new
    <3> QED  BY <2>2, <3>1, <3>2 DEF LossInv, PublisherTypeOK
  <2>5. status' = status
    BY <1>4 DEF Publish
  <2> QED  BY <2>1, <2>2, <2>3, <2>4, <2>5 DEF LossInv
<1>5. ASSUME NEW p \in Publishers, NEW e \in Events, PublishFails(p, e)
      PROVE  LossInv'
  <2>1. batch[p] \in Batch
    BY <1>5, NextIsLowest DEF PublishFails
  <2>2. \A q \in Publishers : batch'[q] # Idle => batch'[q].sent \subseteq Heard
    <3> DEFINE new == [batch[p] EXCEPT !.todo = @ \ {e}]
    <3>1. batch' = [batch EXCEPT ![p] = new]
      BY <1>5 DEF PublishFails
    <3>2. new.sent \subseteq Heard
      BY <2>1, BatchIsNotIdle DEF LossInv, Batch
    <3> HIDE DEF new
    <3> QED  BY <3>1, <3>2 DEF LossInv, PublisherTypeOK
  <2> QED  BY <1>2, <1>5, <2>2 DEF PublishFails, LossInv
<1>6. ASSUME NEW p \in Publishers, Mark(p)
      PROVE  LossInv'
  <2>1. \A e \in Events : status'[e] = "PROCESSED" => e \in Heard
    BY <1>6 DEF Mark, LossInv, PublisherTypeOK
  <2>2. \A q \in Publishers : batch'[q] # Idle => batch'[q].sent \subseteq Heard
    BY <1>6 DEF Mark, LossInv, PublisherTypeOK
  <2> QED  BY <1>2, <1>6, <2>1, <2>2 DEF Mark, LossInv
<1>7. ASSUME NEW p \in Publishers, Crash(p)
      PROVE  LossInv'
  BY <1>2, <1>7 DEF Crash, LossInv, PublisherTypeOK
<1>8. CASE UNCHANGED <<readerVars, publisherVars>>
  BY <1>2, <1>8 DEF LossInv
<1> QED
  BY <1>1, <1>3, <1>4, <1>5, <1>6, <1>7, <1>8
     DEF PublisherNext, Drain, PublisherFault

LEMMA PublisherKeepsOrderInv ==
  ASSUME ReaderTypeOK, PublisherTypeOK, LossInv, OrderInv,
         [PublisherNext]_<<readerVars, publisherVars>>
  PROVE  OrderInv'
<1> USE DEF publisherVars, readerVars
<1>0. Heard \subseteq Nat /\ \A p \in Publishers :
        batch[p] # Idle => batch[p].todo \subseteq Committed
  BY CommittedAreSequences DEF LossInv, PublisherTypeOK
<1>1. CASE OutboxNext /\ UNCHANGED <<publisherVars, faults>>
  <2>1. /\ Heard' = Heard /\ overtaken \subseteq overtaken' /\ bounced' = bounced
        /\ batch' = batch /\ heard' = heard
        /\ \A e \in Committed' \ Committed : \A f \in Committed :
             f > e => e \in overtaken'
    BY <1>1, LateCommitsAreOvertaken DEF Heard, ReaderTypeOK
  <2>2. Excused \subseteq Excused'
    BY <2>1 DEF Excused
  <2>3. HeardInOrder'
    BY <2>1 DEF OrderInv, HeardInOrder
  <2>4. ASSUME NEW f \in Committed, NEW e \in Committed', e \notin Committed, e < f
        PROVE  e \in Excused'
    <3>1. e \in Nat /\ f \in Nat
      BY <1>1, CommittedAreSequences, OutboxKeepsType, EventsAssumption
         DEF Committed
    <3>2. f > e
      BY <2>4, <3>1
    <3> QED  BY <2>1, <2>4, <3>2 DEF Excused
  <2>5. \A f \in Heard', e \in Committed' :
          e < f => e \in Heard' \union Excused'
    BY <2>1, <2>2, <2>4 DEF OrderInv, LossInv
  <2>6. \A p \in Publishers : batch'[p] # Idle =>
          \A f \in batch'[p].todo, e \in Committed' :
            e < f => e \in Heard' \union Excused' \union batch'[p].todo
    BY <1>0, <2>1, <2>2, <2>4 DEF OrderInv
  <2> QED  BY <2>3, <2>5, <2>6 DEF OrderInv
<1>2. ASSUME UNCHANGED <<outboxVars, heard>>
      PROVE  /\ Heard' = Heard /\ Committed' = Committed
             /\ overtaken' = overtaken
  BY <1>2 DEF outboxVars, Heard, Committed
\* The steps in which nothing new is heard.
<1>3. ASSUME UNCHANGED <<outboxVars, heard>>, bounced \subseteq bounced',
             \A q \in Publishers : batch'[q] # Idle =>
               \A f \in batch'[q].todo, e \in Committed :
                 e < f => e \in Heard \union Excused' \union batch'[q].todo
      PROVE  OrderInv'
  <2>1. /\ Heard' = Heard /\ Committed' = Committed
        /\ Excused \subseteq Excused'
    BY <1>2, <1>3 DEF Excused
  <2>2. HeardInOrder'
    BY <1>3, <2>1 DEF OrderInv, HeardInOrder, Excused
  <2> QED  BY <1>3, <2>1, <2>2 DEF OrderInv
<1>4. ASSUME NEW p \in Publishers, Read(p)
      PROVE  OrderInv'
  <2> DEFINE F == FirstBySequence(Pending, BatchSize)
  <2>1. /\ F \subseteq Pending
        /\ \A e \in F, f \in Pending : f < e => f \in F
    <3>1. Pending \subseteq Nat
      BY CommittedAreSequences DEF Pending
    <3> QED  BY <3>1, BatchIsAPrefix, BatchSizeAssumption
  <2>2. \A e \in Committed \ Pending : e \in Heard
    BY CommittedAreSequences DEF Pending, PublisherTypeOK, LossInv
  <2> HIDE DEF F
  <2>3. \A f \in F, e \in Committed : e < f => e \in Heard \union F
    BY <2>1, <2>2 DEF Pending
  <2>4. batch' = [batch EXCEPT ![p] = [todo |-> F, sent |-> {}]]
    BY <1>4 DEF Read, F
  <2>5. \A q \in Publishers : batch'[q] # Idle =>
          \A f \in batch'[q].todo, e \in Committed :
            e < f => e \in Heard \union Excused \union batch'[q].todo
    BY <2>3, <2>4 DEF OrderInv, PublisherTypeOK
  <2>6. UNCHANGED <<outboxVars, heard, bounced>>
    BY <1>4 DEF Read
  <2>7. Excused' = Excused
    BY <1>2, <2>6 DEF Excused
  <2> QED  BY <1>3, <2>5, <2>6, <2>7
<1>5. ASSUME NEW p \in Publishers, NEW e \in Events, Publish(p, e)
      PROVE  OrderInv'
  <2>1. /\ batch[p] \in Batch /\ e \in batch[p].todo /\ e \in Committed
        /\ \A f \in batch[p].todo : e <= f
    BY <1>5, NextIsLowest DEF Publish
  <2>2. /\ Committed' = Committed /\ Excused' = Excused
    BY <1>5 DEF Publish, outboxVars, Committed, Excused
  <2>3. ASSUME NEW d \in Committed, d < e
        PROVE  d \in Heard \union Excused
    <3>1. d \notin batch[p].todo
      <4>1. d \in Nat /\ e \in Nat
        BY <2>1, CommittedAreSequences
      <4>2. ~(e <= d)
        BY <2>3, <4>1
      <4> QED  BY <2>1, <4>2
    <3> QED  BY <2>1, <2>3, <3>1, BatchIsNotIdle DEF OrderInv
  <2>4. heard \in Seq(Events)
    BY DEF PublisherTypeOK
  <2>5. Heard' = Heard \union {e}
    BY <1>2, <1>5, <2>4, HearingAppends DEF Publish
  <2>6. \A f \in Heard', d \in Committed' :
          d < f => d \in Heard' \union Excused'
    BY <2>2, <2>3, <2>5 DEF OrderInv
  <2>7. \A q \in Publishers : batch'[q] # Idle =>
          \A f \in batch'[q].todo, d \in Committed' :
            d < f => d \in Heard' \union Excused' \union batch'[q].todo
    <3> DEFINE new == [todo |-> batch[p].todo \ {e},
                       sent |-> batch[p].sent \union {e}]
    <3>1. batch' = [batch EXCEPT ![p] = new]
      BY <1>5 DEF Publish
    <3>2. new.todo = batch[p].todo \ {e} /\ batch[p] # Idle
      BY <2>1, BatchIsNotIdle
    <3> HIDE DEF new
    <3> QED  BY <2>2, <2>5, <3>1, <3>2 DEF OrderInv, PublisherTypeOK
  <2>8. HeardInOrder'
    <3>1. CASE e \in Heard
      BY <1>5, <2>2, <3>1 DEF Publish, OrderInv, HeardInOrder, Excused
    <3>2. CASE e \notin Heard
      <4>1. /\ Len(heard') = Len(heard) + 1
            /\ heard'[Len(heard) + 1] = e
            /\ \A i \in 1 .. Len(heard) : heard'[i] = heard[i] /\ heard[i] \in Heard
        BY <1>5, <2>4, <3>2, HearingAppends DEF Publish
      <4> SUFFICES ASSUME NEW i \in 1 .. Len(heard'), NEW j \in 1 .. Len(heard'),
                          i < j, heard'[i] > heard'[j]
                   PROVE  heard'[j] \in Excused'
        BY DEF HeardInOrder, Excused
      <4>2. i \in 1 .. Len(heard) /\ Len(heard) \in Nat
        BY <2>4, <4>1
      <4>3. CASE j \in 1 .. Len(heard)
        BY <2>2, <4>1, <4>2, <4>3 DEF OrderInv, HeardInOrder, Excused
      <4>4. CASE j = Len(heard) + 1
        <5>1. heard[i] \in Heard /\ heard[i] > e
          BY <4>1, <4>2, <4>4
        <5>2. e \in Nat /\ heard[i] \in Nat
          BY <1>0, <2>1, <5>1, CommittedAreSequences
        <5>3. e < heard[i]
          BY <5>1, <5>2
        <5>4. e \in Excused
          BY <2>1, <3>2, <5>1, <5>3 DEF OrderInv
        <5> QED  BY <2>2, <4>1, <4>4, <5>4
      <4> QED  BY <4>1, <4>2, <4>3, <4>4
    <3> QED  BY <3>1, <3>2
  <2> QED  BY <2>6, <2>7, <2>8 DEF OrderInv
<1>6. ASSUME NEW p \in Publishers, NEW e \in Events, PublishFails(p, e)
      PROVE  OrderInv'
  <2>1. batch[p] \in Batch
    BY <1>6, NextIsLowest DEF PublishFails
  <2>2. UNCHANGED <<outboxVars, heard>> /\ bounced' = bounced \union {e}
    BY <1>6 DEF PublishFails
  <2>3. Excused' = Excused \union {e}
    BY <1>2, <2>2 DEF Excused
  <2> DEFINE new == [batch[p] EXCEPT !.todo = @ \ {e}]
  <2>4. batch' = [batch EXCEPT ![p] = new]
    BY <1>6 DEF PublishFails
  <2>5. new.todo = batch[p].todo \ {e} /\ batch[p] # Idle
    BY <2>1, BatchIsNotIdle DEF Batch
  <2> HIDE DEF new
  <2>6. \A q \in Publishers : batch'[q] # Idle =>
          \A f \in batch'[q].todo, d \in Committed :
            d < f => d \in Heard \union Excused' \union batch'[q].todo
    BY <2>3, <2>4, <2>5 DEF OrderInv, PublisherTypeOK
  <2> QED  BY <1>3, <2>2, <2>6
<1>7. ASSUME NEW p \in Publishers, Mark(p) \/ Crash(p)
      PROVE  OrderInv'
  <2>1. UNCHANGED <<outboxVars, heard, bounced>> /\ batch' = [batch EXCEPT ![p] = Idle]
    BY <1>7 DEF Mark, Crash
  <2>2. Excused' = Excused
    BY <1>2, <2>1 DEF Excused
  <2> QED  BY <1>3, <2>1, <2>2 DEF OrderInv, PublisherTypeOK
<1>8. CASE UNCHANGED <<readerVars, publisherVars>>
  <2>1. Excused' = Excused
    BY <1>2, <1>8 DEF Excused
  <2> QED  BY <1>3, <1>8, <2>1 DEF OrderInv
<1> QED
  BY <1>1, <1>4, <1>5, <1>6, <1>7, <1>8
     DEF PublisherNext, Drain, PublisherFault

PublisherInv == ReaderTypeOK /\ PublisherTypeOK /\ LossInv /\ OrderInv

LEMMA PublisherInitInv ==
  ReaderInit /\ PublisherInit => PublisherInv
<1> SUFFICES ASSUME ReaderInit, PublisherInit PROVE PublisherInv
  OBVIOUS
<1>1. Heard = {} /\ Len(heard) = 0
  BY DEF PublisherInit, Heard
<1>2. LossInv
  BY <1>1, FS_EmptySet DEF PublisherInit, LossInv
<1>3. OrderInv
  BY <1>1 DEF PublisherInit, OrderInv, HeardInOrder
<1> QED  BY <1>2, <1>3, PublisherInitTypes DEF PublisherInv

LEMMA PublisherKeepsInv ==
  ASSUME PublisherInv, [PublisherNext]_<<readerVars, publisherVars>>
  PROVE  PublisherInv'
  BY PublisherKeepsTypes, PublisherKeepsLossInv, PublisherKeepsOrderInv
     DEF PublisherInv

\* The publisher's inductive invariant.
THEOREM PublisherCorrect == PublisherSpec => []PublisherInv
<1>1. PublisherInv /\ [PublisherNext]_<<readerVars, publisherVars>>
      => PublisherInv'
  BY PublisherKeepsInv
<1> QED  BY <1>1, PublisherInitInv, PTL DEF PublisherSpec

\* NothingLost: no row is PROCESSED before subscribers heard it, and they hear
\* only what was committed, each event first once.
THEOREM NothingIsLost == PublisherSpec => []NothingLost
<1>1. PublisherInv => NothingLost
  BY DEF PublisherInv, LossInv, NothingLost
<1> QED  BY <1>1, PublisherCorrect, PTL

\* HeardInOrder: only an overtaken event, or one whose publish failed, is heard
\* after a later one.
THEOREM EventsAreHeardInOrder == PublisherSpec => []HeardInOrder
<1>1. PublisherInv => HeardInOrder
  BY DEF PublisherInv, OrderInv
<1> QED  BY <1>1, PublisherCorrect, PTL

----------------------------------------------------------------------------
(* The dispatcher.  DispatcherTypeOK is not inductive: the watermark is    *)
(* the highest of a batch only because a pass that plans has a batch.      *)

\* A watermark that skips only what was overtaken.
Covered(n) ==
  \A e \in (Committed \intersect Relevant) \ overtaken : e <= n => e \in Planned

PassOK(d) ==
  /\ pass[d].from \in Committed \union {0}
  /\ Covered(pass[d].from)
  /\ pass[d].at = "read" => pass[d].todo = {}
  /\ pass[d].at = "plan" =>
       /\ pass[d].batch # {} /\ IsFiniteSet(pass[d].batch)
       /\ pass[d].batch \subseteq Committed
       /\ pass[d].todo \subseteq pass[d].batch
       /\ \A e \in (Committed \intersect Relevant) \ overtaken :
            e <= Greatest(pass[d].batch) => e \in Planned \union pass[d].todo

WatermarkInv ==
  /\ cursor \in Committed \union {0}
  /\ Covered(cursor)
  /\ Planned \subseteq Committed
  /\ \A d \in Dispatchers : pass[d] # Idle => PassOK(d)

DispatcherInv == ReaderTypeOK /\ DispatcherTypeOK /\ WatermarkInv

LEMMA PassIsNotIdle ==
  ASSUME DispatcherTypeOK, NEW d \in Dispatchers
  PROVE  pass[d] # Idle <=> pass[d] \in Pass
  BY IdleIsNoPass DEF DispatcherTypeOK

\* A pass that has planned has a highest sequence to move the watermark to.
LEMMA BatchHasAGreatest ==
  ASSUME NEW d \in Dispatchers, PassOK(d), pass[d].at = "plan"
  PROVE  Greatest(pass[d].batch) \in Committed
<1>1. pass[d].batch \subseteq Nat
  BY CommittedAreSequences DEF PassOK
<1> QED  BY <1>1, GreatestExists DEF PassOK

\* What a step of the outbox leaves covered.
LEMMA CoverSurvivesCommits ==
  ASSUME OutboxTypeOK, OutboxNext, planned' = planned,
         NEW n \in Committed \union {0}, NEW S \in SUBSET Events,
         \A e \in (Committed \intersect Relevant) \ overtaken :
           e <= n => e \in Planned \union S
  PROVE  \A e \in (Committed' \intersect Relevant) \ overtaken' :
           e <= n => e \in Planned' \union S
<1> SUFFICES ASSUME NEW e \in (Committed' \intersect Relevant) \ overtaken', e <= n
             PROVE  e \in Planned' \union S
  OBVIOUS
<1>1. Planned' = Planned
  BY DEF Planned
<1>2. CASE e \in Committed
  BY <1>1, <1>2, LateCommitsAreOvertaken
<1>3. CASE e \notin Committed
  <2>1. e \in Nat \ {0}
    BY EventsAssumption DEF Committed
  <2>2. n \in Committed /\ n # e /\ n \in Nat
    BY <1>3, <2>1, CommittedAreSequences
  <2>3. n > e
    BY <2>1, <2>2
  <2> QED  BY <1>3, <2>2, <2>3, LateCommitsAreOvertaken
<1> QED  BY <1>2, <1>3

LEMMA DispatcherKeepsInv ==
  ASSUME DispatcherInv, [DispatcherNext]_<<readerVars, dispatcherVars>>
  PROVE  DispatcherInv'
<1> USE DEF DispatcherInv, ReaderTypeOK, readerVars, dispatcherVars
<1>1. CASE OutboxNext /\ UNCHANGED <<dispatcherVars, faults>>
  <2>1. OutboxTypeOK' /\ Committed \subseteq Committed' /\ Planned' = Planned
    BY <1>1, OutboxKeepsType, LateCommitsAreOvertaken DEF Planned
  <2>2. ASSUME NEW n \in Committed \union {0}, Covered(n)
        PROVE  Covered(n)'
    <3>1. \A e \in (Committed' \intersect Relevant) \ overtaken' :
            e <= n => e \in Planned' \union {}
      BY <1>1, <2>2, CoverSurvivesCommits DEF Covered
    <3> QED  BY <3>1 DEF Covered
  <2>3. ASSUME NEW d \in Dispatchers, pass[d] # Idle
        PROVE  PassOK(d)'
    <3>1. PassOK(d) /\ pass[d] \in Pass /\ pass'[d] = pass[d]
      BY <1>1, <2>3, PassIsNotIdle DEF WatermarkInv
    <3>2. pass'[d].from \in Committed' \union {0} /\ Covered(pass[d].from)'
      BY <2>1, <2>2, <3>1 DEF PassOK, Covered
    <3>3. ASSUME pass[d].at = "plan"
          PROVE  \A e \in (Committed' \intersect Relevant) \ overtaken' :
                   e <= Greatest(pass[d].batch) =>
                     e \in Planned' \union pass[d].todo
      <4>1. Greatest(pass[d].batch) \in Committed
        BY <3>1, <3>3, BatchHasAGreatest
      <4>2. pass[d].todo \in SUBSET Events
        BY <3>1 DEF Pass
      <4>3. \A e \in (Committed \intersect Relevant) \ overtaken :
              e <= Greatest(pass[d].batch) => e \in Planned \union pass[d].todo
        BY <3>1, <3>3 DEF PassOK
      <4> HIDE DEF DispatcherInv
      <4> QED
        BY <1>1, <4>1, <4>2, <4>3, CoverSurvivesCommits DEF DispatcherInv
    <3> QED  BY <2>1, <3>1, <3>2, <3>3 DEF PassOK
  <2>4. DispatcherTypeOK'
    BY <1>1 DEF DispatcherTypeOK
  <2>5. cursor' = cursor /\ Covered(cursor)'
    BY <1>1, <2>2 DEF WatermarkInv, Covered
  <2> QED  BY <1>1, <2>1, <2>3, <2>4, <2>5 DEF WatermarkInv
\* The steps of a dispatcher: the outbox stays, and what is planned grows.
<1>2. ASSUME UNCHANGED outboxVars, planned' \in [Events -> 0 .. 1],
             faults' \in 0 .. MaxFaults,
             Planned \subseteq Planned', Planned' \subseteq Committed,
             cursor' \in Committed \union {0}, Covered(cursor)',
             NEW d \in Dispatchers, NEW new \in Pass \union {Idle},
             pass' = [pass EXCEPT ![d] = new], new # Idle => PassOK(d)'
      PROVE  DispatcherInv'
  <2>1. OutboxTypeOK' /\ Committed' = Committed /\ overtaken' = overtaken
    BY <1>2 DEF outboxVars, OutboxTypeOK, Committed
  <2>2. DispatcherTypeOK'
    BY <1>2, CommittedAreSequences DEF DispatcherTypeOK
  <2>3. ASSUME NEW c \in Dispatchers, pass'[c] # Idle
        PROVE  PassOK(c)'
    <3>1. CASE c = d
      BY <1>2, <2>3, <3>1 DEF DispatcherTypeOK
    <3>2. CASE c # d
      <4>1. pass'[c] = pass[c] /\ PassOK(c)
        BY <1>2, <2>3, <3>2 DEF DispatcherTypeOK, WatermarkInv
      <4> QED  BY <1>2, <2>1, <4>1 DEF PassOK, Covered
    <3> QED  BY <3>1, <3>2
  <2> QED  BY <1>2, <2>1, <2>2, <2>3 DEF WatermarkInv
<1>3. ASSUME UNCHANGED <<outboxVars, planned>>
      PROVE  /\ Planned' = Planned /\ Committed' = Committed
             /\ planned' \in [Events -> 0 .. 1]
             /\ \A n : Covered(n)' <=> Covered(n)
  BY <1>3 DEF outboxVars, Planned, Committed, Covered, DispatcherTypeOK
<1>4. cursor \in Committed \union {0} /\ Covered(cursor) /\ Planned \subseteq Committed
  BY DEF WatermarkInv
<1>5. ASSUME NEW d \in Dispatchers, ReadCursor(d)
      PROVE  DispatcherInv'
  <2> DEFINE new == [at |-> "read", from |-> cursor, batch |-> {}, todo |-> {}]
  <2>1. UNCHANGED <<outboxVars, cursor, planned, faults>>
        /\ pass' = [pass EXCEPT ![d] = new]
    BY <1>5 DEF ReadCursor
  <2>2. new \in Pass
    BY DEF Pass, DispatcherTypeOK
  <2>3. pass'[d] = new
    BY <2>1 DEF DispatcherTypeOK
  <2>4. Covered(cursor)' /\ Covered(pass[d].from)'
    <3>1. UNCHANGED <<cursor, planned, phase, overtaken>> /\ pass'[d].from = cursor
      BY <2>1, <2>3 DEF outboxVars
    <3> QED  BY <1>4, <3>1 DEF Covered, Committed, Planned
  <2>5. PassOK(d)'
    BY <1>3, <1>4, <2>1, <2>3, <2>4 DEF PassOK
  <2> HIDE DEF new
  <2> QED  BY <1>2, <1>3, <1>4, <2>1, <2>2, <2>4, <2>5
<1>6. ASSUME NEW d \in Dispatchers, ReadBatch(d)
      PROVE  DispatcherInv'
  <2> DEFINE F == FirstBySequence(Beyond(pass[d].from), BatchSize)
             new == IF F = {} THEN Idle
                    ELSE [pass[d] EXCEPT !.at = "plan", !.batch = F, !.todo = F]
  <2>1. UNCHANGED <<outboxVars, cursor, planned, faults>>
        /\ pass' = [pass EXCEPT ![d] = new]
    BY <1>6 DEF ReadBatch
  <2>2. pass[d] \in Pass /\ PassOK(d)
    BY <1>6, PassIsNotIdle DEF ReadBatch, WatermarkInv
  <2>3. /\ F \subseteq Beyond(pass[d].from)
        /\ \A e \in F, f \in Beyond(pass[d].from) : f < e => f \in F
        /\ IsFiniteSet(F)
    <3>1. Beyond(pass[d].from) \subseteq Nat
      BY CommittedAreSequences DEF Beyond
    <3> QED  BY <3>1, BatchIsAPrefix, BatchSizeAssumption
  <2>4. F \subseteq Committed /\ F \subseteq Events
    BY <2>3, CommittedAreSequences DEF Beyond
  <2> HIDE DEF F
  <2>5. new # Idle => /\ new \in Pass /\ F # {}
                      /\ new.at = "plan" /\ new.from = pass[d].from
                      /\ new.batch = F /\ new.todo = F
    BY <2>2, <2>4 DEF Pass
  <2>6. pass'[d] = new
    BY <2>1 DEF DispatcherTypeOK
  <2>7. ASSUME F # {}, NEW e \in (Committed \intersect Relevant) \ overtaken,
               e <= Greatest(F)
        PROVE  e \in Planned \union F
    <3>1. Greatest(F) \in F
      BY <2>3, <2>4, <2>7, GreatestExists, CommittedAreSequences
    <3>2. e \in Nat /\ Greatest(F) \in Nat /\ pass[d].from \in Nat
      <4>1. pass[d].from \in Committed \union {0}
        BY <2>2 DEF PassOK
      <4>2. e \in Committed /\ Greatest(F) \in Committed
        BY <2>4, <2>7, <3>1
      <4>3. Committed \subseteq Nat /\ 0 \in Nat
        BY CommittedAreSequences
      <4> QED  BY <4>1, <4>2, <4>3
    <3>3. CASE e <= pass[d].from
      BY <2>2, <3>3 DEF PassOK, Covered
    <3>4. CASE e > pass[d].from
      <4>1. e \in Beyond(pass[d].from)
        BY <3>4 DEF Beyond
      <4>2. e = Greatest(F) \/ e < Greatest(F)
        BY <2>7, <3>2
      <4> QED  BY <2>3, <3>1, <4>1, <4>2
    <3> QED  BY <3>2, <3>3, <3>4
  <2>8. Covered(cursor)'
    BY <1>3, <1>4, <2>1 DEF Covered
  <2> HIDE DEF new
  <2>9. new # Idle => PassOK(d)'
    <3> SUFFICES ASSUME new # Idle PROVE PassOK(d)'
      OBVIOUS
    <3>1. UNCHANGED <<planned, phase, overtaken>> /\ pass'[d].from = pass[d].from
      BY <2>1, <2>5, <2>6 DEF outboxVars
    <3>2. Covered(pass[d].from)'
      BY <2>2, <3>1 DEF PassOK, Covered, Committed, Planned
    <3>3. overtaken' = overtaken
      BY <2>1 DEF outboxVars
    <3> QED  BY <1>3, <2>1, <2>2, <2>3, <2>4, <2>5, <2>6, <2>7, <3>2, <3>3 DEF PassOK
  <2>10. new \in Pass \union {Idle}
    BY <2>5
  <2> QED  BY <1>2, <1>3, <1>4, <2>1, <2>8, <2>9, <2>10
<1>7. ASSUME NEW d \in Dispatchers, DispatchForTenant(d)
      PROVE  DispatcherInv'
  <2> DEFINE t  == TenantOf[Least(pass[d].todo)]
             es == {e \in pass[d].todo : TenantOf[e] = t}
             new == [pass[d] EXCEPT !.todo = @ \ es]
  <2>1. /\ UNCHANGED <<outboxVars, cursor, faults>>
        /\ pass' = [pass EXCEPT ![d] = new]
        /\ planned' = [e \in Events |-> IF e \in es \intersect Relevant
                                        THEN 1 ELSE planned[e]]
    BY <1>7 DEF DispatchForTenant, InsertRows
  <2>2. pass[d] \in Pass /\ PassOK(d) /\ pass[d].todo # {}
    BY <1>7, PassIsNotIdle DEF DispatchForTenant, WatermarkInv
  <2>3. /\ pass[d].at = "plan" /\ pass[d].todo \subseteq Committed
        /\ es \subseteq pass[d].todo /\ es \subseteq Events
    BY <2>2, CommittedAreSequences DEF Pass, PassOK
  <2> HIDE DEF t, es
  <2>4. /\ new \in Pass /\ new.from = pass[d].from /\ new.at = "plan"
        /\ new.batch = pass[d].batch /\ new.todo = pass[d].todo \ es
    BY <2>2, <2>3 DEF Pass
  <2> HIDE DEF new
  <2>5. /\ planned' \in [Events -> 0 .. 1]
        /\ Planned' = Planned \union (es \intersect Relevant)
    BY <2>1, <2>3 DEF DispatcherTypeOK, Planned
  <2>6. Committed' = Committed /\ overtaken' = overtaken
    BY <2>1 DEF outboxVars, Committed
  <2>7. Covered(cursor)'
    BY <1>4, <2>1, <2>5, <2>6 DEF Covered
  <2>8. pass'[d] = new
    BY <2>1 DEF DispatcherTypeOK
  <2>9. PassOK(d)'
    <3>1. Covered(pass[d].from)'
      BY <2>2, <2>4, <2>5, <2>6, <2>8 DEF PassOK, Covered
    <3>2. \A e \in (Committed' \intersect Relevant) \ overtaken' :
            e <= Greatest(pass'[d].batch) => e \in Planned' \union pass'[d].todo
      BY <2>2, <2>3, <2>4, <2>5, <2>6, <2>8 DEF PassOK
    <3> QED  BY <2>2, <2>3, <2>4, <2>6, <2>8, <3>1, <3>2 DEF PassOK
  <2> QED  BY <1>2, <1>4, <2>1, <2>3, <2>4, <2>5, <2>6, <2>7, <2>9
<1>8. ASSUME NEW d \in Dispatchers, AdvanceCursor(d)
      PROVE  DispatcherInv'
  <2>1. /\ UNCHANGED <<outboxVars, planned, faults>>
        /\ pass' = [pass EXCEPT ![d] = Idle]
        /\ cursor' = Greatest(pass[d].batch)
        /\ pass[d].at = "plan" /\ pass[d].todo = {}
    BY <1>8 DEF AdvanceCursor
  <2>2. PassOK(d)
    BY <1>8 DEF AdvanceCursor, WatermarkInv
  <2>3. cursor' \in Committed
    BY <2>1, <2>2, BatchHasAGreatest
  <2>4. Covered(Greatest(pass[d].batch))
    BY <2>1, <2>2 DEF PassOK, Covered
  <2>5. Covered(cursor)'
    BY <1>3, <2>1, <2>4 DEF Covered, outboxVars
  <2> QED  BY <1>2, <1>3, <1>4, <2>1, <2>3, <2>5
<1>9. ASSUME NEW d \in Dispatchers, DispatcherFault(d)
      PROVE  DispatcherInv'
  <2>1. /\ UNCHANGED <<outboxVars, cursor, planned>>
        /\ pass' = [pass EXCEPT ![d] = Idle]
        /\ faults' \in 0 .. MaxFaults
    BY <1>9, MaxFaultsAssumption DEF DispatcherFault
  <2>2. Covered(cursor)'
    BY <1>3, <1>4, <2>1 DEF Covered
  <2> QED  BY <1>2, <1>3, <1>4, <2>1, <2>2
<1>10. CASE UNCHANGED <<readerVars, dispatcherVars>>
  <2>1. OutboxTypeOK'
    BY <1>10 DEF outboxVars, OutboxTypeOK, Committed
  <2>2. Covered(cursor)'
    BY <1>3, <1>4, <1>10 DEF Covered
  <2>3. ASSUME NEW d \in Dispatchers, pass'[d] # Idle
        PROVE  PassOK(d)'
    BY <1>3, <1>10, <2>3 DEF WatermarkInv, PassOK, Covered, outboxVars
  <2> QED  BY <1>3, <1>4, <1>10, <2>1, <2>2, <2>3 DEF WatermarkInv, DispatcherTypeOK
<1> QED
  BY <1>1, <1>5, <1>6, <1>7, <1>8, <1>9, <1>10 DEF DispatcherNext, Dispatch

LEMMA DispatcherInitInv ==
  ReaderInit /\ DispatcherInit => DispatcherInv
<1> SUFFICES ASSUME ReaderInit, DispatcherInit PROVE DispatcherInv
  OBVIOUS
<1>1. Committed = {} /\ Planned = {}
  BY DEF ReaderInit, OutboxInit, DispatcherInit, Committed, Planned
<1>2. ReaderTypeOK
  BY MaxFaultsAssumption, <1>1
     DEF ReaderInit, OutboxInit, ReaderTypeOK, OutboxTypeOK
<1> QED
  BY <1>1, <1>2 DEF DispatcherInit, DispatcherInv, DispatcherTypeOK,
                    WatermarkInv, Covered

\* OnlyOvertakenAreSkipped: below the watermark everything that was not
\* overtaken is planned, and only what committed is.
THEOREM OvertakenAlone == DispatcherSpec => []OnlyOvertakenAreSkipped
<1>1. DispatcherInv /\ [DispatcherNext]_<<readerVars, dispatcherVars>>
      => DispatcherInv'
  BY DispatcherKeepsInv
<1>2. DispatcherInv => OnlyOvertakenAreSkipped
  BY DEF DispatcherInv, WatermarkInv, Covered, OnlyOvertakenAreSkipped, Owed
<1> QED  BY <1>1, <1>2, DispatcherInitInv, PTL DEF DispatcherSpec

----------------------------------------------------------------------------
(* Both readers of one outbox, as the run composes them. *)

\* The part a behaviour is not of stays as it begins.
PartInv ==
  \/ part = "publisher" /\ PublisherInv /\ DispatcherInit
  \/ part = "dispatcher" /\ DispatcherInv /\ PublisherInit

LEMMA PartsKeepInv ==
  ASSUME PartInv, [Next]_vars
  PROVE  PartInv'
<1>1. CASE part = "publisher"
  <2>1. PublisherInv /\ DispatcherInit
    BY <1>1 DEF PartInv
  <2>2. /\ [PublisherNext]_<<readerVars, publisherVars>>
        /\ UNCHANGED <<part, dispatcherVars>>
    BY <1>1 DEF Next, vars
  <2>3. PublisherInv'
    BY <2>1, <2>2, PublisherKeepsInv
  <2>4. DispatcherInit'
    BY <2>1, <2>2 DEF DispatcherInit, dispatcherVars
  <2> QED  BY <1>1, <2>2, <2>3, <2>4 DEF PartInv
<1>2. CASE part = "dispatcher"
  <2>1. DispatcherInv /\ PublisherInit
    BY <1>2 DEF PartInv
  <2>2. /\ [DispatcherNext]_<<readerVars, dispatcherVars>>
        /\ UNCHANGED <<part, publisherVars>>
    BY <1>2 DEF Next, vars
  <2>3. DispatcherInv'
    BY <2>1, <2>2, DispatcherKeepsInv
  <2>4. PublisherInit'
    BY <2>1, <2>2 DEF PublisherInit, publisherVars
  <2> QED  BY <1>2, <2>2, <2>3, <2>4 DEF PartInv
<1> QED  BY <1>1, <1>2 DEF PartInv

LEMMA PartsAlways == Spec => []PartInv
<1>1. Init => PartInv
  BY PublisherInitInv, DispatcherInitInv DEF Init, PartInv
<1>2. PartInv /\ [Next]_vars => PartInv'
  BY PartsKeepInv
<1> QED  BY <1>1, <1>2, PTL DEF Spec

\* TypeOK of the two readers side by side.
THEOREM TypeCorrect == Spec => []TypeOK
<1>1. ASSUME PublisherInv, DispatcherInit PROVE TypeOK
  BY <1>1 DEF PublisherInv, DispatcherInit, TypeOK, DispatcherTypeOK
<1>2. ASSUME DispatcherInv, PublisherInit PROVE TypeOK
  <2>1. PublisherTypeOK
    BY <1>2 DEF PublisherInit, PublisherTypeOK
  <2> QED  BY <1>2, <2>1 DEF DispatcherInv, TypeOK
<1>3. PartInv => TypeOK
  BY <1>1, <1>2 DEF PartInv
<1> QED  BY <1>3, PartsAlways, PTL

----------------------------------------------------------------------------
(* Each reader implements EventLog. *)

\* What EventLog sees of a transaction: its commit.
LEMMA CommitsAreSeen ==
  ASSUME OutboxTypeOK, OutboxNext
  PROVE  \/ Committed' = Committed /\ overtaken' = overtaken
         \/ \E e \in Events :
              /\ e \notin Committed
              /\ Committed' = Committed \union {e}
              /\ overtaken' = IF \E f \in Committed : f > e
                                THEN overtaken \union {e} ELSE overtaken
<1>1. CASE \E e \in Events : Insert(e) \/ RollbackEvent(e)
  BY <1>1 DEF OutboxTypeOK, Insert, RollbackEvent, Committed
<1>2. ASSUME NEW e \in Events, CommitEvent(e)
      PROVE  /\ e \notin Committed
             /\ Committed' = Committed \union {e}
             /\ overtaken' = IF \E f \in Committed : f > e
                               THEN overtaken \union {e} ELSE overtaken
  BY <1>2 DEF OutboxTypeOK, CommitEvent, Committed
<1> QED  BY <1>1, <1>2 DEF OutboxNext

LEMMA CommitsAreSeenByPublisher ==
  ASSUME OutboxTypeOK, OutboxNext, UNCHANGED publisherVars
  PROVE  [PublisherLog!Next]_PublisherLog!vars
<1>1. /\ Heard' = Heard /\ bounced' = bounced /\ Processed' = Processed
  BY DEF publisherVars, Heard, Processed
<1>2. CASE Committed' = Committed /\ overtaken' = overtaken
  BY <1>1, <1>2 DEF PublisherLog!vars
<1>3. ASSUME NEW e \in Events, e \notin Committed,
             Committed' = Committed \union {e},
             overtaken' = IF \E f \in Committed : f > e
                            THEN overtaken \union {e} ELSE overtaken
      PROVE  PublisherLog!Next
  BY <1>1, <1>3 DEF PublisherLog!Next, PublisherLog!Commit
<1> QED  BY <1>2, <1>3, CommitsAreSeen

LEMMA CommitsAreSeenByDispatcher ==
  ASSUME OutboxTypeOK, OutboxNext, UNCHANGED dispatcherVars
  PROVE  [DispatcherLog!Next]_DispatcherLog!vars
<1>1. /\ Planned' = Planned /\ cursor' = cursor
      /\ {e \in Events : e <= cursor'} = {e \in Events : e <= cursor}
  BY DEF dispatcherVars, Planned
<1>2. CASE Committed' = Committed /\ overtaken' = overtaken
  BY <1>1, <1>2 DEF DispatcherLog!vars
<1>3. ASSUME NEW e \in Events, e \notin Committed,
             Committed' = Committed \union {e},
             overtaken' = IF \E f \in Committed : f > e
                            THEN overtaken \union {e} ELSE overtaken
      PROVE  DispatcherLog!Next
  BY <1>1, <1>3 DEF DispatcherLog!Next, DispatcherLog!Commit
<1> QED  BY <1>2, <1>3, CommitsAreSeen

\* A publish serves its event, a refused one is refused, and a mark leaves behind
\* what was sent; the rest EventLog does not see.
LEMMA PublisherStepIsLogStep ==
  ASSUME PublisherInv, [PublisherNext]_<<readerVars, publisherVars>>
  PROVE  [PublisherLog!Next]_PublisherLog!vars
<1> USE DEF PublisherInv
<1>1. CASE OutboxNext /\ UNCHANGED <<publisherVars, faults>>
  BY <1>1, CommitsAreSeenByPublisher DEF ReaderTypeOK
<1>2. ASSUME UNCHANGED outboxVars
      PROVE  Committed' = Committed /\ overtaken' = overtaken
  BY <1>2 DEF outboxVars, Committed
<1>3. ASSUME UNCHANGED <<outboxVars, status, heard, bounced>>
      PROVE  UNCHANGED PublisherLog!vars
  BY <1>2, <1>3 DEF PublisherLog!vars, Heard, Processed
<1>4. ASSUME NEW p \in Publishers, NEW e \in Events, Publish(p, e)
      PROVE  PublisherLog!Serve({e}) \/ UNCHANGED PublisherLog!vars
  <2>1. /\ batch[p] # Idle /\ batch[p] \in Batch
        /\ e \in batch[p].todo /\ e \in Committed
        /\ \A f \in batch[p].todo : e <= f
    BY <1>4, NextIsLowest, BatchIsNotIdle DEF Publish
  <2>2. CASE e \in Heard
    BY <1>3, <1>4, <2>2 DEF Publish
  <2>3. CASE e \notin Heard
    <3>1. Heard' = Heard \union {e}
      BY <1>4, <2>3, HearingAppends DEF Publish, PublisherTypeOK
    <3>2. \A f \in Committed : f < e => f \in Heard \union {e} \union overtaken \union bounced
      <4> SUFFICES ASSUME NEW f \in Committed, f < e
                   PROVE  f \in Heard \union overtaken \union bounced
        OBVIOUS
      <4>1. f \in Heard \union Excused \union batch[p].todo
        BY <2>1 DEF OrderInv
      <4>2. f \notin batch[p].todo
        <5>1. e \in Nat /\ f \in Nat
          BY <2>1, CommittedAreSequences
        <5> QED  BY <2>1, <5>1
      <4> QED  BY <4>1, <4>2 DEF Excused
    <3>3. Processed' = Processed /\ bounced' = bounced
      BY <1>4 DEF Publish, Processed
    <3> QED
      BY <1>2, <1>4, <2>1, <3>1, <3>2, <3>3 DEF Publish, PublisherLog!Serve
  <2> QED  BY <2>2, <2>3
<1>5. ASSUME NEW p \in Publishers, NEW e \in Events, PublishFails(p, e)
      PROVE  PublisherLog!Refuse(e)
  <2>1. e \in Committed
    BY <1>5, NextIsLowest DEF PublishFails
  <2> QED  BY <1>2, <1>5, <2>1 DEF PublishFails, PublisherLog!Refuse, Heard, Processed
<1>6. ASSUME NEW p \in Publishers, Mark(p)
      PROVE  \E S \in SUBSET Events : PublisherLog!LeaveRows(S)
  <2>1. batch[p] \in Batch /\ batch[p].sent \subseteq Heard
    BY <1>6, BatchIsNotIdle DEF Mark, LossInv
  <2>2. batch[p].sent \in SUBSET Events
    BY <2>1 DEF Batch
  <2>3. Processed' = Processed \union batch[p].sent
    BY <1>6, <2>2 DEF Mark, Processed, PublisherTypeOK
  <2>4. Heard' = Heard /\ bounced' = bounced
    BY <1>6 DEF Mark, Heard
  <2>5. PublisherLog!LeaveRows(batch[p].sent)
    BY <1>2, <1>6, <2>1, <2>3, <2>4 DEF Mark, PublisherLog!LeaveRows
  <2> QED  BY <2>2, <2>5
<1>7. ASSUME NEW p \in Publishers, Read(p) \/ Crash(p)
      PROVE  UNCHANGED PublisherLog!vars
  BY <1>3, <1>7 DEF Read, Crash
<1>8. CASE UNCHANGED <<readerVars, publisherVars>>
  BY <1>3, <1>8 DEF readerVars, publisherVars
<1>9. \A e \in Events : {e} \in SUBSET Events
  OBVIOUS
<1> QED
  BY <1>1, <1>4, <1>5, <1>6, <1>7, <1>8, <1>9
     DEF PublisherNext, Drain, PublisherFault, PublisherLog!Next

\* A tenant's transaction serves what is left of its events, and the upsert of the
\* watermark leaves behind everything up to it.
LEMMA DispatcherStepIsLogStep ==
  ASSUME DispatcherInv, [DispatcherNext]_<<readerVars, dispatcherVars>>
  PROVE  [DispatcherLog!Next]_DispatcherLog!vars
<1> USE DEF DispatcherInv
<1>1. CASE OutboxNext /\ UNCHANGED <<dispatcherVars, faults>>
  BY <1>1, CommitsAreSeenByDispatcher DEF ReaderTypeOK
<1>2. ASSUME UNCHANGED outboxVars
      PROVE  Committed' = Committed /\ overtaken' = overtaken
  BY <1>2 DEF outboxVars, Committed
<1>3. ASSUME UNCHANGED <<outboxVars, cursor, planned>>
      PROVE  UNCHANGED DispatcherLog!vars
  BY <1>2, <1>3 DEF DispatcherLog!vars, Planned
<1>4. ASSUME NEW d \in Dispatchers, DispatchForTenant(d)
      PROVE  \E S \in SUBSET Events : DispatcherLog!Serve(S)
  <2> DEFINE t  == TenantOf[Least(pass[d].todo)]
             es == {e \in pass[d].todo : TenantOf[e] = t}
             S  == es \intersect Relevant
  <2>1. /\ UNCHANGED <<outboxVars, cursor, faults>>
        /\ planned' = [e \in Events |-> IF e \in S THEN 1 ELSE planned[e]]
    BY <1>4 DEF DispatchForTenant, InsertRows
  <2>2. /\ pass[d] \in Pass /\ PassOK(d) /\ pass[d].todo # {}
        /\ pass[d].at = "plan" /\ pass[d].todo \subseteq pass[d].batch
        /\ pass[d].batch \subseteq Committed /\ IsFiniteSet(pass[d].batch)
    BY <1>4, PassIsNotIdle DEF DispatchForTenant, WatermarkInv, Pass, PassOK
  <2>3. /\ S \subseteq Committed \intersect Relevant /\ S \subseteq Events
        /\ \A e \in S : e \in pass[d].todo /\ TenantOf[e] = t
        /\ \A e \in pass[d].todo \intersect Relevant : TenantOf[e] = t => e \in S
    BY <2>2, CommittedAreSequences
  <2> HIDE DEF S, es, t
  <2>4. Planned' = Planned \union S
    BY <2>1, <2>3 DEF DispatcherTypeOK, Planned
  <2>5. ASSUME NEW e \in S, NEW f \in Committed \intersect Relevant,
               f < e, TenantOf[f] = TenantOf[e]
        PROVE  f \in Planned \union S \union overtaken
    <3>1. f <= Greatest(pass[d].batch)
      <4>1. e \in pass[d].batch /\ pass[d].batch \subseteq Nat /\ f \in Nat
        BY <2>2, <2>3, CommittedAreSequences
      <4>2. Greatest(pass[d].batch) \in Nat /\ e <= Greatest(pass[d].batch)
        BY <2>2, <4>1, GreatestExists
      <4>3. e \in Nat
        BY <4>1
      <4> QED  BY <2>5, <4>1, <4>2, <4>3
    <3>2. CASE f \in overtaken
      BY <3>2
    <3>3. CASE f \notin overtaken
      <4>1. f \in Planned \union pass[d].todo
        BY <2>2, <3>1, <3>3 DEF PassOK
      <4> QED  BY <2>3, <2>5, <4>1
    <3> QED  BY <3>2, <3>3
  <2>6. \A e, f \in S : TenantOf[e] = TenantOf[f]
    BY <2>3
  <2>7. DispatcherLog!Serve(S)
    BY <1>2, <2>1, <2>3, <2>4, <2>5, <2>6 DEF DispatcherLog!Serve
  <2> QED  BY <2>3, <2>7
<1>5. ASSUME NEW d \in Dispatchers, AdvanceCursor(d)
      PROVE  \E n \in Events : DispatcherLog!LeaveUpTo(n)
  <2>1. /\ UNCHANGED <<outboxVars, planned, faults>>
        /\ cursor' = Greatest(pass[d].batch)
        /\ pass[d].at = "plan" /\ pass[d].todo = {}
        /\ PassOK(d)
    BY <1>5 DEF AdvanceCursor, WatermarkInv
  <2>2. PICK n \in Events : n = Greatest(pass[d].batch) /\ n \in Committed
    BY <2>1, BatchHasAGreatest, CommittedAreSequences
  <2>3. \A e \in (Committed \intersect Relevant) \ overtaken : e <= n => e \in Planned
    BY <2>1, <2>2 DEF PassOK
  <2>4. cursor' = n /\ Planned' = Planned
    BY <2>1, <2>2 DEF Planned
  <2>5. DispatcherLog!LeaveUpTo(n)
    <3>1. {e \in Events : e <= cursor'} = {e \in Events : e <= n}
      BY <2>4
    <3>2. ({e \in Events : e <= n} \intersect Committed \intersect Relevant) \ overtaken
            \subseteq Planned
      BY <2>3
    <3> QED  BY <1>2, <2>1, <2>2, <2>4, <3>1, <3>2 DEF DispatcherLog!LeaveUpTo
  <2> QED  BY <2>2, <2>5
<1>6. ASSUME NEW d \in Dispatchers, ReadCursor(d) \/ ReadBatch(d) \/ DispatcherFault(d)
      PROVE  UNCHANGED DispatcherLog!vars
  BY <1>3, <1>6 DEF ReadCursor, ReadBatch, DispatcherFault
<1>7. CASE UNCHANGED <<readerVars, dispatcherVars>>
  BY <1>3, <1>7 DEF readerVars, dispatcherVars
<1> QED
  BY <1>1, <1>4, <1>5, <1>6, <1>7
     DEF DispatcherNext, Dispatch, DispatcherLog!Next

LEMMA LogsBegin ==
  /\ ReaderInit /\ PublisherInit => PublisherLog!Init
  /\ ReaderInit /\ DispatcherInit => DispatcherLog!Init
<1>1. ASSUME ReaderInit PROVE Committed = {} /\ overtaken = {}
  BY <1>1 DEF ReaderInit, OutboxInit, Committed
<1>2. ASSUME ReaderInit, PublisherInit PROVE PublisherLog!Init
  BY <1>1, <1>2 DEF PublisherInit, PublisherLog!Init, Heard, Processed
<1>3. ASSUME ReaderInit, DispatcherInit PROVE DispatcherLog!Init
  <2>1. \A e \in Events : ~(e <= 0)
    BY EventsAssumption
  <2> QED  BY <1>1, <1>3, <2>1 DEF DispatcherInit, DispatcherLog!Init, Planned
<1> QED  BY <1>2, <1>3

\* ImplementsLog: each reader, by itself or in the run, reads the outbox as EventLog
\* says: in order within a stream, leaving nothing behind unserved, but for late and
\* refused events.
THEOREM ReadersImplementLog == Spec => ImplementsLog
<1>1. Init => PublisherLog!Init /\ DispatcherLog!Init
  BY LogsBegin DEF Init
<1>2. ASSUME PartInv, [Next]_vars
      PROVE  /\ [PublisherLog!Next]_PublisherLog!vars
             /\ [DispatcherLog!Next]_DispatcherLog!vars
  <2>1. ASSUME UNCHANGED <<outboxVars, publisherVars>>
        PROVE  UNCHANGED PublisherLog!vars
    BY <2>1 DEF outboxVars, publisherVars, PublisherLog!vars, Committed, Heard, Processed
  <2>2. ASSUME UNCHANGED <<outboxVars, dispatcherVars>>
        PROVE  UNCHANGED DispatcherLog!vars
    BY <2>2 DEF outboxVars, dispatcherVars, DispatcherLog!vars, Committed, Planned
  <2>3. OutboxTypeOK
    BY <1>2 DEF PartInv, PublisherInv, DispatcherInv, ReaderTypeOK
  <2>4. CASE part = "publisher"
    <3>1. PublisherInv /\ [PublisherNext]_<<readerVars, publisherVars>>
          /\ UNCHANGED dispatcherVars
      BY <1>2, <2>4 DEF PartInv, Next, vars
    <3>2. OutboxNext \/ UNCHANGED outboxVars
      BY <3>1 DEF PublisherNext, Drain, PublisherFault, Read, Publish, Mark,
                  PublishFails, Crash, readerVars
    <3> QED
      BY <2>2, <2>3, <3>1, <3>2, PublisherStepIsLogStep, CommitsAreSeenByDispatcher
  <2>5. CASE part = "dispatcher"
    <3>1. DispatcherInv /\ [DispatcherNext]_<<readerVars, dispatcherVars>>
          /\ UNCHANGED publisherVars
      BY <1>2, <2>5 DEF PartInv, Next, vars
    <3>2. OutboxNext \/ UNCHANGED outboxVars
      BY <3>1 DEF DispatcherNext, Dispatch, ReadCursor, ReadBatch, DispatchForTenant,
                  AdvanceCursor, DispatcherFault, readerVars
    <3> QED
      BY <2>1, <2>3, <3>1, <3>2, DispatcherStepIsLogStep, CommitsAreSeenByPublisher
  <2> QED  BY <1>2, <2>4, <2>5 DEF PartInv
<1> QED
  BY <1>1, <1>2, PartsAlways, PTL
     DEF Spec, ImplementsLog, PublisherLog!Spec, DispatcherLog!Spec

\* EventLog!InOrder of the dispatcher: a tenant's notifications are planned in the order
\* of its events, whichever dispatcher plans them and however often they start again.
THEOREM TenantsAreServedInOrder == Spec => []DispatcherLog!InOrder
<1> USE DEF DispatcherLog!InOrder
<1>1. Init => DispatcherLog!InOrder
  BY DEF Init, DispatcherInit, Planned
<1>2. ASSUME PartInv PROVE Planned \subseteq Committed
  BY <1>2 DEF PartInv, DispatcherInv, WatermarkInv, DispatcherInit, Planned
<1>3. ASSUME PartInv, DispatcherLog!InOrder, [DispatcherLog!Next]_DispatcherLog!vars
      PROVE  DispatcherLog!InOrder'
  <2>1. Committed \subseteq Nat /\ Planned \subseteq Committed
    BY <1>2, <1>3, CommittedAreSequences
  <2>2. ASSUME NEW e \in Events, DispatcherLog!Commit(e)
        PROVE  DispatcherLog!InOrder'
    <3>1. /\ Committed' = Committed \union {e}
          /\ Planned' = Planned
          /\ overtaken \subseteq overtaken'
          /\ (\E f \in Committed : f > e) => e \in overtaken'
      BY <2>2 DEF DispatcherLog!Commit
    <3> SUFFICES ASSUME NEW g \in Planned, NEW f \in Committed' \intersect Relevant,
                        f < g, TenantOf[f] = TenantOf[g]
                 PROVE  f \in Planned \union overtaken'
      BY <3>1
    <3>2. CASE f \in Committed
      BY <1>3, <3>1, <3>2
    <3>3. CASE f = e
      <4>1. g \in Committed /\ g \in Nat /\ e \in Nat
        BY <2>1, EventsAssumption
      <4>2. g > e
        BY <3>3, <4>1
      <4> QED  BY <3>1, <3>3, <4>1, <4>2
    <3> QED  BY <3>1, <3>2, <3>3
  <2>3. ASSUME NEW S \in SUBSET Events, DispatcherLog!Serve(S)
        PROVE  DispatcherLog!InOrder'
    BY <1>3, <2>3 DEF DispatcherLog!Serve
  <2>4. ASSUME UNCHANGED <<Committed, overtaken, Planned>>
        PROVE  DispatcherLog!InOrder'
    BY <1>3, <2>4
  <2>5. ASSUME NEW e \in Events, DispatcherLog!Refuse(e) \/ DispatcherLog!LeaveUpTo(e)
        PROVE  DispatcherLog!InOrder'
    BY <2>4, <2>5 DEF DispatcherLog!Refuse, DispatcherLog!LeaveUpTo
  <2>6. ASSUME NEW S \in SUBSET Events, DispatcherLog!LeaveRows(S)
        PROVE  DispatcherLog!InOrder'
    BY <2>4, <2>6 DEF DispatcherLog!LeaveRows
  <2>7. CASE UNCHANGED DispatcherLog!vars
    BY <2>4, <2>7 DEF DispatcherLog!vars
  <2> QED  BY <1>3, <2>2, <2>3, <2>5, <2>6, <2>7 DEF DispatcherLog!Next
<1>4. Spec => [][DispatcherLog!Next]_DispatcherLog!vars
  BY ReadersImplementLog, PTL DEF ImplementsLog, DispatcherLog!Spec
<1> QED  BY <1>1, <1>3, <1>4, PartsAlways, PTL DEF Spec
=============================================================================
