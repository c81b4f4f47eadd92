-------------------------- MODULE EscalationProofs --------------------------
(***************************************************************************)
(* What EscalationMonitor promises for any number of orders and workers,   *)
(* any settings, any limits on what a sweep reads and any number of        *)
(* failures: the type invariant with one event per escalation, the order   *)
(* in which rungs are raised, what a finished pass has raised, and that a  *)
(* banner is never taken down too early.                                   *)
(***************************************************************************)
EXTENDS EscalationMonitor, FiniteSetTheorems, TLAPS

----------------------------------------------------------------------------
(* The ladder. *)

\* Rungs have levels the table has rows for, and no two share a level, whether
\* the settings are sane or not.
LEMMA LadderFacts ==
  ASSUME settings \in Settings
  PROVE  /\ \A r \in Ladder : r \in Rung /\ r.level \in Levels
         /\ \A q, r \in Ladder : q.level = r.level => q = r
<1>1. PICK s \in Settings \union {DefaultLadder} : IsSane(s) /\ Ladder = Range(s)
  <2>1. CASE IsSane(settings)
    BY <2>1 DEF Ladder
  <2>2. CASE ~IsSane(settings)
    BY <2>2, DefaultLadderAssumption DEF Ladder
  <2> QED  BY <2>1, <2>2
<1>2. s \in Seq(Rung)
  BY SettingsAssumption, DefaultLadderAssumption
<1>3. \A r \in Range(s) : \E i \in DOMAIN s : r = s[i] /\ s[i] \in Rung
  BY <1>2 DEF Range
<1>4. \A r \in Range(s) : r.level \in Levels
  BY DEF Levels
<1>5. \A q, r \in Range(s) : q.level = r.level => q = r
  BY <1>1, <1>3 DEF IsSane
<1> QED  BY <1>1, <1>3, <1>4, <1>5

----------------------------------------------------------------------------
(* What a worker in the middle of a sweep knows, which TypeOK leaves out:  *)
(* the orders it found were confirmed when it began, what it raises is of  *)
(* the ladder, and what it resolves was raised.                            *)

SweepOK(w) ==
  /\ sweep[w].now <= clock
  /\ sweep[w].todo \subseteq sweep[w].found
  /\ \A o \in sweep[w].found :
       status[o] # "early" /\ confirmedAt[o] <= sweep[w].now
  /\ sweep[w].at = "rung" <=> sweep[w].due # {}
  /\ sweep[w].at = "rung" => /\ sweep[w].order \in sweep[w].found \ sweep[w].todo
                             /\ sweep[w].due \subseteq Ladder
  /\ \A k \in sweep[w].rows : escalation[k] # None

Sweeps ==
  /\ sweep \in [Workers -> SweepState \union {None}]
  /\ \A w \in Workers : sweep[w] # None => SweepOK(w)
  /\ \A k \in Keys : escalation[k] # None => status[k[1]] # "early"

\* Nothing goes back: not the clock, not an order, not an escalation.
Onward ==
  /\ settings' = settings
  /\ clock' \in Nat /\ clock <= clock'
  /\ \A o \in Orders :
       /\ status[o] # "early" =>
            status'[o] # "early" /\ confirmedAt'[o] = confirmedAt[o]
       /\ status[o] = "acknowledged" => status'[o] = "acknowledged"
       /\ status'[o] = "CONFIRMED" =>
            \/ status[o] = "CONFIRMED"
            \/ confirmedAt'[o] = clock'
  /\ \A k \in Keys : escalation[k] # None => escalation'[k] # None

LEMMA SweepGoesOnward ==
  ASSUME Onward, TypeOK, Sweeps, NEW w \in Workers, sweep[w] # None,
         sweep'[w] = sweep[w]
  PROVE  SweepOK(w)'
<1>1. SweepOK(w) /\ sweep[w] \in SweepState
  BY DEF Sweeps
<1>2. Ladder' = Ladder
  BY DEF Onward, Ladder
<1>3. /\ sweep[w].now \in Nat /\ clock \in Nat
      /\ sweep[w].found \subseteq Orders /\ sweep[w].rows \subseteq Keys
  BY <1>1, BoundsAssumption DEF SweepState, TypeOK
<1> QED  BY <1>1, <1>2, <1>3 DEF Onward, SweepOK

\* What a worker has to show after a step of its own.
LEMMA OneWorkerMoves ==
  ASSUME TypeOK, Sweeps, Onward, NEW w \in Workers,
         NEW new \in SweepState \union {None},
         sweep' = [sweep EXCEPT ![w] = new], new # None => SweepOK(w)',
         \A k \in Keys : escalation'[k] # None => status'[k[1]] # "early"
  PROVE  Sweeps'
<1>1. ASSUME NEW v \in Workers, sweep'[v] # None
      PROVE  SweepOK(v)'
  <2>1. CASE v = w
    BY <1>1, <2>1 DEF Sweeps
  <2>2. CASE v # w
    <3>1. sweep'[v] = sweep[v]
      BY <2>2 DEF Sweeps
    <3> QED  BY <1>1, <3>1, SweepGoesOnward
  <2> QED  BY <2>1, <2>2
<1> QED  BY <1>1 DEF Sweeps

LEMMA WorldMoves ==
  ASSUME TypeOK, Sweeps, Onward, UNCHANGED <<escalation, sweep>>
  PROVE  Sweeps'
<1>1. ASSUME NEW w \in Workers, sweep'[w] # None
      PROVE  SweepOK(w)'
  BY <1>1, SweepGoesOnward
<1>2. \A k \in Keys : k[1] \in Orders
  BY DEF Keys
<1> QED  BY <1>1, <1>2 DEF Sweeps, Onward

\* A statement of a sweep changes nothing of the orders.
LEMMA StatementsGoOnward ==
  ASSUME TypeOK, UNCHANGED world,
         \A k \in Keys : escalation[k] # None => escalation'[k] # None
  PROVE  Onward
<1>1. clock \in Nat
  BY BoundsAssumption DEF TypeOK
<1> QED  BY <1>1 DEF world, Onward

\* What a sweep in its record looks like.
LEMMA SweepFields ==
  ASSUME Sweeps, NEW w \in Workers, sweep[w] # None
  PROVE  /\ sweep[w] \in SweepState
         /\ sweep[w].now \in Nat
         /\ sweep[w].found \subseteq Orders /\ sweep[w].todo \subseteq Orders
         /\ sweep[w].due \subseteq Rung /\ sweep[w].rows \subseteq Keys
         /\ SweepOK(w)
BY DEF Sweeps, SweepState

\* Reading the orders that wait.
LEMMA ReadingWaitingFits ==
  ASSUME TypeOK, Sweeps, NEW w \in Workers, ReadWaiting(w)
  PROVE  Sweeps' /\ Onward
<1>1. PICK found \in SUBSET Waiting(clock) :
        sweep' = [sweep EXCEPT ![w] =
            [at |-> "order", now |-> clock, found |-> found, todo |-> found,
             order |-> None, due |-> {}, rows |-> {}]]
  BY DEF ReadWaiting
<1> DEFINE new == [at |-> "order", now |-> clock, found |-> found, todo |-> found,
                   order |-> None, due |-> {}, rows |-> {}]
<1>2. clock \in Nat
  BY BoundsAssumption DEF TypeOK
<1>3. found \subseteq Orders /\ \A o \in found : status[o] = "CONFIRMED"
  BY DEF Waiting
<1>4. new \in SweepState
  BY <1>2, <1>3 DEF SweepState
<1>5. Onward
  BY StatementsGoOnward DEF ReadWaiting
<1>6. sweep'[w] = new
  BY <1>1 DEF Sweeps
<1>7. \A o \in Orders : confirmedAt[o] <= clock
  BY <1>2 DEF TypeOK
<1>8. SweepOK(w)'
  <2>1. UNCHANGED <<clock, status, confirmedAt>>
    BY DEF ReadWaiting, world
  <2> QED  BY <1>2, <1>3, <1>6, <1>7, <2>1 DEF SweepOK
<1>9. \A k \in Keys : escalation'[k] # None => status'[k[1]] # "early"
  BY DEF ReadWaiting, world, Sweeps
<1> QED  BY <1>1, <1>4, <1>5, <1>8, <1>9, OneWorkerMoves

\* Reading what has been raised for an order.
LEMMA ReadingFiredFits ==
  ASSUME TypeOK, Sweeps, NEW w \in Workers, NEW o \in Orders, ReadFired(w, o)
  PROVE  Sweeps' /\ Onward
<1> DEFINE due == DueEscalations(Elapsed(w, o), Fired(o))
           new == [sweep[w] EXCEPT !.at = IF due = {} THEN "order" ELSE "rung",
                                   !.todo = sweep[w].todo \ {o},
                                   !.order = IF due = {} THEN None ELSE o,
                                   !.due = due]
<1>1. sweep[w] # None /\ o \in sweep[w].todo /\ sweep' = [sweep EXCEPT ![w] = new]
  <2>1. sweep[w] # None /\ o \in sweep[w].todo
    BY DEF ReadFired, At
  <2>2. sweep' = [sweep EXCEPT ![w] = new]
    BY Zenon DEF ReadFired
  <2> QED  BY <2>1, <2>2
<1>2. /\ sweep[w] \in SweepState /\ SweepOK(w)
      /\ sweep[w].found \subseteq Orders
  BY <1>1, SweepFields
<1>3. due \subseteq Ladder /\ due \subseteq Rung
  BY LadderFacts DEF DueEscalations, TypeOK
<1> HIDE DEF due
<1>4. new \in SweepState
  BY <1>2, <1>3 DEF SweepState
<1>5. Onward
  BY StatementsGoOnward DEF ReadFired
<1>6. sweep'[w] = new
  BY <1>1 DEF Sweeps
<1>7. /\ new.now = sweep[w].now /\ new.found = sweep[w].found
      /\ new.todo = sweep[w].todo \ {o} /\ new.due = due
      /\ new.rows = sweep[w].rows
      /\ new.at = IF due = {} THEN "order" ELSE "rung"
      /\ new.order = IF due = {} THEN None ELSE o
  BY <1>2 DEF SweepState
<1> HIDE DEF new
<1>8. SweepOK(w)'
  <2>1. UNCHANGED <<clock, status, confirmedAt, escalation>> /\ Ladder' = Ladder
    BY DEF ReadFired, world, Ladder
  <2> QED  BY <1>1, <1>2, <1>3, <1>6, <1>7, <2>1 DEF SweepOK
<1>9. \A k \in Keys : escalation'[k] # None => status'[k[1]] # "early"
  BY DEF ReadFired, world, Sweeps
<1> QED  BY <1>1, <1>4, <1>5, <1>8, <1>9, OneWorkerMoves

\* Where a climb leaves the worker.
LEMMA ClimbEffects ==
  ASSUME Sweeps, NEW w \in Workers, NEW r \in Rung, sweep[w] # None, Climb(w, r)
  PROVE  \E new \in SweepState :
           /\ sweep' = [sweep EXCEPT ![w] = new] /\ sweep'[w] = new
           /\ new.now = sweep[w].now /\ new.found = sweep[w].found
           /\ new.todo = sweep[w].todo /\ new.rows = sweep[w].rows
           /\ new.due = sweep[w].due \ {r}
           /\ new.at = IF new.due = {} THEN "order" ELSE "rung"
           /\ new.order = IF new.due = {} THEN None ELSE sweep[w].order
<1> DEFINE due == sweep[w].due \ {r}
           new == [sweep[w] EXCEPT !.due = due,
                                   !.at = IF due = {} THEN "order" ELSE "rung",
                                   !.order = IF due = {} THEN None ELSE sweep[w].order]
<1>1. sweep' = [sweep EXCEPT ![w] = new]
  BY Zenon DEF Climb
<1>2. sweep[w] \in SweepState
  BY SweepFields
<1> HIDE DEF due
<1>3. due \subseteq Rung
  BY <1>2 DEF SweepState, due
<1>4. new \in SweepState
  BY <1>2, <1>3 DEF SweepState
<1>5. /\ new.now = sweep[w].now /\ new.found = sweep[w].found
      /\ new.todo = sweep[w].todo /\ new.rows = sweep[w].rows
      /\ new.due = due
      /\ new.at = IF due = {} THEN "order" ELSE "rung"
      /\ new.order = IF due = {} THEN None ELSE sweep[w].order
  BY <1>2 DEF SweepState
<1> HIDE DEF new
<1>6. sweep'[w] = new
  BY <1>1 DEF Sweeps
<1> QED  BY <1>1, <1>4, <1>5, <1>6 DEF due

\* The row that a raise writes, and no other.
LEMMA RaiseEffects ==
  ASSUME TypeOK, Sweeps, NEW w \in Workers, NEW r \in Rung, Raise(w, r)
  PROVE  /\ sweep[w] # None /\ r \in sweep[w].due /\ r \in Ladder
         /\ sweep[w].order \in Orders /\ <<sweep[w].order, r.level>> \in Keys
         /\ escalation' \in [Keys -> Escalation \union {None}]
         /\ escalation'[<<sweep[w].order, r.level>>] # None
         /\ \A k \in Keys :
              k # <<sweep[w].order, r.level>> \/ escalation[k] # None =>
                escalation'[k] = escalation[k]
         /\ alerts' = [k \in Keys |-> IF escalation'[k] = None THEN 0 ELSE 1]
         /\ escalation[<<sweep[w].order, r.level>>] = None =>
              escalation'[<<sweep[w].order, r.level>>].resolved = FALSE
<1> DEFINE o == sweep[w].order
           k0 == <<o, r.level>>
           row == [delay |-> Elapsed(w, o), resolved |-> FALSE]
<1>1. /\ sweep[w] # None /\ sweep[w].at = "rung" /\ r \in sweep[w].due
      /\ IF escalation[k0] = None
         THEN /\ escalation' = [escalation EXCEPT ![k0] = row]
              /\ alerts' = [alerts EXCEPT ![k0] = @ + 1]
         ELSE UNCHANGED <<escalation, alerts>>
  BY DEF Raise, IsNextRung, At
<1>2. /\ sweep[w] \in SweepState /\ SweepOK(w)
      /\ sweep[w].found \subseteq Orders /\ sweep[w].now \in Nat
  BY <1>1, SweepFields
<1>3. r \in Ladder /\ o \in sweep[w].found /\ o \in Orders
  BY <1>1, <1>2 DEF SweepOK
<1>4. k0 \in Keys
  BY <1>3, LadderFacts DEF Keys, TypeOK
<1>5. row \in Escalation
  <2>1. confirmedAt[o] \in Nat /\ confirmedAt[o] <= sweep[w].now
    BY <1>2, <1>3, BoundsAssumption DEF SweepOK, TypeOK
  <2> QED  BY <1>2, <2>1 DEF Elapsed, Escalation
<1>6. row # None
  BY <1>5, NoneAssumption
<1>7. row.resolved = FALSE
  OBVIOUS
<1> HIDE DEF row, k0
<1>8. /\ escalation \in [Keys -> Escalation \union {None}]
      /\ alerts = [k \in Keys |-> IF escalation[k] = None THEN 0 ELSE 1]
  BY DEF TypeOK
<1>9. CASE escalation[k0] = None
  <2>1. escalation' = [escalation EXCEPT ![k0] = row]
    BY <1>1, <1>9
  <2>2. /\ escalation' \in [Keys -> Escalation \union {None}]
        /\ escalation'[k0] = row
        /\ \A k \in Keys : k # k0 => escalation'[k] = escalation[k]
    BY <1>4, <1>5, <1>8, <2>1
  <2>3. alerts' = [k \in Keys |-> IF escalation'[k] = None THEN 0 ELSE 1]
    <3>1. alerts' = [k \in Keys |-> IF k = k0 THEN alerts[k] + 1 ELSE alerts[k]]
      BY <1>1, <1>8, <1>9
    <3>2. \A k \in Keys : (IF k = k0 THEN alerts[k] + 1 ELSE alerts[k])
                            = IF escalation'[k] = None THEN 0 ELSE 1
      BY <1>4, <1>6, <1>8, <1>9, <2>2
    <3> QED  BY <3>1, <3>2
  <2> QED  BY <1>1, <1>3, <1>4, <1>6, <1>7, <1>9, <2>2, <2>3 DEF k0
<1>10. CASE escalation[k0] # None
  BY <1>1, <1>3, <1>4, <1>8, <1>10 DEF k0
<1> QED  BY <1>9, <1>10

\* Raising a rung.
LEMMA RaisingFits ==
  ASSUME TypeOK, Sweeps, NEW w \in Workers, NEW r \in Rung, Raise(w, r)
  PROVE  Sweeps' /\ Onward
<1>1. sweep[w] # None /\ SweepOK(w) /\ sweep[w].found \subseteq Orders
  BY RaiseEffects, SweepFields
<1>2. sweep[w].at = "rung" /\ r \in sweep[w].due /\ Climb(w, r) /\ UNCHANGED world
  BY DEF Raise, IsNextRung, At
<1>3. PICK new \in SweepState :
           /\ sweep' = [sweep EXCEPT ![w] = new] /\ sweep'[w] = new
           /\ new.now = sweep[w].now /\ new.found = sweep[w].found
           /\ new.todo = sweep[w].todo /\ new.rows = sweep[w].rows
           /\ new.due = sweep[w].due \ {r}
           /\ new.at = IF new.due = {} THEN "order" ELSE "rung"
           /\ new.order = IF new.due = {} THEN None ELSE sweep[w].order
  BY <1>1, <1>2, ClimbEffects
<1>4. \A k \in Keys : escalation[k] # None => escalation'[k] # None
  BY RaiseEffects
<1>5. Onward
  BY <1>2, <1>4, StatementsGoOnward
<1>6. UNCHANGED <<clock, status, confirmedAt>> /\ Ladder' = Ladder
  BY <1>2 DEF world, Ladder
<1>7. SweepOK(w)'
  <2>1. sweep[w].rows \subseteq Keys
    BY <1>1, SweepFields
  <2> QED  BY <1>1, <1>2, <1>3, <1>4, <1>6, <2>1 DEF SweepOK
<1>8. \A k \in Keys : escalation'[k] # None => status'[k[1]] # "early"
  <2>1. status[sweep[w].order] # "early"
    BY <1>1, <1>2 DEF SweepOK
  <2> SUFFICES ASSUME NEW k \in Keys, escalation'[k] # None
               PROVE  status[k[1]] # "early"
    BY <1>6
  <2>2. CASE k = <<sweep[w].order, r.level>>
    BY <2>1, <2>2
  <2>3. CASE k # <<sweep[w].order, r.level>>
    <3>1. escalation[k] # None
      BY <2>3, RaiseEffects
    <3> QED  BY <3>1 DEF Sweeps
  <2> QED  BY <2>2, <2>3
<1> QED  BY <1>3, <1>5, <1>7, <1>8, OneWorkerMoves

\* Reading what is open.
LEMMA ReadingOpenFits ==
  ASSUME TypeOK, Sweeps, NEW w \in Workers, ReadOpen(w)
  PROVE  /\ Sweeps' /\ Onward
         /\ \/ sweep'[w] = None
            \/ sweep'[w].at = "open" /\ sweep'[w].due = {}
<1>1. PICK rows \in SUBSET {k \in Orders \X Levels : IsOpen(k)} :
        sweep' = IF rows = {} THEN [sweep EXCEPT ![w] = None]
                 ELSE [sweep EXCEPT ![w] = Resolving("open", rows)]
  BY DEF ReadOpen
<1> DEFINE new == IF rows = {} THEN None ELSE Resolving("open", rows)
<1>2. sweep' = [sweep EXCEPT ![w] = new]
  BY <1>1
<1>3. rows \subseteq Keys /\ \A k \in rows : escalation[k] # None
  BY DEF Keys, IsOpen
<1>4. Resolving("open", rows) \in SweepState
  BY <1>3 DEF Resolving, SweepState
<1>5. new \in SweepState \union {None}
  BY <1>4
<1>6. sweep'[w] = new
  BY <1>2 DEF Sweeps
<1>7. UNCHANGED <<clock, status, confirmedAt, escalation>>
  BY DEF ReadOpen, world
<1>8. new # None => SweepOK(w)'
  <2>1. clock \in Nat
    BY BoundsAssumption DEF TypeOK
  <2> QED  BY <1>3, <1>6, <1>7, <2>1 DEF SweepOK, Resolving
<1>9. Onward
  BY <1>7, StatementsGoOnward DEF ReadOpen
<1>10. \A k \in Keys : escalation'[k] # None => status'[k[1]] # "early"
  BY <1>7 DEF Sweeps
<1>11. Sweeps'
  <2> HIDE DEF new
  <2> QED  BY <1>2, <1>5, <1>8, <1>9, <1>10, OneWorkerMoves
<1> QED  BY <1>6, <1>9, <1>11 DEF Resolving

\* Reading which of their orders still wait.
LEMMA ReadingStillWaitingFits ==
  ASSUME TypeOK, Sweeps, NEW w \in Workers, ReadStillWaiting(w)
  PROVE  /\ Sweeps' /\ Onward
         /\ \/ sweep'[w] = None
            \/ /\ sweep'[w].at = "resolve" /\ sweep'[w].due = {}
               /\ \A k \in sweep'[w].rows :
                    k \in sweep[w].rows /\ k[1] \notin StillWaiting
<1> DEFINE rows == {k \in sweep[w].rows : k[1] \notin StillWaiting}
           new == IF rows = {} THEN None ELSE Resolving("resolve", rows)
<1>1. sweep' = [sweep EXCEPT ![w] = new]
  BY DEF ReadStillWaiting
<1>2. sweep[w] # None
  BY DEF ReadStillWaiting, At
<1>3. rows \subseteq Keys /\ \A k \in rows : escalation[k] # None
  BY <1>2, SweepFields DEF SweepOK
<1>4. Resolving("resolve", rows) \in SweepState
  BY <1>3 DEF Resolving, SweepState
<1>5. new \in SweepState \union {None}
  BY <1>4
<1>6. sweep'[w] = new
  BY <1>1 DEF Sweeps
<1>7. UNCHANGED <<clock, status, confirmedAt, escalation>>
  BY DEF ReadStillWaiting, world
<1>8. new # None => SweepOK(w)'
  <2>1. clock \in Nat
    BY BoundsAssumption DEF TypeOK
  <2> QED  BY <1>3, <1>6, <1>7, <2>1 DEF SweepOK, Resolving
<1>9. Onward
  BY <1>7, StatementsGoOnward DEF ReadStillWaiting
<1>10. \A k \in Keys : escalation'[k] # None => status'[k[1]] # "early"
  BY <1>7 DEF Sweeps
<1>11. Sweeps'
  <2> HIDE DEF new
  <2> QED  BY <1>1, <1>5, <1>8, <1>9, <1>10, OneWorkerMoves
<1> QED  BY <1>6, <1>9, <1>11 DEF Resolving

\* Resolving: every row it knows is there, and only they change.
LEMMA ResolvingFits ==
  ASSUME TypeOK, Sweeps, NEW w \in Workers, Resolve(w)
  PROVE  /\ Sweeps' /\ Onward
         /\ escalation' \in [Keys -> Escalation \union {None}]
         /\ \A k \in Keys : /\ escalation'[k] = None <=> escalation[k] = None
                            /\ k \notin sweep[w].rows => escalation'[k] = escalation[k]
<1>1. sweep[w] # None
  BY DEF Resolve, At
<1>2. sweep[w].rows \subseteq Keys /\ \A k \in sweep[w].rows : escalation[k] # None
  BY <1>1, SweepFields DEF SweepOK
<1>3. escalation \in [Keys -> Escalation \union {None}]
  BY DEF TypeOK
<1> DEFINE row(k) == [escalation[k] EXCEPT !.resolved = TRUE]
<1>4. escalation' = [k \in Keys |-> IF k \in sweep[w].rows THEN row(k)
                                    ELSE escalation[k]]
  BY Zenon DEF Resolve, Keys
<1>5. \A k \in sweep[w].rows : row(k) \in Escalation
  BY <1>2, <1>3 DEF Escalation
<1> HIDE DEF row
<1>6. \A k \in sweep[w].rows : row(k) # None
  BY <1>5, NoneAssumption
<1>7. /\ escalation' \in [Keys -> Escalation \union {None}]
      /\ \A k \in Keys : /\ escalation'[k] = None <=> escalation[k] = None
                         /\ k \notin sweep[w].rows => escalation'[k] = escalation[k]
  BY <1>2, <1>3, <1>4, <1>5, <1>6
<1>8. UNCHANGED <<clock, status, confirmedAt>>
  BY DEF Resolve, world
<1>9. Onward
  BY <1>7, StatementsGoOnward DEF Resolve
<1>10. sweep' = [sweep EXCEPT ![w] = None]
  BY DEF Resolve
<1>11. \A k \in Keys : escalation'[k] # None => status'[k[1]] # "early"
  BY <1>7, <1>8 DEF Sweeps
<1>12. Sweeps'
  BY <1>9, <1>10, <1>11, OneWorkerMoves
<1> QED  BY <1>7, <1>9, <1>12

\* Every worker's sweep is TypeOK's as soon as it is Sweeps'.
LEMMA RowsThenTypes ==
  ASSUME TypeOK, Sweeps', UNCHANGED world, faults' \in 0 .. MaxFaults,
         escalation' \in [Keys -> Escalation \union {None}],
         alerts' = [k \in Keys |-> IF escalation'[k] = None THEN 0 ELSE 1]
  PROVE  TypeOK'
BY DEF TypeOK, Sweeps, SweepOK, world

LEMMA SweepsStayTyped ==
  ASSUME TypeOK, Sweeps, NEW w \in Workers, Sweep(w) \/ BreakOff(w)
  PROVE  TypeOK' /\ Sweeps' /\ Onward
<1>1. faults \in 0 .. MaxFaults /\ escalation \in [Keys -> Escalation \union {None}]
      /\ alerts = [k \in Keys |-> IF escalation[k] = None THEN 0 ELSE 1]
  BY DEF TypeOK
<1>2. CASE ReadWaiting(w)
  <2>1. UNCHANGED <<world, escalation, alerts, faults>>
    BY <1>2 DEF ReadWaiting
  <2> QED  BY <1>1, <1>2, <2>1, ReadingWaitingFits, RowsThenTypes
<1>3. ASSUME NEW o \in Orders, ReadFired(w, o)
      PROVE  TypeOK' /\ Sweeps' /\ Onward
  <2>1. UNCHANGED <<world, escalation, alerts, faults>>
    BY <1>3 DEF ReadFired
  <2> QED  BY <1>1, <1>3, <2>1, ReadingFiredFits, RowsThenTypes
<1>4. ASSUME sweep[w] # None, NEW r \in sweep[w].due, Raise(w, r)
      PROVE  TypeOK' /\ Sweeps' /\ Onward
  <2>1. UNCHANGED <<world, faults>>
    BY <1>4 DEF Raise
  <2>2. r \in Rung
    BY <1>4, SweepFields
  <2> QED  BY <1>1, <1>4, <2>1, <2>2, RaiseEffects, RaisingFits, RowsThenTypes
<1>5. CASE ReadOpen(w)
  <2>1. UNCHANGED <<world, escalation, alerts, faults>>
    BY <1>5 DEF ReadOpen
  <2> QED  BY <1>1, <1>5, <2>1, ReadingOpenFits, RowsThenTypes
<1>6. CASE ReadStillWaiting(w)
  <2>1. UNCHANGED <<world, escalation, alerts, faults>>
    BY <1>6 DEF ReadStillWaiting
  <2> QED  BY <1>1, <1>6, <2>1, ReadingStillWaitingFits, RowsThenTypes
<1>7. CASE Resolve(w)
  <2>1. UNCHANGED <<world, alerts, faults>>
    BY <1>7 DEF Resolve
  <2>2. alerts' = [k \in Keys |-> IF escalation'[k] = None THEN 0 ELSE 1]
    BY <1>1, <1>7, <2>1, ResolvingFits
  <2> QED  BY <1>1, <1>7, <2>1, <2>2, ResolvingFits, RowsThenTypes
<1>8. CASE BreakOff(w)
  <2>1. UNCHANGED <<world, escalation, alerts>> /\ sweep' = [sweep EXCEPT ![w] = None]
    BY <1>8 DEF BreakOff
  <2>2. faults' \in 0 .. MaxFaults
    BY <1>1, <1>8, BoundsAssumption DEF BreakOff
  <2>3. Onward
    BY <2>1, StatementsGoOnward
  <2>4. \A k \in Keys : escalation'[k] # None => status'[k[1]] # "early"
    BY <2>1 DEF world, Sweeps
  <2>5. Sweeps'
    BY <2>1, <2>3, <2>4, OneWorkerMoves
  <2> QED  BY <1>1, <2>1, <2>2, <2>3, <2>5, RowsThenTypes
<1> QED  BY <1>2, <1>3, <1>4, <1>5, <1>6, <1>7, <1>8 DEF Sweep

\* The clock, and what customers and kitchens do.
LEMMA WorldStaysTyped ==
  ASSUME TypeOK, Sweeps,
         \/ Tick
         \/ \E o \in Orders : Confirm(o) \/ Acknowledge(o)
         \/ UNCHANGED vars
  PROVE  TypeOK' /\ Sweeps' /\ Onward
<1>1. clock \in Nat /\ clock' \in 0 .. MaxTime /\ clock <= clock'
  BY BoundsAssumption DEF TypeOK, Tick, Confirm, Acknowledge, vars
<1>2. UNCHANGED <<settings, escalation, alerts, sweep, faults>>
  BY DEF Tick, Confirm, Acknowledge, vars
<1>3. /\ status' \in [Orders -> {"early", "CONFIRMED", "acknowledged"}]
      /\ confirmedAt' \in [Orders -> 0 .. clock']
      /\ Onward
  <2>1. CASE Tick
    <3>1. UNCHANGED <<status, confirmedAt>>
      BY <2>1 DEF Tick
    <3>2. confirmedAt \in [Orders -> 0 .. clock']
      BY <1>1 DEF TypeOK
    <3> QED  BY <1>1, <1>2, <3>1, <3>2 DEF TypeOK, Onward
  <2>2. ASSUME NEW o \in Orders, Confirm(o)
        PROVE  /\ status' \in [Orders -> {"early", "CONFIRMED", "acknowledged"}]
               /\ confirmedAt' \in [Orders -> 0 .. clock']
               /\ Onward
    <3>1. /\ status[o] = "early" /\ clock' = clock
          /\ status' = [status EXCEPT ![o] = "CONFIRMED"]
          /\ confirmedAt' = [confirmedAt EXCEPT ![o] = clock]
      BY <2>2 DEF Confirm
    <3> QED  BY <1>1, <1>2, <3>1 DEF TypeOK, Onward
  <2>3. ASSUME NEW o \in Orders, Acknowledge(o)
        PROVE  /\ status' \in [Orders -> {"early", "CONFIRMED", "acknowledged"}]
               /\ confirmedAt' \in [Orders -> 0 .. clock']
               /\ Onward
    <3>1. /\ status[o] = "CONFIRMED" /\ UNCHANGED <<clock, confirmedAt>>
          /\ status' = [status EXCEPT ![o] = "acknowledged"]
      BY <2>3 DEF Acknowledge
    <3> QED  BY <1>1, <1>2, <3>1 DEF TypeOK, Onward
  <2>4. CASE UNCHANGED vars
    BY <1>1, <2>4 DEF vars, TypeOK, Onward
  <2> QED  BY <2>1, <2>2, <2>3, <2>4
<1>4. Sweeps'
  BY <1>2, <1>3, WorldMoves
<1> QED  BY <1>1, <1>2, <1>3, <1>4 DEF TypeOK, Sweeps, SweepOK

LEMMA StepsStayTyped ==
  ASSUME TypeOK, Sweeps, [Next]_vars
  PROVE  TypeOK' /\ Sweeps' /\ Onward
BY SweepsStayTyped, WorldStaysTyped DEF Next

(***************************************************************************)
(* Every escalation has one event and no event is without its escalation,  *)
(* however many workers sweep at once (the unique (order_id, level) of     *)
(* order_escalations, and raise()'s transaction); and a sweep only works   *)
(* on orders that were confirmed when it began and on rungs of the ladder. *)
(***************************************************************************)
THEOREM TypeCorrect == Spec => [](TypeOK /\ Sweeps)
<1>1. Init => TypeOK /\ Sweeps
  <2> SUFFICES ASSUME Init PROVE TypeOK /\ Sweeps
    OBVIOUS
  <2>1. \A w \in Workers : sweep[w] = None
    BY DEF Init
  <2>2. \A k \in Keys : escalation[k] = None
    BY DEF Init, Keys
  <2>3. clock = 0 /\ MaxTime \in Nat /\ MaxFaults \in Nat
    BY BoundsAssumption DEF Init
  <2>4. sweep \in [Workers -> SweepState \union {None}]
    BY DEF Init
  <2>5. /\ escalation \in [Keys -> Escalation \union {None}]
        /\ alerts = [k \in Keys |-> IF escalation[k] = None THEN 0 ELSE 1]
    BY DEF Init, Keys
  <2> QED  BY <2>1, <2>2, <2>3, <2>4, <2>5 DEF Init, TypeOK, Sweeps
<1>2. (TypeOK /\ Sweeps) /\ [Next]_vars => (TypeOK /\ Sweeps)'
  BY StepsStayTyped
<1> QED  BY <1>1, <1>2, PTL DEF Spec

----------------------------------------------------------------------------
(* The banners. *)

\* A worker that moves leaves the others where they are.
LEMMA OthersStand ==
  ASSUME TypeOK, Sweeps, NEW w \in Workers, Sweep(w) \/ BreakOff(w),
         NEW v \in Workers, v # w
  PROVE  sweep'[v] = sweep[v]
<1>1. sweep' = [sweep EXCEPT ![w] = sweep'[w]]
  <2>1. PICK new : sweep' = [sweep EXCEPT ![w] = new]
    <3>1. ASSUME NEW o \in Orders, ReadFired(w, o)
          PROVE  \E new : sweep' = [sweep EXCEPT ![w] = new]
      BY <3>1, Zenon DEF ReadFired
    <3>2. ASSUME NEW r, Raise(w, r)
          PROVE  \E new : sweep' = [sweep EXCEPT ![w] = new]
      BY <3>2, Zenon DEF Raise, Climb
    <3>3. CASE ReadWaiting(w)
      BY <3>3, Zenon DEF ReadWaiting
    <3>4. CASE ReadOpen(w)
      BY <3>4, Zenon DEF ReadOpen
    <3>5. CASE ReadStillWaiting(w)
      BY <3>5, Zenon DEF ReadStillWaiting
    <3>6. CASE Resolve(w) \/ BreakOff(w)
      BY <3>6, Zenon DEF Resolve, BreakOff
    <3> QED  BY <3>1, <3>2, <3>3, <3>4, <3>5, <3>6 DEF Sweep
  <2> QED  BY <2>1 DEF Sweeps
<1> QED  BY <1>1 DEF Sweeps

\* Only the read of the orders that still wait leads to a resolve.
LEMMA ResolvesAreRead ==
  ASSUME TypeOK, Sweeps, NEW w \in Workers, Sweep(w) \/ BreakOff(w), At(w, "resolve")'
  PROVE  ReadStillWaiting(w)
<1>1. sweep'[w] # None /\ sweep'[w].at = "resolve"
  BY DEF At
<1>2. ~ReadWaiting(w)
  BY <1>1 DEF ReadWaiting, Sweeps
<1>3. ~ReadOpen(w)
  BY <1>1, ReadingOpenFits
<1>4. ~Resolve(w) /\ ~BreakOff(w)
  BY <1>1 DEF Resolve, BreakOff, Sweeps
<1>5. ASSUME NEW o \in Orders, ReadFired(w, o) PROVE FALSE
  <2>1. sweep[w] # None
    BY <1>5 DEF ReadFired, At
  <2>2. sweep[w] \in SweepState
    BY <2>1, SweepFields
  <2> DEFINE due == DueEscalations(Elapsed(w, o), Fired(o))
             new == [sweep[w] EXCEPT !.at = IF due = {} THEN "order" ELSE "rung",
                                     !.todo = sweep[w].todo \ {o},
                                     !.order = IF due = {} THEN None ELSE o,
                                     !.due = due]
  <2>3. sweep' = [sweep EXCEPT ![w] = new]
    BY <1>5, Zenon DEF ReadFired
  <2> HIDE DEF due
  <2>4. new.at = IF due = {} THEN "order" ELSE "rung"
    BY <2>2 DEF SweepState
  <2> HIDE DEF new
  <2>5. sweep'[w] = new
    BY <2>3 DEF Sweeps
  <2> QED  BY <1>1, <2>4, <2>5
<1>6. ASSUME sweep[w] # None, NEW r \in sweep[w].due, Raise(w, r) PROVE FALSE
  <2>1. r \in Rung /\ Climb(w, r)
    BY <1>6, SweepFields DEF Raise
  <2>2. \/ sweep'[w].at = "order"
        \/ sweep'[w].at = "rung"
    BY <1>6, <2>1, ClimbEffects
  <2> QED  BY <1>1, <2>2
<1> QED  BY <1>2, <1>3, <1>4, <1>5, <1>6 DEF Sweep

(***************************************************************************)
(* A banner is not taken down for an order the kitchen has not yet         *)
(* answered (resolveAcknowledged: the second read, and that no order goes  *)
(* back to CONFIRMED).                                                     *)
(***************************************************************************)
THEOREM BannersStay == Spec => []BannersStayUp
<1> DEFINE IInv == TypeOK /\ Sweeps /\ BannersStayUp
<1>1. Init => BannersStayUp
  BY DEF Init, BannersStayUp, At
<1>2. ASSUME TypeOK, Sweeps, BannersStayUp, [Next]_vars
      PROVE  BannersStayUp'
  <2>1. TypeOK' /\ Sweeps' /\ Onward
    BY <1>2, StepsStayTyped
  <2>2. ASSUME NEW o \in Orders, NEW l \in Levels,
               escalation'[<<o, l>>] # None, escalation'[<<o, l>>].resolved
        PROVE  status'[o] = "acknowledged"
    <3> DEFINE k == <<o, l>>
    <3>1. k \in Keys
      BY DEF Keys
    <3>2. CASE escalation[k] # None /\ escalation[k].resolved
      BY <1>2, <2>1, <3>2 DEF BannersStayUp, Onward
    <3>3. CASE ~(escalation[k] # None /\ escalation[k].resolved)
      <4>1. PICK w \in Workers : Sweep(w) \/ BreakOff(w)
        BY <1>2, <2>2, <3>3 DEF Next, Tick, Confirm, Acknowledge, vars
      <4>2. escalation' # escalation
        BY <2>2, <3>3
      <4>3. ASSUME sweep[w] # None, NEW r \in sweep[w].due, Raise(w, r) PROVE FALSE
        <5>1. r \in Rung
          BY <1>2, <4>3, SweepFields
        <5> DEFINE raised == <<sweep[w].order, r.level>>
        <5>2. /\ \A j \in Keys : j # raised \/ escalation[j] # None =>
                                 escalation'[j] = escalation[j]
              /\ escalation[raised] = None => escalation'[raised].resolved = FALSE
          BY <1>2, <4>3, <5>1, RaiseEffects
        <5>3. escalation'[k] # None /\ escalation'[k].resolved
          BY <2>2
        <5> HIDE DEF k, raised
        <5>4. CASE k = raised /\ escalation[k] = None
          BY <5>2, <5>3, <5>4
        <5>5. CASE k # raised \/ escalation[k] # None
          BY <3>1, <3>3, <5>2, <5>3, <5>5
        <5> QED  BY <5>4, <5>5
      <4>4. Resolve(w)
        BY <4>1, <4>2, <4>3 DEF Sweep, ReadWaiting, ReadFired, ReadOpen,
                                ReadStillWaiting, BreakOff
      <4>5. k \in sweep[w].rows
        BY <1>2, <2>2, <3>1, <3>3, <4>4, ResolvingFits
      <4>6. k[1] = o /\ At(w, "resolve") /\ UNCHANGED status
        BY <4>4 DEF Resolve, world
      <4> QED  BY <1>2, <4>5, <4>6 DEF BannersStayUp
    <3> QED  BY <3>2, <3>3
  <2>3. ASSUME NEW w \in Workers, At(w, "resolve")', NEW k \in sweep'[w].rows
        PROVE  status'[k[1]] = "acknowledged"
    <3>1. sweep'[w] # None
      BY <2>3 DEF At
    <3>2. k \in Keys /\ escalation'[k] # None
      BY <2>1, <2>3, <3>1 DEF Sweeps, SweepOK, SweepState
    <3>3. k[1] \in Orders
      BY <3>2 DEF Keys
    <3>4. CASE sweep'[w] = sweep[w]
      BY <1>2, <2>1, <2>3, <3>3, <3>4 DEF BannersStayUp, At, Onward
    <3>5. CASE sweep'[w] # sweep[w]
      <4>1. PICK v \in Workers : Sweep(v) \/ BreakOff(v)
        BY <1>2, <3>5 DEF Next, Tick, Confirm, Acknowledge, vars
      <4>2. v = w
        BY <1>2, <3>5, <4>1, OthersStand
      <4>3. ReadStillWaiting(w)
        BY <1>2, <2>3, <4>1, <4>2, ResolvesAreRead
      <4>4. k[1] \notin StillWaiting
        BY <1>2, <2>3, <3>1, <4>3, ReadingStillWaitingFits
      <4>5. status'[k[1]] # "early" /\ UNCHANGED status
        BY <2>1, <3>2, <4>3 DEF Sweeps, ReadStillWaiting, world
      <4> QED  BY <1>2, <3>3, <4>4, <4>5 DEF StillWaiting, TypeOK
    <3> QED  BY <3>4, <3>5
  <2> QED  BY <2>2, <2>3 DEF BannersStayUp
<1>3. IInv /\ [Next]_vars => BannersStayUp'
  BY <1>2
<1> QED  BY <1>1, <1>3, TypeCorrect, PTL DEF Spec

----------------------------------------------------------------------------
(* The order of the rungs. *)

\* While a worker raises rungs for an order, every rung that was due is still
\* to come or has fired, and no other is to come.
RungsAreNext(w) ==
  At(w, "rung") =>
    /\ \A r \in sweep[w].due : r.after <= Elapsed(w, sweep[w].order)
    /\ \A q \in Ladder : q.after <= Elapsed(w, sweep[w].order) =>
         q \in sweep[w].due \/ q.level \in Fired(sweep[w].order)

LEMMA FiredStays ==
  ASSUME Onward, NEW o \in Orders
  PROVE  Fired(o) \subseteq Fired(o)'
<1>1. \A l \in Levels : <<o, l>> \in Keys
  BY DEF Keys
<1> QED  BY <1>1 DEF Fired, Onward

LEMMA RungsStayNext ==
  ASSUME TypeOK, Sweeps, Onward, NEW w \in Workers, RungsAreNext(w),
         sweep'[w] = sweep[w]
  PROVE  RungsAreNext(w)'
<1> SUFFICES ASSUME At(w, "rung")
             PROVE  RungsAreNext(w)'
  BY DEF RungsAreNext, At
<1>1. sweep[w] # None /\ SweepOK(w) /\ sweep[w].found \subseteq Orders
  BY SweepFields DEF At
<1>2. sweep[w].order \in sweep[w].found
  BY <1>1 DEF SweepOK, At
<1> DEFINE o == sweep[w].order
<1>3. o \in Orders /\ confirmedAt'[o] = confirmedAt[o]
  BY <1>1, <1>2 DEF SweepOK, Onward
<1>4. Elapsed(w, sweep[w].order)' = Elapsed(w, sweep[w].order)
  BY <1>3 DEF Elapsed
<1>5. Fired(o) \subseteq Fired(sweep[w].order)'
  BY <1>3, FiredStays DEF Fired
<1>6. Ladder' = Ladder
  BY DEF Onward, Ladder
<1> QED  BY <1>4, <1>5, <1>6 DEF RungsAreNext, At

\* What reading an order and raising a rung leave the worker with.
LEMMA ReadFiredEffects ==
  ASSUME TypeOK, Sweeps, NEW w \in Workers, NEW o \in Orders, ReadFired(w, o)
  PROVE  /\ sweep[w] # None /\ o \in sweep[w].todo /\ sweep[w].at = "order"
         /\ sweep'[w] # None
         /\ sweep'[w].now = sweep[w].now /\ sweep'[w].found = sweep[w].found
         /\ sweep'[w].todo = sweep[w].todo \ {o}
         /\ sweep'[w].due = DueEscalations(Elapsed(w, o), Fired(o))
         /\ sweep'[w].at = IF sweep'[w].due = {} THEN "order" ELSE "rung"
         /\ sweep'[w].order = IF sweep'[w].due = {} THEN None ELSE o
<1> DEFINE due == DueEscalations(Elapsed(w, o), Fired(o))
           new == [sweep[w] EXCEPT !.at = IF due = {} THEN "order" ELSE "rung",
                                   !.todo = sweep[w].todo \ {o},
                                   !.order = IF due = {} THEN None ELSE o,
                                   !.due = due]
<1>1. sweep[w] # None /\ o \in sweep[w].todo /\ sweep[w].at = "order"
  BY DEF ReadFired, At
<1>2. sweep' = [sweep EXCEPT ![w] = new]
  BY Zenon DEF ReadFired
<1>3. sweep[w] \in SweepState
  BY <1>1, SweepFields
<1>4. due \subseteq Rung
  BY LadderFacts DEF DueEscalations, TypeOK
<1> HIDE DEF due
<1>5. /\ new.now = sweep[w].now /\ new.found = sweep[w].found
      /\ new.todo = sweep[w].todo \ {o} /\ new.due = due
      /\ new.at = IF due = {} THEN "order" ELSE "rung"
      /\ new.order = IF due = {} THEN None ELSE o
      /\ new \in SweepState
  BY <1>3, <1>4 DEF SweepState
<1> HIDE DEF new
<1>6. sweep'[w] = new /\ new # None
  BY <1>2, <1>5, NoneAssumption DEF Sweeps
<1> QED  BY <1>1, <1>5, <1>6 DEF due

LEMMA RaiseLeaves ==
  ASSUME TypeOK, Sweeps, NEW w \in Workers, NEW r \in Rung, Raise(w, r)
  PROVE  /\ sweep[w].at = "rung" /\ sweep'[w] # None
         /\ \A q \in sweep[w].due : r.after <= q.after
         /\ sweep'[w].now = sweep[w].now /\ sweep'[w].found = sweep[w].found
         /\ sweep'[w].todo = sweep[w].todo
         /\ sweep'[w].due = sweep[w].due \ {r}
         /\ sweep'[w].at = IF sweep'[w].due = {} THEN "order" ELSE "rung"
         /\ sweep'[w].order = IF sweep'[w].due = {} THEN None ELSE sweep[w].order
         /\ UNCHANGED <<clock, status, confirmedAt>> /\ Ladder' = Ladder
         /\ \E o \in Orders : o = sweep[w].order /\ r.level \in Fired(o)'
<1>1. /\ sweep[w] # None /\ sweep[w].at = "rung" /\ Climb(w, r)
      /\ \A q \in sweep[w].due : r.after <= q.after
      /\ UNCHANGED <<clock, status, confirmedAt>> /\ Ladder' = Ladder
  BY DEF Raise, IsNextRung, At, world, Ladder
<1>2. <<sweep[w].order, r.level>> \in Keys /\ escalation'[<<sweep[w].order, r.level>>] # None
  BY RaiseEffects
<1>3. PICK o \in Orders : o = sweep[w].order
  BY RaiseEffects
<1>4. r.level \in Fired(o)'
  <2>1. r.level \in Levels
    BY <1>2 DEF Keys
  <2> QED  BY <1>2, <1>3, <2>1 DEF Fired
<1> QED  BY <1>1, <1>3, <1>4, ClimbEffects, NoneAssumption

\* Every step keeps the rungs of every worker in order.
LEMMA RungsKeepNext ==
  ASSUME TypeOK, Sweeps, [Next]_vars, \A w \in Workers : RungsAreNext(w),
         NEW w \in Workers
  PROVE  RungsAreNext(w)'
<1>1. TypeOK' /\ Sweeps' /\ Onward
  BY StepsStayTyped
<1>2. CASE sweep'[w] = sweep[w]
  BY <1>1, <1>2, RungsStayNext
<1>3. CASE sweep'[w] # sweep[w]
  <2>1. PICK v \in Workers : Sweep(v) \/ BreakOff(v)
    BY <1>3 DEF Next, Tick, Confirm, Acknowledge, vars
  <2>2. v = w
    BY <1>3, <2>1, OthersStand
  <2>3. ASSUME NEW o \in Orders, ReadFired(w, o)
        PROVE  RungsAreNext(w)'
    <3> SUFFICES ASSUME At(w, "rung")'
                 PROVE  /\ \A r \in sweep'[w].due : r.after <= Elapsed(w, sweep[w].order)'
                        /\ \A q \in Ladder' : q.after <= Elapsed(w, sweep[w].order)' =>
                             \/ q \in sweep'[w].due
                             \/ q.level \in Fired(sweep[w].order)'
      BY DEF RungsAreNext
    <3>1. /\ sweep'[w].now = sweep[w].now
          /\ sweep'[w].due = DueEscalations(Elapsed(w, o), Fired(o))
          /\ sweep'[w].order = o
      BY <2>3, ReadFiredEffects DEF At
    <3>2. UNCHANGED <<settings, confirmedAt, escalation>>
      BY <2>3 DEF ReadFired, world
    <3>3. /\ Elapsed(w, sweep[w].order)' = Elapsed(w, o) /\ Ladder' = Ladder
          /\ Fired(sweep[w].order)' = Fired(o)
      BY <3>1, <3>2 DEF Elapsed, Ladder, Fired
    <3>4. Elapsed(w, o) \in Int /\ \A q \in Ladder : q.after \in Nat
      <4>1. sweep[w] # None /\ sweep[w].now \in Nat
        BY <2>3, ReadFiredEffects, SweepFields
      <4>2. confirmedAt[o] \in Nat
        BY BoundsAssumption DEF TypeOK
      <4> QED  BY <4>1, <4>2, LadderFacts DEF Elapsed, Rung, TypeOK
    <3> QED  BY <3>1, <3>3, <3>4 DEF DueEscalations
  <2>4. ASSUME sweep[w] # None, NEW r \in sweep[w].due, Raise(w, r)
        PROVE  RungsAreNext(w)'
    <3> SUFFICES ASSUME At(w, "rung")'
                 PROVE  /\ \A q \in sweep'[w].due : q.after <= Elapsed(w, sweep[w].order)'
                        /\ \A q \in Ladder' : q.after <= Elapsed(w, sweep[w].order)' =>
                             \/ q \in sweep'[w].due
                             \/ q.level \in Fired(sweep[w].order)'
      BY DEF RungsAreNext
    <3>1. r \in Rung
      BY <2>4, SweepFields
    <3>2. PICK o \in Orders : o = sweep[w].order /\ r.level \in Fired(o)'
      BY <2>4, <3>1, RaiseLeaves
    <3>3. /\ sweep'[w].now = sweep[w].now /\ sweep'[w].order = o
          /\ sweep'[w].due = sweep[w].due \ {r} /\ UNCHANGED confirmedAt
          /\ Ladder' = Ladder /\ At(w, "rung")
      BY <2>4, <3>1, <3>2, RaiseLeaves DEF At
    <3>4. Elapsed(w, sweep[w].order)' = Elapsed(w, o)
      BY <3>3 DEF Elapsed
    <3>5. Fired(sweep[w].order)' = Fired(o)'
      BY <3>3 DEF Fired
    <3>6. Fired(o) \subseteq Fired(o)'
      BY <1>1, FiredStays
    <3>7. /\ \A q \in sweep[w].due : q.after <= Elapsed(w, o)
          /\ \A q \in Ladder : q.after <= Elapsed(w, o) =>
               q \in sweep[w].due \/ q.level \in Fired(o)
      BY <3>2, <3>3 DEF RungsAreNext
    <3> QED  BY <3>2, <3>3, <3>4, <3>5, <3>6, <3>7
  <2>5. CASE ReadWaiting(w)
    <3>1. sweep'[w].at = "order"
      BY <2>5 DEF ReadWaiting, Sweeps
    <3> QED  BY <3>1 DEF RungsAreNext, At
  <2>6. CASE ReadOpen(w) \/ ReadStillWaiting(w)
    <3>1. sweep'[w] = None \/ sweep'[w].at # "rung"
      BY <2>6, ReadingOpenFits, ReadingStillWaitingFits
    <3> QED  BY <3>1 DEF RungsAreNext, At
  <2>7. CASE Resolve(w) \/ BreakOff(w)
    <3>1. sweep'[w] = None
      BY <2>7 DEF Resolve, BreakOff, Sweeps
    <3> QED  BY <3>1 DEF RungsAreNext, At
  <2> QED  BY <2>1, <2>2, <2>3, <2>4, <2>5, <2>6, <2>7 DEF Sweep
<1> QED  BY <1>2, <1>3

\* A rung is raised after every rung of a shorter delay.
LEMMA TheLadderStaysClimbed ==
  ASSUME TypeOK, Sweeps, [Next]_vars, \A w \in Workers : RungsAreNext(w),
         LadderIsClimbed
  PROVE  LadderIsClimbed'
<1>1. TypeOK' /\ Sweeps' /\ Onward
  BY StepsStayTyped
<1>2. Ladder' = Ladder
  BY <1>1 DEF Onward, Ladder
<1> SUFFICES ASSUME NEW o \in Orders, NEW q \in Ladder, NEW r \in Ladder,
                    q.after < r.after, r.level \in Fired(o)'
             PROVE  q.level \in Fired(o)'
  BY <1>2 DEF LadderIsClimbed
<1>3. CASE r.level \in Fired(o)
  BY <1>1, <1>3, FiredStays DEF LadderIsClimbed
<1>4. CASE r.level \notin Fired(o)
  <2>1. <<o, r.level>> \in Keys /\ r \in Rung /\ q \in Rung
    BY LadderFacts DEF Keys, TypeOK
  <2>2. escalation'[<<o, r.level>>] # None /\ escalation[<<o, r.level>>] = None
    BY <1>4 DEF Fired
  <2>3. PICK w \in Workers : Sweep(w) \/ BreakOff(w)
    BY <2>2 DEF Next, Tick, Confirm, Acknowledge, vars
  <2>4. ~Resolve(w)
    BY <2>1, <2>2, ResolvingFits
  <2>5. PICK s \in sweep[w].due : sweep[w] # None /\ Raise(w, s)
    BY <2>2, <2>3, <2>4 DEF Sweep, ReadWaiting, ReadFired, ReadOpen,
                            ReadStillWaiting, BreakOff
  <2>6. s \in Rung
    BY <2>5, SweepFields
  <2>7. <<o, r.level>> = <<sweep[w].order, s.level>> /\ s \in Ladder
    BY <2>1, <2>2, <2>5, <2>6, RaiseEffects
  <2>8. s = r /\ o = sweep[w].order
    BY <2>7, LadderFacts DEF TypeOK
  <2>9. At(w, "rung") /\ \A p \in sweep[w].due : r.after <= p.after
    BY <2>5, <2>6, <2>8, RaiseLeaves DEF At
  <2>10. r.after <= Elapsed(w, o) /\ Elapsed(w, o) \in Int
    <3>1. r.after <= Elapsed(w, o)
      BY <2>5, <2>8, <2>9 DEF RungsAreNext
    <3>2. sweep[w].now \in Nat /\ confirmedAt[o] \in Nat
      BY <2>5, SweepFields, BoundsAssumption DEF TypeOK
    <3> QED  BY <3>1, <3>2 DEF Elapsed
  <2>11. q.after <= Elapsed(w, o) /\ q \notin sweep[w].due
    BY <2>1, <2>9, <2>10 DEF Rung
  <2>12. q.level \in Fired(o)
    BY <2>8, <2>9, <2>11 DEF RungsAreNext
  <2> QED  BY <1>1, <2>12, FiredStays
<1> QED  BY <1>3, <1>4

(***************************************************************************)
(* No rung is raised while one of a shorter delay is not, whatever the     *)
(* settings, the workers and the failures (the sort in                     *)
(* normalizeEscalationLadder, and sweepOnce's loop over what is due).      *)
(***************************************************************************)
THEOREM RungsInOrder ==
  Spec => [](LadderIsClimbed /\ \A w \in Workers : RungsAreNext(w))
<1>1. Init => LadderIsClimbed /\ \A w \in Workers : RungsAreNext(w)
  <2> SUFFICES ASSUME Init
               PROVE  LadderIsClimbed /\ \A w \in Workers : RungsAreNext(w)
    OBVIOUS
  <2>1. \A o \in Orders, l \in Levels : escalation[<<o, l>>] = None
    BY DEF Init
  <2>2. \A w \in Workers : sweep[w] = None
    BY DEF Init
  <2> QED  BY <2>1, <2>2 DEF LadderIsClimbed, RungsAreNext, Fired, At
<1> DEFINE IInv == LadderIsClimbed /\ \A w \in Workers : RungsAreNext(w)
<1>2. IInv /\ (TypeOK /\ Sweeps) /\ [Next]_vars => IInv'
  BY RungsKeepNext, TheLadderStaysClimbed
<1> QED  BY <1>1, <1>2, TypeCorrect, PTL DEF Spec

----------------------------------------------------------------------------
(* What a pass has raised. *)

\* For an order that waits a pass was full, has yet to come to it, is at it, or
\* has raised all that was due.
CaughtUp(w, o) ==
  \/ /\ o \notin sweep[w].found
     /\ Cardinality(sweep[w].found) = TakeOrders
     /\ \A p \in sweep[w].found : confirmedAt[p] <= confirmedAt[o]
  \/ o \in sweep[w].todo
  \/ At(w, "rung") /\ o = sweep[w].order
  \/ \A r \in Ladder : Elapsed(w, o) >= r.after => r.level \in Fired(o)

PassCatchesUp(w) ==
  At(w, "order") \/ At(w, "rung") =>
    \A o \in Waiting(sweep[w].now) : confirmedAt[o] < sweep[w].now => CaughtUp(w, o)

\* An order that waits after a step, and has since before this sweep began,
\* waited before it.
LEMMA WaitedBefore ==
  ASSUME TypeOK, Sweeps, Onward, NEW w \in Workers, sweep[w] # None,
         sweep'[w] # None, sweep'[w].now = sweep[w].now,
         NEW o \in Orders, o \in Waiting(sweep[w].now)',
         confirmedAt'[o] < sweep'[w].now
  PROVE  /\ o \in Waiting(sweep[w].now) /\ confirmedAt'[o] = confirmedAt[o]
         /\ Elapsed(w, o)' = Elapsed(w, o)
<1>1. status'[o] = "CONFIRMED" /\ sweep[w].now <= confirmedAt'[o] + Lookback
  BY DEF Waiting, IsRecent
<1>2. sweep[w].now \in Nat /\ sweep[w].now <= clock
  BY SweepFields DEF SweepOK
<1>3. clock \in Nat /\ clock' \in Nat /\ clock <= clock'
  BY BoundsAssumption DEF TypeOK, Onward
<1>4. status[o] = "CONFIRMED"
  BY <1>1, <1>2, <1>3 DEF Onward
<1>5. confirmedAt'[o] = confirmedAt[o]
  BY <1>4 DEF Onward
<1> QED  BY <1>1, <1>4, <1>5 DEF Waiting, IsRecent, Elapsed

\* What a step leaves alone for an order a pass has dealt with.
LEMMA DoneStaysDone ==
  ASSUME Onward, NEW w \in Workers, NEW o \in Orders,
         Elapsed(w, o)' = Elapsed(w, o),
         \A r \in Ladder : Elapsed(w, o) >= r.after => r.level \in Fired(o)
  PROVE  \A r \in Ladder' : Elapsed(w, o)' >= r.after => r.level \in Fired(o)'
<1>1. Ladder' = Ladder
  BY DEF Onward, Ladder
<1> QED  BY <1>1, FiredStays

LEMMA FullStaysFull ==
  ASSUME Onward, Sweeps, NEW w \in Workers, sweep[w] # None,
         sweep'[w].found = sweep[w].found, NEW o \in Orders,
         confirmedAt'[o] = confirmedAt[o],
         o \notin sweep[w].found, Cardinality(sweep[w].found) = TakeOrders,
         \A p \in sweep[w].found : confirmedAt[p] <= confirmedAt[o]
  PROVE  /\ o \notin sweep'[w].found
         /\ Cardinality(sweep'[w].found) = TakeOrders
         /\ \A p \in sweep'[w].found : confirmedAt'[p] <= confirmedAt'[o]
<1>1. \A p \in sweep[w].found : p \in Orders /\ confirmedAt'[p] = confirmedAt[p]
  BY SweepFields DEF SweepOK, Onward
<1> QED  BY <1>1

LEMMA PassesStand ==
  ASSUME TypeOK, Sweeps, Onward, NEW w \in Workers, PassCatchesUp(w),
         sweep'[w] = sweep[w]
  PROVE  PassCatchesUp(w)'
<1> SUFFICES ASSUME At(w, "order") \/ At(w, "rung"),
                    NEW o \in Orders, o \in Waiting(sweep[w].now)',
                    confirmedAt'[o] < sweep'[w].now
             PROVE  CaughtUp(w, o)'
  BY DEF PassCatchesUp, At, Waiting
<1>1. sweep[w] # None
  BY DEF At
<1>2. /\ o \in Waiting(sweep[w].now) /\ confirmedAt'[o] = confirmedAt[o]
      /\ Elapsed(w, o)' = Elapsed(w, o)
  BY <1>1, WaitedBefore
<1>3. CaughtUp(w, o)
  BY <1>2 DEF PassCatchesUp
<1>4. CASE o \in sweep[w].todo
  BY <1>4 DEF CaughtUp
<1>5. CASE At(w, "rung") /\ o = sweep[w].order
  BY <1>5 DEF CaughtUp, At
<1>6. CASE \A r \in Ladder : Elapsed(w, o) >= r.after => r.level \in Fired(o)
  BY <1>2, <1>6, DoneStaysDone DEF CaughtUp
<1>7. CASE /\ o \notin sweep[w].found
           /\ Cardinality(sweep[w].found) = TakeOrders
           /\ \A p \in sweep[w].found : confirmedAt[p] <= confirmedAt[o]
  BY <1>1, <1>2, <1>7, FullStaysFull DEF CaughtUp
<1> QED  BY <1>3, <1>4, <1>5, <1>6, <1>7 DEF CaughtUp

\* A read of less than it may take is a read of everything.
LEMMA ReadsOldestOrAll ==
  ASSUME NEW waiting \in SUBSET Orders, NEW found \in SUBSET waiting,
         OldestOf(found, waiting), NEW o \in waiting, o \notin found
  PROVE  /\ Cardinality(found) = TakeOrders
         /\ \A p \in found : confirmedAt[p] <= confirmedAt[o]
<1>1. IsFiniteSet(Orders)
  BY NumOrdersAssumption, FS_Interval DEF Orders
<1>2. IsFiniteSet(waiting)
  BY <1>1, FS_Subset
<1>3. Cardinality(found) # Cardinality(waiting)
  BY <1>2, FS_Subset
<1> QED  BY <1>3 DEF OldestOf

\* Every step keeps every pass on its way to having raised what was due.
LEMMA PassesKeepUp ==
  ASSUME TypeOK, Sweeps, [Next]_vars,
         \A w \in Workers : RungsAreNext(w) /\ PassCatchesUp(w),
         NEW w \in Workers
  PROVE  PassCatchesUp(w)'
<1>1. TypeOK' /\ Sweeps' /\ Onward
  BY StepsStayTyped
<1>2. CASE sweep'[w] = sweep[w]
  BY <1>1, <1>2, PassesStand
<1>3. CASE sweep'[w] # sweep[w]
  <2>1. PICK v \in Workers : Sweep(v) \/ BreakOff(v)
    BY <1>3 DEF Next, Tick, Confirm, Acknowledge, vars
  <2>2. v = w
    BY <1>3, <2>1, OthersStand
  <2>3. CASE ReadWaiting(w)
    <3>1. PICK found \in SUBSET Waiting(clock) :
            /\ OldestOf(found, Waiting(clock))
            /\ sweep' = [sweep EXCEPT ![w] =
                 [at |-> "order", now |-> clock, found |-> found, todo |-> found,
                  order |-> None, due |-> {}, rows |-> {}]]
      BY <2>3 DEF ReadWaiting
    <3>2. /\ sweep'[w].now = clock /\ sweep'[w].found = found
          /\ sweep'[w].todo = found
      BY <3>1 DEF Sweeps
    <3>3. UNCHANGED <<status, confirmedAt>>
      BY <2>3 DEF ReadWaiting, world
    <3> SUFFICES ASSUME NEW o \in Orders, o \in Waiting(sweep[w].now)'
                 PROVE  CaughtUp(w, o)'
      BY DEF PassCatchesUp, Waiting
    <3>4. o \in Waiting(clock) /\ Waiting(clock) \subseteq Orders
      BY <3>2, <3>3 DEF Waiting, IsRecent
    <3>5. CASE o \in found
      BY <3>2, <3>5 DEF CaughtUp
    <3>6. CASE o \notin found
      BY <3>1, <3>2, <3>3, <3>4, <3>6, ReadsOldestOrAll DEF CaughtUp
    <3> QED  BY <3>5, <3>6
  <2>4. ASSUME NEW p \in Orders, ReadFired(w, p)
        PROVE  PassCatchesUp(w)'
    <3>1. /\ sweep[w] # None /\ sweep[w].at = "order" /\ sweep'[w] # None
          /\ sweep'[w].now = sweep[w].now /\ sweep'[w].found = sweep[w].found
          /\ sweep'[w].todo = sweep[w].todo \ {p}
          /\ sweep'[w].due = DueEscalations(Elapsed(w, p), Fired(p))
          /\ sweep'[w].at = IF sweep'[w].due = {} THEN "order" ELSE "rung"
          /\ sweep'[w].order = IF sweep'[w].due = {} THEN None ELSE p
      BY <2>4, ReadFiredEffects
    <3> SUFFICES ASSUME NEW o \in Orders, o \in Waiting(sweep[w].now)',
                        confirmedAt'[o] < sweep'[w].now
                 PROVE  CaughtUp(w, o)'
      BY DEF PassCatchesUp, Waiting
    <3>2. /\ o \in Waiting(sweep[w].now) /\ confirmedAt'[o] = confirmedAt[o]
          /\ Elapsed(w, o)' = Elapsed(w, o)
      BY <1>1, <3>1, WaitedBefore
    <3>3. confirmedAt[o] < sweep[w].now /\ At(w, "order") /\ ~At(w, "rung")
      BY <3>1, <3>2 DEF At
    <3>4. CaughtUp(w, o)
      BY <3>2, <3>3 DEF PassCatchesUp
    <3>5. CASE o \in sweep[w].todo /\ o # p
      BY <3>1, <3>5 DEF CaughtUp
    <3>6. CASE o = p /\ sweep'[w].due # {}
      BY <3>1, <3>6 DEF CaughtUp, At
    <3>7. CASE o = p /\ sweep'[w].due = {}
      <4>1. \A r \in Ladder : Elapsed(w, o) >= r.after => r.level \in Fired(o)
        BY <3>1, <3>7 DEF DueEscalations
      <4> QED  BY <1>1, <3>2, <4>1, DoneStaysDone DEF CaughtUp
    <3>8. CASE \A r \in Ladder : Elapsed(w, o) >= r.after => r.level \in Fired(o)
      BY <1>1, <3>2, <3>8, DoneStaysDone DEF CaughtUp
    <3>9. CASE /\ o \notin sweep[w].found
               /\ Cardinality(sweep[w].found) = TakeOrders
               /\ \A q \in sweep[w].found : confirmedAt[q] <= confirmedAt[o]
      BY <1>1, <3>1, <3>2, <3>9, FullStaysFull DEF CaughtUp
    <3> QED  BY <3>3, <3>4, <3>5, <3>6, <3>7, <3>8, <3>9 DEF CaughtUp
  <2>5. ASSUME sweep[w] # None, NEW s \in sweep[w].due, Raise(w, s)
        PROVE  PassCatchesUp(w)'
    <3>1. s \in Rung
      BY <2>5, SweepFields
    <3>2. /\ sweep[w].at = "rung" /\ sweep'[w] # None
          /\ sweep'[w].now = sweep[w].now /\ sweep'[w].found = sweep[w].found
          /\ sweep'[w].todo = sweep[w].todo
          /\ sweep'[w].due = sweep[w].due \ {s}
          /\ sweep'[w].at = IF sweep'[w].due = {} THEN "order" ELSE "rung"
          /\ sweep'[w].order = IF sweep'[w].due = {} THEN None ELSE sweep[w].order
          /\ \E o \in Orders : o = sweep[w].order /\ s.level \in Fired(o)'
      BY <2>5, <3>1, RaiseLeaves
    <3> SUFFICES ASSUME NEW o \in Orders, o \in Waiting(sweep[w].now)',
                        confirmedAt'[o] < sweep'[w].now
                 PROVE  CaughtUp(w, o)'
      BY DEF PassCatchesUp, Waiting
    <3>3. /\ o \in Waiting(sweep[w].now) /\ confirmedAt'[o] = confirmedAt[o]
          /\ Elapsed(w, o)' = Elapsed(w, o)
      BY <1>1, <2>5, <3>2, WaitedBefore
    <3>4. confirmedAt[o] < sweep[w].now /\ At(w, "rung")
      BY <2>5, <3>2, <3>3 DEF At
    <3>5. CaughtUp(w, o)
      BY <3>3, <3>4 DEF PassCatchesUp
    <3>6. CASE o \in sweep[w].todo
      BY <3>2, <3>6 DEF CaughtUp
    <3>7. CASE o = sweep[w].order /\ sweep'[w].due # {}
      BY <3>2, <3>7 DEF CaughtUp, At
    <3>8. CASE o = sweep[w].order /\ sweep'[w].due = {}
      <4>1. s.level \in Fired(o)'
        BY <3>2, <3>8
      <4>2. \A q \in Ladder : q.after <= Elapsed(w, o) => q = s \/ q.level \in Fired(o)
        BY <3>2, <3>4, <3>8 DEF RungsAreNext
      <4>3. Elapsed(w, o) \in Int /\ \A q \in Ladder : q.after \in Nat
        <5>1. sweep[w].now \in Nat
          BY <2>5, SweepFields
        <5>2. confirmedAt[o] \in Nat
          BY BoundsAssumption DEF TypeOK
        <5> QED  BY <5>1, <5>2, LadderFacts DEF Elapsed, Rung, TypeOK
      <4>4. Fired(o) \subseteq Fired(o)'
        BY <1>1, FiredStays
      <4>5. Ladder' = Ladder
        BY <1>1 DEF Onward, Ladder
      <4>6. \A r \in Ladder' : Elapsed(w, o)' >= r.after => r.level \in Fired(o)'
        BY <3>3, <4>1, <4>2, <4>3, <4>4, <4>5
      <4> QED  BY <4>6 DEF CaughtUp
    <3>9. CASE \A r \in Ladder : Elapsed(w, o) >= r.after => r.level \in Fired(o)
      BY <1>1, <3>3, <3>9, DoneStaysDone DEF CaughtUp
    <3>10. CASE /\ o \notin sweep[w].found
                /\ Cardinality(sweep[w].found) = TakeOrders
                /\ \A q \in sweep[w].found : confirmedAt[q] <= confirmedAt[o]
      BY <1>1, <2>5, <3>2, <3>3, <3>10, FullStaysFull DEF CaughtUp
    <3> QED  BY <3>5, <3>6, <3>7, <3>8, <3>9, <3>10 DEF CaughtUp
  <2>6. CASE ReadOpen(w) \/ ReadStillWaiting(w)
    <3>1. \/ sweep'[w] = None
          \/ sweep'[w].at \in {"open", "resolve"}
      BY <2>6, ReadingOpenFits, ReadingStillWaitingFits
    <3> QED  BY <3>1 DEF PassCatchesUp, At
  <2>7. CASE Resolve(w) \/ BreakOff(w)
    <3>1. sweep'[w] = None
      BY <2>7 DEF Resolve, BreakOff, Sweeps
    <3> QED  BY <3>1 DEF PassCatchesUp, At
  <2> QED  BY <2>1, <2>2, <2>3, <2>4, <2>5, <2>6, <2>7 DEF Sweep
<1> QED  BY <1>2, <1>3

(***************************************************************************)
(* When a sweep has gone through its orders, no order that still waits has *)
(* a rung that was due when the sweep began, unless the sweep was full of  *)
(* orders at least as old (sweepOnce and dueEscalations: one read, one     *)
(* pass, every rung that was missed).                                      *)
(***************************************************************************)
THEOREM OnePassIsEnough == Spec => []OnePassCatchesUp
<1> DEFINE IInv == \A w \in Workers : PassCatchesUp(w)
           Rungs == \A w \in Workers : RungsAreNext(w)
<1>1. Init => IInv
  BY DEF Init, PassCatchesUp, At
<1>2. IInv /\ Rungs /\ (TypeOK /\ Sweeps) /\ [Next]_vars => IInv'
  BY PassesKeepUp
<1>3. IInv => OnePassCatchesUp
  <2> SUFFICES ASSUME IInv, NEW w \in Workers, At(w, "order"), sweep[w].todo = {},
                      NEW o \in Waiting(sweep[w].now), confirmedAt[o] < sweep[w].now
               PROVE  \/ \A r \in Ladder : Elapsed(w, o) >= r.after => r.level \in Fired(o)
                      \/ /\ o \notin sweep[w].found
                         /\ Cardinality(sweep[w].found) = TakeOrders
                         /\ \A p \in sweep[w].found : confirmedAt[p] <= confirmedAt[o]
    BY DEF OnePassCatchesUp
  <2>1. CaughtUp(w, o)
    BY DEF PassCatchesUp
  <2> QED  BY <2>1 DEF CaughtUp, At
<1> QED  BY <1>1, <1>2, <1>3, TypeCorrect, RungsInOrder, PTL DEF Spec

=============================================================================
