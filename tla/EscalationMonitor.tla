-------------------------- MODULE EscalationMonitor --------------------------
(***************************************************************************)
(* EscalationMonitor (apps/worker/src/escalation-monitor.ts), the alarm    *)
(* for orders nobody acknowledges, with the ladder rules of                *)
(* packages/domain/src/kitchen.ts.  Its other alarm, for customers who     *)
(* wait for a person, belongs with the conversation.                       *)
(*                                                                         *)
(* A sweep is a list of statements, each a transaction of its own: read    *)
(* the orders that are CONFIRMED; for each, read what has been raised and  *)
(* raise what is due; read the escalations that are open; read which of    *)
(* their orders still wait; resolve the others.  It measures every delay   *)
(* from the moment it began.                                               *)
(*                                                                         *)
(* Time is counted in steps that tell the delays of the ladder apart.  An  *)
(* order's life is cut to the three parts the monitor can tell apart.      *)
(***************************************************************************)
EXTENDS Naturals, FiniteSets, Sequences, Functions

CONSTANTS
  NumOrders,
  Workers,
  Settings,        \* the ladders a tenant's settings may hold, valid or not
  DefaultLadder,   \* DEFAULT_ESCALATION_LADDER
  Lookback,        \* LOOKBACK_HOURS
  TakeOrders,      \* at most so many orders are read in a sweep
  TakeOpen,        \* at most so many open escalations
  MaxTime,         \* bound: the clock
  MaxFaults,       \* bound: failed statements and deaths
  None

Orders == 1 .. NumOrders
Rung == [level : Nat, after : Nat]

ASSUME SettingsAssumption == Settings \subseteq Seq(Rung)
ASSUME NumOrdersAssumption == NumOrders \in Nat
ASSUME LookbackAssumption == Lookback \in Nat
ASSUME TakeAssumption == TakeOrders \in Nat \ {0} /\ TakeOpen \in Nat \ {0}
ASSUME BoundsAssumption == MaxTime \in Nat /\ MaxFaults \in Nat

VARIABLES
  settings,      \* what the tenant has configured
  clock,
  status,        \* "early", "CONFIRMED" or "acknowledged" (or cancelled)
  confirmedAt,
  escalation,    \* order_escalations, by order and level
  alerts,        \* ORDER_ACKNOWLEDGEMENT_TIMEOUT events in the outbox
  sweep,         \* what each worker is in the middle of
  faults

vars == <<settings, clock, status, confirmedAt, escalation, alerts, sweep,
          faults>>
world == <<settings, clock, status, confirmedAt>>

----------------------------------------------------------------------------
(* The ladder. *)

\* At least one rung, levels and delays positive and each of them once.
IsSane(rungs) ==
  /\ rungs # <<>>
  /\ \A i \in DOMAIN rungs : rungs[i].level >= 1 /\ rungs[i].after >= 1
  /\ \A i, j \in DOMAIN rungs : i # j =>
       rungs[i].level # rungs[j].level /\ rungs[i].after # rungs[j].after

\* Sorted by delay, which no two rungs share: the set and its order say as much.
\* Settings that are not sane fall back to the default.
Ladder == IF IsSane(settings) THEN Range(settings) ELSE Range(DefaultLadder)

ASSUME DefaultLadderAssumption == DefaultLadder \in Seq(Rung) /\ IsSane(DefaultLadder)

Levels == {r.level : r \in UNION {Range(s) : s \in Settings \union {DefaultLadder}}}

\* Mutant: only the next rung, as if nothing had been missed.
DueEscalationsOneByOne(elapsed, fired) ==
  {r \in Ladder : /\ elapsed >= r.after /\ r.level \notin fired
                  /\ \A q \in Ladder : q.after < r.after => q.level \in fired}

\* Every rung whose delay has passed and that has not fired.
DueEscalations(elapsed, fired) ==
  {r \in Ladder : elapsed >= r.after /\ r.level \notin fired}

----------------------------------------------------------------------------
Init ==
  /\ settings \in Settings
  /\ clock = 0
  /\ status = [o \in Orders |-> "early"]
  /\ confirmedAt = [o \in Orders |-> 0]
  /\ escalation = [k \in Orders \X Levels |-> None]
  /\ alerts = [k \in Orders \X Levels |-> 0]
  /\ sweep = [w \in Workers |-> None]
  /\ faults = 0

\* The count begins with the first order.
Tick ==
  /\ clock < MaxTime
  /\ \E o \in Orders : status[o] # "early"
  /\ clock' = clock + 1
  /\ UNCHANGED <<settings, status, confirmedAt, escalation, alerts, sweep, faults>>

\* Orders are numbered as they are confirmed, which loses nothing but a renaming.
Confirm(o) ==
  /\ status[o] = "early"
  /\ \A p \in 1 .. (o - 1) : status[p] # "early"
  /\ status' = [status EXCEPT ![o] = "CONFIRMED"]
  /\ confirmedAt' = [confirmedAt EXCEPT ![o] = clock]
  /\ UNCHANGED <<settings, clock, escalation, alerts, sweep, faults>>

\* The kitchen accepts or rejects it, or it is cancelled.
Acknowledge(o) ==
  /\ status[o] = "CONFIRMED"
  /\ status' = [status EXCEPT ![o] = "acknowledged"]
  /\ UNCHANGED <<settings, clock, confirmedAt, escalation, alerts, sweep, faults>>

----------------------------------------------------------------------------
(* A sweep. *)

At(w, place) == sweep[w] # None /\ sweep[w].at = place

IsRecent(o, now) == now <= confirmedAt[o] + Lookback

Waiting(now) == {o \in Orders : status[o] = "CONFIRMED" /\ IsRecent(o, now)}

\* The oldest come first, and only so many of them.
OldestOf(found, orders) ==
  /\ Cardinality(found) = IF Cardinality(orders) < TakeOrders
                          THEN Cardinality(orders) ELSE TakeOrders
  /\ \A o \in found, p \in orders \ found : confirmedAt[o] <= confirmedAt[p]

ReadWaiting(w) ==
  /\ sweep[w] = None
  /\ \E found \in SUBSET Waiting(clock) :
       /\ OldestOf(found, Waiting(clock))
       /\ sweep' = [sweep EXCEPT ![w] =
            [at |-> "order", now |-> clock, found |-> found, todo |-> found,
             order |-> None, due |-> {}, rows |-> {}]]
  /\ UNCHANGED <<world, escalation, alerts, faults>>

Fired(o) == {l \in Levels : escalation[<<o, l>>] # None}

Elapsed(w, o) == sweep[w].now - confirmedAt[o]

\* The next order: what has been raised for it, and so what is due.
ReadFired(w, o) ==
  /\ At(w, "order")
  /\ o \in sweep[w].todo
  /\ \A p \in sweep[w].todo : confirmedAt[o] <= confirmedAt[p]
  /\ LET due == DueEscalations(Elapsed(w, o), Fired(o)) IN
       sweep' = [sweep EXCEPT ![w] =
                   [@ EXCEPT !.at = IF due = {} THEN "order" ELSE "rung",
                             !.todo = sweep[w].todo \ {o},
                             !.order = IF due = {} THEN None ELSE o,
                             !.due = due]]
  /\ UNCHANGED <<world, escalation, alerts, faults>>

\* On to the next rung, or the next order.
Climb(w, r) ==
  LET due == sweep[w].due \ {r} IN
    sweep' = [sweep EXCEPT ![w] =
                [@ EXCEPT !.due = due,
                          !.at = IF due = {} THEN "order" ELSE "rung",
                          !.order = IF due = {} THEN None ELSE sweep[w].order]]

IsNextRung(w, r) ==
  /\ At(w, "rung")
  /\ r \in sweep[w].due
  /\ \A q \in sweep[w].due : r.after <= q.after

\* Mutant: no unique (order_id, level), or an upsert: the event goes out again.
RaiseAgain(w, r) ==
  /\ IsNextRung(w, r)
  /\ LET o == sweep[w].order  k == <<o, r.level>> IN
       /\ escalation' = [escalation EXCEPT ![k] =
                           [delay |-> Elapsed(w, o), resolved |-> FALSE]]
       /\ alerts' = [alerts EXCEPT ![k] = @ + 1]
  /\ Climb(w, r)
  /\ UNCHANGED <<world, faults>>

\* The row and its event in one transaction; where another worker has the row,
\* neither.  Whether the order still waits is not looked at again.
Raise(w, r) ==
  /\ IsNextRung(w, r)
  /\ LET o == sweep[w].order  k == <<o, r.level>> IN
       IF escalation[k] = None
       THEN /\ escalation' = [escalation EXCEPT ![k] =
                                [delay |-> Elapsed(w, o), resolved |-> FALSE]]
            /\ alerts' = [alerts EXCEPT ![k] = @ + 1]
       ELSE UNCHANGED <<escalation, alerts>>
  /\ Climb(w, r)
  /\ UNCHANGED <<world, faults>>

\* Mutant: what is too old for the sweep is too old to be cleared.
IsOpenRecent(k) ==
  escalation[k] # None /\ ~escalation[k].resolved /\ IsRecent(k[1], clock)

IsOpen(k) == escalation[k] # None /\ ~escalation[k].resolved

\* The rest of the sweep knows only these rows.
Resolving(place, rows) ==
  [at |-> place, now |-> 0, found |-> {}, todo |-> {}, order |-> None,
   due |-> {}, rows |-> rows]

\* resolveAcknowledged: at most TakeOpen of the open escalations, whichever, as
\* the read names no order.
ReadOpen(w) ==
  /\ At(w, "order") /\ sweep[w].todo = {}
  /\ LET open == {k \in Orders \X Levels : IsOpen(k)} IN
       \E rows \in SUBSET open :
         /\ Cardinality(rows) = IF Cardinality(open) < TakeOpen
                                THEN Cardinality(open) ELSE TakeOpen
         /\ sweep' = IF rows = {} THEN [sweep EXCEPT ![w] = None]
                     ELSE [sweep EXCEPT ![w] = Resolving("open", rows)]
  /\ UNCHANGED <<world, escalation, alerts, faults>>

StillWaiting == {o \in Orders : status[o] = "CONFIRMED"}

ReadStillWaiting(w) ==
  /\ At(w, "open")
  /\ LET rows == {k \in sweep[w].rows : k[1] \notin StillWaiting} IN
       sweep' = IF rows = {} THEN [sweep EXCEPT ![w] = None]
                ELSE [sweep EXCEPT ![w] = Resolving("resolve", rows)]
  /\ UNCHANGED <<world, escalation, alerts, faults>>

Resolve(w) ==
  /\ At(w, "resolve")
  /\ escalation' = [k \in Orders \X Levels |->
                      IF k \in sweep[w].rows
                      THEN [escalation[k] EXCEPT !.resolved = TRUE] ELSE escalation[k]]
  /\ sweep' = [sweep EXCEPT ![w] = None]
  /\ UNCHANGED <<world, alerts, faults>>

\* Mutant: an escalation that cannot be raised is skipped, and the sweep goes on.
BreakOffRung(w) ==
  /\ sweep[w] # None
  /\ faults < MaxFaults
  /\ faults' = faults + 1
  /\ IF At(w, "rung")
     THEN \E r \in sweep[w].due : IsNextRung(w, r) /\ Climb(w, r)
     ELSE sweep' = [sweep EXCEPT ![w] = None]
  /\ UNCHANGED <<world, escalation, alerts>>

\* A statement throws out of the sweep to tick(), or the worker dies.
BreakOff(w) ==
  /\ sweep[w] # None
  /\ faults < MaxFaults
  /\ faults' = faults + 1
  /\ sweep' = [sweep EXCEPT ![w] = None]
  /\ UNCHANGED <<world, escalation, alerts>>

----------------------------------------------------------------------------
Sweep(w) ==
  \/ ReadWaiting(w)
  \/ \E o \in Orders : ReadFired(w, o)
  \/ sweep[w] # None /\ \E r \in sweep[w].due : Raise(w, r)
  \/ ReadOpen(w)
  \/ ReadStillWaiting(w)
  \/ Resolve(w)

Next ==
  \/ Tick
  \/ \E o \in Orders : Confirm(o) \/ Acknowledge(o)
  \/ \E w \in Workers : Sweep(w) \/ BreakOff(w)

\* tick() schedules the next sweep whether this one returned or threw, and a dead
\* worker is restarted.  Nothing is assumed of kitchens, nor of time.
Fairness == \A w \in Workers : WF_vars(Sweep(w))

Spec == Init /\ [][Next]_vars /\ Fairness

----------------------------------------------------------------------------
Keys == Orders \X Levels
SweepState ==
  [at : {"order", "rung", "open", "resolve"}, now : Nat, found : SUBSET Orders,
   todo : SUBSET Orders, order : Orders \union {None}, due : SUBSET Rung,
   rows : SUBSET Keys]
Escalation == [delay : Nat, resolved : BOOLEAN]

\* A null is none of the values it stands in for.
ASSUME NoneAssumption == None \notin SweepState \union Escalation \union Orders

\* The type invariant.  An escalation has its event and no event is without
\* one: "nobody is alerted twice", whatever the number of workers.
TypeOK ==
  /\ settings \in Settings
  /\ clock \in 0 .. MaxTime
  /\ status \in [Orders -> {"early", "CONFIRMED", "acknowledged"}]
  /\ confirmedAt \in [Orders -> 0 .. clock]
  /\ escalation \in [Keys -> Escalation \union {None}]
  /\ alerts = [k \in Keys |-> IF escalation[k] = None THEN 0 ELSE 1]
  /\ \A w \in Workers : sweep[w] # None =>
       sweep[w].now <= clock /\ (sweep[w].at = "rung" <=> sweep[w].due # {})
  /\ faults \in 0 .. MaxFaults

(***************************************************************************)
(* "Rungs out of order would alert the owner before the kitchen": whatever *)
(* the settings, the workers and the failures, no rung is raised while one *)
(* of a shorter delay is not.                                              *)
(***************************************************************************)
LadderIsClimbed ==
  \A o \in Orders : \A q, r \in Ladder :
    q.after < r.after /\ r.level \in Fired(o) => q.level \in Fired(o)

(***************************************************************************)
(* A sweep "finds everything it missed on its first pass and raises every  *)
(* rung that came due": when it has gone through its orders, no order that *)
(* still waits has a rung that was due when the sweep began, unless the    *)
(* sweep was full of orders at least as old.                               *)
(***************************************************************************)
OnePassCatchesUp ==
  \A w \in Workers : At(w, "order") /\ sweep[w].todo = {} =>
    \A o \in Waiting(sweep[w].now) :
      confirmedAt[o] < sweep[w].now =>
        \/ \A r \in Ladder : Elapsed(w, o) >= r.after => r.level \in Fired(o)
        \/ /\ o \notin sweep[w].found
           /\ Cardinality(sweep[w].found) = TakeOrders
           /\ \A p \in sweep[w].found : confirmedAt[p] <= confirmedAt[o]

(***************************************************************************)
(* "A dashboard banner clears itself" and is never taken away too early:   *)
(* what is resolved, or about to be, was acknowledged.                     *)
(***************************************************************************)
BannersStayUp ==
  /\ \A o \in Orders, l \in Levels :
       escalation[<<o, l>>] # None /\ escalation[<<o, l>>].resolved =>
         status[o] = "acknowledged"
  /\ \A w \in Workers : At(w, "resolve") =>
       \A k \in sweep[w].rows : status[k[1]] = "acknowledged"

\* The open escalations of orders that still wait fill a whole read.
Crowded ==
  Cardinality({k \in Keys : IsOpen(k) /\ k[1] \in StillWaiting}) >= TakeOpen

(***************************************************************************)
(* And no banner stays up for an order that was acknowledged, not even one *)
(* raised by a sweep that was under way when it was.  The read behind it   *)
(* takes so many open escalations and has no order: while those of orders  *)
(* that still wait can fill it, it may pass over the others every time.    *)
(* As long as there is room for one more, each sweep clears some.          *)
(***************************************************************************)
BannersClear ==
  []<>(\/ Crowded
       \/ \A o \in Orders, l \in Levels :
            status[o] = "acknowledged" /\ escalation[<<o, l>>] # None =>
              escalation[<<o, l>>].resolved)

\* A banner is up as long as its order waits, and a bounded number of sweeps
\* longer (resolveAcknowledged, with its take and against a raise under way).
BannersAreTrue == []BannersStayUp /\ BannersClear
=============================================================================
