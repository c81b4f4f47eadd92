---------------------------- MODULE OrdersProofs ----------------------------
(***************************************************************************)
(* What Orders promises for every set of orders, actors and customers and  *)
(* for every bound on the history: the type invariant, the agreement of    *)
(* status, history and outbox, the life of an order no two transactions    *)
(* overlapped on, when it is paid, and the implementation of               *)
(* OrderLifecycle.                                                         *)
(***************************************************************************)
EXTENDS Orders, FiniteSetTheorems, TLAPS

----------------------------------------------------------------------------
(* Facts of the state machine. *)

\* A legal move of an order that is at a status of its type ends at another.
LEMMA MoveStaysInType ==
  ASSUME NEW ty \in OrderType, NEW s \in StatusesOf(ty), NEW to \in OrderStatus,
         CanTransition(s, to, ty)
  PROVE  to \in StatusesOf(ty)
  BY DEF CanTransition, OrderTransitions, StatusesOf, OrderType, OrderStatus

\* Nothing follows a handover.
LEMMA ReceivedIsTerminal ==
  ASSUME NEW s \in Received, NEW to, NEW ty
  PROVE  ~CanTransition(s, to, ty)
  BY DEF Received, CanTransition, OrderTransitions

\* Once the kitchen has taken the order no move brings it back before that.
LEMMA KitchenIsNotUndone ==
  ASSUME NEW s, NEW to, NEW ty, CanTransition(s, to, ty), ~CustomerMayCancel(s)
  PROVE  ~CustomerMayCancel(to)
  BY DEF CanTransition, OrderTransitions, CustomerMayCancel

----------------------------------------------------------------------------
(* TypeOK is inductive. *)

THEOREM TypeCorrect == Spec => []TypeOK
<1>1. Init => TypeOK
  <2> SUFFICES ASSUME Init PROVE TypeOK
    OBVIOUS
  <2>1. \A o \in Orders : status[o] \in {"PENDING_PAYMENT", "CONFIRMED"}
    BY DEF Init, StatusAfterCheckout
  <2>2. status \in [Orders -> OrderStatus]
    BY <2>1 DEF Init, OrderStatus
  <2>3. payment \in [Orders -> PaymentStatus]
    BY DEF Init, PaymentAfterCheckout, PaymentStatus
  <2>4. history \in [Orders -> Seq(Row)]
    <3>1. \A o \in Orders :
            [from |-> NoStatus, to |-> status[o], actor |-> Checkout] \in Row
      BY <2>2 DEF Row
    <3> QED  BY <3>1 DEF Init
  <2>5. events \in [Orders -> Seq(Event)]
    <3>1. \A o \in Orders : StatusEvent(o, NoStatus, "CONFIRMED") \in Event
      BY DEF StatusEvent, Event, OrderStatus
    <3>2. \A o \in Orders :
            (IF status[o] = "CONFIRMED"
             THEN <<StatusEvent(o, NoStatus, "CONFIRMED")>> ELSE <<>>)
            \in Seq(Event)
      BY <3>1
    <3> QED  BY <3>2 DEF Init
  <2>6. \A o \in Orders : status[o] \in StatusesOf(type[o])
    BY <2>1 DEF StatusesOf
  <2>7. \A a \in Actors : txn[a] = NoTxn
    BY DEF Init
  <2> QED
    BY <2>2, <2>3, <2>4, <2>5, <2>6, <2>7 DEF Init, TypeOK
<1>2. TypeOK /\ [Next]_vars => TypeOK'
  <2> SUFFICES ASSUME TypeOK, [Next]_vars PROVE TypeOK'
    OBVIOUS
  <2>1. ASSUME NEW a \in Actors, NEW o \in Orders, NEW to \in OrderStatus,
               Load(a, o, to)
        PROVE  TypeOK'
    <3> DEFINE t == [order |-> o, from |-> status[o], paid |-> payment[o],
                     to |-> to]
    <3>1. t \in Txn
      BY DEF TypeOK, Txn
    <3>2. to \in StatusesOf(type[o])
      BY <2>1, MoveStaysInType DEF Load, TypeOK
    <3>3. /\ txn' = [txn EXCEPT ![a] = t]
          /\ UNCHANGED <<type, method, status, payment, history, events,
                         totalOrders, raced>>
      BY <2>1 DEF Load
    <3>4. txn' \in [Actors -> Txn \union {NoTxn}]
      BY <3>1, <3>3 DEF TypeOK
    <3>5. \A b \in Actors : txn'[b] # NoTxn =>
            txn'[b].to \in StatusesOf(type[txn'[b].order])
      BY <3>2, <3>3 DEF TypeOK
    <3> QED  BY <3>3, <3>4, <3>5 DEF TypeOK
  <2>2. ASSUME NEW a \in Actors, Commit(a)
        PROVE  TypeOK'
    <3> DEFINE t == txn[a]
    <3>1. /\ t \in Txn
          /\ t.to \in StatusesOf(type[t.order])
          /\ t.order \in Orders
          /\ t.to \in OrderStatus
          /\ t.from \in OrderStatus
      BY <2>2 DEF Commit, TypeOK, Txn
    <3>2. /\ status' = [status EXCEPT ![t.order] = t.to]
          /\ payment' \in [Orders -> PaymentStatus]
      BY <2>2 DEF Commit, WriteOrder, TypeOK, PaymentStatus
    <3>3. history' \in [Orders -> Seq(Row)]
      <4>1. [from |-> t.from, to |-> t.to, actor |-> a] \in Row
        BY <3>1 DEF Row
      <4> QED  BY <2>2, <3>1, <4>1 DEF Commit, TypeOK
    <3>4. events' \in [Orders -> Seq(Event)]
      <4>1. StatusEvent(t.order, t.from, t.to) \in Event
        BY <3>1 DEF StatusEvent, Event
      <4> QED  BY <2>2, <3>1, <4>1 DEF Commit, TypeOK
    <3>5. totalOrders' \in [Customers -> Nat]
      <4>1. CustomerOf[t.order] \in Customers
        BY <3>1, CustomerOfAssumption
      <4>2. CountReceived(t)
        BY <2>2 DEF Commit
      <4>3. totalOrders \in [Customers -> Nat]
        BY DEF TypeOK
      <4> HIDE DEF t
      <4> QED  BY <4>1, <4>2, <4>3 DEF CountReceived
    <3>6. /\ txn' = [txn EXCEPT ![a] = NoTxn]
          /\ raced' \subseteq Orders
          /\ UNCHANGED <<type, method>>
      BY <2>2, <3>1 DEF Commit, TypeOK
    <3>7. \A x \in Orders : status'[x] \in StatusesOf(type'[x])
      BY <3>1, <3>2, <3>6 DEF TypeOK
    <3> QED
      BY <3>1, <3>2, <3>3, <3>4, <3>5, <3>6, <3>7 DEF TypeOK
  <2>3. ASSUME NEW a \in Actors, Rollback(a)
        PROVE  TypeOK'
    BY <2>3 DEF Rollback, TypeOK
  <2>4. CASE UNCHANGED vars
    BY <2>4 DEF vars, TypeOK
  <2> QED  BY <2>1, <2>2, <2>3, <2>4 DEF Next
<1> QED  BY <1>1, <1>2, PTL DEF Spec

----------------------------------------------------------------------------
(* Status, history and outbox agree. *)

\* What one commit appends, and to which order; used by every proof below.
LEMMA CommitAppends ==
  ASSUME TypeOK, NEW a \in Actors, Commit(a)
  PROVE  LET t == txn[a] IN
           /\ t \in Txn
           /\ status' = [status EXCEPT ![t.order] = t.to]
           /\ history' = [history EXCEPT ![t.order] =
                Append(@, [from |-> t.from, to |-> t.to, actor |-> a])]
           /\ events' = [events EXCEPT ![t.order] =
                Append(@, StatusEvent(t.order, t.from, t.to))]
           /\ UNCHANGED <<type, method>>
  BY DEF Commit, WriteOrder, TypeOK

\* TrailAgrees, one order at a time.
TrailOf(o) ==
  /\ Len(history[o]) > 0
  /\ history[o][Len(history[o])].to = status[o]
  /\ Len(history[o]) = Len(events[o]) + Silent(o)
  /\ \A i \in 1 .. Len(events[o]) :
       LET row == history[o][i + Silent(o)] IN
         events[o][i] = StatusEvent(o, row.from, row.to)

THEOREM TrailAlwaysAgrees == Spec => []TrailAgrees
<1>1. Init => TrailAgrees
  <2> SUFFICES ASSUME Init, NEW o \in Orders PROVE TrailOf(o)
    BY DEF TrailAgrees, TrailOf
  <2>1. history[o] = <<[from |-> NoStatus, to |-> status[o], actor |-> Checkout]>>
    BY DEF Init
  <2>2. CASE method[o] = "ONLINE"
    <3>1. events[o] = <<>>
      BY <2>2 DEF Init, StatusAfterCheckout
    <3> QED  BY <2>1, <2>2, <3>1 DEF TrailOf, Silent
  <2>3. CASE method[o] # "ONLINE"
    <3>1. /\ events[o] = <<StatusEvent(o, NoStatus, "CONFIRMED")>>
          /\ status[o] = "CONFIRMED"
      BY <2>3 DEF Init, StatusAfterCheckout
    <3> QED  BY <2>1, <2>3, <3>1 DEF TrailOf, Silent
  <2> QED  BY <2>2, <2>3
<1>2. TypeOK /\ TrailAgrees /\ [Next]_vars => TrailAgrees'
  <2> SUFFICES ASSUME TypeOK, TrailAgrees, [Next]_vars, NEW o \in Orders
               PROVE  TrailOf(o)'
    BY DEF TrailAgrees, TrailOf
  <2>0. TrailOf(o)
    BY DEF TrailAgrees, TrailOf
  <2>1. ASSUME NEW a \in Actors, Commit(a)
        PROVE  TrailOf(o)'
    <3> DEFINE t == txn[a]
               row == [from |-> t.from, to |-> t.to, actor |-> a]
               ev == StatusEvent(t.order, t.from, t.to)
    <3>1. /\ t \in Txn
          /\ status' = [status EXCEPT ![t.order] = t.to]
          /\ history' = [history EXCEPT ![t.order] = Append(@, row)]
          /\ events' = [events EXCEPT ![t.order] = Append(@, ev)]
          /\ UNCHANGED <<type, method>>
      BY <2>1, CommitAppends
    <3>2. CASE o # t.order
      BY <2>0, <3>1, <3>2 DEF TrailOf, Silent, TypeOK
    <3>3. CASE o = t.order
      <4> DEFINE h == history[o]
                 e == events[o]
                 k == Silent(o)
      <4>1. /\ history'[o] = Append(h, row)
            /\ events'[o] = Append(e, ev)
            /\ status'[o] = t.to
            /\ Silent(o)' = k
        BY <3>1, <3>3 DEF TypeOK, Silent
      <4>2. /\ h \in Seq(Row)
            /\ e \in Seq(Event)
            /\ k \in {0, 1}
            /\ Len(h) = Len(e) + k
        BY <2>0 DEF TypeOK, TrailOf, Silent
      <4>3. /\ Len(Append(h, row)) = Len(h) + 1
            /\ Len(Append(e, ev)) = Len(e) + 1
            /\ Append(h, row)[Len(h) + 1] = row
            /\ Append(e, ev)[Len(e) + 1] = ev
            /\ \A i \in 1 .. Len(h) : Append(h, row)[i] = h[i]
            /\ \A i \in 1 .. Len(e) : Append(e, ev)[i] = e[i]
        BY <4>2
      <4>4. ASSUME NEW i \in 1 .. Len(e) + 1
            PROVE  Append(e, ev)[i] =
                     StatusEvent(o, Append(h, row)[i + k].from,
                                    Append(h, row)[i + k].to)
        <5>1. CASE i \in 1 .. Len(e)
          <6>1. i + k \in 1 .. Len(h)
            BY <4>2, <5>1
          <6>2. e[i] = StatusEvent(o, h[i + k].from, h[i + k].to)
            BY <2>0, <5>1 DEF TrailOf
          <6> QED  BY <4>3, <5>1, <6>1, <6>2
        <5>2. CASE i = Len(e) + 1
          <6>1. i + k = Len(h) + 1
            BY <4>2, <5>2
          <6>2. Append(h, row)[i + k] = row /\ Append(e, ev)[i] = ev
            BY <4>3, <5>2, <6>1
          <6>3. row.from = t.from /\ row.to = t.to
            OBVIOUS
          <6> QED  BY <3>3, <6>2, <6>3
        <5> QED  BY <4>2, <5>1, <5>2
      <4> HIDE DEF ev, h, e, k
      <4>5. /\ Len(history'[o]) > 0
            /\ history'[o][Len(history'[o])].to = status'[o]
            /\ Len(history'[o]) = Len(events'[o]) + Silent(o)'
        BY <4>1, <4>2, <4>3
      <4>6. \A i \in 1 .. Len(events'[o]) :
              events'[o][i] = StatusEvent(o, history'[o][i + Silent(o)'].from,
                                             history'[o][i + Silent(o)'].to)
        BY <4>1, <4>3, <4>4
      <4> QED  BY <4>5, <4>6 DEF TrailOf
    <3> QED  BY <3>2, <3>3
  <2>2. ASSUME UNCHANGED <<status, history, events, method>>
        PROVE  TrailOf(o)'
    BY <2>0, <2>2 DEF TrailOf, Silent
  <2>3. ASSUME NEW a \in Actors, NEW x \in Orders, NEW to \in OrderStatus,
               Load(a, x, to)
        PROVE  TrailOf(o)'
    BY <2>2, <2>3 DEF Load
  <2>4. ASSUME NEW a \in Actors, Rollback(a)
        PROVE  TrailOf(o)'
    BY <2>2, <2>4 DEF Rollback
  <2>5. CASE UNCHANGED vars
    BY <2>2, <2>5 DEF vars
  <2> QED  BY <2>1, <2>3, <2>4, <2>5 DEF Next
<1> QED  BY <1>1, <1>2, TypeCorrect, PTL DEF Spec
----------------------------------------------------------------------------
(* The life of an order on which no two transactions overlapped. *)

\* What makes UnracedLifecycle and PaidMeansReceived inductive: a transaction
\* open on an order nobody raced on has read what is still there, every move
\* about to be made was legal where it was read, an accepted order never counts
\* as untouched again, and only the door turns UNPAID into PAID.
SeenIsCurrent ==
  \A a \in Actors :
    txn[a] # NoTxn /\ txn[a].order \notin raced =>
      /\ txn[a].from = status[txn[a].order]
      /\ txn[a].paid = payment[txn[a].order]

MoveWasLegal ==
  \A a \in Actors : txn[a] # NoTxn =>
    /\ CanTransition(txn[a].from, txn[a].to, type[txn[a].order])
    /\ ActorMayTransition(a \in Cancellers, txn[a].from, txn[a].to)

LastRowIsStatus ==
  \A o \in Orders :
    /\ Len(history[o]) > 0
    /\ history[o][Len(history[o])].to = status[o]

KitchenRemembered ==
  \A o \in Orders \ raced :
    (\E i \in 1 .. Len(history[o]) : history[o][i].to = "ACCEPTED")
      => ~CustomerMayCancel(status[o])

UnpaidUntilDoor ==
  \A o \in Orders :
    IF method[o] = "ONLINE" THEN payment[o] = "PENDING"
                            ELSE payment[o] \in {"UNPAID", "PAID"}

LifeInv ==
  /\ SeenIsCurrent
  /\ MoveWasLegal
  /\ LastRowIsStatus
  /\ KitchenRemembered
  /\ UnpaidUntilDoor
  /\ UnracedLifecycle
  /\ PaidMeansReceived
LEMMA LifeInit == Init => LifeInv
<1> SUFFICES ASSUME Init PROVE LifeInv
  OBVIOUS
<1>1. \A o \in Orders :
        /\ status[o] \in {"PENDING_PAYMENT", "CONFIRMED"}
        /\ payment[o] = IF method[o] = "ONLINE" THEN "PENDING" ELSE "UNPAID"
  BY DEF Init, StatusAfterCheckout, PaymentAfterCheckout
<1>len. \A o \in Orders : Len(history[o]) = 1
  BY DEF Init
<1>row. \A o \in Orders : history[o][1].to = status[o]
  BY DEF Init
<1>2. SeenIsCurrent /\ MoveWasLegal
  BY DEF Init, SeenIsCurrent, MoveWasLegal
<1>3. LastRowIsStatus /\ UnracedLifecycle
  <2>1. LastRowIsStatus
    BY <1>len, <1>row DEF LastRowIsStatus
  <2>2. \A o \in Orders : 2 .. Len(history[o]) = {}
    <3>1. \A o \in Orders : 2 .. Len(history[o]) = 2 .. 1
      BY <1>len
    <3> QED  BY <3>1
  <2>3. UnracedLifecycle
    BY <2>2 DEF UnracedLifecycle
  <2> QED  BY <2>1, <2>3
<1>4. KitchenRemembered
  <2>1. \A o \in Orders : \A i \in 1 .. Len(history[o]) :
          history[o][i].to # "ACCEPTED"
    <3> SUFFICES ASSUME NEW o \in Orders, NEW i \in 1 .. Len(history[o])
                 PROVE  history[o][i].to # "ACCEPTED"
      OBVIOUS
    <3>1. i = 1
      <4>1. Len(history[o]) = 1
        BY <1>len
      <4>2. i \in 1 .. 1
        BY <4>1
      <4> QED  BY <4>2
    <3>2. history[o][1].to \in {"PENDING_PAYMENT", "CONFIRMED"}
      BY <1>1, <1>row
    <3> QED  BY <3>1, <3>2
  <2> QED  BY <2>1 DEF KitchenRemembered
<1>5. UnpaidUntilDoor /\ PaidMeansReceived
  BY <1>1 DEF UnpaidUntilDoor, PaidMeansReceived, Received
<1> QED  BY <1>2, <1>3, <1>4, <1>5 DEF LifeInv

\* A step that writes no order keeps everything but the two facts about
\* open transactions.
LEMMA LifeOrdersUntouched ==
  ASSUME LifeInv, UNCHANGED <<type, method, status, payment, history, raced>>
  PROVE  /\ LastRowIsStatus'
         /\ KitchenRemembered'
         /\ UnpaidUntilDoor'
         /\ UnracedLifecycle'
         /\ PaidMeansReceived'
<1>1. LastRowIsStatus'
  BY DEF LifeInv, LastRowIsStatus
<1>2. KitchenRemembered'
  BY DEF LifeInv, KitchenRemembered
<1>3. UnpaidUntilDoor'
  BY DEF LifeInv, UnpaidUntilDoor
<1>4. UnracedLifecycle'
  BY DEF LifeInv, UnracedLifecycle
<1>5. PaidMeansReceived'
  BY DEF LifeInv, PaidMeansReceived
<1> QED  BY <1>1, <1>2, <1>3, <1>4, <1>5

LEMMA LifeLoad ==
  ASSUME TypeOK, LifeInv,
         NEW a \in Actors, NEW o \in Orders, NEW to \in OrderStatus,
         Load(a, o, to)
  PROVE  LifeInv'
<1>1. UNCHANGED <<type, method, status, payment, history, raced>>
  BY DEF Load
<1>2. txn' = [txn EXCEPT ![a] = [order |-> o, from |-> status[o],
                                 paid |-> payment[o], to |-> to]]
  BY DEF Load
<1>3. SeenIsCurrent'
  BY <1>1, <1>2 DEF LifeInv, SeenIsCurrent, TypeOK
<1>4. MoveWasLegal'
  BY <1>1, <1>2 DEF LifeInv, MoveWasLegal, TypeOK, Load
<1> QED  BY <1>1, <1>3, <1>4, LifeOrdersUntouched DEF LifeInv

LEMMA LifeRollback ==
  ASSUME TypeOK, LifeInv, NEW a \in Actors, Rollback(a)
  PROVE  LifeInv'
<1>1. UNCHANGED <<type, method, status, payment, history, raced>>
  BY DEF Rollback
<1>2. txn' = [txn EXCEPT ![a] = NoTxn]
  BY DEF Rollback
<1>3. SeenIsCurrent'
  BY <1>1, <1>2 DEF LifeInv, SeenIsCurrent, TypeOK
<1>4. MoveWasLegal'
  BY <1>1, <1>2 DEF LifeInv, MoveWasLegal, TypeOK
<1> QED  BY <1>1, <1>3, <1>4, LifeOrdersUntouched DEF LifeInv

LEMMA LifeCommit ==
  ASSUME TypeOK, LifeInv, NEW a \in Actors, Commit(a)
  PROVE  LifeInv'
<1> DEFINE t == txn[a]
           u == t.order
           row == [from |-> t.from, to |-> t.to, actor |-> a]
<1>1. /\ t \in Txn
      /\ t # NoTxn
      /\ u \in Orders
      /\ t.to \in OrderStatus
      /\ status' = [status EXCEPT ![u] = t.to]
      /\ history' = [history EXCEPT ![u] = Append(@, row)]
      /\ txn' = [txn EXCEPT ![a] = NoTxn]
      /\ UNCHANGED <<type, method>>
  BY CommitAppends DEF Commit, Txn
<1>2. payment' = [payment EXCEPT ![u] =
                    IF ShouldMarkPaid(method[u], t.paid, t.to) THEN "PAID" ELSE @]
  BY DEF Commit, WriteOrder
<1>3. /\ raced \subseteq raced'
      /\ raced' \subseteq raced \union {u}
      /\ u \notin raced' =>
           \A b \in Actors : b # a /\ txn[b] # NoTxn => txn[b].order # u
  BY DEF Commit, InFlight
<1>4. /\ CanTransition(t.from, t.to, type[u])
      /\ ActorMayTransition(a \in Cancellers, t.from, t.to)
      /\ u \notin raced => t.from = status[u] /\ t.paid = payment[u]
  BY <1>1 DEF LifeInv, MoveWasLegal, SeenIsCurrent
\* The history of u afterwards.
<1>5. /\ history[u] \in Seq(Row)
      /\ Len(history[u]) > 0
      /\ Len(history[u]) \in Nat
      /\ history[u][Len(history[u])].to = status[u]
      /\ Len(history'[u]) = Len(history[u]) + 1
      /\ history'[u][Len(history[u]) + 1] = row
      /\ \A i \in 1 .. Len(history[u]) : history'[u][i] = history[u][i]
  BY <1>1 DEF LifeInv, LastRowIsStatus, TypeOK
<1>6. \A o \in Orders \ {u} :
        /\ history'[o] = history[o]
        /\ status'[o] = status[o]
        /\ payment'[o] = payment[o]
        /\ o \in raced' <=> o \in raced
  BY <1>1, <1>2, <1>3 DEF TypeOK
<1>7. status'[u] = t.to
  BY <1>1 DEF TypeOK
<1> HIDE DEF t, u, row
<1>8. SeenIsCurrent'
  <2> SUFFICES ASSUME NEW b \in Actors, txn'[b] # NoTxn,
                      txn'[b].order \notin raced'
               PROVE  /\ txn'[b].from = status'[txn'[b].order]
                      /\ txn'[b].paid = payment'[txn'[b].order]
    BY DEF SeenIsCurrent
  <2>1. b # a /\ txn'[b] = txn[b] /\ txn[b] # NoTxn /\ txn[b].order \in Orders
    BY <1>1 DEF TypeOK, Txn
  <2>2. txn[b].order # u /\ txn[b].order \notin raced
    BY <1>3, <2>1
  <2> QED  BY <1>6, <2>1, <2>2 DEF LifeInv, SeenIsCurrent
<1>9. MoveWasLegal'
  BY <1>1 DEF LifeInv, MoveWasLegal, TypeOK
<1>10. LastRowIsStatus'
  <2> SUFFICES ASSUME NEW o \in Orders
               PROVE  /\ Len(history'[o]) > 0
                      /\ history'[o][Len(history'[o])].to = status'[o]
    BY DEF LastRowIsStatus
  <2>1. CASE o = u
    <3>1. row.to = t.to
      BY DEF row
    <3> QED  BY <1>5, <1>7, <2>1, <3>1
  <2>2. CASE o # u
    BY <1>6, <2>2 DEF LifeInv, LastRowIsStatus
  <2> QED  BY <2>1, <2>2
<1>11. KitchenRemembered'
  <2> SUFFICES ASSUME NEW o \in Orders, o \notin raced',
                      NEW i \in 1 .. Len(history'[o]),
                      history'[o][i].to = "ACCEPTED"
               PROVE  ~CustomerMayCancel(status'[o])
    BY DEF KitchenRemembered
  <2>1. CASE o = u
    <3>1. CASE i = Len(history[u]) + 1
      <4>1. t.to = "ACCEPTED"
        BY <1>5, <2>1, <3>1 DEF row
      <4> QED  BY <1>7, <2>1, <4>1 DEF CustomerMayCancel
    <3>2. CASE i \in 1 .. Len(history[u])
      <4>1. ~CustomerMayCancel(status[u])
        BY <1>1, <1>3, <1>5, <2>1, <3>2 DEF LifeInv, KitchenRemembered
      <4> QED  BY <1>3, <1>4, <1>7, <2>1, <4>1, KitchenIsNotUndone
    <3> QED  BY <1>5, <2>1, <3>1, <3>2
  <2>2. CASE o # u
    BY <1>6, <2>2 DEF LifeInv, KitchenRemembered
  <2> QED  BY <2>1, <2>2
<1>12. UnpaidUntilDoor'
  <2> SUFFICES ASSUME NEW o \in Orders
               PROVE  IF method'[o] = "ONLINE" THEN payment'[o] = "PENDING"
                      ELSE payment'[o] \in {"UNPAID", "PAID"}
    BY DEF UnpaidUntilDoor
  <2>1. \/ payment'[o] = payment[o]
        \/ payment'[o] = "PAID" /\ method[o] # "ONLINE"
    <3>1. CASE o = u
      <4>1. payment'[o] = IF ShouldMarkPaid(method[u], t.paid, t.to)
                          THEN "PAID" ELSE payment[u]
        BY <1>1, <1>2, <3>1 DEF TypeOK
      <4> QED  BY <3>1, <4>1 DEF ShouldMarkPaid
    <3>2. CASE o # u
      BY <1>6, <3>2
    <3> QED  BY <3>1, <3>2
  <2> QED  BY <1>1, <2>1 DEF LifeInv, UnpaidUntilDoor
<1>13. UnracedLifecycle'
  <2> SUFFICES ASSUME NEW o \in Orders, o \notin raced',
                      NEW i \in 2 .. Len(history'[o])
               PROVE  LET r == history'[o][i] IN
                        /\ r.from = history'[o][i - 1].to
                        /\ CanTransition(r.from, r.to, type'[o])
                        /\ Stops(r) /\ r.actor \notin Cancellers =>
                             \A j \in 1 .. i - 1 : history'[o][j].to # "ACCEPTED"
    BY DEF UnracedLifecycle
  <2>1. CASE o # u
    BY <1>1, <1>6, <2>1 DEF LifeInv, UnracedLifecycle
  <2>2. CASE o = u
    <3>1. u \notin raced
      BY <1>3, <2>2
    <3>2. CASE i = Len(history[u]) + 1
      <4>1. /\ history'[o][i] = row
            /\ history'[o][i - 1] = history[u][Len(history[u])]
        BY <1>5, <2>2, <3>2
      <4>2. row.from = status[u] /\ row.to = t.to /\ row.actor = a
        BY <1>4, <3>1 DEF row
      <4>3. ASSUME Stops(row), a \notin Cancellers, NEW j \in 1 .. i - 1
            PROVE  history'[o][j].to # "ACCEPTED"
        <5>1. CustomerMayCancel(status[u])
          BY <1>4, <3>1, <4>2, <4>3 DEF Stops, ActorMayTransition
        <5>2. j \in 1 .. Len(history[u])
          BY <1>5, <3>2
        <5> QED
          BY <1>1, <1>5, <2>2, <3>1, <5>1, <5>2 DEF LifeInv, KitchenRemembered
      <4> QED  BY <1>1, <1>4, <1>5, <2>2, <3>1, <4>1, <4>2, <4>3
    <3>3. CASE i \in 2 .. Len(history[u])
      <4>1. /\ history'[o][i] = history[u][i]
            /\ \A j \in 1 .. i - 1 : history'[o][j] = history[u][j]
            /\ i - 1 \in 1 .. i - 1
        <5>1. \A j \in 1 .. i - 1 : j \in 1 .. Len(history[u])
          BY <1>5, <3>3
        <5>2. i \in 1 .. Len(history[u]) /\ i - 1 \in 1 .. i - 1
          BY <1>5, <3>3
        <5> QED  BY <1>5, <2>2, <5>1, <5>2
      <4>2. LET r == history[u][i] IN
              /\ r.from = history[u][i - 1].to
              /\ CanTransition(r.from, r.to, type[u])
              /\ Stops(r) /\ r.actor \notin Cancellers =>
                   \A j \in 1 .. i - 1 : history[u][j].to # "ACCEPTED"
        BY <1>1, <3>1, <3>3 DEF LifeInv, UnracedLifecycle
      <4> QED  BY <1>1, <2>2, <4>1, <4>2
    <3> QED  BY <1>5, <2>2, <3>2, <3>3
  <2> QED  BY <2>1, <2>2
<1>14. PaidMeansReceived'
  <2> SUFFICES ASSUME NEW o \in Orders
               PROVE  /\ payment'[o] = "PAID" =>
                           /\ method'[o] # "ONLINE"
                           /\ \E i \in 1 .. Len(history'[o]) :
                                history'[o][i].to \in Received
                      /\ o \notin raced' =>
                           (payment'[o] = "PAID" <=>
                              method'[o] # "ONLINE" /\ status'[o] \in Received)
    BY DEF PaidMeansReceived
  <2>1. CASE o # u
    BY <1>1, <1>6, <2>1 DEF LifeInv, PaidMeansReceived
  <2>2. CASE o = u
    <3>1. payment'[u] = IF ShouldMarkPaid(method[u], t.paid, t.to)
                        THEN "PAID" ELSE payment[u]
      BY <1>1, <1>2 DEF TypeOK
    <3>2. ASSUME payment'[u] = "PAID"
          PROVE  /\ method[u] # "ONLINE"
                 /\ \E i \in 1 .. Len(history'[u]) : history'[u][i].to \in Received
      <4>1. CASE payment[u] = "PAID"
        <5>1. /\ method[u] # "ONLINE"
              /\ \E i \in 1 .. Len(history[u]) : history[u][i].to \in Received
          BY <1>1, <4>1 DEF LifeInv, PaidMeansReceived
        <5>2. PICK i \in 1 .. Len(history[u]) : history[u][i].to \in Received
          BY <5>1
        <5>3. i \in 1 .. Len(history'[u]) /\ history'[u][i] = history[u][i]
          BY <1>5
        <5> QED  BY <5>1, <5>2, <5>3
      <4>2. CASE ShouldMarkPaid(method[u], t.paid, t.to)
        <5>1. method[u] # "ONLINE" /\ row.to \in Received
          BY <4>2 DEF ShouldMarkPaid, row
        <5> QED  BY <1>5, <5>1
      <4> QED  BY <3>1, <3>2, <4>1, <4>2
    <3>3. ASSUME u \notin raced'
          PROVE  payment'[u] = "PAID" <=> method[u] # "ONLINE" /\ t.to \in Received
      <4>1. u \notin raced /\ t.from = status[u] /\ t.paid = payment[u]
        BY <1>3, <1>4, <3>3
      <4>2. status[u] \notin Received
        BY <1>4, <4>1, ReceivedIsTerminal
      <4>3. payment[u] # "PAID"
        BY <1>1, <4>1, <4>2 DEF LifeInv, PaidMeansReceived
      <4>4. method[u] # "ONLINE" => payment[u] = "UNPAID"
        BY <1>1, <4>3 DEF LifeInv, UnpaidUntilDoor
      <4> QED  BY <3>1, <4>1, <4>3, <4>4 DEF ShouldMarkPaid
    <3> QED  BY <1>1, <1>7, <2>2, <3>2, <3>3
  <2> QED  BY <2>1, <2>2
<1> QED
  BY <1>8, <1>9, <1>10, <1>11, <1>12, <1>13, <1>14 DEF LifeInv

LEMMA LifeAlways == Spec => []LifeInv
<1>1. TypeOK /\ LifeInv /\ [Next]_vars => LifeInv'
  <2> SUFFICES ASSUME TypeOK, LifeInv, [Next]_vars PROVE LifeInv'
    OBVIOUS
  <2>1. CASE UNCHANGED vars
    <3>1. SeenIsCurrent' /\ MoveWasLegal'
      BY <2>1 DEF vars, LifeInv, SeenIsCurrent, MoveWasLegal
    <3> QED  BY <2>1, <3>1, LifeOrdersUntouched DEF vars, LifeInv
  <2> QED  BY <2>1, LifeLoad, LifeCommit, LifeRollback DEF Next
<1> QED  BY <1>1, LifeInit, TypeCorrect, PTL DEF Spec

\* An order no two transactions overlapped on lives by the state machine, and
\* only someone with orders.cancel stops it once a kitchen has accepted it.
THEOREM UnracedOrdersLiveByTheRules == Spec => []UnracedLifecycle
<1>1. LifeInv => UnracedLifecycle
  BY DEF LifeInv
<1> QED  BY <1>1, LifeAlways, PTL

\* Cash and card orders are paid at the door and nowhere else.
THEOREM PaidAtTheDoor == Spec => []PaidMeansReceived
<1>1. LifeInv => PaidMeansReceived
  BY DEF LifeInv
<1> QED  BY <1>1, LifeAlways, PTL
----------------------------------------------------------------------------
(* Orders implements OrderLifecycle. *)

\* Every open transaction read a status the order has had.
FromWasHeld ==
  \A a \in Actors : txn[a] # NoTxn => txn[a].from \in Held(txn[a].order)

\* A commit adds the written status to those its order has had.
LEMMA CommitHolds ==
  ASSUME TypeOK, NEW a \in Actors, Commit(a), NEW o \in Orders
  PROVE  Held(o)' = IF o = txn[a].order THEN Held(o) \union {txn[a].to}
                                        ELSE Held(o)
<1> DEFINE t == txn[a]
           row == [from |-> t.from, to |-> t.to, actor |-> a]
<1>1. /\ history' = [history EXCEPT ![t.order] = Append(@, row)]
      /\ history \in [Orders -> Seq(Row)]
  BY CommitAppends DEF TypeOK
<1>2. row.to = t.to
  OBVIOUS
<1> HIDE DEF row, t
<1>3. CASE o # t.order
  <2>1. history'[o] = history[o]
    BY <1>1, <1>3
  <2>2. Held(o)' = Held(o)
    BY <2>1 DEF Held
  <2> QED  BY <1>3, <2>2 DEF t
<1>4. CASE o = t.order
  <2> DEFINE h == history[o]
  <2>1. h \in Seq(Row) /\ history'[o] = Append(h, row)
    BY <1>1, <1>4
  <2> HIDE DEF h
  <2>2. /\ Len(h) \in Nat
        /\ Len(Append(h, row)) = Len(h) + 1
        /\ Append(h, row)[Len(h) + 1] = row
        /\ \A i \in 1 .. Len(h) : Append(h, row)[i] = h[i]
    BY <2>1
  <2>3. {Append(h, row)[i].to : i \in 1 .. Len(h) + 1} =
          {h[i].to : i \in 1 .. Len(h)} \union {t.to}
    <3>1. 1 .. Len(h) + 1 = (1 .. Len(h)) \union {Len(h) + 1}
      BY <2>2
    <3> QED  BY <1>2, <2>2, <3>1
  <2>4. Held(o)' = {Append(h, row)[i].to : i \in 1 .. Len(h) + 1}
    BY <2>1, <2>2 DEF Held
  <2>5. Held(o) = {h[i].to : i \in 1 .. Len(h)}
    BY DEF Held, h
  <2> QED  BY <1>4, <2>3, <2>4, <2>5 DEF t
<1> QED  BY <1>3, <1>4 DEF t

LEMMA FromHeldAlways == Spec => []FromWasHeld
<1>1. Init => FromWasHeld
  BY DEF Init, FromWasHeld
<1>2. TypeOK /\ LifeInv /\ FromWasHeld /\ [Next]_vars => FromWasHeld'
  <2> SUFFICES ASSUME TypeOK, LifeInv, FromWasHeld, [Next]_vars
               PROVE  FromWasHeld'
    OBVIOUS
  <2>1. ASSUME NEW a \in Actors, NEW o \in Orders, NEW to \in OrderStatus,
               Load(a, o, to)
        PROVE  FromWasHeld'
    <3>1. status[o] \in Held(o)
      <4>1. /\ history[o] \in Seq(Row)
            /\ Len(history[o]) > 0
            /\ history[o][Len(history[o])].to = status[o]
        BY DEF LifeInv, LastRowIsStatus, TypeOK
      <4>2. Len(history[o]) \in 1 .. Len(history[o])
        BY <4>1
      <4> QED  BY <4>1, <4>2 DEF Held
    <3>2. history' = history
      BY <2>1 DEF Load
    <3>3. txn' = [txn EXCEPT ![a] = [order |-> o, from |-> status[o],
                                     paid |-> payment[o], to |-> to]]
      BY <2>1 DEF Load
    <3>4. ASSUME NEW b \in Actors, txn'[b] # NoTxn
          PROVE  txn'[b].from \in Held(txn'[b].order)
      BY <3>1, <3>3, <3>4 DEF FromWasHeld, TypeOK
    <3> QED  BY <3>2, <3>4 DEF FromWasHeld, Held
  <2>2. ASSUME NEW a \in Actors, Commit(a)
        PROVE  FromWasHeld'
    <3> SUFFICES ASSUME NEW b \in Actors, txn'[b] # NoTxn
                 PROVE  (txn[b].from \in Held(txn[b].order))'
      BY DEF FromWasHeld
    <3>1. txn' = [txn EXCEPT ![a] = NoTxn]
      BY <2>2 DEF Commit
    <3>2. txn'[b] = txn[b] /\ txn[b] # NoTxn /\ txn[b].order \in Orders
      BY <3>1 DEF TypeOK, Txn
    <3>3. ASSUME NEW o \in Orders PROVE Held(o) \subseteq Held(o)'
      BY <2>2, CommitHolds
    <3>4. txn[b].from \in Held(txn[b].order)
      BY <3>2 DEF FromWasHeld
    <3> DEFINE o == txn[b].order
    <3>5. txn[b].from \in Held(o)'
      <4> HIDE DEF o
      <4>1. ASSUME NEW x \in Orders, x = o PROVE txn[b].from \in Held(x)'
        BY <3>3, <3>4, <4>1 DEF o
      <4> QED  BY <3>2, <4>1 DEF o, Held
    <3> QED  BY <3>2, <3>5 DEF Held
  <2>3. ASSUME NEW a \in Actors, Rollback(a)
        PROVE  FromWasHeld'
    BY <2>3 DEF Rollback, FromWasHeld, Held, TypeOK
  <2>4. CASE UNCHANGED vars
    BY <2>4 DEF vars, FromWasHeld, Held
  <2> QED  BY <2>1, <2>2, <2>3, <2>4 DEF Next
<1> QED  BY <1>1, <1>2, TypeCorrect, LifeAlways, PTL DEF Spec

\* Whatever overlaps, a status is written only along an edge from a status the
\* order has had.
THEOREM OrdersImplementLifecycle == Spec => ImplementsLifecycle
<1>1. Init => Lifecycle!Init
  <2> SUFFICES ASSUME Init PROVE Lifecycle!Init
    OBVIOUS
  <2>1. /\ type \in [Orders -> OrderType]
        /\ status \in [Orders -> {"PENDING_PAYMENT", "CONFIRMED"}]
    BY DEF Init, StatusAfterCheckout
  <2>2. ASSUME NEW o \in Orders PROVE Held(o) = {status[o]}
    <3>1. Len(history[o]) = 1 /\ history[o][1].to = status[o]
      BY DEF Init
    <3>2. 1 .. Len(history[o]) = {1}
      <4>1. 1 .. Len(history[o]) = 1 .. 1
        BY <3>1
      <4> QED  BY <4>1
    <3> QED  BY <3>1, <3>2 DEF Held
  <2>3. [o \in Orders |-> Held(o)] = [o \in Orders |-> {status[o]}]
    BY <2>2
  <2> QED  BY <2>1, <2>3 DEF Lifecycle!Init, OrderType, Lifecycle!OrderType
<1>2. TypeOK /\ LifeInv /\ FromWasHeld /\ [Next]_vars
        => [Lifecycle!Next]_(Lifecycle!vars)
  <2> SUFFICES ASSUME TypeOK, LifeInv, FromWasHeld, [Next]_vars
               PROVE  [Lifecycle!Next]_(Lifecycle!vars)
    OBVIOUS
  <2>1. ASSUME NEW a \in Actors, Commit(a)
        PROVE  Lifecycle!Next
    <3> DEFINE t == txn[a]
    <3>1. /\ t \in Txn
          /\ t # NoTxn
          /\ t.order \in Orders
          /\ t.to \in OrderStatus
          /\ status' = [status EXCEPT ![t.order] = t.to]
          /\ type' = type
      BY <2>1, CommitAppends DEF Commit, Txn
    <3>2. /\ t.from \in Held(t.order)
          /\ CanTransition(t.from, t.to, type[t.order])
      BY <3>1 DEF FromWasHeld, LifeInv, MoveWasLegal
    <3>3. \A o \in Orders : Held(o)' = IF o = t.order THEN Held(o) \union {t.to}
                                                     ELSE Held(o)
      BY <2>1, CommitHolds
    <3> HIDE DEF t
    <3>4. [o \in Orders |-> Held(o)]' =
            [[o \in Orders |-> Held(o)] EXCEPT ![t.order] = @ \union {t.to}]
      BY <3>1, <3>3
    <3>5. Lifecycle!Move(t.order)
      <4>1. [o \in Orders |-> Held(o)][t.order] = Held(t.order)
        BY <3>1
      <4>2. t.from \in [o \in Orders |-> Held(o)][t.order]
        BY <3>2, <4>1
      <4>3. /\ t.to \in Lifecycle!OrderStatus
            /\ Lifecycle!CanTransition(t.from, t.to, type[t.order])
        BY <3>1, <3>2 DEF OrderStatus, Lifecycle!OrderStatus, CanTransition,
          Lifecycle!CanTransition, OrderTransitions, Lifecycle!OrderTransitions
      <4> QED  BY <3>1, <3>4, <4>2, <4>3 DEF Lifecycle!Move
    <3> QED  BY <3>1, <3>5 DEF Lifecycle!Next
  <2>2. ASSUME UNCHANGED <<type, status, history>>
        PROVE  UNCHANGED Lifecycle!vars
    BY <2>2 DEF Lifecycle!vars, Held
  <2>3. ASSUME NEW a \in Actors, NEW o \in Orders, NEW to \in OrderStatus,
               Load(a, o, to)
        PROVE  UNCHANGED Lifecycle!vars
    BY <2>2, <2>3 DEF Load
  <2>4. ASSUME NEW a \in Actors, Rollback(a)
        PROVE  UNCHANGED Lifecycle!vars
    BY <2>2, <2>4 DEF Rollback
  <2>5. CASE UNCHANGED vars
    BY <2>2, <2>5 DEF vars
  <2> QED  BY <2>1, <2>3, <2>4, <2>5 DEF Next
<1> QED
  BY <1>1, <1>2, TypeCorrect, LifeAlways, FromHeldAlways, PTL
  DEF Spec, ImplementsLifecycle, Lifecycle!Spec

----------------------------------------------------------------------------
(* What a customer's orders add up to. *)

ReceivedOf(c) == {o \in OrdersOf(c) : status[o] \in Received}

\* A transaction that had an order to itself finds it not yet received, so what
\* it counts was not counted before; and only finitely many are received.
TotalsInv ==
  /\ LifetimeTotals
  /\ \A c \in Customers : IsFiniteSet(ReceivedOf(c))

\* A commit moves one order, and counts it where it is one of the customer's
\* that is now received.
LEMMA CommitCounts ==
  ASSUME TypeOK, NEW a \in Actors, Commit(a), NEW c \in Customers
  PROVE  LET t == txn[a] IN
           /\ totalOrders'[c] = IF t.to \in Received /\ CustomerOf[t.order] = c
                                THEN totalOrders[c] + 1 ELSE totalOrders[c]
           /\ raced' = IF \E b \in Actors \ {a} : InFlight(b, t.order)
                       THEN raced \union {t.order} ELSE raced
           /\ ReceivedOf(c)' =
                IF CustomerOf[t.order] = c
                THEN IF t.to \in Received THEN ReceivedOf(c) \union {t.order}
                                          ELSE ReceivedOf(c) \ {t.order}
                ELSE ReceivedOf(c)
<1> DEFINE t == txn[a]
<1>1. /\ t.order \in Orders
      /\ status' = [status EXCEPT ![t.order] = t.to]
      /\ CountReceived(t)
      /\ raced' = IF \E b \in Actors \ {a} : InFlight(b, t.order)
                  THEN raced \union {t.order} ELSE raced
  BY CommitAppends DEF Commit, Txn
<1>2. /\ status \in [Orders -> OrderStatus]
      /\ totalOrders \in [Customers -> Nat]
      /\ CustomerOf[t.order] \in Customers
  BY <1>1, CustomerOfAssumption DEF TypeOK
<1> HIDE DEF t
<1>3. totalOrders'[c] = IF t.to \in Received /\ CustomerOf[t.order] = c
                        THEN totalOrders[c] + 1 ELSE totalOrders[c]
  BY <1>1, <1>2 DEF CountReceived
<1>4. \A o \in Orders : status'[o] = IF o = t.order THEN t.to ELSE status[o]
  BY <1>1, <1>2
<1>5. ReceivedOf(c)' = {o \in OrdersOf(c) : status'[o] \in Received}
  BY DEF ReceivedOf, OrdersOf
<1>6. \A o : o \in ReceivedOf(c)' <=>
               o \in Orders /\ CustomerOf[o] = c /\ status'[o] \in Received
  BY <1>5 DEF OrdersOf
<1>7. \A o : o \in ReceivedOf(c) <=>
               o \in Orders /\ CustomerOf[o] = c /\ status[o] \in Received
  BY DEF ReceivedOf, OrdersOf
<1>8. ReceivedOf(c)' =
        IF CustomerOf[t.order] = c
        THEN IF t.to \in Received THEN ReceivedOf(c) \union {t.order}
                                  ELSE ReceivedOf(c) \ {t.order}
        ELSE ReceivedOf(c)
  <2> HIDE DEF ReceivedOf
  <2> QED  BY <1>1, <1>4, <1>6, <1>7
<1> QED  BY <1>1, <1>3, <1>8 DEF t

\* total_orders is the number of a customer's orders that stand as received,
\* while no two transactions of those orders have overlapped.
THEOREM TotalsCountWhatWasReceived == Spec => []LifetimeTotals
<1>1. Init => TotalsInv
  <2> SUFFICES ASSUME Init, NEW c \in Customers PROVE ReceivedOf(c) = {} /\ totalOrders[c] = 0
    <3>1. Cardinality({}) = 0 /\ IsFiniteSet({})
      BY FS_EmptySet
    <3> QED  BY <3>1 DEF TotalsInv, LifetimeTotals, ReceivedOf
  <2>1. \A o \in Orders : status[o] \notin Received
    BY DEF Init, StatusAfterCheckout, Received
  <2> QED  BY <2>1 DEF Init, ReceivedOf, OrdersOf
<1>2. TypeOK /\ LifeInv /\ TotalsInv /\ [Next]_vars => TotalsInv'
  <2> SUFFICES ASSUME TypeOK, LifeInv, TotalsInv, [Next]_vars PROVE TotalsInv'
    OBVIOUS
  <2>1. ASSUME NEW a \in Actors, Commit(a) PROVE TotalsInv'
    <3> SUFFICES ASSUME NEW c \in Customers
                 PROVE  /\ IsFiniteSet(ReceivedOf(c)')
                        /\ OrdersOf(c) \intersect raced' = {} =>
                             totalOrders'[c] = Cardinality(ReceivedOf(c)')
      BY DEF TotalsInv, LifetimeTotals, ReceivedOf, OrdersOf
    <3> DEFINE t == txn[a]
    <3>1. /\ totalOrders'[c] = IF t.to \in Received /\ CustomerOf[t.order] = c
                               THEN totalOrders[c] + 1 ELSE totalOrders[c]
          /\ raced' = IF \E b \in Actors \ {a} : InFlight(b, t.order)
                      THEN raced \union {t.order} ELSE raced
          /\ ReceivedOf(c)' =
               IF CustomerOf[t.order] = c
               THEN IF t.to \in Received THEN ReceivedOf(c) \union {t.order}
                                         ELSE ReceivedOf(c) \ {t.order}
               ELSE ReceivedOf(c)
      BY <2>1, CommitCounts
    <3>2. /\ IsFiniteSet(ReceivedOf(c))
          /\ OrdersOf(c) \intersect raced = {} =>
               totalOrders[c] = Cardinality(ReceivedOf(c))
      BY DEF TotalsInv, LifetimeTotals, ReceivedOf
    <3>3. ASSUME CustomerOf[t.order] = c, OrdersOf(c) \intersect raced' = {}
          PROVE  t.order \notin ReceivedOf(c)
      <4>1. /\ t.order \in Orders /\ t # NoTxn
        BY <2>1, CommitAppends DEF Commit, Txn
      <4>2. t.order \in OrdersOf(c)
        BY <3>3, <4>1 DEF OrdersOf
      <4>3. t.order \notin raced
        BY <3>1, <3>3, <4>2
      <4>4. t.from = status[t.order] /\ CanTransition(t.from, t.to, type[t.order])
        BY <4>1, <4>3 DEF LifeInv, SeenIsCurrent, MoveWasLegal
      <4> QED  BY <4>4, ReceivedIsTerminal DEF ReceivedOf
    <3>4. OrdersOf(c) \intersect raced' = {} => OrdersOf(c) \intersect raced = {}
      BY <3>1
    <3> HIDE DEF t, ReceivedOf
    <3>5. /\ IsFiniteSet(ReceivedOf(c) \union {t.order})
          /\ Cardinality(ReceivedOf(c) \union {t.order}) =
               IF t.order \in ReceivedOf(c) THEN Cardinality(ReceivedOf(c))
               ELSE Cardinality(ReceivedOf(c)) + 1
          /\ IsFiniteSet(ReceivedOf(c) \ {t.order})
      BY <3>2, FS_AddElement, FS_RemoveElement
    <3>6. t.order \notin ReceivedOf(c) => ReceivedOf(c) \ {t.order} = ReceivedOf(c)
      OBVIOUS
    <3> QED  BY <3>1, <3>2, <3>3, <3>4, <3>5, <3>6
  <2>2. ASSUME UNCHANGED <<status, totalOrders, raced>> PROVE TotalsInv'
    BY <2>2 DEF TotalsInv, LifetimeTotals, ReceivedOf, OrdersOf
  <2>3. ASSUME NEW a \in Actors, NEW o \in Orders, NEW to \in OrderStatus, Load(a, o, to)
        PROVE  TotalsInv'
    BY <2>2, <2>3 DEF Load
  <2>4. ASSUME NEW a \in Actors, Rollback(a) PROVE TotalsInv'
    BY <2>2, <2>4 DEF Rollback
  <2>5. CASE UNCHANGED vars
    BY <2>2, <2>5 DEF vars
  <2> QED  BY <2>1, <2>3, <2>4, <2>5 DEF Next
<1>3. TotalsInv => LifetimeTotals
  BY DEF TotalsInv
<1> QED  BY <1>1, <1>2, <1>3, TypeCorrect, LifeAlways, PTL DEF Spec

=============================================================================
