------------------------------- MODULE Orders -------------------------------
(***************************************************************************)
(* OrdersService.transitionOrder (apps/api/src/orders/orders.service.ts):  *)
(* staff and riders moving placed orders through their life.               *)
(*                                                                         *)
(* Each call is one Postgres transaction at the default READ COMMITTED     *)
(* level.  It reads the order, checks the move against what it read, and   *)
(* then updates the row BY ID ALONE, so the row lock of the update makes   *)
(* writers queue but nothing makes them look again.  Load is everything up *)
(* to the update; Commit is the update and all the writes that become      *)
(* visible with it.  Rollback is the transaction's timeout, a failed       *)
(* statement or the death of the API process between the two.              *)
(*                                                                         *)
(* The stage timestamp, the audit row and totalSpend are written by the    *)
(* same statements as a history row and totalOrders and carry nothing the  *)
(* properties tell apart; they are left out.                               *)
(***************************************************************************)
EXTENDS OrderStateMachine, Naturals, Sequences, FiniteSets

CONSTANTS
  Orders,       \* orders already placed by a checkout
  Customers,
  CustomerOf,   \* [Orders -> Customers], fixed at checkout
  Actors,       \* calls of transitionOrder that may be in flight at once
  Cancellers,   \* the actors who hold orders.cancel
  NoTxn,
  MaxHistory    \* bound: no order gets more than this many history rows

ASSUME CustomerOfAssumption == CustomerOf \in [Orders -> Customers]
ASSUME CancellersAssumption == Cancellers \subseteq Actors
ASSUME MaxHistoryAssumption == MaxHistory \in Nat

VARIABLES
  type, method,   \* what was ordered, never written again
  status,         \* orders.status
  payment,        \* orders.payment_status
  history,        \* order_status_history, in the order the rows committed
  events,         \* ORDER_STATUS_CHANGED rows of the outbox, by sequence
  totalOrders,    \* customers.total_orders
  txn,            \* what each open transaction has read and means to write
  raced           \* history variable: orders on which two transactions overlapped

vars == <<type, method, status, payment, history, events, totalOrders, txn,
          raced>>

----------------------------------------------------------------------------

\* An open transaction holds the row it read; from and paid are that copy.
Txn == [order : Orders, from : OrderStatus, paid : PaymentStatus,
        to : OrderStatus]

Checkout == "checkout"
NoStatus == "null"

Row == [from : OrderStatus \union {NoStatus}, to : OrderStatus,
        actor : Actors \union {Checkout}]
Event == [order : Orders, from : OrderStatus \union {NoStatus},
          to : OrderStatus]

StatusEvent(o, from, to) == [order |-> o, from |-> from, to |-> to]

(***************************************************************************)
(* The orders as checkout leaves them: one history row, and a status event *)
(* only for an order that is CONFIRMED (checkout emits ORDER_CREATED for   *)
(* every order, and starts the acknowledgement clock for these alone).     *)
(* How checkout gets there is module Checkout.                             *)
(***************************************************************************)
Init ==
  /\ type \in [Orders -> OrderType]
  /\ method \in [Orders -> PaymentMethod]
  /\ status = [o \in Orders |-> StatusAfterCheckout(method[o])]
  /\ payment = [o \in Orders |-> PaymentAfterCheckout(method[o])]
  /\ history = [o \in Orders |->
                 <<[from |-> NoStatus, to |-> status[o], actor |-> Checkout]>>]
  /\ events = [o \in Orders |->
                 IF status[o] = "CONFIRMED"
                 THEN <<StatusEvent(o, NoStatus, "CONFIRMED")>> ELSE <<>>]
  /\ totalOrders = [c \in Customers |-> 0]
  /\ txn = [a \in Actors |-> NoTxn]
  /\ raced = {}

\* Steps 1 to 5 of transitionOrder.  A refused move changes nothing.
Load(a, o, to) ==
  /\ txn[a] = NoTxn
  /\ ActorMayTransition(a \in Cancellers, status[o], to)
  /\ CanTransition(status[o], to, type[o])
  /\ txn' = [txn EXCEPT ![a] = [order |-> o, from |-> status[o],
                                paid |-> payment[o], to |-> to]]
  /\ UNCHANGED <<type, method, status, payment, history, events, totalOrders,
                 raced>>

InFlight(b, o) == txn[b] # NoTxn /\ txn[b].order = o

\* Mutant: a compare-and-set that nobody checks, so the caller goes on to write
\* the history and the event of a move that did not happen.
WriteOrderIfUnchanged(t) ==
  IF status[t.order] = t.from
  THEN /\ status' = [status EXCEPT ![t.order] = t.to]
       /\ payment' = [payment EXCEPT ![t.order] =
                        IF ShouldMarkPaid(method[t.order], t.paid, t.to)
                        THEN "PAID" ELSE @]
  ELSE UNCHANGED <<status, payment>>

\* Step 6: tx.order.update({ where: { id } }), with no condition on the status.
WriteOrder(t) ==
  /\ status' = [status EXCEPT ![t.order] = t.to]
  /\ payment' = [payment EXCEPT ![t.order] =
                   IF ShouldMarkPaid(method[t.order], t.paid, t.to)
                   THEN "PAID" ELSE @]

\* Mutant: every order that comes to an end is counted.
CountEnded(t) ==
  totalOrders' = IF IsTerminal(t.to)
                 THEN [totalOrders EXCEPT ![CustomerOf[t.order]] = @ + 1]
                 ELSE totalOrders

\* Lifetime figures count orders the customer actually received.
CountReceived(t) ==
  totalOrders' = IF t.to \in Received
                 THEN [totalOrders EXCEPT ![CustomerOf[t.order]] = @ + 1]
                 ELSE totalOrders

\* Steps 6 to 8 and the commit.  The history row, the audit row and the event
\* all name the status the transaction READ as the one it left.
Commit(a) ==
  /\ txn[a] # NoTxn
  /\ LET t == txn[a] IN
       /\ Len(history[t.order]) < MaxHistory
       /\ WriteOrder(t)
       /\ history' = [history EXCEPT ![t.order] =
                        Append(@, [from |-> t.from, to |-> t.to, actor |-> a])]
       /\ events' = [events EXCEPT ![t.order] =
                        Append(@, StatusEvent(t.order, t.from, t.to))]
       /\ CountReceived(t)
       /\ raced' = IF \E b \in Actors \ {a} : InFlight(b, t.order)
                   THEN raced \union {t.order} ELSE raced
  /\ txn' = [txn EXCEPT ![a] = NoTxn]
  /\ UNCHANGED <<type, method>>

Rollback(a) ==
  /\ txn[a] # NoTxn
  /\ txn' = [txn EXCEPT ![a] = NoTxn]
  /\ UNCHANGED <<type, method, status, payment, history, events, totalOrders,
                 raced>>

Next ==
  \E a \in Actors :
    \/ \E o \in Orders, to \in OrderStatus : Load(a, o, to)
    \/ Commit(a)
    \/ Rollback(a)

Spec == Init /\ [][Next]_vars

----------------------------------------------------------------------------

\* What an order of this type can be: checkout never leaves DRAFT behind, only
\* a delivery has a delivery leg, and only the others are completed.
StatusesOf(ty) ==
  {"PENDING_PAYMENT", "CONFIRMED", "ACCEPTED", "PREPARING", "READY",
   "CANCELLED", "REJECTED"}
  \union (IF ty = "DELIVERY"
          THEN {"OUT_FOR_DELIVERY", "DELIVERED", "DELIVERY_FAILED", "RETURNED"}
          ELSE {"COMPLETED"})

\* The type invariant; it also keeps every status, written or about to be,
\* inside the statuses of the order's type.
TypeOK ==
  /\ type \in [Orders -> OrderType]
  /\ method \in [Orders -> PaymentMethod]
  /\ status \in [Orders -> OrderStatus]
  /\ payment \in [Orders -> PaymentStatus]
  /\ history \in [Orders -> Seq(Row)]
  /\ events \in [Orders -> Seq(Event)]
  /\ totalOrders \in [Customers -> Nat]
  /\ txn \in [Actors -> Txn \union {NoTxn}]
  /\ raced \subseteq Orders
  /\ \A o \in Orders : status[o] \in StatusesOf(type[o])
  /\ \A a \in Actors : txn[a] # NoTxn =>
       txn[a].to \in StatusesOf(type[txn[a].order])

(***************************************************************************)
(* The status, the history and the outbox tell one story: the last history *)
(* row is the current status, and the status events of an order are its    *)
(* history rows in the same order (an ONLINE order's first row has none).  *)
(* A kitchen screen that replays the events ends where the order is, even  *)
(* when transactions overlap.                                              *)
(***************************************************************************)
Silent(o) == IF method[o] = "ONLINE" THEN 1 ELSE 0

TrailAgrees ==
  \A o \in Orders :
    /\ Len(history[o]) > 0
    /\ history[o][Len(history[o])].to = status[o]
    /\ Len(history[o]) = Len(events[o]) + Silent(o)
    /\ \A i \in 1 .. Len(events[o]) :
         LET row == history[o][i + Silent(o)] IN
           events[o][i] = StatusEvent(o, row.from, row.to)

(***************************************************************************)
(* Without overlap the state machine really governs the order: every row   *)
(* starts where the one before it ended, and nobody without orders.cancel  *)
(* stops an order that a kitchen had accepted.                             *)
(***************************************************************************)
Stops(row) == row.to \in {"CANCELLED", "REJECTED"}

UnracedLifecycle ==
  \A o \in Orders \ raced :
    \A i \in 2 .. Len(history[o]) :
      LET row == history[o][i] IN
        /\ row.from = history[o][i - 1].to
        /\ CanTransition(row.from, row.to, type[o])
        /\ Stops(row) /\ row.actor \notin Cancellers =>
             \A j \in 1 .. i - 1 : history[o][j].to # "ACCEPTED"

(***************************************************************************)
(* Money changes hands at the door.  A paid order was paid in cash or by   *)
(* card at a handover the history shows; without overlap it is paid        *)
(* exactly while it stands as received, and an ONLINE order never is.      *)
(***************************************************************************)
PaidMeansReceived ==
  \A o \in Orders :
    /\ payment[o] = "PAID" =>
         /\ method[o] # "ONLINE"
         /\ \E i \in 1 .. Len(history[o]) : history[o][i].to \in Received
    /\ o \notin raced =>
         (payment[o] = "PAID" <=> method[o] # "ONLINE" /\ status[o] \in Received)

(***************************************************************************)
(* "Lifetime figures count orders the customer actually received": while   *)
(* no two transactions of a customer's orders have overlapped, total_orders*)
(* is the number of their orders that stand as received.                   *)
(***************************************************************************)
OrdersOf(c) == {o \in Orders : CustomerOf[o] = c}

LifetimeTotals ==
  \A c \in Customers :
    OrdersOf(c) \intersect raced = {} =>
      totalOrders[c] = Cardinality({o \in OrdersOf(c) : status[o] \in Received})

\* The statuses an order has had, as its history tells them.
Held(o) == {history[o][i].to : i \in 1 .. Len(history[o])}

(***************************************************************************)
(* With or without overlap, a status is written only along an edge from a  *)
(* status the order has had: Orders implements OrderLifecycle.             *)
(***************************************************************************)
Lifecycle == INSTANCE OrderLifecycle WITH held <- [o \in Orders |-> Held(o)]
ImplementsLifecycle == Lifecycle!Spec

(***************************************************************************)
(* assertTransition: an order in a terminal status "cannot change state    *)
(* again".  Two overlapping transactions break this (run orders_overlap).  *)
(***************************************************************************)
TerminalIsFinal ==
  [][\A o \in Orders : IsTerminal(status[o]) => status'[o] = status[o]]_vars
=============================================================================
