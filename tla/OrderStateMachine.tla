------------------------- MODULE OrderStateMachine -------------------------
(***************************************************************************)
(* The pure rules of an order's life: which statuses may follow which, and *)
(* what the order type and the payment method add                          *)
(* (packages/domain/src/order-state-machine.ts, and the two role and       *)
(* payment rules OrdersService lays on top of them).  No state: every      *)
(* module that moves an order takes its guards from here.                  *)
(***************************************************************************)

OrderStatus == {"DRAFT", "PENDING_PAYMENT", "CONFIRMED", "ACCEPTED",
                "PREPARING", "READY", "OUT_FOR_DELIVERY", "DELIVERED",
                "COMPLETED", "DELIVERY_FAILED", "RETURNED", "CANCELLED",
                "REJECTED"}
OrderType     == {"DELIVERY", "PICKUP", "DINE_IN"}
PaymentMethod == {"CASH", "CARD_ON_DELIVERY", "ONLINE"}
\* FAILED and the two refund statuses exist in the enum and nothing writes them.
PaymentStatus == {"UNPAID", "PENDING", "PAID"}

\* ORDER_TRANSITIONS: the rules are data, a set of edges.
OrderTransitions ==
  {<<"DRAFT", "PENDING_PAYMENT">>, <<"DRAFT", "CONFIRMED">>,
   <<"DRAFT", "CANCELLED">>,
   <<"PENDING_PAYMENT", "CONFIRMED">>, <<"PENDING_PAYMENT", "CANCELLED">>,
   <<"CONFIRMED", "ACCEPTED">>, <<"CONFIRMED", "REJECTED">>,
   <<"CONFIRMED", "CANCELLED">>,
   <<"ACCEPTED", "PREPARING">>, <<"ACCEPTED", "CANCELLED">>,
   <<"PREPARING", "READY">>, <<"PREPARING", "CANCELLED">>,
   <<"READY", "OUT_FOR_DELIVERY">>, <<"READY", "COMPLETED">>,
   <<"READY", "CANCELLED">>,
   <<"OUT_FOR_DELIVERY", "DELIVERED">>,
   <<"OUT_FOR_DELIVERY", "DELIVERY_FAILED">>,
   <<"DELIVERY_FAILED", "OUT_FOR_DELIVERY">>,
   <<"DELIVERY_FAILED", "RETURNED">>}

\* A status with no way out (TERMINAL_ORDER_STATUSES, isTerminal).
IsTerminal(s) == \A t \in OrderStatus : <<s, t>> \notin OrderTransitions

\* Mutant: the kitchen has taken the order and it still counts as untouched.
CustomerMayCancelAccepted(s) ==
  s \in {"DRAFT", "PENDING_PAYMENT", "CONFIRMED", "ACCEPTED"}

\* Before the kitchen is asked to cook (PRE_KITCHEN_STATUSES, customerMayCancel).
CustomerMayCancel(s) == s \in {"DRAFT", "PENDING_PAYMENT", "CONFIRMED"}

\* Mutant: the map alone, without the rules of the order type.
CanTransitionAnyType(from, to, type) == <<from, to>> \in OrderTransitions

\* Only a delivery goes out on the road, and only the others are handed over.
CanTransition(from, to, type) ==
  /\ <<from, to>> \in OrderTransitions
  /\ to = "OUT_FOR_DELIVERY" => type = "DELIVERY"
  /\ to = "COMPLETED" => type # "DELIVERY"

StatusAfterCheckout(method) ==
  IF method = "ONLINE" THEN "PENDING_PAYMENT" ELSE "CONFIRMED"

PaymentAfterCheckout(method) ==
  IF method = "ONLINE" THEN "PENDING" ELSE "UNPAID"

\* The customer has the food: the two terminal success statuses.
Received == {"DELIVERED", "COMPLETED"}

\* Mutant: handing a pickup over the counter is not seen as a handover.
ShouldMarkPaidAtDoorOnly(method, payment, to) ==
  /\ to = "DELIVERED"
  /\ method # "ONLINE"
  /\ payment = "UNPAID"

\* Cash and card-on-delivery are settled at handover (shouldMarkPaid).
ShouldMarkPaid(method, payment, to) ==
  /\ to \in Received
  /\ method # "ONLINE"
  /\ payment = "UNPAID"

\* Cancelling what the kitchen has started takes orders.cancel
\* (assertActorMayTransition).
ActorMayTransition(mayCancel, from, to) ==
  to \in {"CANCELLED", "REJECTED"} => mayCancel \/ CustomerMayCancel(from)
=============================================================================
