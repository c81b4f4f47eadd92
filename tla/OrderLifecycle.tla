--------------------------- MODULE OrderLifecycle ---------------------------
(***************************************************************************)
(* What the order service promises about one order's status, whoever asks  *)
(* and in whatever order their transactions commit: a status is written    *)
(* only along an edge of the state machine that starts at a status the     *)
(* order really has had.  It does not promise that the edge starts at the  *)
(* CURRENT status; Orders.tla shows why the code cannot.                   *)
(***************************************************************************)
EXTENDS OrderStateMachine

CONSTANT Orders

VARIABLES
  type,      \* [Orders -> OrderType], fixed when the order is placed
  status,    \* [Orders -> OrderStatus]
  held       \* [Orders -> SUBSET OrderStatus], every status it has had

vars == <<type, status, held>>

Init ==
  /\ type \in [Orders -> OrderType]
  /\ status \in [Orders -> {"PENDING_PAYMENT", "CONFIRMED"}]
  /\ held = [o \in Orders |-> {status[o]}]

Move(o) ==
  \E from \in held[o], to \in OrderStatus :
    /\ CanTransition(from, to, type[o])
    /\ status' = [status EXCEPT ![o] = to]
    /\ held' = [held EXCEPT ![o] = @ \union {to}]
    /\ UNCHANGED type

Next == \E o \in Orders : Move(o)

Spec == Init /\ [][Next]_vars
=============================================================================
