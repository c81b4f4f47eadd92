---------------------------- MODULE Conversation ----------------------------
(***************************************************************************)
(* One customer's WhatsApp conversation: the webhook that starts a turn    *)
(* for each message (apps/api/src/notifications/whatsapp-webhook.service), *)
(* the engine that loads the session, acts through the cart and order      *)
(* services and saves the session (whatsapp/conversation.service), the     *)
(* sender, the staff inbox (whatsapp/conversations.service) and the        *)
(* worker's alarm for handoffs nobody answers (apps/worker/src/            *)
(* escalation-monitor).                                                    *)
(*                                                                         *)
(* Nothing serialises turns: two messages in quick succession run side by  *)
(* side.  Each step below is one transaction or one call of the provider.  *)
(* What the menu answers, and whether the customer has an older order, is  *)
(* any answer.  Ages are 0 (fresh), 1 (longer than the tenant's handoff    *)
(* threshold) and 2 (longer than 24 hours, the session's and the service   *)
(* window's life).                                                         *)
(***************************************************************************)
EXTENDS ConversationRules, FiniteSets

CONSTANTS
  Turns,         \* API requests that may be in a turn at once
  Workers,       \* escalation workers
  Carts,         \* carts this customer may come to have, 1 .. n
  Offered,       \* the order types of the branch
  MaxMessages,   \* bound: messages of the customer
  MaxFaults,     \* bound: crashes, broken steps and lost replies
  MaxLines,      \* bound: lines of a cart
  Idle

ASSUME CartsAssumption == Carts \subseteq Nat \ {0}
ASSUME OfferedAssumption == Offered \subseteq OrderTypes
ASSUME BoundsAssumption == {MaxMessages, MaxFaults, MaxLines} \subseteq Nat

VARIABLES
  session,    \* the conversation_sessions row, or Idle before the first message
  turn,       \* what each turn is in the middle of
  carts,      \* the carts made so far
  orders,     \* placed orders, in order
  customer,   \* what is on the customer's screen, and the lines last shown
  worker,     \* what each escalation worker is in the middle of
  wait,       \* history: alarms of the present wait, and those lost
  slip,       \* history: turns overlapped, or a step failed half way
  unaware,    \* history: turns that had read the session before it was handed off
  received, faults

conversationVars == <<session, turn, carts, orders, customer, worker, wait, slip,
          unaware, received, faults>>

inbox == <<customer, received>>
alarm == <<worker, wait>>
rest == <<session, carts, orders, inbox, alarm, slip, unaware, faults>>

NoCart == 0
Fresh == [state |-> "IDLE", cart |-> NoCart, pending |-> FALSE,
          address |-> FALSE, shown |-> "none"]

ConversationInit ==
  /\ session = Idle
  /\ turn = [t \in Turns |-> Idle]
  /\ carts = [c \in Carts |-> Idle]
  /\ orders = <<>>
  /\ customer = [screen |-> "none", saw |-> 0]
  /\ worker = [w \in Workers |-> "idle"]
  /\ wait = [told |-> 0, lost |-> 0]
  /\ slip = FALSE
  /\ unaware = {}
  /\ received = 0
  /\ faults = 0

At(t, place) == turn[t] # Idle /\ turn[t].at = place
Goto(t, place) == turn' = [turn EXCEPT ![t] = [turn[t] EXCEPT !.at = place]]
InFlight == {t \in Turns : turn[t] # Idle}

----------------------------------------------------------------------------
(* The webhook. *)

Began == [at |-> "load", own |-> TRUE, reply |-> "", now |-> Fresh,
          show |-> "none", sees |-> 0]

\* handleItem: the unique insert of the provider's event id and the message in
\* one transaction, the turn after its commit.  A message delivered again loses
\* the insert and begins no turn.
Receive(t) ==
  /\ turn[t] = Idle
  /\ received < MaxMessages
  /\ received' = received + 1
  /\ turn' = [turn EXCEPT ![t] = Began]
  /\ slip' = (slip \/ InFlight # {})
  /\ unaware' = unaware \ {t}
  /\ UNCHANGED <<session, carts, orders, customer, alarm, faults>>

----------------------------------------------------------------------------
(* The session. *)

Row(now, age, escalated) == [now |-> now, age |-> age, escalated |-> escalated]
Expired == session.age = 2

\* Mutant: what was shown is remembered only when something is shown.
OutcomeKeepsReplies(t, now, state, screen) ==
  turn' = [turn EXCEPT ![t] = [turn[t] EXCEPT !.at = "save", !.reply = "", !.show = screen,
                                 !.now = [now EXCEPT !.state = state]]]

\* A handler's outcome: where it leaves the conversation and what it shows.
Outcome(t, now, state, screen) ==
  turn' = [turn EXCEPT ![t] = [turn[t] EXCEPT !.at = "save", !.reply = "", !.show = screen,
                                 !.now = [now EXCEPT !.state = state, !.shown = screen]]]

\* Mutant: the message leaves the cart out.
SummaryBlind(t, now, state, screen) == Outcome(t, now, state, screen)

\* The same, with the cart's lines in the message.
Summary(t, now, state, screen) ==
  turn' = [turn EXCEPT ![t] = [turn[t] EXCEPT !.at = "save", !.reply = "", !.show = screen,
                                 !.sees = carts[now.cart].lines,
                                 !.now = [now EXCEPT !.state = state, !.shown = screen]]]

\* For a handler that goes on to the cart or order service.
Begin(t, now, means) ==
  turn' = [turn EXCEPT ![t] = [turn[t] EXCEPT !.at = means.intent, !.reply = means.reply,
                                              !.now = now]]

\* The handlers.  What only reads the menu or the customer's orders leaves its
\* outcome at once; what goes on to the cart or order service begins.
Greet(t, now) == Outcome(t, now, "IDLE", "main")

\* An empty menu, its sections, or a page of dishes.
Browse(t, now) ==
  \/ Outcome(t, now, "IDLE", "none")
  \/ \E screen \in {"sections", "dishes"} :
       Outcome(t, now, "BROWSING_MENU", screen)

Search(t, now) ==
  \E screen \in {"main", "dishes"} : Outcome(t, now, "BROWSING_MENU", screen)

\* A dish is set aside until a quantity comes; a quantity with no dish browses.
Add(t, now, means) ==
  \/ /\ means.reply = "item"
     /\ \/ Outcome(t, now, "BROWSING_MENU", "none")
        \/ Outcome(t, [now EXCEPT !.pending = TRUE], "BUILDING_CART", "quantity")
  \/ /\ means.reply = "qty" /\ now.pending
     /\ Begin(t, now, means)
  \/ /\ means.reply # "item" /\ (means.reply = "qty" => ~now.pending)
     /\ Browse(t, now)

EmptyCart(t, now) == Outcome(t, now, "IDLE", "main")

OnTheCart(t, now, means) ==
  IF now.cart = NoCart THEN EmptyCart(t, now) ELSE Begin(t, now, means)

ProvideAddress(t, now, means) ==
  LET located == [now EXCEPT !.address = TRUE] IN
  IF means.reply = "short" THEN Outcome(t, now, "ASKING_ADDRESS", "none")
  ELSE IF now.cart = NoCart THEN Browse(t, located)
  ELSE Begin(t, located, means)

\* The cart is left where it is; the session lets go of it.
Cancel(t) == Outcome(t, Fresh, "IDLE", "main")

Track(t, now) ==
  \/ Outcome(t, now, "TRACKING_ORDER", "none")
  \/ Outcome(t, now, "IDLE", "main")

Handoff(t, now) == Outcome(t, now, "HUMAN_HANDOFF", "none")

Dispatch(t, now, means) ==
  \/ means.intent = "GREETING" /\ Greet(t, now)
  \/ means.intent = "BROWSE_MENU" /\ Browse(t, now)
  \/ means.intent = "SEARCH_MENU" /\ Search(t, now)
  \/ means.intent = "ADD_TO_CART" /\ Add(t, now, means)
  \/ /\ means.intent \in {"VIEW_CART", "CHECKOUT", "SELECT_ORDER_TYPE", "CONFIRM"}
     /\ OnTheCart(t, now, means)
  \/ means.intent = "PROVIDE_ADDRESS" /\ ProvideAddress(t, now, means)
  \/ means.intent = "CANCEL" /\ Cancel(t)
  \/ means.intent = "TRACK_ORDER" /\ Track(t, now)
  \/ means.intent = "HUMAN_HANDOFF" /\ Handoff(t, now)
  \/ means.intent = "UNKNOWN" /\ Outcome(t, now, now.state, "main")

\* The message, as resolveIntent reads it in the session it was loaded with.
Understand(t, now) ==
  \E in \in Inputs :
    Dispatch(t, now, ResolveIntent(in, now.state, Screen(now.shown, Offered)))

\* Mutant: expiry resets the state and keeps the context.
LoadKeepsContext(t) ==
  /\ At(t, "load")
  /\ session # Idle
  /\ \/ /\ Expired
        /\ session' = Row([session.now EXCEPT !.state = "IDLE"], 0,
                          session.escalated)
        /\ Understand(t, [session.now EXCEPT !.state = "IDLE"])
     \/ /\ ~Expired
        /\ Understand(t, session.now)
        /\ UNCHANGED session
  /\ UNCHANGED <<carts, orders, inbox, alarm, slip, unaware, faults>>

\* Mutant: the bot answers a conversation that waits for a person.
LoadAndAnswer(t) ==
  /\ At(t, "load")
  /\ session # Idle
  /\ LET now == IF Expired THEN Fresh ELSE session.now IN
       /\ session' = IF Expired THEN Row(Fresh, 0, session.escalated) ELSE session
       /\ Understand(t, now)
  /\ UNCHANGED <<carts, orders, inbox, alarm, slip, unaware, faults>>

\* loadSession.  An expired session starts again from IDLE; a handed-off one is
\* only touched, and the bot stays silent.
Load(t) ==
  /\ At(t, "load")
  /\ session # Idle
  /\ \/ /\ Expired
        /\ session' = Row(Fresh, 0, session.escalated)
        /\ Understand(t, Fresh)
     \/ /\ ~Expired /\ session.now.state = "HUMAN_HANDOFF"
        /\ Goto(t, "touch")
        /\ UNCHANGED session
     \/ /\ ~Expired /\ session.now.state # "HUMAN_HANDOFF"
        /\ Understand(t, session.now)
        /\ UNCHANGED session
  /\ UNCHANGED <<carts, orders, inbox, alarm, slip, unaware, faults>>

\* No row yet: two first messages may both find none.
LoadNothing(t) ==
  /\ At(t, "load")
  /\ session = Idle
  /\ Goto(t, "create")
  /\ UNCHANGED rest

\* createSession skips duplicates and returns the id it made up either way.
Create(t) ==
  /\ At(t, "create")
  /\ IF session = Idle
     THEN Goto(t, "created") /\ session' = Row(Fresh, 0, FALSE)
     ELSE /\ turn' = [turn EXCEPT ![t] = [turn[t] EXCEPT !.at = "created", !.own = FALSE]]
          /\ UNCHANGED session
  /\ UNCHANGED <<carts, orders, inbox, alarm, slip, unaware, faults>>

Created(t) ==
  /\ At(t, "created")
  /\ Understand(t, Fresh)
  /\ UNCHANGED rest

Touch(t) ==
  /\ At(t, "touch")
  /\ session' = [session EXCEPT !.age = 0]
  /\ turn' = [turn EXCEPT ![t] = Idle]
  /\ UNCHANGED <<carts, orders, inbox, alarm, slip, unaware, faults>>

\* A new wait begins, or the present one is cleared.  Alarms still to be written
\* belong to the old one.
ClearWait ==
  /\ wait' = [told |-> 0, lost |-> 0]
  /\ worker' = [w \in Workers |->
                  IF worker[w] = "emit" THEN "emit late" ELSE worker[w]]

\* What is left of a turn once the session is saved: the reply.
Say(screen, lines) == [Began EXCEPT !.at = "reply", !.show = screen,
                                    !.sees = lines]

\* The whole row, by id, over whatever is there.  Entering a handoff starts a
\* fresh clock.
Save(t) ==
  /\ At(t, "save")
  /\ turn' = [turn EXCEPT ![t] = Say(turn[t].show, turn[t].sees)]
  /\ LET handoff == turn[t].own /\ turn[t].now.state = "HUMAN_HANDOFF" IN
       /\ session' = IF turn[t].own
                     THEN Row(turn[t].now, 0, session.escalated /\ ~handoff) ELSE session
       /\ IF handoff THEN ClearWait ELSE UNCHANGED alarm
       /\ unaware' = IF handoff THEN {u \in InFlight \ {t} : ~At(u, "load")} ELSE unaware
  /\ UNCHANGED <<carts, orders, inbox, slip, faults>>

----------------------------------------------------------------------------
(* What the handlers do with the cart and the order, in the services'       *)
(* transactions.                                                            *)

Now(t) == turn[t].now

ShowCart(t) ==
  /\ At(t, "VIEW_CART")
  /\ Summary(t, Now(t), "BUILDING_CART", "cart")
  /\ UNCHANGED rest

StartCheckout(t) ==
  /\ At(t, "CHECKOUT")
  /\ IF carts[Now(t).cart].lines > 0
     THEN Outcome(t, Now(t), "SELECTING_ORDER_TYPE", "types")
     ELSE EmptyCart(t, Now(t))
  /\ UNCHANGED rest

AskForConfirmation(t) ==
  /\ At(t, "PROVIDE_ADDRESS") \/ At(t, "retyped")
  /\ Summary(t, Now(t), "CONFIRMING_ORDER", "confirm")
  /\ UNCHANGED rest

ShowAdded(t) ==
  /\ At(t, "added")
  /\ Summary(t, [Now(t) EXCEPT !.pending = FALSE], "BUILDING_CART", "cart")
  /\ UNCHANGED rest

Active(c) == c # NoCart /\ carts[c] # Idle /\ carts[c].status = "ACTIVE"
Unused == {c \in Carts : carts[c] = Idle}

\* assertBranchSupports, which CartService asks at create and at update.
BranchSupports(type) == type \in Offered

\* CartService.create.
NewCart(type) == [status |-> "ACTIVE", lines |-> 0, type |-> type, stale |-> FALSE]

\* ensureCart: the session's cart while it is ACTIVE, else a new one, which is
\* provisionally for PICKUP and refused where the branch has none.
EnsureCart(t) ==
  /\ At(t, "ADD_TO_CART")
  /\ IF Active(Now(t).cart)
     THEN Goto(t, "add") /\ UNCHANGED carts
     ELSE /\ BranchSupports("PICKUP")
          /\ Unused # {}
          /\ LET c == CHOOSE c \in Unused : \A d \in Unused : c <= d IN
               /\ carts' = [carts EXCEPT ![c] = NewCart("PICKUP")]
               /\ turn' = [turn EXCEPT ![t] = [turn[t] EXCEPT !.at = "add",
                                                 !.now = [Now(t) EXCEPT !.cart = c]]]
  /\ UNCHANGED <<session, orders, inbox, alarm, slip, unaware, faults>>

\* CartService.addItem, which refuses a cart that is not ACTIVE.
AddItem(t) ==
  /\ At(t, "add")
  /\ Active(Now(t).cart)
  /\ carts[Now(t).cart].lines < MaxLines
  /\ LET c == Now(t).cart IN
       carts' = [carts EXCEPT ![c] = [carts[c] EXCEPT !.lines = carts[c].lines + 1]]
  /\ Goto(t, "added")
  /\ UNCHANGED <<session, orders, inbox, alarm, slip, unaware, faults>>

\* Mutant: the branch is not asked whether it has the order type.
RetypeUnasked(t) ==
  /\ At(t, "SELECT_ORDER_TYPE")
  /\ Active(Now(t).cart)
  /\ LET c == Now(t).cart IN
       carts' = [carts EXCEPT ![c] = [carts[c] EXCEPT !.type = turn[t].reply]]
  /\ Goto(t, "retyped")
  /\ UNCHANGED <<session, orders, inbox, alarm, slip, unaware, faults>>

\* selectOrderType: CartService.update, then the address or the confirmation.
Retype(t) ==
  /\ At(t, "SELECT_ORDER_TYPE")
  /\ Active(Now(t).cart)
  /\ BranchSupports(turn[t].reply)
  /\ LET c == Now(t).cart IN
       carts' = [carts EXCEPT ![c] = [carts[c] EXCEPT !.type = turn[t].reply]]
  /\ IF turn[t].reply = "DELIVERY"
     THEN Outcome(t, Now(t), "ASKING_ADDRESS", "none")
     ELSE Goto(t, "retyped")
  /\ UNCHANGED <<session, orders, inbox, alarm, slip, unaware, faults>>

Complete(c, now) ==
  /\ Active(c)
  /\ carts[c].lines > 0
  /\ carts[c].type = "DELIVERY" => now.address

\* placeOrder: OrdersService.checkout with no idempotency key.  It reads the
\* cart, and closes it by id when it commits; module Checkout has the steps
\* between.
OpenCart(t) ==
  /\ At(t, "CONFIRM")
  /\ Complete(Now(t).cart, Now(t))
  /\ turn' = [turn EXCEPT ![t] = [turn[t] EXCEPT !.at = "place", !.reply = "",
                                                 !.sees = carts[Now(t).cart].lines]]
  /\ UNCHANGED rest

PlaceOrder(t) ==
  /\ At(t, "place")
  /\ LET c == Now(t).cart IN
       /\ orders' = Append(orders, [cart |-> c, lines |-> turn[t].sees,
                                    saw |-> customer.saw, slip |-> slip])
       /\ carts' = [carts EXCEPT ![c] = [carts[c] EXCEPT !.status = "CHECKED_OUT"]]
  /\ turn' = [turn EXCEPT ![t] = [turn[t] EXCEPT !.at = "save", !.sees = 0,
                                    !.now = [Fresh EXCEPT !.state = "TRACKING_ORDER"]]]
  /\ UNCHANGED <<session, inbox, alarm, slip, unaware, faults>>

----------------------------------------------------------------------------
(* What goes wrong. *)

\* The cart or order service refuses, before it has written anything.  The
\* customer is told to try again and the session stays where it was.
Refuse(t) ==
  /\ \/ At(t, "ADD_TO_CART")
     \/ At(t, "add")
     \/ At(t, "SELECT_ORDER_TYPE")
     \/ At(t, "CONFIRM")
     \/ At(t, "place")
  /\ turn' = [turn EXCEPT ![t] = Say("none", 0)]
  /\ UNCHANGED rest

\* The same apology after the service has written: the cart or the order stays.
Break(t) ==
  /\ \/ At(t, "added") \/ At(t, "retyped") \/ At(t, "save")
  /\ faults < MaxFaults
  /\ faults' = faults + 1
  /\ slip' = TRUE
  /\ turn' = [turn EXCEPT ![t] = Say("none", 0)]
  /\ UNCHANGED <<session, carts, orders, inbox, alarm, unaware>>

\* WhatsAppSenderService.send, one message after the other, each recorded.
Send(t) ==
  /\ At(t, "reply")
  /\ customer' = [screen |-> IF turn[t].show = "none" THEN customer.screen ELSE turn[t].show,
                  saw |-> IF turn[t].sees = 0 THEN customer.saw ELSE turn[t].sees]
  /\ turn' = [turn EXCEPT ![t] = Idle]
  /\ UNCHANGED <<session, carts, orders, alarm, slip, unaware, received, faults>>

\* The provider refuses, or the process dies at any point of the turn.  Nothing
\* retries: the message has been claimed.
Drop(t) ==
  /\ turn[t] # Idle
  /\ faults < MaxFaults
  /\ faults' = faults + 1
  /\ slip' = TRUE
  /\ turn' = [turn EXCEPT ![t] = Idle]
  /\ UNCHANGED <<session, carts, orders, inbox, alarm, unaware>>

----------------------------------------------------------------------------
(* The staff inbox. *)

Waiting == session # Idle /\ session.now.state = "HUMAN_HANDOFF"

\* The service window opens again when the message arrives, before its turn.
WindowOpen == ~Expired \/ InFlight # {}

\* reply: sends, and clears the alarm whatever the state of the conversation.
\* Nothing is sent outside the 24-hour window.
StaffReply ==
  /\ session # Idle
  /\ WindowOpen
  /\ session' = [session EXCEPT !.escalated = FALSE]
  /\ ClearWait
  /\ UNCHANGED <<turn, carts, orders, inbox, slip, unaware, faults>>

\* resolve: refused unless the conversation waits for a person.
Resolve ==
  /\ Waiting
  /\ session' = Row(Fresh, session.age, FALSE)
  /\ ClearWait
  /\ UNCHANGED <<turn, carts, orders, inbox, slip, unaware, faults>>

----------------------------------------------------------------------------
(* The alarm for handoffs nobody answers. *)

conversing == <<turn, carts, orders, inbox, slip, unaware>>

\* The tenant's threshold, or the default.
Overdue == session.age > 0

\* The sweep's query.
FindWaiting(w) ==
  /\ worker[w] = "idle"
  /\ Waiting /\ ~session.escalated /\ Overdue
  /\ worker' = [worker EXCEPT ![w] = "claim"]
  /\ UNCHANGED <<session, wait, conversing, faults>>

\* Mutant: the flag is set whatever it was.
ClaimUnchecked(w) ==
  /\ worker[w] = "claim"
  /\ worker' = [worker EXCEPT ![w] = "emit"]
  /\ session' = [session EXCEPT !.escalated = TRUE]
  /\ UNCHANGED <<wait, conversing, faults>>

\* The conditional update; the state is not looked at again.
Claim(w) ==
  /\ worker[w] = "claim"
  /\ IF session.escalated
     THEN worker' = [worker EXCEPT ![w] = "idle"] /\ UNCHANGED session
     ELSE /\ worker' = [worker EXCEPT ![w] = "emit"]
          /\ session' = [session EXCEPT !.escalated = TRUE]
  /\ UNCHANGED <<wait, conversing, faults>>

\* outboxEvent.create, in a transaction of its own.
Emit(w) ==
  /\ worker[w] \in {"emit", "emit late"}
  /\ worker' = [worker EXCEPT ![w] = "idle"]
  /\ wait' = IF worker[w] = "emit" THEN [wait EXCEPT !.told = @ + 1] ELSE wait
  /\ UNCHANGED <<session, conversing, faults>>

\* A worker that dies between the two leaves the alarm claimed and unraised.
WorkerDies(w) ==
  /\ worker[w] # "idle"
  /\ faults < MaxFaults
  /\ faults' = faults + 1
  /\ worker' = [worker EXCEPT ![w] = "idle"]
  /\ wait' = IF worker[w] = "emit" THEN [wait EXCEPT !.lost = @ + 1] ELSE wait
  /\ UNCHANGED <<session, conversing>>

----------------------------------------------------------------------------
\* Time passes; nobody's turn lasts a day.  A cart the session outlived is stale.
Tick ==
  /\ session # Idle
  /\ session.age < 2
  /\ session.age = 0 \/ InFlight = {}
  /\ session' = [session EXCEPT !.age = @ + 1]
  /\ carts' = [c \in Carts |->
                 IF Active(c) /\ session.age = 1
                 THEN [carts[c] EXCEPT !.stale = TRUE] ELSE carts[c]]
  /\ UNCHANGED <<turn, orders, inbox, alarm, slip, unaware, faults>>

Work(t) ==
  \/ LoadNothing(t) \/ Create(t) \/ Created(t) \/ Load(t) \/ Touch(t)
  \/ ShowCart(t) \/ StartCheckout(t) \/ AskForConfirmation(t) \/ ShowAdded(t)
  \/ EnsureCart(t) \/ AddItem(t) \/ Retype(t)
  \/ OpenCart(t) \/ PlaceOrder(t) \/ Refuse(t)
  \/ Save(t) \/ Send(t)

Sweep(w) == FindWaiting(w) \/ Claim(w) \/ Emit(w)

ConversationNext ==
  \/ \E t \in Turns :
       \/ Receive(t) \/ Work(t) \/ Break(t) \/ Drop(t)
  \/ StaffReply \/ Resolve
  \/ \E w \in Workers : Sweep(w) \/ WorkerDies(w)
  \/ Tick

----------------------------------------------------------------------------
UsedStates == States \ {"AWAITING_PAYMENT", "RESERVATION_FLOW"}

Contexts ==
  [state : UsedStates,
   cart : Carts \union {NoCart}, pending : BOOLEAN, address : BOOLEAN,
   shown : Screens]

\* The places where a turn is about to call the cart or order service.
Services == {"VIEW_CART", "CHECKOUT", "SELECT_ORDER_TYPE", "PROVIDE_ADDRESS",
             "ADD_TO_CART", "CONFIRM"}

Stages == Services \union {"load", "create", "created", "touch", "add", "added",
                           "retyped", "place", "save", "reply"}

SessionState == [now : Contexts, age : 0 .. 2, escalated : BOOLEAN]
TurnState == [at : Stages, own : BOOLEAN, reply : Replies, now : Contexts,
              show : Screens, sees : 0 .. MaxLines]
CartState == [status : {"ACTIVE", "CHECKED_OUT"}, lines : 0 .. MaxLines,
              type : Offered, stale : BOOLEAN]

ASSUME IdleAssumption == Idle \notin SessionState \union TurnState \union CartState

\* Types, and that a session or a turn names only carts that exist, of a type
\* the branch has.
ConversationTypeOK ==
  /\ session \in SessionState \union {Idle}
  /\ turn \in [Turns -> TurnState \union {Idle}]
  /\ carts \in [Carts -> CartState \union {Idle}]
  /\ \A t \in InFlight : Now(t).cart # NoCart => carts[Now(t).cart] # Idle
  /\ session # Idle /\ session.now.cart # NoCart =>
       carts[session.now.cart] # Idle
  /\ customer \in [screen : Screens, saw : 0 .. MaxLines]
  /\ worker \in [Workers -> {"idle", "claim", "emit", "emit late"}]
  /\ slip \in BOOLEAN /\ unaware \subseteq Turns
  /\ received \in 0 .. MaxMessages /\ faults \in 0 .. MaxFaults

(***************************************************************************)
(* What the customer confirms is what was shown.  Typing, old buttons, a   *)
(* cart added to, retyped, left and taken up again: unless two turns       *)
(* overlapped or a step failed after it had written, an order has the      *)
(* lines of the last summary that reached the screen (cartSummary and      *)
(* placeOrder, whose checkout reads the cart again).                       *)
(***************************************************************************)
OrderedAsShown ==
  \A i \in DOMAIN orders : orders[i].slip \/ orders[i].lines = orders[i].saw

(***************************************************************************)
(* "A customer returning later is greeted afresh": no order ever comes of  *)
(* a cart that was ACTIVE when its session expired, though its buttons     *)
(* stay in the chat (isConversationExpired and loadSession).               *)
(***************************************************************************)
NoStaleOrders == \A c \in Carts : carts[c] # Idle /\ carts[c].stale => Active(c)

(***************************************************************************)
(* "A bare number means whatever was in that position on the customer's    *)
(* screen": between turns that neither overlapped nor failed, the reply    *)
(* ids the session remembers are of the screen the customer last got, or   *)
(* there are none (shownReplyIdsFrom and save).                            *)
(***************************************************************************)
NumbersMeanTheScreen ==
  InFlight = {} /\ ~slip /\ session # Idle =>
    session.now.shown \in {"none", customer.screen}

(***************************************************************************)
(* One alarm for one wait: while handoffEscalatedAt is set, exactly one    *)
(* worker has raised the alarm, is about to, or died in between, and       *)
(* while it is not set none has (sweepUnansweredHandoffs, against replies, *)
(* resolutions, new handoffs and each other).                              *)
(***************************************************************************)
AlarmOncePerWait ==
  wait.told + wait.lost + Cardinality({w \in Workers : worker[w] = "emit"})
    = IF session # Idle /\ session.escalated THEN 1 ELSE 0

(***************************************************************************)
(* A handed-off conversation is the staff's until they resolve it or, 24   *)
(* hours later, a message finds it expired.  No other message takes it     *)
(* back to the bot, whatever overlapped or failed before or since: only a  *)
(* turn that had read the session before the handoff was saved, and saves  *)
(* its own outcome over it (loadSession, handle, save, resolve).           *)
(***************************************************************************)
HandoffIsKept ==
  [][Waiting /\ session'.now.state # "HUMAN_HANDOFF" =>
       \/ Resolve
       \/ Expired /\ \E t \in Turns : Load(t)
       \/ \E t \in unaware : Save(t)]_conversationVars
=============================================================================
