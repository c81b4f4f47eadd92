------------------------- MODULE ConversationRules -------------------------
(***************************************************************************)
(* The pure rules of the WhatsApp conversation (packages/domain/src/       *)
(* conversation.ts): its states, the ids that rows and buttons carry, what *)
(* a message means in a state, and the screens the service puts in front   *)
(* of the customer (apps/api/src/whatsapp/conversation.service.ts).        *)
(*                                                                         *)
(* A message is a tap on an id, or typed text of a kind: a number, a line  *)
(* with the keyword of an intent, an affirmative, or prose long enough for *)
(* an address, for a dish's name, or for neither.                          *)
(***************************************************************************)
EXTENDS Naturals, Sequences

States == {"IDLE", "BROWSING_MENU", "BUILDING_CART", "SELECTING_ORDER_TYPE",
           "ASKING_ADDRESS", "CONFIRMING_ORDER", "TRACKING_ORDER",
           "HUMAN_HANDOFF", "AWAITING_PAYMENT", "RESERVATION_FLOW"}

OrderTypes == {"DELIVERY", "PICKUP", "DINE_IN"}

\* The ids of actions, as parseReplyId knows them; order types and quantities
\* carry their value.  What a category or dish id names is left to the menu.
ReplyIds == {"cat", "browse", "more", "item", "qty", "qty:0", "cart", "checkout",
             "confirm", "cancel", "track", "agent"} \union OrderTypes

ReplyIntents ==
  [id \in ReplyIds |->
     CASE id \in {"cat", "browse", "more"} -> "BROWSE_MENU"
       [] id \in {"item", "qty", "qty:0"}  -> "ADD_TO_CART"
       [] id = "cart"       -> "VIEW_CART"
       [] id = "checkout"   -> "CHECKOUT"
       [] id = "confirm"    -> "CONFIRM"
       [] id = "cancel"     -> "CANCEL"
       [] id = "track"      -> "TRACK_ORDER"
       [] id = "agent"      -> "HUMAN_HANDOFF"
       [] id \in OrderTypes -> "SELECT_ORDER_TYPE"]

Keywords == {"HUMAN_HANDOFF", "TRACK_ORDER", "CANCEL", "CHECKOUT", "VIEW_CART",
             "BROWSE_MENU", "GREETING"}

MaxTyped == 3   \* bound: the largest number a customer types

\* The chat keeps every old screen, so anything ever offered can be tapped,
\* also an order type the branch no longer has.
Inputs ==
  [kind : {"tap"}, what : ReplyIds \ {"cart", "qty:0"}] \union
  [kind : {"number"}, what : 0 .. MaxTyped] \union
  [kind : {"keyword"}, what : Keywords] \union
  [kind : {"yes"}, what : {""}] \union
  [kind : {"prose"}, what : {"address", "dish", "mumble"}]

\* The reply ids of each screen, in the order shown; the last interactive
\* message of a turn is the one that counts.
Screen(name, offered) ==
  CASE name = "main"     -> <<"browse", "track", "agent">>
    [] name = "sections" -> <<"cat">>
    [] name = "dishes"   -> <<"item", "more">>
    [] name = "quantity" -> <<"qty", "qty", "qty">>
    [] name = "cart"     -> <<"browse", "checkout", "cancel">>
    [] name = "types"    -> SelectSeq(<<"DELIVERY", "PICKUP", "DINE_IN">>,
                                      LAMBDA type : type \in offered)
    [] name = "confirm"  -> <<"confirm", "browse", "cancel">>
    [] name = "none"     -> <<>>

Screens == {"main", "sections", "dishes", "quantity", "cart", "types",
            "confirm", "none"}

Means(intent, reply) == [intent |-> intent, reply |-> reply]

\* With an address that is long enough, or not.
Replies == ReplyIds \union {"", "short", "long"}

Searchable == {"IDLE", "BROWSING_MENU", "BUILDING_CART"}

\* Any other text while an address is asked for is the address.
EscapesAddress(input) ==
  input.kind = "keyword" /\ input.what \in {"CANCEL", "HUMAN_HANDOFF"}

LongEnough(input) == input.kind = "prose" /\ input.what = "address"

TypedNumber(n, state, screen) ==
  IF state = "BUILDING_CART"
  THEN Means("ADD_TO_CART", IF n = 0 THEN "qty:0" ELSE "qty")
  ELSE IF n \in DOMAIN screen /\ screen[n] \in ReplyIds
  THEN Means(ReplyIntents[screen[n]], screen[n])
  ELSE Means("UNKNOWN", "")

\* resolveIntent, with the reply ids last shown.
ResolveIntent(input, state, screen) ==
  IF input.kind = "tap" THEN Means(ReplyIntents[input.what], input.what)
  ELSE IF state = "ASKING_ADDRESS" THEN
    IF EscapesAddress(input) THEN Means(input.what, "")
    ELSE Means("PROVIDE_ADDRESS", IF LongEnough(input) THEN "long" ELSE "short")
  ELSE
    CASE input.kind = "number" -> TypedNumber(input.what, state, screen)
      [] input.kind = "keyword" ->
           IF input.what = "CHECKOUT" /\ state = "CONFIRMING_ORDER"
           THEN Means("CONFIRM", "") ELSE Means(input.what, "")
      [] input.kind = "yes" ->
           Means(IF state = "CONFIRMING_ORDER" THEN "CONFIRM" ELSE "GREETING", "")
      [] input.kind = "prose" ->
           Means(IF input.what # "mumble" /\ state \in Searchable
                 THEN "SEARCH_MENU" ELSE "UNKNOWN", "")
=============================================================================
