------------------------------ MODULE Pricing ------------------------------
(***************************************************************************)
(* What a cart costs (apps/api/src/pricing, packages/domain/src/pricing.ts *)
(* and money.ts): priceCart, which the cart's own answers and the checkout *)
(* both call, while managers change the menu and the settings and the      *)
(* customer's default address changes.                                     *)
(*                                                                         *)
(* Amounts are counts of minor units.  A cart has at most one line of a    *)
(* dish, and a dish one size besides the plain one and one option, in an   *)
(* optional group.  Nothing in src/ gives a discount, edits a zone or the  *)
(* settings of a branch.  `percent / 100` is a double, so an exact half    *)
(* may come out below a half: the instances have no exact half.            *)
(***************************************************************************)
EXTENDS Integers, FiniteSets, Functions

CONSTANTS
  Dishes,
  Prices, Deltas,         \* what managers enter, as a price and as an option's priceDelta
  Menus,                  \* the menus to begin with
  OrganizationSettings,   \* what the settings columns hold: some keys, each with
  BranchSettings,         \* {} when its value is not readable and {n} when it is n
  Places,
  ZoneLists,              \* the branch's zones by sortOrder: active, covers, fee, minimum
  MaxPriceChanges,        \* bound: changes of the menu, the settings and the address
  MaxCartEdits            \* bound: requests that change the cart

ASSUME PricesAssumption == Prices \subseteq Nat /\ Deltas \subseteq Int
ASSUME MenusAssumption ==
  Menus \subseteq
    [Dishes -> [base : Prices, override : {{}} \union {{p} : p \in Prices},
                large : {{}} \union {{p} : p \in Prices},
                option : BOOLEAN, grouped : BOOLEAN, delta : Deltas, on : BOOLEAN]]
ASSUME DishesAssumption == IsFiniteSet(Dishes)

\* What settingsSchema reads is not negative, and computeOrderTotals refuses a
\* negative delivery fee.
ASSUME SettingsAssumption ==
  \A s \in OrganizationSettings \union BranchSettings : \A key \in DOMAIN s : s[key] \subseteq Nat
ASSUME ZonesAssumption ==
  \A list \in ZoneLists : \A i \in DOMAIN list : list[i].fee \in Nat

ASSUME PricingBoundsAssumption == MaxPriceChanges \in Nat /\ MaxCartEdits \in Nat

VARIABLES
  menu,           \* per dish: price, branch price, larger size; its option, the group of it
  tenantSettings, \* organization, branch
  zones,
  home,           \* where the default address is: {} when there is none or it has no coordinates
  cart,           \* orderType, and the line of each dish
  preview,        \* the last answer of the cart API
  order,          \* what the order says, when it is placed
  moved,          \* history variable: a price may have changed since the preview
  priceChanges, cartEdits

pricingVars == <<menu, tenantSettings, zones, home, cart, preview, order, moved,
                 priceChanges, cartEdits>>

Points == {{}} \union {{p} : p \in Places}     \* {}: an address without coordinates
NoLine == [quantity |-> 0, large |-> FALSE, extra |-> FALSE]
NoOrder == [total |-> -1]

Larger(a, b) == IF a >= b THEN a ELSE b

----------------------------------------------------------------------------
(* The rules.                                                              *)

\* The branch wins key by key; a value that is not readable is the default's.
Resolved(key, default) ==
  LET field == IF key \in DOMAIN tenantSettings.branch THEN tenantSettings.branch[key]
               ELSE IF key \in DOMAIN tenantSettings.organization
               THEN tenantSettings.organization[key]
               ELSE {}
  IN IF field = {} THEN default ELSE CHOOSE n \in field : TRUE

\* Money.percentage, of an amount that is not negative.
Percentage(amount, percent) == (amount * percent + 50) \div 100

\* Sold out, archived, a size that was removed, an option that may not be chosen.
LineRefused(d) ==
  \/ ~menu[d].on
  \/ cart.line[d].large /\ menu[d].large = {}
  \/ cart.line[d].extra /\ menu[d].grouped /\ ~menu[d].option

\* resolveUnitPrice, which is not given the options.
UnitPrice(d) ==
  LET dear == IF cart.line[d].large THEN menu[d].large ELSE menu[d].override
  IN Larger(0, IF dear = {} THEN menu[d].base ELSE CHOOSE n \in dear : TRUE)

\* A group that is switched off is passed over, with what was chosen of it.
ModifiersTotal(d) ==
  IF cart.line[d].extra /\ menu[d].grouped THEN menu[d].delta ELSE 0

LineTotal(d) == (UnitPrice(d) + ModifiersTotal(d)) * cart.line[d].quantity

\* findZoneForPoint: the first active zone that covers it.
ZoneFor(point) ==
  LET covering == {i \in DOMAIN zones : zones[i].active /\ point \subseteq zones[i].covers}
  IN IF cart.orderType # "DELIVERY" \/ point = {} THEN {}
     ELSE {zones[i] : i \in {j \in covering : \A k \in covering : j <= k}}

\* resolveDeliveryFee
DeliveryFee(zone, discounted) ==
  IF \/ cart.orderType # "DELIVERY"
     \/ Resolved("freeAbove", -1) >= 0 /\ discounted >= Resolved("freeAbove", -1)
  THEN 0
  ELSE IF zone = {} THEN Resolved("fee", 0) ELSE (CHOOSE z \in zone : TRUE).fee

Minimum(zone) ==
  IF \E z \in zone : z.minimum # {}
  THEN CHOOSE n \in (CHOOSE z \in zone : TRUE).minimum : TRUE
  ELSE Resolved("minimum", 0)

\* Mutant: the discount is not held against the subtotal.
DiscountAmountAsAsked(requested, subtotal) == requested

\* "A discount larger than the subtotal reduces the bill to zero".
DiscountAmount(requested, subtotal) == IF requested > subtotal THEN subtotal ELSE requested

\* computeOrderTotals, without a discount
Totals(subtotal, fee) ==
  LET discount   == DiscountAmount(0, subtotal)
      discounted == subtotal - discount
      service    == Percentage(discounted, Resolved("service", 0))
      taxed      == discounted + service + (IF Resolved("taxOnFee", 0) = 1 THEN fee ELSE 0)
      tax        == Percentage(taxed, Resolved("tax", 0))
  IN [subtotal |-> subtotal, discount |-> discount, service |-> service, fee |-> fee,
      tax |-> tax, total |-> discounted + service + tax + fee]

PriceCart(point) ==
  LET lines    == {d \in Dishes : cart.line[d].quantity > 0}
      kept     == {d \in lines : ~LineRefused(d)}
      subtotal == SumFunction([d \in kept |-> LineTotal(d)])
      zone     == ZoneFor(point)
      totals   == Totals(subtotal, DeliveryFee(zone, Larger(0, subtotal)))
      delivery == cart.orderType = "DELIVERY"
  IN [lines    |-> [d \in kept |-> LineTotal(d)],
      totals   |-> totals,
      refused  |-> lines \ kept,
      blockers |-> {b \in {"empty", "minimum", "nowhere"} :
                      \/ b = "empty" /\ kept = {}
                      \/ b = "minimum" /\ delivery /\ Minimum(zone) > 0
                                        /\ subtotal < Minimum(zone)
                      \/ b = "nowhere" /\ delivery /\ point # {} /\ zone = {}}]

----------------------------------------------------------------------------
(* Requests.                                                               *)

\* priceAndPresent: a preview has no address but the default one.
Present == PriceCart(home)

PricingInit ==
  /\ menu \in Menus
  /\ tenantSettings \in [organization : OrganizationSettings, branch : BranchSettings]
  /\ zones \in ZoneLists
  /\ home \in Points
  /\ cart \in [orderType : {"PICKUP", "DELIVERY"}, line : {[d \in Dishes |-> NoLine]}]
  /\ preview = Present
  /\ order = NoOrder
  /\ moved = FALSE
  /\ priceChanges = 0 /\ cartEdits = 0

Preview ==
  /\ order = NoOrder
  /\ preview' = Present
  /\ moved' = FALSE
  /\ UNCHANGED <<menu, tenantSettings, zones, home, cart, order, priceChanges, cartEdits>>

\* "Every mutating method returns this": a change of the cart shows it anew.
EditCart(new) ==
  /\ order = NoOrder /\ cartEdits < MaxCartEdits
  /\ cartEdits' = cartEdits + 1
  /\ cart' = new
  /\ UNCHANGED <<menu, tenantSettings, zones, home, order, priceChanges>>
  /\ preview' = Present'
  /\ moved' = FALSE

UpdateCart == \E t \in {"PICKUP", "DELIVERY"} : EditCart([cart EXCEPT !.orderType = t])

AddLine(d) ==
  /\ cart.line[d] = NoLine /\ menu[d].on
  /\ \E q \in 1 .. 2, large \in BOOLEAN, extra \in BOOLEAN :
       /\ large => menu[d].large # {}
       /\ EditCart([cart EXCEPT !.line[d] = [quantity |-> q, large |-> large, extra |-> extra]])

\* Zero means remove.
UpdateLine(d) ==
  /\ cart.line[d] # NoLine
  /\ \/ EditCart([cart EXCEPT !.line[d] = NoLine])
     \/ \E q \in 1 .. 2 : EditCart([cart EXCEPT !.line[d].quantity = q])

ChangePrices(newMenu, newSettings, newHome) ==
  /\ order = NoOrder /\ priceChanges < MaxPriceChanges
  /\ priceChanges' = priceChanges + 1
  /\ menu' = newMenu /\ tenantSettings' = newSettings /\ home' = newHome
  /\ moved' = TRUE
  /\ UNCHANGED <<zones, cart, preview, order, cartEdits>>

ChangeDish(d, new) == ChangePrices([menu EXCEPT ![d] = new], tenantSettings, home)

SetBasePrice(d) == \E p \in Prices : ChangeDish(d, [menu[d] EXCEPT !.base = p])
SetBranchPrice(d) ==
  \E p \in {{}} \union {{q} : q \in Prices} : ChangeDish(d, [menu[d] EXCEPT !.override = p])
SwitchDish(d) == ChangeDish(d, [menu[d] EXCEPT !.on = ~@])
WriteVariant(d) == \E p \in Prices : ChangeDish(d, [menu[d] EXCEPT !.large = {p}])
RemoveVariant(d) == menu[d].large # {} /\ ChangeDish(d, [menu[d] EXCEPT !.large = {}])

UpdateOption(d) ==
  \/ \E n \in Deltas : ChangeDish(d, [menu[d] EXCEPT !.delta = n])
  \/ ChangeDish(d, [menu[d] EXCEPT !.option = ~@])

SwitchGroup(d) == ChangeDish(d, [menu[d] EXCEPT !.grouped = ~@])

\* The column is replaced as a whole.
UpdateOrganization ==
  \E s \in OrganizationSettings :
    ChangePrices(menu, [tenantSettings EXCEPT !.organization = s], home)

ChangeHome == \E p \in Points : ChangePrices(menu, tenantSettings, p)

\* resolveDelivery: a saved address, or one typed in with or without coordinates.
Destinations == IF cart.orderType = "DELIVERY" THEN Points ELSE {{}}

Checkout ==
  /\ order = NoOrder
  /\ \E point \in Destinations :
       LET priced == PriceCart(point) IN
         /\ priced.refused = {}      \* strict: these throw
         /\ priced.blockers = {}
         /\ order' = priced
         /\ moved' = (moved \/ (cart.orderType = "DELIVERY" /\ point # home))
  /\ UNCHANGED <<menu, tenantSettings, zones, home, cart, preview, priceChanges, cartEdits>>

ChangeMenu ==
  \E d \in Dishes :
    \/ SetBasePrice(d) \/ SetBranchPrice(d) \/ SwitchDish(d)
    \/ WriteVariant(d) \/ RemoveVariant(d) \/ UpdateOption(d) \/ SwitchGroup(d)

PricingNext ==
  \/ Preview \/ UpdateCart \/ (\E d \in Dishes : AddLine(d) \/ UpdateLine(d))
  \/ ChangeMenu \/ UpdateOrganization \/ ChangeHome
  \/ Checkout

----------------------------------------------------------------------------
PricingTypeOK ==
  /\ cart.orderType \in {"PICKUP", "DELIVERY"}
  /\ home \in Points
  /\ \A d \in Dishes : cart.line[d].quantity \in 0 .. 2 /\ menu[d].base \in Prices
  /\ DOMAIN preview.lines \union preview.refused = {d \in Dishes : cart.line[d].quantity > 0}
  /\ moved \in BOOLEAN
  /\ priceChanges \in 0 .. MaxPriceChanges /\ cartEdits \in 0 .. MaxCartEdits

(***************************************************************************)
(* "What the customer was shown and what they are charged cannot drift":   *)
(* an order says what the last answer of the cart said, which had nothing  *)
(* against it, unless the menu, the settings or the default address was    *)
(* changed since or the order goes elsewhere.  And whatever options take   *)
(* off a line, nobody is owed money: the bill is never less than its       *)
(* delivery fee, and no part of it that is added is negative.              *)
(***************************************************************************)
PricesHold ==
  order # NoOrder =>
    /\ moved \/ order = preview
    /\ order.totals.total >= order.totals.fee
    /\ \A part \in {"service", "tax", "fee"} : order.totals[part] >= 0

(***************************************************************************)
(* "A stack of negative modifiers must never produce a negative line".     *)
(* resolveUnitPrice sees to it, but is called without the options, which   *)
(* priceCart adds afterwards (run price_floor).                            *)
(***************************************************************************)
LinesAreNotNegative ==
  order # NoOrder => \A d \in DOMAIN order.lines : order.lines[d] >= 0
=============================================================================
