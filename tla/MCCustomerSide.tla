--------------------------- MODULE MCCustomerSide ---------------------------
(***************************************************************************)
(* What a customer meets: the conversation, the price of a cart and the    *)
(* notices of one event.  They share no state here: a behaviour is one of  *)
(* one of them, the others at rest in one of their initial states, so that *)
(* the run has the sum of their states and not the product.                *)
(***************************************************************************)
EXTENDS Conversation, NotificationRouting, Pricing, TLC

CONSTANTS t1, t2, w1, w2, d1, d2

Symmetry == Permutations(Turns) \union Permutations(Workers)

MCDeltas == {-300, 40}

\* A dish in two sizes, and one with a branch price and an option that takes more off.
MCMenus ==
  LET new == [base |-> 130, override |-> {}, large |-> {260}, option |-> TRUE,
              grouped |-> TRUE, delta |-> 40, on |-> TRUE]
  IN {(d1 :> new) @@
      (d2 :> [new EXCEPT !.base = 260, !.override = {130}, !.large = {}, !.delta = -300])}

MCOrganizationSettings ==
  {[tax |-> {12}, service |-> {6}, fee |-> {100}, minimum |-> {300}],
   [tax |-> {}, freeAbove |-> {500}, fee |-> {100}, taxOnFee |-> {1}]}

\* A tax of its own, and a value that is not readable.
MCBranchSettings == {[tax |-> {16}, taxOnFee |-> {}]}

MCZoneLists ==
  LET inner(min) == [active |-> TRUE, covers |-> {"near"}, fee |-> 50, minimum |-> min]
      outer(on)  == [active |-> on, covers |-> {"near", "far"}, fee |-> 150, minimum |-> {400}]
  IN {<<inner({}), outer(TRUE)>>, <<outer(FALSE), inner({0})>>}

VARIABLE part

\* One initial state of each part, for the behaviours of another.
AtRest(p) ==
  CASE p = "routing" -> event = "READY" /\ phones = {} /\ language = "EN" /\ numbers = {}
    [] p = "pricing" -> /\ home = {} /\ cart.orderType = "PICKUP" /\ zones[1].active
                        /\ tenantSettings.organization.tax = {}
    [] OTHER         -> TRUE

Init ==
  /\ part \in {"conversation", "routing", "pricing"}
  /\ ConversationInit /\ RoutingInit /\ PricingInit
  /\ \A p \in {"routing", "pricing"} \ {part} : AtRest(p)

Next ==
  /\ UNCHANGED part
  /\ \/ part = "conversation" /\ ConversationNext
        /\ UNCHANGED <<routingVars, pricingVars>>
     \/ part = "routing" /\ RoutingNext
        /\ UNCHANGED <<conversationVars, pricingVars>>
     \/ part = "pricing" /\ PricingNext
        /\ UNCHANGED <<conversationVars, routingVars>>

vars == <<part, conversationVars, routingVars, pricingVars>>

Spec == Init /\ [][Next]_vars

\* Type correctness of the three modules.
TypeOK == ConversationTypeOK /\ RoutingTypeOK /\ PricingTypeOK
=============================================================================
