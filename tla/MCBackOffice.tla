---------------------------- MODULE MCBackOffice ----------------------------
(***************************************************************************)
(* What the staff meet: the kitchen screen, the sessions of a browser, the *)
(* menu they edit and the members of the restaurant.  They share no state  *)
(* here: a behaviour is one of one of them, the others at rest in one of   *)
(* their initial states, so that the run has the sum of their states and   *)
(* not the product.                                                        *)
(***************************************************************************)
EXTENDS KitchenScreen, Access, Catalogue, Staffing

VARIABLE part

Init ==
  /\ part \in {"kitchen", "access", "catalogue", "staffing"}
  /\ KitchenInit /\ AccessInit /\ CatalogueInit /\ StaffingInit
  /\ part # "catalogue" =>
       dish.availability = "AVAILABLE" /\ \A g \in Groups : group[g] = NoGroup
  /\ part # "staffing" => \A p \in People :
       IF p \in Founders THEN roles[p] = {"OWNER"} ELSE account[p] = "NONE"

Next ==
  /\ UNCHANGED part
  /\ \/ part = "kitchen" /\ KitchenNext
        /\ UNCHANGED <<accessVars, catalogueVars, staffingVars>>
     \/ part = "access" /\ AccessNext
        /\ UNCHANGED <<kitchenVars, catalogueVars, staffingVars>>
     \/ part = "catalogue" /\ CatalogueNext
        /\ UNCHANGED <<kitchenVars, accessVars, staffingVars>>
     \/ part = "staffing" /\ StaffingNext
        /\ UNCHANGED <<kitchenVars, accessVars, catalogueVars>>

vars == <<part, kitchenVars, accessVars, catalogueVars, staffingVars>>

Steps == [][Next]_vars /\ (part = "kitchen" => KitchenFairness)

Spec == Init /\ Steps

\* The initial states TLC starts from: a dish that is on sale, all groups there or none,
\* and one owner, the other founders the head of their staff.
FewerStarts ==
  /\ Init
  /\ dish.availability = "AVAILABLE"
  /\ \A g, h \in Groups : group[g] = group[h]
  /\ part = "staffing" =>
       \A f \in Founders : roles[f] = {"OWNER"} <=> f = CHOOSE p \in Founders : TRUE

CheckedSpec == FewerStarts /\ Steps

\* Type correctness of the four modules.
TypeOK == KitchenTypeOK /\ AccessTypeOK /\ CatalogueTypeOK /\ StaffingTypeOK

\* "Reconcile on a slow timer": the screen of a behaviour of the kitchen's catches up.
BoardCatchesUp == part = "kitchen" => ScreensCatchUp
=============================================================================
