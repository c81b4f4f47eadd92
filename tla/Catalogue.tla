----------------------------- MODULE Catalogue -----------------------------
(***************************************************************************)
(* One dish of the menu at one branch while managers edit it               *)
(* (apps/api/src/menu/menu.service.ts and modifiers.service.ts), and what  *)
(* two channels make of it: the WhatsApp menu, which offers a dish it can  *)
(* sell without asking about options (conversation.service.ts), and the    *)
(* cart, which accepts and prices it by the rules of                       *)
(* packages/domain/src/menu.ts.                                            *)
(*                                                                         *)
(* Names, prices and the order of lists are left out, and variants with    *)
(* them: a dish that has some is also sold without one.  Of a group's      *)
(* options only those a choice may name are kept: one that is switched off *)
(* and one that is gone are refused alike.  The dish stays in its          *)
(* category.  MenuItemAvailabilityChanged has no reader.                   *)
(***************************************************************************)
EXTENDS Naturals, FiniteSets

CONSTANTS
  Groups,       \* modifier groups
  Options,      \* options a group may come to have
  Editors,      \* calls that may be open at a time
  Minimums,     \* what managers enter as minSelections
  Maximums,     \* and as maxSelections
  MaxEdits      \* bound: calls begun

ASSUME CountsAssumption == Minimums \subseteq Nat /\ Maximums \subseteq Nat \ {0}
ASSUME OptionsAssumption == IsFiniteSet(Options)
ASSUME CatalogueBoundsAssumption == MaxEdits \in Nat

VARIABLES
  dish,         \* availability, isActive
  categoryOn,   \* isActive of the dish's category
  override,     \* the branch's row: none, or its availability, which may be NULL
  group,        \* the modifier rows
  available,    \* the options of each group that are available
  attached,     \* the groups of the dish
  edit,         \* what each open transaction has read
  edits,
  lopsided,     \* history variable: groups created against the rule, or written over by an
                \* update that had read another rule, until an update that had not
  written,      \* history variable: the last list of groups written
  beyond        \* history variable: what others wrote while that list was being written

menuHistory == <<lopsided, written, beyond>>
catalogueVars == <<dish, categoryOn, override, group, available, attached, edit, edits, menuHistory>>

Availability == {"AVAILABLE", "OUT_OF_STOCK", "HIDDEN"}
DefaultMaximum(type) == IF type = "SINGLE" THEN 1 ELSE 5
NoGroup == [type |-> "none", required |-> FALSE, min |-> 0, max |-> 0, active |-> FALSE]
\* What create makes of a request that names a group and says no more.
PlainGroup == [type |-> "SINGLE", required |-> FALSE, min |-> 0, max |-> 1, active |-> TRUE]
NoEdit == [what |-> "none"]

\* A field of a request: {} when it is left out.
Maybe(S) == {{}} \union {{x} : x \in S}
Given(field, otherwise) == IF field = {} THEN otherwise ELSE CHOOSE x \in field : TRUE

----------------------------------------------------------------------------
(* The rules.                                                              *)

Restrictiveness(a) ==
  CASE a = "AVAILABLE" -> 0 [] a = "OUT_OF_STOCK" -> 1 [] a = "HIDDEN" -> 2

\* resolveAvailability: the more restrictive of the two wins.
EffectiveAvailability ==
  IF /\ override \in Availability
     /\ Restrictiveness(override) > Restrictiveness(dish.availability)
  THEN override ELSE dish.availability

IsOrderable == dish.active /\ EffectiveAvailability = "AVAILABLE"

IsVisible == dish.active /\ EffectiveAvailability # "HIDDEN"

\* `required` sets a floor of one.
Minimum(g) == IF group[g].required /\ group[g].min = 0 THEN 1 ELSE group[g].min

\* validateModifierSelection.  A choice is a set: an option named twice is refused,
\* and so is one the group does not have or that is not available.
Valid(g, chosen) ==
  /\ chosen \subseteq available[g]
  /\ group[g].type = "SINGLE" => Cardinality(chosen) <= 1
  /\ Cardinality(chosen) >= Minimum(g)
  /\ group[g].max > 0 => Cardinality(chosen) <= group[g].max

\* CartService.addItem without options, and priceCart after it.
AcceptedBare ==
  /\ IsOrderable
  /\ \A g \in attached : group[g].active => Valid(g, {})

\* ConversationService.orderable, over the groups presentItem shows.
NeedsAChoice ==
  \E g \in attached : group[g].active /\ (group[g].required \/ group[g].min > 0)

\* The dish is in the bot's menu: getMenu drops the dishes of an archived category.
OfferedByBot ==
  /\ categoryOn
  /\ IsVisible
  /\ EffectiveAvailability \notin {"OUT_OF_STOCK", "HIDDEN"}
  /\ ~NeedsAChoice

----------------------------------------------------------------------------
(* Edits of the dish: each decides and writes in one statement.            *)

CatalogueInit ==
  /\ dish \in [availability : Availability, active : {TRUE}]
  /\ categoryOn = TRUE
  /\ override = "none"
  /\ group \in [Groups -> {NoGroup, PlainGroup}]
  /\ available = [g \in Groups |-> IF group[g] = NoGroup THEN {} ELSE Options]
  /\ attached = {}
  /\ edit = [e \in Editors |-> NoEdit]
  /\ edits = 0
  /\ lopsided = {}
  /\ written = {}
  /\ beyond = {}

Count1 == edits < MaxEdits /\ edits' = edits + 1

EditDish(new) ==
  /\ Count1
  /\ dish' = new
  /\ UNCHANGED <<categoryOn, override, group, available, attached, edit, menuHistory>>

UpdateItem ==
  \E a \in Availability, on \in BOOLEAN :
    EditDish([availability |-> a, active |-> on])

ArchiveItem == EditDish([dish EXCEPT !.active = FALSE])

SetAvailability == \E a \in Availability : EditDish([dish EXCEPT !.availability = a])

EditCategory(on) ==
  /\ Count1
  /\ categoryOn' = on
  /\ UNCHANGED <<dish, override, group, available, attached, edit, menuHistory>>

UpdateCategory == \E on \in BOOLEAN : EditCategory(on)

ArchiveCategory == EditCategory(FALSE)

EditOverride(new) ==
  /\ Count1
  /\ override' = new
  /\ UNCHANGED <<dish, categoryOn, group, available, attached, edit, menuHistory>>

SetBranchAvailability == \E a \in Availability : EditOverride(a)

\* An upsert.  Without an availability only the price is written.
SetBranchOverride ==
  \/ \E a \in Availability \union {"inherit"} : EditOverride(a)
  \/ EditOverride(IF override = "none" THEN "inherit" ELSE override)

ClearBranchOverride == EditOverride("none")

EditItem ==
  \/ UpdateItem \/ ArchiveItem \/ SetAvailability
  \/ UpdateCategory \/ ArchiveCategory
  \/ SetBranchAvailability \/ SetBranchOverride \/ ClearBranchOverride

----------------------------------------------------------------------------
(* Modifier groups.                                                        *)

EditGroup(g, new) ==
  /\ group' = [group EXCEPT ![g] = new]
  /\ UNCHANGED <<dish, categoryOn, override, attached, written, beyond>>

\* The rule of update: some choice can satisfy the group, if it has the options.
WellFormed(row) == row.min <= row.max /\ (row.type = "SINGLE" => row.max = 1)

\* createModifierSchema holds only what was given against it, not the defaults.
CreateGroup(g) ==
  /\ group[g] = NoGroup
  /\ Count1
  /\ \E t \in Maybe({"SINGLE", "MULTIPLE"}), r \in BOOLEAN,
        min \in Maybe(Minimums), max \in Maybe(Maximums) :
       LET type == Given(t, "SINGLE")
           new == [type |-> type, required |-> r, min |-> Given(min, 0),
                   max |-> Given(max, DefaultMaximum(type)), active |-> TRUE]
       IN /\ min # {} /\ max # {} => new.min <= new.max
          /\ t # {} /\ max # {} => (type = "SINGLE" => new.max = 1)
          /\ EditGroup(g, new)
          /\ lopsided' = IF WellFormed(new) THEN lopsided ELSE lopsided \union {g}
  /\ \E options \in SUBSET Options : available' = [available EXCEPT ![g] = options]
  /\ UNCHANGED edit

\* update, up to its findUnique.
ReadGroup(e, g) ==
  /\ edit[e] = NoEdit /\ group[g] # NoGroup
  /\ Count1
  /\ edit' = [edit EXCEPT ![e] = [what |-> "update", id |-> g, existing |-> group[g]]]
  /\ UNCHANGED <<dish, categoryOn, override, group, available, attached, menuHistory>>

\* The rule does not read required and active: leaving them out comes to giving what
\* the row has.
Patches ==
  [type : Maybe({"SINGLE", "MULTIPLE"}), required : {{b} : b \in BOOLEAN},
   min : Maybe(Minimums), max : Maybe(Maximums), active : {{b} : b \in BOOLEAN}]

Merged(row, patch) ==
  [type |-> Given(patch.type, row.type), required |-> Given(patch.required, row.required),
   min |-> Given(patch.min, row.min), max |-> Given(patch.max, row.max),
   active |-> Given(patch.active, row.active)]

SameRule(a, b) == a.type = b.type /\ a.min = b.min /\ a.max = b.max

\* Mutant: the request is checked by itself.
WriteGroupUnmerged(e) ==
  /\ edit[e].what = "update"
  /\ LET g == edit[e].id IN
       \E patch \in Patches :
         /\ patch.min # {} /\ patch.max # {} => WellFormed(Merged(NoGroup, patch))
         /\ EditGroup(g, Merged(group[g], patch))
         /\ lopsided' = IF SameRule(group[g], edit[e].existing)
                          THEN lopsided \ {g} ELSE lopsided \union {g}
  /\ edit' = [edit EXCEPT ![e] = NoEdit]
  /\ UNCHANGED <<available, edits>>

\* The rest of update: the check of the row as it was read, the UPDATE of the row
\* as it is.  A check that fails throws.
WriteGroup(e) ==
  /\ edit[e].what = "update"
  /\ LET g == edit[e].id
         passing == {patch \in Patches : WellFormed(Merged(edit[e].existing, patch))}
     IN \/ /\ \E patch \in passing : EditGroup(g, Merged(group[g], patch))
           /\ lopsided' = IF SameRule(group[g], edit[e].existing)
                            THEN lopsided \ {g} ELSE lopsided \union {g}
        \/ /\ passing # Patches
           /\ UNCHANGED <<dish, categoryOn, override, group, attached, menuHistory>>
  /\ edit' = [edit EXCEPT ![e] = NoEdit]
  /\ UNCHANGED <<available, edits>>

ArchiveGroup(g) ==
  /\ group[g] # NoGroup
  /\ Count1
  /\ EditGroup(g, [group[g] EXCEPT !.active = FALSE])
  /\ UNCHANGED <<available, edit, lopsided>>

\* One statement each, and none looks at the group's rule.
EditOptions(g, options) ==
  /\ group[g] # NoGroup
  /\ Count1
  /\ available' = [available EXCEPT ![g] = options]
  /\ UNCHANGED <<dish, categoryOn, override, group, attached, edit, menuHistory>>

\* addOption, or updateOption that makes one available.
OfferOption(g, o) == o \notin available[g] /\ EditOptions(g, available[g] \union {o})

\* removeOption, or updateOption that makes one unavailable.
WithdrawOption(g, o) == o \in available[g] /\ EditOptions(g, available[g] \ {o})

----------------------------------------------------------------------------
(* setItemModifiers.  The DELETE takes the links its snapshot shows.  One  *)
(* that another call deletes meanwhile is gone when its lock comes free,   *)
(* and what that call inserts, the same group too, is a link the snapshot  *)
(* does not show.  Which of two that delete the same link goes first is    *)
(* open, as they differ only in name.                                      *)

ReplaceDelete(e) ==
  /\ edit[e] = NoEdit
  /\ Count1
  /\ \E new \in SUBSET {g \in Groups : group[g] # NoGroup} :
       edit' = [edit EXCEPT ![e] =
                  [what |-> "replace", new |-> new, doomed |-> attached, met |-> {}]]
  /\ UNCHANGED <<dish, categoryOn, override, group, available, attached, menuHistory>>

Kept(e) == attached \ edit[e].doomed

\* For another open call the links e deleted are gone, and e's list is one it meets.
Outrun(e, o) ==
  IF edit[o].what = "replace"
  THEN [edit[o] EXCEPT !.doomed = @ \ edit[e].doomed, !.met = @ \union edit[e].new]
  ELSE edit[o]

\* A link that is already there violates its unique key, and the whole rolls back.
ReplaceInsert(e) ==
  /\ edit[e].what = "replace"
  /\ \/ /\ edit[e].new \intersect Kept(e) = {}
        /\ attached' = Kept(e) \union edit[e].new
        /\ written' = edit[e].new
        /\ beyond' = edit[e].met
        /\ edit' = [o \in Editors |-> IF o = e THEN NoEdit ELSE Outrun(e, o)]
     \/ /\ edit[e].new \intersect Kept(e) # {}
        /\ edit' = [edit EXCEPT ![e] = NoEdit]
        /\ UNCHANGED <<attached, written, beyond>>
  /\ UNCHANGED <<dish, categoryOn, override, group, available, edits, lopsided>>

CatalogueNext ==
  \/ EditItem
  \/ \E g \in Groups :
       \/ CreateGroup(g) \/ ArchiveGroup(g)
       \/ \E o \in Options : OfferOption(g, o) \/ WithdrawOption(g, o)
  \/ \E e \in Editors :
       \/ \E g \in Groups : ReadGroup(e, g)
       \/ WriteGroup(e)
       \/ ReplaceDelete(e) \/ ReplaceInsert(e)

----------------------------------------------------------------------------
\* Type correctness.  A dish has no group that is not there, nor an option one.
CatalogueTypeOK ==
  /\ dish \in [availability : Availability, active : BOOLEAN]
  /\ categoryOn \in BOOLEAN
  /\ override \in Availability \union {"none", "inherit"}
  /\ \A g \in Groups : group[g] # NoGroup =>
       group[g] \in [type : {"SINGLE", "MULTIPLE"}, required : BOOLEAN,
                     min : Minimums \union {0}, max : Maximums \union {1, 5},
                     active : BOOLEAN]
  /\ available \in [Groups -> SUBSET Options]
  /\ \A g \in Groups : group[g] = NoGroup => available[g] = {} /\ g \notin attached
  /\ edits \in 0 .. MaxEdits
  /\ lopsided \subseteq {g \in Groups : group[g] # NoGroup}

\* "Leading somebody through six steps to a dead end is worse than not offering the dish."
OfferedIsAccepted == OfferedByBot <=> AcceptedBare /\ categoryOn

\* What no rule can help: the group asks for more options than it has to offer.
Short(g) == Cardinality(available[g]) < Minimum(g)

\* "validateModifierSelection would then reject every possible choice."
GroupsCanBeSatisfied ==
  \A g \in Groups \ lopsided : group[g] # NoGroup =>
    Short(g) \/ \E chosen \in SUBSET Options : Valid(g, chosen)

\* "The last write is coherent rather than a mix of both" is not so; how far it is:
ListsMixNoFurther ==
  written \subseteq attached /\ attached \subseteq written \union beyond

(***************************************************************************)
(* What managers leave behind can be sold.  The WhatsApp menu offers a     *)
(* dish exactly when its category is on and the cart would take it without *)
(* a choice, whatever overrides, groups and options it has.  A group has a *)
(* choice that satisfies it unless it lacks the options, or its last       *)
(* update wrote over a rule it had not read, or it was created by defaults *)
(* that contradict it.  And however many lists of groups are written at    *)
(* once, all of the last one is on the dish, and nothing else but what     *)
(* others wrote between its DELETE and its INSERT.                         *)
(***************************************************************************)
MenuIsCoherent == OfferedIsAccepted /\ GroupsCanBeSatisfied /\ ListsMixNoFurther
=============================================================================
