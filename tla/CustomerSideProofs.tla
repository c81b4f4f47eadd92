------------------------- MODULE CustomerSideProofs -------------------------
(***************************************************************************)
(* What a customer meets, proved for any number of recipients, dishes,     *)
(* turns, workers, messages and carts and for any menu and settings: an    *)
(* update is heard once and not lost on its way to the last channel; an    *)
(* order says what the cart's last answer said and its bill is sound; and  *)
(* in the conversation, the alarm, the handoff, stale carts, what a number *)
(* means and what a confirmation orders.                                   *)
(***************************************************************************)
EXTENDS MCCustomerSide, FiniteSums

----------------------------------------------------------------------------
(* The notices of one event. *)

RowStates == {"NONE", "PENDING", "SENT", "FAILED", "SUPPRESSED"}

RoutingTyped ==
  /\ event \in Events
  /\ plans \in Nat
  /\ row \in [Recipients -> [Channels -> RowStates]]

IsUpdate == event \in {"CONFIRMED", "READY"}

Untouched(r) == \A c \in Channels : row[r][c] = "NONE"

\* While nobody changes what the recipient may be told over, SMS is only there
\* because WhatsApp made way, and WhatsApp only where it may be used.
WhatsAppFirst(r) ==
  IF Usable(r, "WHATSAPP") THEN row[r]["SMS"] # "NONE" => row[r]["WHATSAPP"] = "SUPPRESSED"
  ELSE row[r]["WHATSAPP"] = "NONE"

\* The rows of one recipient of an update.
RowsOf(r) ==
  /\ row[r]["DASHBOARD"] = "NONE"
  /\ row[r]["SMS"] # "SUPPRESSED"
  /\ event = "READY" => row[r]["SMS"] = "NONE"
  /\ event = "CONFIRMED" /\ row[r]["WHATSAPP"] = "SUPPRESSED" => row[r]["SMS"] # "NONE"
  /\ plans = 0 => Untouched(r)
  /\ plans > 0 /\ RecipientType(r) \notin rethought => WhatsAppFirst(r)

RoutingInv == RoutingTyped /\ (IsUpdate => \A r \in Recipients : RowsOf(r))

LEMMA UpdateFacts ==
  ASSUME IsUpdate
  PROVE  /\ notice.mode = "first-available"
         /\ event = "CONFIRMED" => Listed = {"WHATSAPP", "SMS"}
         /\ event = "READY" => Listed = {"WHATSAPP"}
         /\ \A r : /\ "WHATSAPP" \in ChannelsFor(r) <=> Usable(r, "WHATSAPP")
                   /\ "SMS" \in ChannelsFor(r) => event = "CONFIRMED" /\ ~Usable(r, "WHATSAPP")
                   /\ "DASHBOARD" \notin ChannelsFor(r)
         /\ event = "CONFIRMED" => NextChannels("WHATSAPP") = {"SMS"}
         /\ event = "READY" => NextChannels("WHATSAPP") = {}
<1>1. CASE event = "CONFIRMED"
  <2>1. notice.channels = <<"WHATSAPP", "SMS">> /\ notice.mode = "first-available"
    BY <1>1 DEF notice, NoticeSpec, OrderNotifications, Update
  <2>2. DOMAIN notice.channels = {1, 2} /\ notice.channels[1] = "WHATSAPP" /\ notice.channels[2] = "SMS"
    BY <2>1
  <2>3. Listed = {"WHATSAPP", "SMS"}
    BY <2>2 DEF Listed
  <2>4. ASSUME NEW r
        PROVE  /\ "WHATSAPP" \in ChannelsFor(r) <=> Usable(r, "WHATSAPP")
               /\ "SMS" \in ChannelsFor(r) => ~Usable(r, "WHATSAPP")
               /\ "DASHBOARD" \notin ChannelsFor(r)
    <3>1. (1 .. 1 - 1) = {} /\ (1 .. 2 - 1) = {1}
      OBVIOUS
    <3>2. \A i \in {1, 2} : i = 1 \/ i = 2
      OBVIOUS
    <3> QED  BY <2>1, <2>2, <2>3, <3>1, <3>2 DEF ChannelsFor
  <2>5. NextChannels("WHATSAPP") = {"SMS"}
    <3>1. {j \in DOMAIN notice.channels : j > 1 /\ notice.channels[j - 1] = "WHATSAPP"} = {2}
      BY <2>2
    <3> QED  BY <2>1, <2>2, <3>1 DEF NextChannels
  <2> QED  BY <1>1, <2>1, <2>3, <2>4, <2>5
<1>2. CASE event = "READY"
  <2>1. notice.channels = <<"WHATSAPP">> /\ notice.mode = "first-available"
    BY <1>2 DEF notice, NoticeSpec, OrderNotifications, Update
  <2>2. DOMAIN notice.channels = {1} /\ notice.channels[1] = "WHATSAPP"
    BY <2>1
  <2>3. Listed = {"WHATSAPP"}
    BY <2>2 DEF Listed
  <2>4. ASSUME NEW r
        PROVE  /\ "WHATSAPP" \in ChannelsFor(r) <=> Usable(r, "WHATSAPP")
               /\ "SMS" \notin ChannelsFor(r) /\ "DASHBOARD" \notin ChannelsFor(r)
    <3>1. (1 .. 1 - 1) = {}
      OBVIOUS
    <3> QED  BY <2>1, <2>2, <2>3, <3>1 DEF ChannelsFor
  <2>5. NextChannels("WHATSAPP") = {}
    <3>1. {j \in DOMAIN notice.channels : j > 1 /\ notice.channels[j - 1] = "WHATSAPP"} = {}
      BY <2>2
    <3> QED  BY <2>1, <2>2, <3>1 DEF NextChannels
  <2> QED  BY <1>2, <2>1, <2>3, <2>4, <2>5
<1> QED  BY <1>1, <1>2 DEF IsUpdate

LEMMA RoutingInitially == RoutingInit => RoutingInv
<1> SUFFICES ASSUME RoutingInit PROVE RoutingInv
  OBVIOUS
<1>1. row \in [Recipients -> [Channels -> RowStates]] /\ \A r \in Recipients : Untouched(r)
  BY DEF RoutingInit, RowStates, Untouched
<1>2. RoutingTyped
  BY <1>1 DEF RoutingInit, RoutingTyped
<1>3. \A r \in Recipients : RowsOf(r)
  BY <1>1 DEF RoutingInit, RowsOf, Untouched, Channels
<1> QED  BY <1>2, <1>3 DEF RoutingInv

LEMMA RoutingPlan ==
  ASSUME RoutingInv, Plan
  PROVE  RoutingInv'
<1> USE DEF RoutingInv
<1>1. /\ row' = [r \in Recipients |-> [c \in Channels |-> Planned(r, c)]]
      /\ plans' = plans + 1 /\ plans \in Nat
      /\ UNCHANGED <<event, off, phones, rethought>>
  BY DEF Plan, settingVars, RoutingTyped
<1>2. \A r \in Recipients, c \in Channels :
        row[r][c] \in RowStates /\ Planned(r, c) \in RowStates /\ row'[r][c] = Planned(r, c)
  <2>1. \A r \in Recipients, c \in Channels : row[r][c] \in RowStates
    BY DEF RoutingTyped
  <2> QED  BY <1>1, <2>1 DEF Planned, RowStates
<1>3. row' \in [Recipients -> [Channels -> RowStates]]
  BY <1>1, <1>2
<1>4. RoutingTyped'
  BY <1>1, <1>3 DEF RoutingTyped
<1>5. ASSUME IsUpdate, NEW r \in Recipients PROVE RowsOf(r)'
  <2>1. RowsOf(r) /\ Usable(r, "WHATSAPP")' = Usable(r, "WHATSAPP")
    BY <1>1, <1>5 DEF Usable
  <2>2. /\ row'[r]["DASHBOARD"] = row[r]["DASHBOARD"]
        /\ row'[r]["SMS"] = row[r]["SMS"] \/
             (row[r]["SMS"] = "NONE" /\ row'[r]["SMS"] = "PENDING" /\ event = "CONFIRMED"
                /\ ~Usable(r, "WHATSAPP"))
        /\ row'[r]["WHATSAPP"] = row[r]["WHATSAPP"] \/
             (row[r]["WHATSAPP"] = "NONE" /\ row'[r]["WHATSAPP"] = "PENDING" /\ Usable(r, "WHATSAPP"))
    BY <1>2, <1>5, UpdateFacts DEF Planned, Channels
  <2>3. plans' > 0 /\ plans' # 0
    BY <1>1
  <2>4. plans = 0 => row[r]["SMS"] = "NONE" /\ row[r]["WHATSAPP"] = "NONE"
    BY <2>1 DEF RowsOf, Untouched, Channels
  <2>5. RecipientType(r) \notin rethought => WhatsAppFirst(r)'
    BY <1>1, <2>1, <2>2, <2>4 DEF RowsOf, WhatsAppFirst
  <2> QED  BY <1>1, <2>1, <2>2, <2>3, <2>5 DEF RowsOf
<1> QED  BY <1>1, <1>4, <1>5 DEF IsUpdate

LEMMA RoutingSettle ==
  ASSUME RoutingInv, NEW r \in Recipients, NEW c \in Channels, NEW status \in {"SENT", "FAILED"},
         Due(r, c), Settle(r, c, status)
  PROVE  RoutingInv'
<1> USE DEF RoutingInv
<1>1. /\ row' = [row EXCEPT ![r][c] = status] /\ row[r][c] = "PENDING"
      /\ UNCHANGED <<event, off, phones, plans, rethought>>
  BY DEF Settle, Due, settingVars
<1>2. /\ row' \in [Recipients -> [Channels -> RowStates]]
      /\ \A q \in Recipients, d \in Channels :
           row'[q][d] = IF q = r /\ d = c THEN status ELSE row[q][d]
  BY <1>1 DEF RoutingTyped, RowStates
<1>3. RoutingTyped'
  BY <1>1, <1>2 DEF RoutingTyped
<1>4. ASSUME IsUpdate, NEW q \in Recipients PROVE RowsOf(q)'
  <2>1. RowsOf(q) /\ Usable(q, "WHATSAPP")' = Usable(q, "WHATSAPP")
    BY <1>1, <1>4 DEF Usable
  <2>2. \A d \in Channels : \/ row'[q][d] = row[q][d]
                            \/ row[q][d] = "PENDING" /\ row'[q][d] \in {"SENT", "FAILED"}
    BY <1>1, <1>2
  <2>3. /\ row'[q]["DASHBOARD"] = row[q]["DASHBOARD"]
        /\ \/ row'[q]["SMS"] = row[q]["SMS"]
           \/ row[q]["SMS"] = "PENDING" /\ row'[q]["SMS"] \in {"SENT", "FAILED"}
        /\ \/ row'[q]["WHATSAPP"] = row[q]["WHATSAPP"]
           \/ row[q]["WHATSAPP"] = "PENDING" /\ row'[q]["WHATSAPP"] \in {"SENT", "FAILED"}
    <3>1. "DASHBOARD" \in Channels /\ "SMS" \in Channels /\ "WHATSAPP" \in Channels
      BY DEF Channels
    <3>2. row[q]["DASHBOARD"] = "NONE"
      BY <2>1 DEF RowsOf
    <3> QED  BY <2>2, <3>1, <3>2
  <2>4. plans = 0 => Untouched(q)'
    BY <2>1, <2>2 DEF RowsOf, Untouched
  <2>5. WhatsAppFirst(q) => WhatsAppFirst(q)'
    BY <2>1, <2>3 DEF WhatsAppFirst
  <2> QED  BY <1>1, <2>1, <2>3, <2>4, <2>5 DEF RowsOf
<1> QED  BY <1>1, <1>3, <1>4 DEF IsUpdate

LEMMA RoutingSuppress ==
  ASSUME RoutingInv, NEW r \in Recipients, NEW c \in Channels, Suppress(r, c)
  PROVE  RoutingInv'
<1> USE DEF RoutingInv
<1>1. /\ row' = [row EXCEPT ![r] = [d \in Channels |-> Promote(r, c, d)]]
      /\ row[r][c] = "PENDING" /\ c = "WHATSAPP"
      /\ UNCHANGED <<event, off, phones, plans, rethought>>
  BY DEF Suppress, Due, MaySend, settingVars
<1>2. \A d \in Channels : row[r][d] \in RowStates /\ Promote(r, c, d) \in RowStates
  <2>1. \A d \in Channels : row[r][d] \in RowStates
    BY DEF RoutingTyped
  <2> QED  BY <2>1 DEF Promote, RowStates
<1>3. /\ row' \in [Recipients -> [Channels -> RowStates]]
      /\ \A q \in Recipients, d \in Channels :
           row'[q][d] = IF q = r THEN Promote(r, c, d) ELSE row[q][d]
  BY <1>1, <1>2 DEF RoutingTyped
<1>4. RoutingTyped'
  BY <1>1, <1>3 DEF RoutingTyped
<1>5. ASSUME IsUpdate, NEW q \in Recipients PROVE RowsOf(q)'
  <2>1. RowsOf(q) /\ Usable(q, "WHATSAPP")' = Usable(q, "WHATSAPP")
    BY <1>1, <1>5 DEF Usable
  <2>2. CASE q # r
    <3>1. \A d \in Channels : row'[q][d] = row[q][d]
      BY <1>3, <2>2
    <3> QED  BY <1>1, <2>1, <3>1 DEF RowsOf, Untouched, WhatsAppFirst, Channels
  <2>3. CASE q = r
    <3>1. plans # 0
      BY <1>1, <2>1, <2>3 DEF RowsOf, Untouched
    <3>2. /\ row'[r]["WHATSAPP"] = "SUPPRESSED" /\ row'[r]["DASHBOARD"] = row[r]["DASHBOARD"]
          /\ event = "CONFIRMED" => row'[r]["SMS"] =
               IF row[r]["SMS"] = "NONE" THEN "PENDING" ELSE row[r]["SMS"]
          /\ event = "READY" => row'[r]["SMS"] = row[r]["SMS"]
      BY <1>1, <1>3, <1>5, UpdateFacts DEF Promote, Channels, IsUpdate
    <3>3. WhatsAppFirst(r) => WhatsAppFirst(r)'
      BY <1>1, <2>1, <2>3, <3>2 DEF WhatsAppFirst
    <3> QED  BY <1>1, <1>5, <2>1, <2>3, <3>1, <3>2, <3>3 DEF RowsOf, IsUpdate
  <2> QED  BY <2>2, <2>3
<1> QED  BY <1>1, <1>4, <1>5 DEF IsUpdate

LEMMA RoutingSettings ==
  ASSUME RoutingInv, UNCHANGED <<event, phones, row, plans>>,
         \/ UNCHANGED <<off, rethought>>
         \/ UpdatePreferences
  PROVE  RoutingInv'
<1> USE DEF RoutingInv
<1>1. RoutingTyped'
  BY DEF RoutingTyped
<1>2. ASSUME IsUpdate, NEW r \in Recipients PROVE RowsOf(r)'
  <2>1. CASE UNCHANGED <<off, rethought>>
    <3>1. Usable(r, "WHATSAPP")' = Usable(r, "WHATSAPP")
      BY <2>1 DEF Usable
    <3> QED  BY <1>2, <2>1, <3>1 DEF RowsOf, Untouched, WhatsAppFirst
  <2>2. CASE UpdatePreferences
    <3>1. PICK type \in {"CUSTOMER", "STAFF"}, d \in Listed :
            /\ off' = IF <<type, d>> \in off THEN off \ {<<type, d>>} ELSE off \union {<<type, d>>}
            /\ rethought' = IF plans > 0 THEN rethought \union {type} ELSE rethought
      BY <2>2 DEF UpdatePreferences
    <3>2. CASE plans > 0 /\ RecipientType(r) \notin rethought'
      <4>1. RecipientType(r) # type /\ RecipientType(r) \notin rethought
        BY <3>1, <3>2
      <4>2. <<RecipientType(r), "WHATSAPP">> \in off' <=> <<RecipientType(r), "WHATSAPP">> \in off
        BY <3>1, <4>1
      <4>3. Usable(r, "WHATSAPP")' = Usable(r, "WHATSAPP")
        BY <4>2 DEF Usable
      <4> QED  BY <1>2, <3>2, <4>1, <4>3 DEF RowsOf, Untouched, WhatsAppFirst
    <3>3. CASE ~(plans > 0 /\ RecipientType(r) \notin rethought')
      BY <1>2, <3>3 DEF RowsOf, Untouched
    <3> QED  BY <3>2, <3>3
  <2> QED  BY <2>1, <2>2
<1> QED  BY <1>1, <1>2 DEF IsUpdate

LEMMA RoutingStep ==
  ASSUME RoutingInv, [RoutingNext]_routingVars
  PROVE  RoutingInv'
<1>1. ASSUME NEW r \in Recipients, NEW c \in Channels, Deliver(r, c) PROVE RoutingInv'
  BY <1>1, RoutingSettle, RoutingSuppress DEF Deliver, Delivered, Undelivered
<1>2. CASE \/ UNCHANGED routingVars \/ Advance \/ UpdatePreferences \/ ConnectNumber
           \/ DisconnectNumber \/ CreateTemplate \/ UpdateTemplate \/ OpenOrCloseWindow
           \/ JoinOrLeave \/ Answer
  <2>1. /\ UNCHANGED <<event, phones, row, plans>>
        /\ UNCHANGED <<off, rethought>> \/ UpdatePreferences
    BY <1>2 DEF routingVars, settingVars, Advance, UpdatePreferences, ConnectNumber,
      DisconnectNumber, CreateTemplate, UpdateTemplate, SetTemplate, OpenOrCloseWindow,
      JoinOrLeave, Answer, EditSettings
  <2> QED  BY <2>1, RoutingSettings
<1> QED  BY <1>1, <1>2, RoutingPlan DEF RoutingNext

LEMMA OneNotice == RoutingInv => OneNoticeEach
<1> SUFFICES ASSUME RoutingInv PROVE OneNoticeEach
  OBVIOUS
<1>1. IsUpdate => \A r \in Recipients : RowsOf(r)
  BY DEF RoutingInv
<1>2. notice.mode = "first-available" => IsUpdate
  BY DEF notice, NoticeSpec, Alarm, OrderNotifications, IsUpdate
<1>3. HeardOnce
  <2> SUFFICES ASSUME notice.mode = "first-available"
               PROVE  \A r \in Recipients : RecipientType(r) \notin rethought =>
                                             Cardinality(Stands(r)) <= 1
    BY DEF HeardOnce
  <2> TAKE r \in Recipients
  <2> HAVE RecipientType(r) \notin rethought
  <2>1. RowsOf(r)
    BY <1>1, <1>2
  <2>2. row[r]["SMS"] = "NONE" \/ row[r]["WHATSAPP"] \in {"NONE", "SUPPRESSED"}
    BY <2>1 DEF RowsOf, WhatsAppFirst, Untouched, Channels, RoutingInv, RoutingTyped
  <2>3. \E c : Stands(r) \subseteq {c}
    BY <2>1, <2>2 DEF Stands, Channels, RowsOf
  <2>4. PICK c : Stands(r) \subseteq {c}
    BY <2>3
  <2>5. IsFiniteSet({c}) /\ Cardinality({c}) = 1
    BY FS_Singleton
  <2> QED  BY <2>4, <2>5, FS_Subset
<1>4. NotLeftSilent
  <2> SUFFICES ASSUME event = "CONFIRMED", NEW r \in Recipients,
                      NEW c \in Channels, row[r][c] # "NONE"
               PROVE  Stands(r) # {}
    BY DEF NotLeftSilent
  <2>1. RowsOf(r) /\ row[r] \in [Channels -> RowStates]
    BY <1>1 DEF IsUpdate, RoutingInv, RoutingTyped
  <2>2. \A d \in Channels : row[r][d] \in RowStates
    BY <2>1
  <2>3. row[r]["SMS"] \in RowStates /\ row[r]["WHATSAPP"] \in RowStates
    BY <2>2 DEF Channels
  <2>4. CASE row[r]["SMS"] # "NONE"
    BY <2>1, <2>3, <2>4 DEF Stands, RowsOf, RowStates, Channels
  <2>5. CASE row[r]["SMS"] = "NONE"
    <3>1. c = "WHATSAPP"
      BY <2>1, <2>5 DEF RowsOf, Channels
    <3>2. row[r]["WHATSAPP"] \in {"PENDING", "SENT", "FAILED"}
      BY <2>1, <2>3, <2>5, <3>1 DEF RowsOf, RowStates
    <3> QED  BY <3>2 DEF Stands, Channels
  <2> QED  BY <2>4, <2>5
<1> QED  BY <1>3, <1>4 DEF OneNoticeEach

LEMMA ListedAreChannels == event \in Events => Listed \subseteq Channels
<1> SUFFICES ASSUME event \in Events PROVE Listed \subseteq Channels
  OBVIOUS
<1>1. \/ notice.channels = <<"WHATSAPP", "SMS">>
      \/ notice.channels = <<"WHATSAPP">>
      \/ notice.channels = <<"DASHBOARD", "WHATSAPP", "SMS">>
  BY DEF Events, notice, NoticeSpec, OrderNotifications, Update, Alarm
<1>2. CASE notice.channels = <<"WHATSAPP", "SMS">>
  BY <1>2 DEF Listed, Channels
<1>3. CASE notice.channels = <<"WHATSAPP">>
  BY <1>3 DEF Listed, Channels
<1>4. CASE notice.channels = <<"DASHBOARD", "WHATSAPP", "SMS">>
  <2>1. \A i \in DOMAIN notice.channels : i = 1 \/ i = 2 \/ i = 3
    BY <1>4
  <2>2. notice.channels[1] \in Channels /\ notice.channels[2] \in Channels /\ notice.channels[3] \in Channels
    BY <1>4 DEF Channels
  <2> QED  BY <2>1, <2>2 DEF Listed
<1> QED  BY <1>1, <1>2, <1>3, <1>4

LEMMA RoutingTypes ==
  ASSUME RoutingTypeOK, RoutingInv, [RoutingNext]_routingVars
  PROVE  RoutingTypeOK'
<1> USE RoutingBoundsAssumption DEF RoutingTypeOK
<1>1. row' \in [Recipients -> [Channels -> {"NONE", "PENDING", "SENT", "FAILED", "SUPPRESSED"}]]
  BY RoutingStep DEF RoutingInv, RoutingTyped, RowStates
<1>2. CASE UNCHANGED routingVars
  BY <1>2 DEF routingVars, settingVars
<1>3. CASE Plan
  BY <1>1, <1>3 DEF Plan, settingVars
<1>4. CASE Advance
  BY <1>4 DEF Advance, settingVars
<1>5. ASSUME NEW r \in Recipients, NEW c \in Channels, Deliver(r, c) PROVE RoutingTypeOK'
  BY <1>1, <1>5 DEF Deliver, Delivered, Undelivered, Suppress, Settle, settingVars
<1>6. CASE UpdatePreferences
  BY <1>6, ListedAreChannels DEF UpdatePreferences, EditSettings
<1>7. CASE ConnectNumber \/ DisconnectNumber \/ OpenOrCloseWindow \/ JoinOrLeave \/ Answer
  <2>1. settings' \in 0 .. MaxSettings /\ UNCHANGED <<event, phones, language, row, plans, passed>>
    BY <1>7 DEF ConnectNumber, DisconnectNumber, OpenOrCloseWindow, JoinOrLeave, Answer, EditSettings
  <2>2. UNCHANGED <<off, template, rethought>>
    BY <1>7 DEF ConnectNumber, DisconnectNumber, OpenOrCloseWindow, JoinOrLeave, Answer
  <2>3. numbers' \subseteq {"branch", "tenant"}
    BY <1>7 DEF ConnectNumber, DisconnectNumber, OpenOrCloseWindow, JoinOrLeave, Answer
  <2>4. window' \subseteq Recipients
    BY <1>7 DEF ConnectNumber, DisconnectNumber, OpenOrCloseWindow, JoinOrLeave, Answer
  <2>5. team' \subseteq Members
    BY <1>7 DEF ConnectNumber, DisconnectNumber, OpenOrCloseWindow, JoinOrLeave, Answer
  <2>6. answered' \in BOOLEAN
    BY <1>7 DEF ConnectNumber, DisconnectNumber, OpenOrCloseWindow, JoinOrLeave, Answer
  <2> QED  BY <2>1, <2>2, <2>3, <2>4, <2>5, <2>6
<1>8. ASSUME NEW n \in {"branch", "tenant"}, NEW l \in {"EN", "UR"},
             NEW status \in {"NONE", "DRAFT", "APPROVED", "REJECTED"}, SetTemplate(n, l, status)
      PROVE  RoutingTypeOK'
  <2>1. template' \in [{"branch", "tenant"} ->
                         [{"EN", "UR"} -> {"NONE", "DRAFT", "APPROVED", "REJECTED"}]]
    BY <1>8 DEF SetTemplate
  <2> QED  BY <1>8, <2>1 DEF SetTemplate, EditSettings
<1>9. CASE CreateTemplate \/ UpdateTemplate
  <2>1. numbers \subseteq {"branch", "tenant"} /\ DOMAIN template = {"branch", "tenant"}
    OBVIOUS
  <2> QED  BY <1>8, <1>9, <2>1 DEF CreateTemplate, UpdateTemplate
<1> QED  BY <1>2, <1>3, <1>4, <1>5, <1>6, <1>7, <1>9 DEF RoutingNext

LEMMA RoutingTypesInit == RoutingInit => RoutingTypeOK
<1> SUFFICES ASSUME RoutingInit PROVE RoutingTypeOK
  OBVIOUS
<1>1. row \in [Recipients -> [Channels -> {"NONE", "PENDING", "SENT", "FAILED", "SUPPRESSED"}]]
  BY DEF RoutingInit
<1>2. template \in [{"branch", "tenant"} ->
                      [{"EN", "UR"} -> {"NONE", "DRAFT", "APPROVED", "REJECTED"}]]
  BY DEF RoutingInit
<1>3. plans \in 0 .. MaxPlans /\ settings \in 0 .. MaxSettings
  BY RoutingBoundsAssumption DEF RoutingInit
<1>4. numbers \subseteq {"branch", "tenant"} /\ phones \subseteq Members
  BY DEF RoutingInit
<1> QED  BY <1>1, <1>2, <1>3, <1>4 DEF RoutingInit, RoutingTypeOK

----------------------------------------------------------------------------
(* What an order says. *)

OrderSaysWhatWasShown == order # NoOrder => moved \/ order = preview

\* Until then, the last answer is what the cart comes to.
PreviewIsFresh == order = NoOrder => moved \/ preview = Present

PricingInv == OrderSaysWhatWasShown /\ PreviewIsFresh

\* An address matters to the price of a delivery only.
LEMMA PickupHasNoPlace ==
  ASSUME cart.orderType # "DELIVERY", NEW p, NEW q
  PROVE  PriceCart(p) = PriceCart(q)
<1>1. ZoneFor(p) = {} /\ ZoneFor(q) = {}
  BY DEF ZoneFor
<1> QED  BY <1>1 DEF PriceCart

LEMMA PricingInitially == PricingInit => PricingInv
  BY DEF PricingInit, PricingInv, OrderSaysWhatWasShown, PreviewIsFresh

LEMMA PricingStep ==
  ASSUME PricingInv, [PricingNext]_pricingVars
  PROVE  PricingInv'
<1> USE DEF PricingInv, OrderSaysWhatWasShown, PreviewIsFresh
<1>1. ASSUME UNCHANGED <<menu, tenantSettings, zones, home, cart>> PROVE Present' = Present
  <2>1. \A d : /\ LineRefused(d)' <=> LineRefused(d)
               /\ LineTotal(d)' = LineTotal(d)
    BY <1>1 DEF LineRefused, LineTotal, UnitPrice, ModifiersTotal
  <2>2. \A k, e : Resolved(k, e)' = Resolved(k, e)
    BY <1>1 DEF Resolved
  <2>3. \A z : Minimum(z)' = Minimum(z)
    BY <2>2 DEF Minimum
  <2>4. \A z, n : DeliveryFee(z, n)' = DeliveryFee(z, n)
    BY <1>1, <2>2 DEF DeliveryFee
  <2>5. \A n, f : Totals(n, f)' = Totals(n, f)
    BY <2>2 DEF Totals
  <2>6. \A p : ZoneFor(p)' = ZoneFor(p)
    BY <1>1 DEF ZoneFor
  <2>7. \A p : PriceCart(p)' = PriceCart(p)
    BY <1>1, <2>1, <2>3, <2>4, <2>5, <2>6 DEF PriceCart
  <2> QED  BY <1>1, <2>7 DEF Present
<1>2. CASE UNCHANGED pricingVars
  BY <1>1, <1>2 DEF pricingVars
<1>3. CASE Preview
  BY <1>1, <1>3 DEF Preview
<1>4. ASSUME NEW new, EditCart(new) PROVE PricingInv'
  BY <1>4 DEF EditCart
<1>5. ASSUME NEW m, NEW s, NEW h, ChangePrices(m, s, h) PROVE PricingInv'
  BY <1>5 DEF ChangePrices
<1>6. CASE Checkout
  <2>1. PICK point \in Destinations :
          /\ order' = PriceCart(point)
          /\ moved' = (moved \/ (cart.orderType = "DELIVERY" /\ point # home))
    BY <1>6 DEF Checkout
  <2>2. order = NoOrder /\ UNCHANGED <<menu, tenantSettings, zones, home, cart, preview>>
    BY <1>6 DEF Checkout
  <2>3. moved' \/ PriceCart(point) = Present
    <3>1. cart.orderType = "DELIVERY" /\ point = home => PriceCart(point) = Present
      BY DEF Present
    <3>2. cart.orderType # "DELIVERY" => PriceCart(point) = Present
      BY PickupHasNoPlace DEF Present
    <3> QED  BY <2>1, <3>1, <3>2
  <2>4. moved' \/ preview = Present
    BY <2>1, <2>2
  <2>5. Present' = Present
    BY <1>1, <2>2
  <2> QED  BY <2>1, <2>2, <2>3, <2>4, <2>5
<1>7. CASE UpdateCart \/ \E d \in Dishes : AddLine(d) \/ UpdateLine(d)
  BY <1>4, <1>7 DEF UpdateCart, AddLine, UpdateLine
<1>8. CASE ChangeMenu \/ UpdateOrganization \/ ChangeHome
  BY <1>5, <1>8 DEF ChangeMenu, UpdateOrganization, ChangeHome, ChangeDish, SetBasePrice,
    SetBranchPrice, SwitchDish, WriteVariant, RemoveVariant, UpdateOption, SwitchGroup
<1> QED  BY <1>2, <1>3, <1>6, <1>7, <1>8 DEF PricingNext

\* Types of the cart and the menu, and that every line of the cart is priced or refused.
LineState == [quantity : 0 .. 2, large : BOOLEAN, extra : BOOLEAN]
PriceOrNone == {{}} \union {{p} : p \in Prices}
DishState == [base : Prices, override : PriceOrNone, large : PriceOrNone, option : BOOLEAN,
              grouped : BOOLEAN, delta : Deltas, on : BOOLEAN]
CartOf == [orderType : {"PICKUP", "DELIVERY"}, line : [Dishes -> LineState]]

PricingTyped == PricingTypeOK /\ cart \in CartOf /\ menu \in [Dishes -> DishState]

Answers(p, c) ==
  DOMAIN p.lines \union p.refused = {d \in Dishes : c.line[d].quantity > 0}

LEMMA PricingTypesInit == PricingInit => PricingTyped
<1> SUFFICES ASSUME PricingInit PROVE PricingTyped
  OBVIOUS
<1>1. cart \in CartOf /\ \A d \in Dishes : cart.line[d].quantity = 0
  <2>1. NoLine \in LineState /\ NoLine.quantity = 0
    BY DEF NoLine, LineState
  <2>2. cart.line = [d \in Dishes |-> NoLine] /\ cart = [orderType |-> cart.orderType, line |-> cart.line]
        /\ cart.orderType \in {"PICKUP", "DELIVERY"}
    BY DEF PricingInit
  <2> QED  BY <2>1, <2>2 DEF CartOf
<1>2. menu \in [Dishes -> DishState]
  BY MenusAssumption DEF PricingInit, DishState, PriceOrNone
<1>3. Answers(preview, cart)
  BY DEF PricingInit, Present, PriceCart, Answers
<1>4. 0 \in 0 .. MaxPriceChanges /\ 0 \in 0 .. MaxCartEdits
  BY PricingBoundsAssumption
<1>5. \A d \in Dishes : menu[d].base \in Prices
  BY <1>2 DEF DishState
<1>6. \A d \in Dishes : cart.line[d].quantity \in 0 .. 2
  BY <1>1
<1>7. cart.orderType \in {"PICKUP", "DELIVERY"} /\ moved \in BOOLEAN
      /\ home \in Points /\ priceChanges = 0 /\ cartEdits = 0
  BY DEF PricingInit
<1>8. PricingTypeOK
  BY <1>3, <1>4, <1>5, <1>6, <1>7 DEF PricingTypeOK, Answers
<1> QED  BY <1>1, <1>2, <1>8 DEF PricingTyped

LEMMA PricingTypesStep ==
  ASSUME PricingTyped, [PricingNext]_pricingVars
  PROVE  PricingTyped'
<1>0. /\ cart \in CartOf /\ menu \in [Dishes -> DishState] /\ home \in Points
      /\ moved \in BOOLEAN /\ Answers(preview, cart)
      /\ priceChanges \in 0 .. MaxPriceChanges /\ cartEdits \in 0 .. MaxCartEdits
  BY DEF PricingTyped, PricingTypeOK, Answers
<1>1. ASSUME cart' \in CartOf, menu' \in [Dishes -> DishState], home' \in Points,
             moved' \in BOOLEAN, Answers(preview, cart)',
             priceChanges' \in 0 .. MaxPriceChanges, cartEdits' \in 0 .. MaxCartEdits
      PROVE  PricingTyped'
  <2>1. /\ cart'.orderType \in {"PICKUP", "DELIVERY"}
        /\ \A d \in Dishes : cart'.line[d].quantity \in 0 .. 2
    BY <1>1 DEF CartOf, LineState
  <2>2. \A d \in Dishes : menu'[d].base \in Prices
    BY <1>1 DEF DishState
  <2> QED  BY <1>1, <2>1, <2>2 DEF PricingTyped, PricingTypeOK, Answers
<1>2. CASE UNCHANGED pricingVars \/ Checkout
  BY <1>0, <1>1, <1>2 DEF pricingVars, Checkout, Answers
<1>3. CASE Preview
  <2>1. Answers(preview, cart)'
    BY <1>3 DEF Preview, Present, PriceCart, Answers
  <2> QED  BY <1>0, <1>1, <1>3, <2>1 DEF Preview
<1>4. ASSUME NEW new \in CartOf, EditCart(new) PROVE PricingTyped'
  <2>1. Answers(preview, cart)'
    BY <1>4 DEF EditCart, Present, PriceCart, Answers
  <2>2. cartEdits' \in 0 .. MaxCartEdits
    BY <1>0, <1>4, PricingBoundsAssumption DEF EditCart
  <2> QED  BY <1>0, <1>1, <1>4, <2>1, <2>2 DEF EditCart
<1>5. CASE UpdateCart
  <2>1. PICK t \in {"PICKUP", "DELIVERY"} : EditCart([cart EXCEPT !.orderType = t])
    BY <1>5 DEF UpdateCart
  <2>2. [cart EXCEPT !.orderType = t] \in CartOf
    BY <1>0 DEF CartOf
  <2> QED  BY <1>4, <2>1, <2>2
<1>6. ASSUME NEW d \in Dishes, AddLine(d) \/ UpdateLine(d) PROVE PricingTyped'
  <2>1. ASSUME NEW l \in LineState PROVE [cart EXCEPT !.line[d] = l] \in CartOf
    BY <1>0, <1>6, <2>1 DEF CartOf
  <2>2. CASE AddLine(d)
    <3>1. PICK q \in 1 .. 2, large \in BOOLEAN, extra \in BOOLEAN :
            EditCart([cart EXCEPT !.line[d] = [quantity |-> q, large |-> large, extra |-> extra]])
      BY <2>2 DEF AddLine
    <3>2. [quantity |-> q, large |-> large, extra |-> extra] \in LineState
      BY DEF LineState
    <3> QED  BY <1>4, <2>1, <3>1, <3>2
  <2>3. CASE EditCart([cart EXCEPT !.line[d] = NoLine])
    <3>1. NoLine \in LineState
      BY DEF NoLine, LineState
    <3> QED  BY <1>4, <2>1, <2>3, <3>1
  <2>4. ASSUME NEW q \in 1 .. 2, EditCart([cart EXCEPT !.line[d].quantity = q]) PROVE PricingTyped'
    <3>1. [cart EXCEPT !.line[d].quantity = q] \in CartOf
      BY <1>0, <1>6, <2>4 DEF CartOf, LineState
    <3> QED  BY <1>4, <2>4, <3>1
  <2> QED  BY <1>6, <2>2, <2>3, <2>4 DEF UpdateLine
<1>7. ASSUME NEW m \in [Dishes -> DishState], NEW s, NEW h \in Points, ChangePrices(m, s, h)
      PROVE  PricingTyped'
  <2>1. priceChanges' \in 0 .. MaxPriceChanges
    BY <1>0, <1>7, PricingBoundsAssumption DEF ChangePrices
  <2> QED  BY <1>0, <1>1, <1>7, <2>1 DEF ChangePrices, Answers
<1>8. CASE UpdateOrganization \/ ChangeHome
  BY <1>0, <1>7, <1>8 DEF UpdateOrganization, ChangeHome
<1>9. ASSUME NEW d \in Dishes, NEW new \in DishState, ChangeDish(d, new) PROVE PricingTyped'
  <2>1. [menu EXCEPT ![d] = new] \in [Dishes -> DishState]
    BY <1>0, <1>9
  <2> QED  BY <1>0, <1>7, <1>9, <2>1 DEF ChangeDish
<1>10. ASSUME NEW d \in Dishes,
              \/ SetBasePrice(d) \/ SetBranchPrice(d) \/ SwitchDish(d)
              \/ WriteVariant(d) \/ RemoveVariant(d) \/ UpdateOption(d) \/ SwitchGroup(d)
       PROVE  PricingTyped'
  <2>1. menu[d] \in DishState
    BY <1>0
  <2>2. \A p \in Prices : {p} \in PriceOrNone
    BY DEF PriceOrNone
  <2>3. ASSUME NEW p \in Prices
        PROVE  /\ [menu[d] EXCEPT !.base = p] \in DishState
               /\ [menu[d] EXCEPT !.large = {p}] \in DishState
    BY <2>1, <2>2 DEF DishState
  <2>4. ASSUME NEW p \in PriceOrNone PROVE [menu[d] EXCEPT !.override = p] \in DishState
    BY <2>1 DEF DishState
  <2>5. [menu[d] EXCEPT !.large = {}] \in DishState
    BY <2>1 DEF DishState, PriceOrNone
  <2>6. \A n \in Deltas : [menu[d] EXCEPT !.delta = n] \in DishState
    BY <2>1 DEF DishState
  <2>7. /\ [menu[d] EXCEPT !.on = ~@] \in DishState
        /\ [menu[d] EXCEPT !.option = ~@] \in DishState
        /\ [menu[d] EXCEPT !.grouped = ~@] \in DishState
    BY <2>1 DEF DishState
  <2>8. CASE SetBasePrice(d) \/ WriteVariant(d)
    BY <1>9, <2>3, <2>8 DEF SetBasePrice, WriteVariant
  <2>9. CASE SetBranchPrice(d)
    BY <1>9, <2>4, <2>9 DEF SetBranchPrice, PriceOrNone
  <2>10. CASE RemoveVariant(d) \/ SwitchDish(d) \/ UpdateOption(d) \/ SwitchGroup(d)
    BY <1>9, <2>5, <2>6, <2>7, <2>10 DEF RemoveVariant, SwitchDish, UpdateOption, SwitchGroup
  <2> QED  BY <1>10, <2>8, <2>9, <2>10
<1> QED  BY <1>2, <1>3, <1>5, <1>6, <1>8, <1>10 DEF PricingNext, ChangeMenu

----------------------------------------------------------------------------
(* What the lines of a cart come to, and the bill that is made of it. *)

LEMMA SumFunctionIsSum == \A f : SumFunction(f) = SumOf(f)
  BY DEF SumFunction, SumFunctionOnSet, FoldFunctionOnSet, MapThenFoldSet, SumOf, SumOver,
    Adds, Pick

LEMMA SumIsANumber ==
  ASSUME NEW f, IsFiniteSet(DOMAIN f), \A d \in DOMAIN f : f[d] \in Int
  PROVE  SumFunction(f) \in Int
<1>1. 0 \in Int /\ \A a, b \in Int : a + b \in Int
  OBVIOUS
<1>2. \A s \in SUBSET DOMAIN f : SumOver(f, s) \in Int
  BY <1>1, SumIsIn, Zenon
<1> QED  BY <1>2, SumFunctionIsSum DEF SumOf

\* Whatever the lines come to, no part of the bill that is added is negative, and
\* the bill is never less than its delivery fee.
THEOREM NobodyIsOwed ==
  ASSUME NEW subtotal \in Int, NEW fee \in Nat,
         Resolved("service", 0) \in Nat, Resolved("tax", 0) \in Nat
  PROVE  /\ Totals(subtotal, fee).total >= Totals(subtotal, fee).fee
         /\ \A what \in {"service", "tax", "fee"} : Totals(subtotal, fee)[what] >= 0
<1> DEFINE discount == DiscountAmount(0, subtotal)
           discounted == subtotal - discount
           service == Percentage(discounted, Resolved("service", 0))
           taxed == discounted + service + (IF Resolved("taxOnFee", 0) = 1 THEN fee ELSE 0)
           tax == Percentage(taxed, Resolved("tax", 0))
<1>1. ASSUME NEW amount \in Nat, NEW percent \in Nat PROVE Percentage(amount, percent) \in Nat
  <2>1. amount * percent \in Nat
    OBVIOUS
  <2> DEFINE x == amount * percent
  <2> HIDE DEF x
  <2>2. (x + 50) \div 100 \in Nat
    BY <2>1 DEF x
  <2> QED  BY <2>2 DEF Percentage, x
<1>2. discounted \in Nat
  BY DEF DiscountAmount
<1> HIDE DEF discounted, discount
<1>3. service \in Nat
  BY <1>1, <1>2
<1> HIDE DEF service
<1>4. taxed \in Nat
  BY <1>2, <1>3
<1> HIDE DEF taxed
<1>5. tax \in Nat
  BY <1>1, <1>4
<1>6. Totals(subtotal, fee) =
        [subtotal |-> subtotal, discount |-> discount, service |-> service, fee |-> fee,
         tax |-> tax, total |-> discounted + service + tax + fee]
  BY DEF Totals, discount, discounted, service, taxed
<1> HIDE DEF tax
<1> QED  BY <1>2, <1>3, <1>5, <1>6

\* What is read of the settings is what one of them holds, or the default.
LEMMA ResolvedIsANumber ==
  ASSUME tenantSettings \in [organization : OrganizationSettings, branch : BranchSettings],
         NEW key, NEW default \in Int
  PROVE  /\ Resolved(key, default) \in Int
         /\ default \in Nat => Resolved(key, default) \in Nat
<1>1. /\ tenantSettings.organization \in OrganizationSettings \union BranchSettings
      /\ tenantSettings.branch \in OrganizationSettings \union BranchSettings
  OBVIOUS
<1>2. PICK field : field = IF key \in DOMAIN tenantSettings.branch THEN tenantSettings.branch[key]
                           ELSE IF key \in DOMAIN tenantSettings.organization
                           THEN tenantSettings.organization[key]
                           ELSE {}
  OBVIOUS
<1>3. field \subseteq Nat
  BY <1>1, <1>2, SettingsAssumption
<1>4. Resolved(key, default) = IF field = {} THEN default ELSE CHOOSE n \in field : TRUE
  BY <1>2 DEF Resolved
<1>5. field # {} => (CHOOSE n \in field : TRUE) \in Nat
  BY <1>3
<1> QED  BY <1>4, <1>5

LEMMA LinesAreNumbers ==
  ASSUME PricingTyped, NEW d \in Dishes
  PROVE  LineTotal(d) \in Int
<1>1. /\ menu[d].base \in Nat /\ menu[d].delta \in Int
      /\ menu[d].override \in PriceOrNone /\ menu[d].large \in PriceOrNone
      /\ cart.line[d].quantity \in 0 .. 2
  BY PricesAssumption DEF PricingTyped, DishState, CartOf, LineState
<1>2. \A dear \in PriceOrNone : dear # {} => (CHOOSE n \in dear : TRUE) \in Nat
  BY PricesAssumption DEF PriceOrNone
<1>3. PICK dear \in PriceOrNone :
        UnitPrice(d) = Larger(0, IF dear = {} THEN menu[d].base ELSE CHOOSE n \in dear : TRUE)
  BY <1>1 DEF UnitPrice
<1>4. UnitPrice(d) \in Int
  BY <1>1, <1>2, <1>3 DEF Larger
<1>5. ModifiersTotal(d) \in Int
  BY <1>1 DEF ModifiersTotal
<1>6. \A n \in Int, q \in 0 .. 2 : n * q \in Int
  OBVIOUS
<1>7. UnitPrice(d) + ModifiersTotal(d) \in Int
  BY <1>4, <1>5
<1> QED  BY <1>1, <1>6, <1>7 DEF LineTotal

LEMMA FeesAreNatural ==
  ASSUME tenantSettings \in [organization : OrganizationSettings, branch : BranchSettings],
         zones \in ZoneLists,
         NEW point, NEW discounted
  PROVE  DeliveryFee(ZoneFor(point), discounted) \in Nat
<1>1. Resolved("fee", 0) \in Nat
  BY ResolvedIsANumber
<1>2. \A z \in ZoneFor(point) : z.fee \in Nat
  BY ZonesAssumption DEF ZoneFor
<1>3. ZoneFor(point) # {} => (CHOOSE z \in ZoneFor(point) : TRUE).fee \in Nat
  BY <1>2
<1> QED  BY <1>1, <1>3 DEF DeliveryFee

\* What an answer's amounts may be.
BillIsSound(bill) ==
  /\ bill.total >= bill.fee
  /\ \A sum \in {"service", "tax", "fee"} : bill[sum] >= 0

LEMMA AnswersAreSound ==
  ASSUME PricingTyped,
         tenantSettings \in [organization : OrganizationSettings, branch : BranchSettings],
         zones \in ZoneLists,
         NEW point
  PROVE  BillIsSound(PriceCart(point).totals)
<1>1. PICK kept \in SUBSET Dishes :
        kept = {d \in {e \in Dishes : cart.line[e].quantity > 0} : ~LineRefused(d)}
  OBVIOUS
<1>2. PICK f : f = [d \in kept |-> LineTotal(d)]
  OBVIOUS
<1>3. IsFiniteSet(DOMAIN f) /\ \A d \in DOMAIN f : f[d] \in Int
  BY <1>1, <1>2, LinesAreNumbers, DishesAssumption, FS_Subset
<1>4. SumFunction(f) \in Int
  BY <1>3, SumIsANumber
<1>5. PICK fee \in Nat : fee = DeliveryFee(ZoneFor(point), Larger(0, SumFunction(f)))
  BY FeesAreNatural
<1>6. PriceCart(point).totals = Totals(SumFunction(f), fee)
  BY <1>1, <1>2, <1>5 DEF PriceCart
<1>7. Resolved("service", 0) \in Nat /\ Resolved("tax", 0) \in Nat
  BY ResolvedIsANumber
<1> QED  BY <1>4, <1>6, <1>7, NobodyIsOwed DEF BillIsSound

\* The settings and zones are of those there are, and a placed order's bill is sound.
BillInv ==
  /\ tenantSettings \in [organization : OrganizationSettings, branch : BranchSettings]
  /\ zones \in ZoneLists
  /\ order # NoOrder => BillIsSound(order.totals)

LEMMA BillInitially == PricingInit => BillInv
  BY DEF PricingInit, BillInv

LEMMA BillStep ==
  ASSUME PricingTyped, BillInv, [PricingNext]_pricingVars
  PROVE  BillInv'
<1>1. ASSUME UNCHANGED <<tenantSettings, zones, order>> PROVE BillInv'
  BY <1>1 DEF BillInv, BillIsSound
<1>2. CASE UNCHANGED pricingVars \/ Preview
  BY <1>1, <1>2 DEF pricingVars, Preview
<1>3. CASE UpdateCart \/ \E d \in Dishes : AddLine(d) \/ UpdateLine(d)
  BY <1>1, <1>3 DEF UpdateCart, AddLine, UpdateLine, EditCart
<1>4. CASE ChangeMenu \/ ChangeHome
  BY <1>1, <1>4 DEF ChangeMenu, ChangeHome, ChangePrices, ChangeDish, SetBasePrice,
    SetBranchPrice, SwitchDish, WriteVariant, RemoveVariant, UpdateOption, SwitchGroup
<1>5. CASE UpdateOrganization
  BY <1>5 DEF UpdateOrganization, ChangePrices, BillInv, BillIsSound
<1>6. CASE Checkout
  <2>1. PICK point : order' = PriceCart(point)
    BY <1>6 DEF Checkout
  <2>2. BillIsSound(order'.totals)
    BY <2>1, AnswersAreSound DEF BillInv
  <2> QED  BY <1>6, <2>2 DEF Checkout, BillInv, BillIsSound
<1> QED  BY <1>2, <1>3, <1>4, <1>5, <1>6 DEF PricingNext

----------------------------------------------------------------------------
(* What a message comes to. *)

LEMMA QuantityIsAReply == {"qty", "qty:0"} \subseteq ReplyIds
  BY DEF ReplyIds

LEMMA ResolvedReply ==
  ASSUME NEW in \in Inputs, NEW state, NEW screen
  PROVE  ResolveIntent(in, state, screen).reply \in Replies
<1>1. CASE in.kind = "tap"
  <2>1. ResolveIntent(in, state, screen).reply = in.what
    BY <1>1 DEF ResolveIntent, Means
  <2> QED  BY <1>1, <2>1 DEF Inputs, Replies
<1>2. CASE in.kind # "tap" /\ state = "ASKING_ADDRESS"
  <2>1. ResolveIntent(in, state, screen).reply \in {"", "long", "short"}
    BY <1>2 DEF ResolveIntent, Means
  <2> QED  BY <2>1 DEF Replies
<1>3. CASE in.kind = "number" /\ state # "ASKING_ADDRESS"
  <2>1. ResolveIntent(in, state, screen) = TypedNumber(in.what, state, screen)
    BY <1>3 DEF ResolveIntent
  <2>2. TypedNumber(in.what, state, screen).reply \in Replies
    BY QuantityIsAReply DEF TypedNumber, Means, Replies
  <2> QED  BY <2>1, <2>2
<1>4. CASE in.kind \in {"keyword", "yes", "prose"} /\ state # "ASKING_ADDRESS"
  <2>1. ResolveIntent(in, state, screen).reply = ""
    BY <1>4 DEF ResolveIntent, Means
  <2> QED  BY <2>1 DEF Replies
<1>5. in.kind \in {"tap", "number", "keyword", "yes", "prose"}
  BY DEF Inputs
<1> QED  BY <1>1, <1>2, <1>3, <1>4, <1>5

\* What a turn becomes once its message is understood in the context "now": it has
\* its outcome, or goes on to a service.
Understood(x, t, now) ==
  /\ x \in TurnState
  /\ x.own = turn[t].own
  /\ x.sees = turn[t].sees
  /\ x.now.cart \in {now.cart, NoCart}
  /\ \/ x.at = "save" /\ x.now.shown = x.show
     \/ x.at \in Services /\ (x.at # "ADD_TO_CART" => x.now.cart # NoCart)

LEMMA OutcomeFacts ==
  ASSUME NEW t \in Turns, turn[t] \in TurnState,
         NEW now \in Contexts, NEW state \in UsedStates, NEW screen \in Screens,
         NEW was, now.cart = was.cart,
         Outcome(t, now, state, screen)
  PROVE  \E x : /\ turn' = [turn EXCEPT ![t] = x] /\ Understood(x, t, was)
                /\ x.at = "save" /\ x.now.cart = was.cart /\ x.now.state = state
                /\ x.show = screen
<1> DEFINE n == [now EXCEPT !.state = state, !.shown = screen]
           x == [turn[t] EXCEPT !.at = "save", !.reply = "", !.show = screen, !.now = n]
<1>1. n \in Contexts /\ n.cart = now.cart /\ n.shown = screen /\ n.state = state
  BY DEF Contexts
<1>2. turn' = [turn EXCEPT ![t] = x]
  BY DEF Outcome
<1> HIDE DEF n
<1>3. x \in TurnState
  BY <1>1 DEF TurnState, Stages, Replies
<1>4. /\ x.own = turn[t].own /\ x.sees = turn[t].sees /\ x.now = n
      /\ x.at = "save" /\ x.show = screen
  BY DEF TurnState
<1> HIDE DEF x
<1> QED  BY <1>1, <1>2, <1>3, <1>4 DEF Understood

LEMMA BeginFacts ==
  ASSUME NEW t \in Turns, turn[t] \in TurnState,
         NEW now \in Contexts, NEW means, means.reply \in Replies,
         NEW was, now.cart = was.cart,
         means.intent \in Services, means.intent # "ADD_TO_CART" => now.cart # NoCart,
         Begin(t, now, means)
  PROVE  \E x : turn' = [turn EXCEPT ![t] = x] /\ Understood(x, t, was)
<1> DEFINE x == [turn[t] EXCEPT !.at = means.intent, !.reply = means.reply, !.now = now]
<1>1. turn' = [turn EXCEPT ![t] = x]
  BY DEF Begin
<1>2. x \in TurnState
  BY DEF TurnState, Stages
<1>3. x.own = turn[t].own /\ x.sees = turn[t].sees /\ x.now = now /\ x.at = means.intent
  BY DEF TurnState
<1> HIDE DEF x
<1> QED  BY <1>1, <1>2, <1>3 DEF Understood

LEMMA FreshIsAContext == Fresh \in Contexts /\ Fresh.cart = NoCart
  BY DEF Fresh, Contexts, UsedStates, States, Screens, NoCart

LEMMA UnderstandFacts ==
  ASSUME NEW t \in Turns, turn[t] \in TurnState, NEW now \in Contexts, Understand(t, now)
  PROVE  \E x : turn' = [turn EXCEPT ![t] = x] /\ Understood(x, t, now)
<1> DEFINE Goal == \E x : turn' = [turn EXCEPT ![t] = x] /\ Understood(x, t, now)
<1>1. PICK means : means.reply \in Replies /\ Dispatch(t, now, means)
  <2>1. PICK in \in Inputs :
          Dispatch(t, now, ResolveIntent(in, now.state, Screen(now.shown, Offered)))
    BY DEF Understand
  <2> QED  BY <2>1, ResolvedReply
<1>2. now.state \in UsedStates
  BY DEF Contexts
<1>3. ASSUME NEW n \in Contexts, n.cart = now.cart, NEW state \in UsedStates,
             NEW screen \in Screens, Outcome(t, n, state, screen)
      PROVE  Goal
  BY <1>3, OutcomeFacts
<1>4. ASSUME NEW n \in Contexts, n.cart = now.cart, Browse(t, n) PROVE Goal
  BY <1>3, <1>4 DEF Browse, UsedStates, States, Screens
<1>5. CASE Greet(t, now) \/ Search(t, now) \/ Track(t, now) \/ Handoff(t, now)
           \/ EmptyCart(t, now) \/ Outcome(t, now, now.state, "main")
  BY <1>2, <1>3, <1>5 DEF Greet, Search, Track, Handoff, EmptyCart, UsedStates, States, Screens
<1>6. CASE means.intent = "ADD_TO_CART" /\ Add(t, now, means)
  <2>1. [now EXCEPT !.pending = TRUE] \in Contexts /\ [now EXCEPT !.pending = TRUE].cart = now.cart
    BY DEF Contexts
  <2>2. CASE Begin(t, now, means)
    BY <1>1, <1>6, <2>2, BeginFacts DEF Services
  <2> QED  BY <1>3, <1>4, <1>6, <2>1, <2>2 DEF Add, UsedStates, States, Screens
<1>7. CASE /\ means.intent \in {"VIEW_CART", "CHECKOUT", "SELECT_ORDER_TYPE", "CONFIRM"}
           /\ OnTheCart(t, now, means)
  <2>1. CASE now.cart = NoCart
    BY <1>5, <1>7, <2>1 DEF OnTheCart
  <2>2. CASE now.cart # NoCart
    BY <1>1, <1>7, <2>2, BeginFacts DEF OnTheCart, Services
  <2> QED  BY <2>1, <2>2
<1>8. CASE means.intent = "PROVIDE_ADDRESS" /\ ProvideAddress(t, now, means)
  <2> DEFINE located == [now EXCEPT !.address = TRUE]
  <2>1. located \in Contexts /\ located.cart = now.cart
    BY DEF Contexts
  <2> HIDE DEF located
  <2>2. \/ Outcome(t, now, "ASKING_ADDRESS", "none")
        \/ Browse(t, located)
        \/ located.cart # NoCart /\ Begin(t, located, means)
    BY <1>8, <2>1 DEF ProvideAddress, located
  <2>3. CASE Begin(t, located, means) /\ located.cart # NoCart
    BY <1>1, <1>8, <2>1, <2>3, BeginFacts DEF Services
  <2> QED  BY <1>3, <1>4, <2>1, <2>2, <2>3 DEF UsedStates, States, Screens
<1>9. CASE Cancel(t)
  <2>1. \E x : turn' = [turn EXCEPT ![t] = x] /\ Understood(x, t, Fresh)
    BY <1>9, FreshIsAContext, OutcomeFacts DEF Cancel, UsedStates, States, Screens
  <2> QED  BY <2>1, FreshIsAContext DEF Understood
<1> QED  BY <1>1, <1>4, <1>5, <1>6, <1>7, <1>8, <1>9 DEF Dispatch

LEMMA GotoFacts ==
  ASSUME NEW t \in Turns, turn[t] \in TurnState, NEW place \in Stages, Goto(t, place)
  PROVE  \E x \in TurnState :
           /\ turn' = [turn EXCEPT ![t] = x]
           /\ x.at = place
           /\ x.own = turn[t].own /\ x.now = turn[t].now /\ x.sees = turn[t].sees
           /\ x.show = turn[t].show
<1> DEFINE x == [turn[t] EXCEPT !.at = place]
<1>1. turn' = [turn EXCEPT ![t] = x]
  BY DEF Goto
<1>2. /\ x \in TurnState
      /\ x.at = place
      /\ x.own = turn[t].own /\ x.now = turn[t].now /\ x.sees = turn[t].sees
      /\ x.show = turn[t].show
  BY DEF TurnState
<1> HIDE DEF x
<1> QED  BY <1>1, <1>2

LEMMA SummaryFacts ==
  ASSUME NEW t \in Turns, turn[t] \in TurnState,
         NEW now \in Contexts, NEW state \in UsedStates, NEW screen \in Screens,
         carts[now.cart].lines \in 0 .. MaxLines,
         Summary(t, now, state, screen)
  PROVE  \E x \in TurnState :
           /\ turn' = [turn EXCEPT ![t] = x]
           /\ x.at = "save" /\ x.own = turn[t].own
           /\ x.sees = carts[now.cart].lines /\ x.now.cart = now.cart
           /\ x.show = screen /\ x.now.shown = screen /\ x.now.state = state
<1> DEFINE n == [now EXCEPT !.state = state, !.shown = screen]
           x == [turn[t] EXCEPT !.at = "save", !.reply = "", !.show = screen,
                                !.sees = carts[now.cart].lines, !.now = n]
<1>1. n \in Contexts /\ n.cart = now.cart /\ n.shown = screen /\ n.state = state
  BY DEF Contexts
<1>2. turn' = [turn EXCEPT ![t] = x]
  BY DEF Summary
<1> HIDE DEF n
<1>3. x \in TurnState
  BY <1>1 DEF TurnState, Stages, Replies
<1>4. /\ x.own = turn[t].own /\ x.sees = carts[now.cart].lines /\ x.now = n
      /\ x.at = "save" /\ x.show = screen
  BY DEF TurnState
<1> HIDE DEF x
<1> QED  BY <1>1, <1>2, <1>3, <1>4

LEMMA BeganFacts ==
  /\ Began \in TurnState /\ Began.at = "load" /\ Began.own /\ Began.now = Fresh
  /\ Began.show = "none" /\ Began.sees = 0
<1>1. 0 \in 0 .. MaxLines
  BY BoundsAssumption
<1> QED  BY <1>1, FreshIsAContext DEF Began, TurnState, Stages, Replies, Screens

LEMMA SayFacts ==
  ASSUME NEW screen \in Screens, NEW lines \in 0 .. MaxLines
  PROVE  /\ Say(screen, lines) \in TurnState
         /\ Say(screen, lines).at = "reply" /\ Say(screen, lines).own
         /\ Say(screen, lines).now = Fresh
         /\ Say(screen, lines).show = screen /\ Say(screen, lines).sees = lines
<1>1. Began \in TurnState /\ Began.own /\ Began.now = Fresh
  BY BeganFacts
<1>2. Say(screen, lines) \in TurnState
  BY <1>1 DEF Say, TurnState, Stages
<1>3. /\ Say(screen, lines).at = "reply" /\ Say(screen, lines).own
      /\ Say(screen, lines).now = Fresh
      /\ Say(screen, lines).show = screen /\ Say(screen, lines).sees = lines
  BY <1>1 DEF Say, TurnState
<1> QED  BY <1>2, <1>3

LEMMA BoundsAreNumbers == MaxMessages \in Nat /\ MaxFaults \in Nat /\ MaxLines \in Nat
  BY BoundsAssumption

LEMMA NoCartIsNone == NoCart \notin Carts
  BY CartsAssumption DEF NoCart

LEMMA IdleIsNone == Idle \notin SessionState /\ Idle \notin TurnState /\ Idle \notin CartState
  BY IdleAssumption

LEMMA RowFacts ==
  ASSUME NEW now \in Contexts, NEW age \in 0 .. 2, NEW escalated \in BOOLEAN
  PROVE  /\ Row(now, age, escalated) \in SessionState
         /\ Row(now, age, escalated).now = now /\ Row(now, age, escalated).age = age
         /\ Row(now, age, escalated).escalated = escalated
  BY DEF Row, SessionState

\* ensureCart takes the first number that is free.
LEMMA FirstUnused ==
  ASSUME Unused # {}
  PROVE  (CHOOSE c \in Unused : \A d \in Unused : c <= d) \in Unused
<1>1. Unused \subseteq Nat
  BY CartsAssumption DEF Unused
<1>2. PICK c \in Unused : \A d \in Unused : ~(d < c)
  BY <1>1, LeastNumber
<1>3. \A d \in Unused : c <= d
  BY <1>1, <1>2
<1> QED  BY <1>3

----------------------------------------------------------------------------
(* Types, and that turns act on carts and sessions that exist.             *)

CartStages == {"VIEW_CART", "CHECKOUT", "SELECT_ORDER_TYPE", "PROVIDE_ADDRESS", "CONFIRM",
               "add", "added", "retyped", "place"}

Sound(x) ==
  /\ x.at \in CartStages => x.now.cart # NoCart
  /\ x.now.cart # NoCart => carts[x.now.cart] # Idle
  /\ x.at \notin {"load", "create"} => session # Idle

OrderState == [cart : Carts, lines : 0 .. MaxLines, saw : 0 .. MaxLines, slip : BOOLEAN]

ConversationTyped ==
  /\ ConversationTypeOK
  /\ orders \in Seq(OrderState)
  /\ \A t \in Turns : turn[t] # Idle => Sound(turn[t])
  /\ \A w \in Workers : worker[w] # "idle" => session # Idle

LEMMA TypesKept ==
  ASSUME ConversationTyped,
         session' \in SessionState \union {Idle},
         session # Idle => session' # Idle,
         session' # Idle /\ session'.now.cart # NoCart => carts'[session'.now.cart] # Idle,
         carts' \in [Carts -> CartState \union {Idle}],
         \A c \in Carts : carts[c] # Idle => carts'[c] # Idle,
         orders' \in Seq(OrderState),
         customer' \in [screen : Screens, saw : 0 .. MaxLines],
         worker' \in [Workers -> {"idle", "claim", "emit", "emit late"}],
         \A w \in Workers : worker'[w] # "idle" => worker[w] # "idle" \/ session' # Idle,
         slip' \in BOOLEAN, unaware' \subseteq Turns,
         received' \in 0 .. MaxMessages, faults' \in 0 .. MaxFaults,
         \/ UNCHANGED turn
         \/ \E t \in Turns, x \in TurnState \union {Idle} :
              turn' = [turn EXCEPT ![t] = x] /\ (x # Idle => Sound(x)')
  PROVE  ConversationTyped'
<1>1. turn \in [Turns -> TurnState \union {Idle}]
  BY DEF ConversationTyped, ConversationTypeOK
<1>2. turn' \in [Turns -> TurnState \union {Idle}]
  BY <1>1
<1>3. ASSUME NEW x \in TurnState, Sound(x) PROVE Sound(x)'
  <2>1. x.now.cart \in Carts \union {NoCart}
    BY DEF TurnState, Contexts
  <2> QED  BY <1>3, <2>1 DEF Sound
<1>4. ASSUME NEW t \in Turns, turn'[t] # Idle
      PROVE  \E x \in TurnState : x = turn'[t] /\ Sound(x)'
  <2>1. CASE turn'[t] = turn[t]
    <3>1. turn[t] \in TurnState /\ Sound(turn[t])
      BY <1>1, <1>4, <2>1 DEF ConversationTyped
    <3>2. PICK x \in TurnState : x = turn[t] /\ Sound(x)
      BY <3>1
    <3>3. Sound(x)'
      BY <1>3, <3>2
    <3> QED  BY <2>1, <3>2, <3>3
  <2>2. CASE turn'[t] # turn[t]
    <3>1. PICK u \in Turns, x \in TurnState \union {Idle} :
            turn' = [turn EXCEPT ![u] = x] /\ (x # Idle => Sound(x)')
      BY <2>2
    <3>2. turn'[t] = x /\ x \in TurnState
      BY <1>1, <1>4, <2>2, <3>1
    <3> QED  BY <1>4, <3>1, <3>2
  <2> QED  BY <2>1, <2>2
<1>5. \A t \in Turns : turn'[t] # Idle => Sound(turn[t])'
  BY <1>4 DEF Sound
<1> QED  BY <1>2, <1>5 DEF ConversationTyped, ConversationTypeOK, Sound, InFlight, Now

\* What a turn that has loaded its session may rely on.
LEMMA TurnFacts ==
  ASSUME ConversationTyped, NEW t \in Turns, turn[t] # Idle
  PROVE  /\ turn[t] \in TurnState /\ turn[t].now \in Contexts
         /\ turn[t].sees \in 0 .. MaxLines /\ turn[t].show \in Screens
         /\ Sound(turn[t])
         /\ turn[t].at \in CartStages =>
              /\ turn[t].now.cart \in Carts
              /\ carts[turn[t].now.cart] \in CartState
              /\ carts[turn[t].now.cart].lines \in 0 .. MaxLines
<1>1. turn[t] \in TurnState /\ Sound(turn[t])
  BY DEF ConversationTyped, ConversationTypeOK
<1>2. /\ turn[t].now \in Contexts /\ turn[t].sees \in 0 .. MaxLines
      /\ turn[t].show \in Screens
  BY <1>1 DEF TurnState
<1>3. turn[t].now.cart \in Carts \union {NoCart}
  BY <1>2 DEF Contexts
<1>4. ASSUME turn[t].at \in CartStages
      PROVE  turn[t].now.cart \in Carts /\ carts[turn[t].now.cart] \in CartState
  BY <1>1, <1>3, <1>4 DEF Sound, ConversationTyped, ConversationTypeOK
<1>5. \A c \in CartState : c.lines \in 0 .. MaxLines
  BY DEF CartState
<1> QED  BY <1>1, <1>2, <1>4, <1>5

LEMMA SessionFacts ==
  ASSUME ConversationTyped, session # Idle
  PROVE  /\ session \in SessionState /\ session.now \in Contexts
         /\ session.age \in 0 .. 2 /\ session.escalated \in BOOLEAN
         /\ session.now.cart # NoCart =>
              /\ session.now.cart \in Carts
              /\ carts[session.now.cart] \in CartState
<1>1. session \in SessionState
  BY DEF ConversationTyped, ConversationTypeOK
<1>2. /\ session.now \in Contexts /\ session.age \in 0 .. 2 /\ session.escalated \in BOOLEAN
  BY <1>1 DEF SessionState
<1>3. session.now.cart \in Carts \union {NoCart}
  BY <1>2 DEF Contexts
<1> QED  BY <1>1, <1>2, <1>3 DEF ConversationTyped, ConversationTypeOK

LEMMA UnderstoodIsSound ==
  ASSUME NEW t, NEW x, NEW now, Understood(x, t, now), session' # Idle,
         now.cart # NoCart => carts'[now.cart] # Idle
  PROVE  Sound(x)'
<1>1. x.at \in CartStages => x.now.cart # NoCart
  BY DEF Understood, CartStages, Services
<1>2. x.now.cart # NoCart => carts'[x.now.cart] # Idle
  BY DEF Understood
<1> QED  BY <1>1, <1>2 DEF Sound

LEMMA SayNothing ==
  /\ Say("none", 0) \in TurnState
  /\ Say("none", 0).at = "reply" /\ Say("none", 0).own /\ Say("none", 0).now = Fresh
  /\ Say("none", 0).now.cart = NoCart
  /\ Say("none", 0).show = "none" /\ Say("none", 0).sees = 0
<1>1. "none" \in Screens /\ 0 \in 0 .. MaxLines
  BY BoundsAreNumbers DEF Screens
<1> QED  BY <1>1, SayFacts, FreshIsAContext

\* The turn puts its cart, or what it may do with it, on the screen.
LEMMA ShowFacts ==
  ASSUME ConversationTyped, NEW t \in Turns,
         ShowCart(t) \/ AskForConfirmation(t) \/ ShowAdded(t) \/ StartCheckout(t)
  PROVE  \E x \in TurnState :
           /\ turn' = [turn EXCEPT ![t] = x]
           /\ x.at = "save" /\ x.own = turn[t].own
           /\ x.now.cart = turn[t].now.cart /\ x.now.shown = x.show
           /\ x.now.state # "HUMAN_HANDOFF"
           /\ x.sees = IF turn[t].at = "CHECKOUT"
                        THEN turn[t].sees ELSE carts[turn[t].now.cart].lines
<1> DEFINE Goal == \E x \in TurnState :
           /\ turn' = [turn EXCEPT ![t] = x]
           /\ x.at = "save" /\ x.own = turn[t].own
           /\ x.now.cart = turn[t].now.cart /\ x.now.shown = x.show
           /\ x.now.state # "HUMAN_HANDOFF"
           /\ x.sees = IF turn[t].at = "CHECKOUT"
                        THEN turn[t].sees ELSE carts[turn[t].now.cart].lines
<1>1. turn[t] # Idle /\ turn[t].at \in CartStages
  BY DEF ShowCart, AskForConfirmation, ShowAdded, StartCheckout, At, CartStages
<1>2. /\ turn[t] \in TurnState /\ Now(t) \in Contexts /\ Now(t) = turn[t].now
      /\ carts[Now(t).cart].lines \in 0 .. MaxLines
  BY <1>1, TurnFacts DEF Now
<1> DEFINE dropped == [Now(t) EXCEPT !.pending = FALSE]
<1>3. dropped \in Contexts /\ dropped.cart = Now(t).cart
  BY <1>2 DEF Contexts
<1> HIDE DEF dropped
<1>4. {"BUILDING_CART", "CONFIRMING_ORDER", "SELECTING_ORDER_TYPE", "IDLE"} \subseteq UsedStates
      /\ {"cart", "confirm", "types", "main"} \subseteq Screens
  BY DEF UsedStates, States, Screens
<1>5. ASSUME NEW now \in Contexts, now.cart = Now(t).cart, NEW state \in UsedStates,
             NEW screen \in Screens, Summary(t, now, state, screen),
             state # "HUMAN_HANDOFF", turn[t].at # "CHECKOUT"
      PROVE  Goal
  <2>1. carts[now.cart].lines \in 0 .. MaxLines
    BY <1>2, <1>5
  <2>2. PICK x \in TurnState :
           /\ turn' = [turn EXCEPT ![t] = x]
           /\ x.at = "save" /\ x.own = turn[t].own
           /\ x.sees = carts[now.cart].lines /\ x.now.cart = now.cart
           /\ x.show = screen /\ x.now.shown = screen /\ x.now.state = state
    BY <1>2, <1>5, <2>1, SummaryFacts
  <2> QED  BY <1>2, <1>5, <2>2
<1>6. ASSUME NEW state \in UsedStates, NEW screen \in Screens, Outcome(t, Now(t), state, screen),
             state # "HUMAN_HANDOFF", turn[t].at = "CHECKOUT"
      PROVE  Goal
  <2>1. PICK x : /\ turn' = [turn EXCEPT ![t] = x] /\ Understood(x, t, Now(t))
                 /\ x.at = "save" /\ x.now.cart = Now(t).cart /\ x.now.state = state
                 /\ x.show = screen
    BY <1>2, <1>6, OutcomeFacts
  <2> QED  BY <1>2, <1>6, <2>1 DEF Understood, Services
<1>7. CASE ShowCart(t)
  BY <1>2, <1>4, <1>5, <1>7 DEF ShowCart, At
<1>8. CASE AskForConfirmation(t)
  BY <1>2, <1>4, <1>5, <1>8 DEF AskForConfirmation, At
<1>9. CASE ShowAdded(t)
  BY <1>3, <1>4, <1>5, <1>9 DEF ShowAdded, At, dropped
<1>10. CASE StartCheckout(t)
  BY <1>4, <1>6, <1>10 DEF StartCheckout, EmptyCart, At
<1> QED  BY <1>7, <1>8, <1>9, <1>10

LEMMA OpenCartFacts ==
  ASSUME ConversationTyped, NEW t \in Turns, OpenCart(t)
  PROVE  \E x \in TurnState :
           /\ turn' = [turn EXCEPT ![t] = x]
           /\ x.at = "place" /\ x.own = turn[t].own /\ x.now = turn[t].now
           /\ x.show = turn[t].show /\ x.sees = carts[turn[t].now.cart].lines
<1>1. turn[t] # Idle /\ turn[t].at = "CONFIRM"
  BY DEF OpenCart, At
<1>2. /\ turn[t] \in TurnState /\ Now(t) = turn[t].now
      /\ carts[Now(t).cart].lines \in 0 .. MaxLines
  BY <1>1, TurnFacts DEF Now, CartStages
<1> DEFINE x == [turn[t] EXCEPT !.at = "place", !.reply = "", !.sees = carts[Now(t).cart].lines]
<1>3. turn' = [turn EXCEPT ![t] = x]
  BY DEF OpenCart
<1>4. /\ x \in TurnState /\ x.at = "place" /\ x.own = turn[t].own /\ x.now = turn[t].now
      /\ x.show = turn[t].show /\ x.sees = carts[Now(t).cart].lines
  BY <1>2 DEF TurnState, Stages, Replies
<1> HIDE DEF x
<1> QED  BY <1>2, <1>3, <1>4

\* The order is placed and the turn is done with its cart.
LEMMA PlacedFacts ==
  ASSUME NEW t \in Turns, turn[t] \in TurnState, PlaceOrder(t)
  PROVE  \E x \in TurnState :
           /\ turn' = [turn EXCEPT ![t] = x]
           /\ x.at = "save" /\ x.own = turn[t].own /\ x.show = turn[t].show /\ x.sees = 0
           /\ x.now.cart = NoCart /\ x.now.shown = "none" /\ x.now.state # "HUMAN_HANDOFF"
<1> DEFINE n == [Fresh EXCEPT !.state = "TRACKING_ORDER"]
           x == [turn[t] EXCEPT !.at = "save", !.sees = 0, !.now = n]
<1>1. n \in Contexts /\ n.cart = NoCart /\ n.shown = "none" /\ n.state # "HUMAN_HANDOFF"
  BY FreshIsAContext DEF Contexts, UsedStates, States, Fresh
<1>2. turn' = [turn EXCEPT ![t] = x]
  BY DEF PlaceOrder
<1> HIDE DEF n
<1>3. 0 \in 0 .. MaxLines
  BY BoundsAreNumbers
<1>4. /\ x \in TurnState /\ x.at = "save" /\ x.own = turn[t].own /\ x.show = turn[t].show
      /\ x.sees = 0 /\ x.now = n
  BY <1>1, <1>3 DEF TurnState, Stages
<1> HIDE DEF x
<1> QED  BY <1>1, <1>2, <1>4

LEMMA ConversationTypesStep ==
  ASSUME ConversationTyped, [ConversationNext]_conversationVars
  PROVE  ConversationTyped'
<1> USE FreshIsAContext, IdleIsNone DEF inbox, alarm, rest, conversing
<1> DEFINE Turned == \/ UNCHANGED turn
                     \/ \E t \in Turns, x \in TurnState \union {Idle} :
                          turn' = [turn EXCEPT ![t] = x] /\ (x # Idle => Sound(x)')
           Rest == /\ customer' \in [screen : Screens, saw : 0 .. MaxLines]
                   /\ worker' \in [Workers -> {"idle", "claim", "emit", "emit late"}]
                   /\ \A w \in Workers :
                        worker'[w] # "idle" => worker[w] # "idle" \/ session' # Idle
                   /\ slip' \in BOOLEAN /\ unaware' \subseteq Turns
                   /\ received' \in 0 .. MaxMessages /\ faults' \in 0 .. MaxFaults
           Sessions == /\ session' \in SessionState \union {Idle}
                       /\ session # Idle => session' # Idle
           SessionsCart == session' # Idle /\ session'.now.cart # NoCart =>
                             carts'[session'.now.cart] # Idle
           CartsKept == /\ carts' \in [Carts -> CartState \union {Idle}]
                        /\ \A c \in Carts : carts[c] # Idle => carts'[c] # Idle
           OrdersKept == orders' \in Seq(OrderState)
<1>0. ASSUME Turned, Rest, Sessions, SessionsCart, CartsKept, OrdersKept PROVE ConversationTyped'
  BY <1>0, TypesKept
<1>1. /\ UNCHANGED session => Sessions
      /\ UNCHANGED carts => CartsKept
      /\ UNCHANGED <<session, carts>> => SessionsCart
      /\ UNCHANGED orders => OrdersKept
      /\ UNCHANGED <<customer, worker, slip, unaware, received, faults>> => Rest
      /\ UNCHANGED turn => Turned
  BY DEF ConversationTyped, ConversationTypeOK
<1>2. ASSUME NEW t \in Turns, NEW x \in TurnState, turn' = [turn EXCEPT ![t] = x], Sound(x)'
      PROVE  Turned
  BY <1>2
<1>3. ASSUME NEW t \in Turns, turn' = [turn EXCEPT ![t] = Idle] PROVE Turned
  BY <1>3
<1> HIDE DEF Turned, Rest, Sessions, SessionsCart, CartsKept, OrdersKept
<1>4. CASE UNCHANGED conversationVars
  BY <1>0, <1>1, <1>4 DEF conversationVars
<1>5. ASSUME NEW t \in Turns, Receive(t) PROVE ConversationTyped'
  <2>1. Rest
    <3>1. slip' \in BOOLEAN /\ unaware' \subseteq Turns
      BY <1>5 DEF Receive, ConversationTyped, ConversationTypeOK
    <3>2. received' \in 0 .. MaxMessages
      <4>1. received \in 0 .. MaxMessages /\ received < MaxMessages /\ received' = received + 1
        BY <1>5 DEF Receive, ConversationTyped, ConversationTypeOK
      <4> QED  BY <4>1, BoundsAreNumbers
    <3> QED  BY <1>5, <3>1, <3>2 DEF Receive, ConversationTyped, ConversationTypeOK, Rest
  <2>2. Sound(Began)'
    BY BeganFacts DEF Sound, CartStages
  <2>3. Turned
    BY <1>2, <1>5, <2>2, BeganFacts DEF Receive
  <2> QED  BY <1>0, <1>1, <1>5, <2>1, <2>3 DEF Receive
<1>6. ASSUME NEW t \in Turns, Load(t) PROVE ConversationTyped'
  <2>1. turn[t] # Idle /\ turn[t].at = "load" /\ session # Idle
    BY <1>6 DEF Load, At
  <2>2. session \in SessionState /\ turn[t] \in TurnState
    BY <2>1, SessionFacts, TurnFacts
  <2>3. ASSUME NEW now \in Contexts, Understand(t, now), session' # Idle,
               now.cart # NoCart => carts'[now.cart] # Idle
        PROVE  Turned
    <3>1. PICK x : turn' = [turn EXCEPT ![t] = x] /\ Understood(x, t, now)
      BY <2>2, <2>3, UnderstandFacts
    <3>2. Sound(x)'
      BY <2>3, <3>1, UnderstoodIsSound
    <3> QED  BY <1>2, <3>1, <3>2 DEF Understood
  <2>4. UNCHANGED <<carts, orders, customer, worker, wait, slip, unaware, received, faults>>
    BY <1>6 DEF Load
  <2>5. CASE Expired /\ session' = Row(Fresh, 0, session.escalated) /\ Understand(t, Fresh)
    <3>1. session' \in SessionState /\ session'.now = Fresh
      BY <2>2, <2>5, RowFacts DEF SessionState
    <3>2. Sessions /\ SessionsCart
      BY <3>1 DEF Sessions, SessionsCart
    <3>3. Turned
      BY <2>3, <2>5, <3>1
    <3> QED  BY <1>0, <1>1, <2>4, <3>2, <3>3
  <2>6. CASE Goto(t, "touch") /\ UNCHANGED session
    <3>1. PICK x \in TurnState :
            turn' = [turn EXCEPT ![t] = x] /\ x.at = "touch" /\ x.now = turn[t].now
      BY <2>2, <2>6, GotoFacts DEF Stages
    <3>2. Sound(turn[t])
      BY <2>1, TurnFacts
    <3>3. Sound(x)'
      BY <2>1, <2>4, <2>6, <3>1, <3>2 DEF Sound, CartStages
    <3>4. Turned
      BY <1>2, <3>1, <3>3
    <3> QED  BY <1>0, <1>1, <2>4, <2>6, <3>4
  <2>7. CASE Understand(t, session.now) /\ UNCHANGED session
    <3>1. session.now \in Contexts /\ (session.now.cart # NoCart => carts'[session.now.cart] # Idle)
      BY <2>1, <2>4, SessionFacts
    <3>2. Turned
      BY <2>1, <2>3, <2>7, <3>1
    <3> QED  BY <1>0, <1>1, <2>4, <2>7, <3>2
  <2> QED  BY <1>6, <2>5, <2>6, <2>7 DEF Load
<1>7. ASSUME NEW t \in Turns, LoadNothing(t) PROVE ConversationTyped'
  <2>1. turn[t] # Idle /\ turn[t].at = "load" /\ UNCHANGED rest /\ Goto(t, "create")
    BY <1>7 DEF LoadNothing, At
  <2>2. turn[t] \in TurnState /\ Sound(turn[t])
    BY <2>1, TurnFacts
  <2>3. PICK x \in TurnState :
          turn' = [turn EXCEPT ![t] = x] /\ x.at = "create" /\ x.now = turn[t].now
    BY <2>1, <2>2, GotoFacts DEF Stages
  <2>4. Sound(x)'
    BY <2>1, <2>2, <2>3 DEF Sound, CartStages
  <2> QED  BY <1>0, <1>1, <1>2, <1>7, <2>3, <2>4 DEF LoadNothing
<1>8. ASSUME NEW t \in Turns, Create(t) PROVE ConversationTyped'
  <2>1. turn[t] # Idle /\ turn[t].at = "create"
        /\ UNCHANGED <<carts, orders, customer, worker, wait, slip, unaware, received, faults>>
    BY <1>8 DEF Create, At
  <2>2. turn[t] \in TurnState /\ Sound(turn[t])
    BY <2>1, TurnFacts
  <2>3. session' # Idle /\ Sessions /\ SessionsCart
    <3>1. CASE session = Idle
      <4>1. session' = Row(Fresh, 0, FALSE)
        BY <1>8, <3>1 DEF Create
      <4>2. session' \in SessionState /\ session'.now = Fresh
        BY <4>1, FreshIsAContext DEF Row, SessionState
      <4> QED  BY <4>2 DEF Sessions, SessionsCart
    <3>2. CASE session # Idle
      BY <1>1, <1>8, <2>1, <3>2 DEF Create
    <3> QED  BY <3>1, <3>2
  <2>4. PICK x \in TurnState :
          turn' = [turn EXCEPT ![t] = x] /\ x.at = "created" /\ x.now = turn[t].now
    <3>1. CASE session = Idle
      BY <1>8, <2>2, <3>1, GotoFacts DEF Create, Stages
    <3>2. CASE session # Idle
      <4> DEFINE x == [turn[t] EXCEPT !.at = "created", !.own = FALSE]
      <4>1. x \in TurnState /\ x.at = "created" /\ x.now = turn[t].now
        BY <2>2 DEF TurnState, Stages
      <4>2. turn' = [turn EXCEPT ![t] = x]
        BY <1>8, <3>2 DEF Create
      <4> HIDE DEF x
      <4> QED  BY <4>1, <4>2
    <3> QED  BY <3>1, <3>2
  <2>5. Sound(x)'
    BY <2>1, <2>2, <2>3, <2>4 DEF Sound, CartStages
  <2> QED  BY <1>0, <1>1, <1>2, <2>1, <2>3, <2>4, <2>5
<1>9. ASSUME NEW t \in Turns, Created(t) PROVE ConversationTyped'
  <2>1. turn[t] # Idle /\ turn[t].at = "created" /\ UNCHANGED rest /\ Understand(t, Fresh)
    BY <1>9 DEF Created, At
  <2>2. turn[t] \in TurnState /\ session # Idle
    BY <2>1, TurnFacts DEF Sound
  <2>3. PICK x : turn' = [turn EXCEPT ![t] = x] /\ Understood(x, t, Fresh)
    BY <2>1, <2>2, UnderstandFacts
  <2>4. Sound(x)'
    BY <2>1, <2>2, <2>3, UnderstoodIsSound
  <2>5. Turned
    BY <1>2, <2>3, <2>4 DEF Understood
  <2> QED  BY <1>0, <1>1, <2>1, <2>5
<1>10. ASSUME NEW t \in Turns, Touch(t) \/ Send(t) \/ Drop(t) PROVE ConversationTyped'
  <2>1. turn' = [turn EXCEPT ![t] = Idle] /\ turn[t] # Idle /\ UNCHANGED <<carts, orders, worker>>
    BY <1>10 DEF Touch, Send, Drop, At
  <2>2. Sessions /\ SessionsCart
    <3>1. CASE UNCHANGED session
      BY <1>1, <2>1, <3>1
    <3>2. CASE Touch(t)
      <4>1. session # Idle
        BY <2>1, <3>2, TurnFacts DEF Touch, At, Sound
      <4>2. session \in SessionState
        BY <4>1, SessionFacts
      <4>3. session' \in SessionState /\ session'.now = session.now
        BY <3>2, <4>2 DEF Touch, SessionState
      <4> QED  BY <2>1, <4>1, <4>3, SessionFacts DEF Sessions, SessionsCart
    <3> QED  BY <1>10, <3>1, <3>2 DEF Send, Drop
  <2>3. Rest
    <3>1. CASE Touch(t)
      BY <1>1, <3>1 DEF Touch
    <3>2. CASE Send(t)
      <4>1. /\ turn[t].show \in Screens /\ turn[t].sees \in 0 .. MaxLines
            /\ customer.screen \in Screens /\ customer.saw \in 0 .. MaxLines
        BY <2>1, TurnFacts DEF ConversationTyped, ConversationTypeOK
      <4>2. customer' \in [screen : Screens, saw : 0 .. MaxLines]
        BY <3>2, <4>1 DEF Send
      <4> QED  BY <3>2, <4>2 DEF Send, Rest, ConversationTyped, ConversationTypeOK
    <3>3. CASE Drop(t)
      <4>1. faults' \in 0 .. MaxFaults
        <5>1. faults \in 0 .. MaxFaults /\ faults < MaxFaults /\ faults' = faults + 1
          BY <3>3 DEF Drop, ConversationTyped, ConversationTypeOK
        <5> QED  BY <5>1, BoundsAreNumbers
      <4> QED  BY <3>3, <4>1 DEF Drop, Rest, ConversationTyped, ConversationTypeOK
    <3> QED  BY <1>10, <3>1, <3>2, <3>3
  <2>4. Turned
    BY <1>3, <2>1
  <2> QED  BY <1>0, <1>1, <2>1, <2>2, <2>3, <2>4
<1>11. ASSUME NEW t \in Turns,
              ShowCart(t) \/ AskForConfirmation(t) \/ ShowAdded(t) \/ StartCheckout(t)
       PROVE  ConversationTyped'
  <2>1. turn[t] # Idle /\ turn[t].at \in CartStages /\ UNCHANGED rest
    BY <1>11 DEF ShowCart, AskForConfirmation, ShowAdded, StartCheckout, At, CartStages
  <2>2. session # Idle /\ carts[turn[t].now.cart] # Idle
    BY <2>1, TurnFacts DEF Sound, CartStages
  <2>3. PICK x \in TurnState :
          turn' = [turn EXCEPT ![t] = x] /\ x.at = "save" /\ x.now.cart = turn[t].now.cart
    BY <1>11, ShowFacts
  <2>4. Sound(x)'
    BY <2>1, <2>2, <2>3 DEF Sound, CartStages
  <2> QED  BY <1>0, <1>1, <1>2, <2>1, <2>3, <2>4
<1>12. ASSUME NEW t \in Turns, Refuse(t) \/ Break(t) PROVE ConversationTyped'
  <2>1. /\ turn[t] # Idle /\ turn[t].at \notin {"load", "create"}
        /\ turn' = [turn EXCEPT ![t] = Say("none", 0)]
        /\ UNCHANGED <<session, carts, orders, customer, worker, received>>
    BY <1>12 DEF Refuse, Break, At
  <2>2. session # Idle
    BY <2>1, TurnFacts DEF Sound
  <2>3. Say("none", 0) \in TurnState /\ Say("none", 0).at = "reply" /\ Say("none", 0).now = Fresh
    <3>1. "none" \in Screens /\ 0 \in 0 .. MaxLines
      BY BoundsAreNumbers DEF Screens
    <3> QED  BY <3>1, SayFacts
  <2>4. Turned
    <3>1. PICK x \in TurnState : x = Say("none", 0)
      BY <2>3
    <3>2. Sound(x)'
      BY <2>1, <2>2, <2>3, <3>1 DEF Sound, CartStages
    <3> QED  BY <1>2, <2>1, <3>1, <3>2
  <2>5. Rest
    <3>1. CASE Refuse(t)
      BY <1>1, <3>1 DEF Refuse
    <3>2. CASE Break(t)
      <4>1. faults' \in 0 .. MaxFaults
        <5>1. faults \in 0 .. MaxFaults /\ faults < MaxFaults /\ faults' = faults + 1
          BY <3>2 DEF Break, ConversationTyped, ConversationTypeOK
        <5> QED  BY <5>1, BoundsAreNumbers
      <4> QED  BY <3>2, <4>1 DEF Break, Rest, ConversationTyped, ConversationTypeOK
    <3> QED  BY <1>12, <3>1, <3>2
  <2> QED  BY <1>0, <1>1, <2>1, <2>4, <2>5
<1>13. ASSUME NEW t \in Turns, EnsureCart(t) PROVE ConversationTyped'
  <2>1. /\ turn[t] # Idle /\ turn[t].at = "ADD_TO_CART"
        /\ UNCHANGED <<session, orders, customer, worker, wait, slip, unaware, received, faults>>
    BY <1>13 DEF EnsureCart, At
  <2>2. turn[t] \in TurnState /\ Now(t) \in Contexts /\ Sound(turn[t]) /\ session # Idle
    BY <2>1, TurnFacts DEF Now, Sound
  <2>3. CASE Active(Now(t).cart)
    <3>1. PICK x \in TurnState :
            turn' = [turn EXCEPT ![t] = x] /\ x.at = "add" /\ x.now = turn[t].now
      BY <1>13, <2>2, <2>3, GotoFacts DEF EnsureCart, Stages
    <3>2. UNCHANGED carts /\ Now(t).cart # NoCart
      BY <1>13, <2>3 DEF EnsureCart, Active
    <3>3. Sound(x)'
      BY <2>1, <2>2, <3>1, <3>2 DEF Sound, Now
    <3> QED  BY <1>0, <1>1, <1>2, <2>1, <3>1, <3>2, <3>3
  <2>4. CASE ~Active(Now(t).cart)
    <3>1. PICK c \in Unused :
            /\ carts' = [carts EXCEPT ![c] = NewCart("PICKUP")]
            /\ turn' = [turn EXCEPT ![t] = [turn[t] EXCEPT !.at = "add",
                                              !.now = [Now(t) EXCEPT !.cart = c]]]
      BY <1>13, <2>4, FirstUnused DEF EnsureCart
    <3>2. c \in Carts /\ c # NoCart /\ carts[c] = Idle
      BY <3>1, NoCartIsNone DEF Unused
    <3>3. NewCart("PICKUP") \in CartState
      BY <1>13, <2>4, BoundsAreNumbers DEF EnsureCart, BranchSupports, NewCart, CartState
    <3>4. CartsKept /\ carts'[c] # Idle
      <4>1. carts \in [Carts -> CartState \union {Idle}]
        BY DEF ConversationTyped, ConversationTypeOK
      <4>2. carts'[c] = NewCart("PICKUP")
        BY <3>1, <3>2, <4>1
      <4>3. carts' \in [Carts -> CartState \union {Idle}]
        BY <3>1, <3>2, <3>3, <4>1
      <4> QED  BY <3>1, <3>2, <3>3, <4>1, <4>2, <4>3 DEF CartsKept
    <3>5. SessionsCart
      <4>1. session.now.cart # NoCart => session.now.cart \in Carts /\ carts[session.now.cart] # Idle
        BY <2>2, SessionFacts
      <4> QED  BY <2>1, <3>4, <4>1 DEF SessionsCart, CartsKept
    <3> DEFINE n == [Now(t) EXCEPT !.cart = c]
               x == [turn[t] EXCEPT !.at = "add", !.now = n]
    <3>6. n \in Contexts /\ n.cart = c
      BY <2>2, <3>2 DEF Contexts
    <3>7. turn' = [turn EXCEPT ![t] = x]
      BY <3>1
    <3> HIDE DEF n
    <3>8. x \in TurnState /\ x.at = "add" /\ x.now = n
      BY <2>2, <3>6 DEF TurnState, Stages
    <3> HIDE DEF x
    <3>9. PICK y \in TurnState : y = x
      BY <3>8
    <3>10. Sound(y)'
      BY <2>1, <2>2, <3>2, <3>4, <3>6, <3>8, <3>9 DEF Sound
    <3> QED  BY <1>0, <1>1, <1>2, <2>1, <3>4, <3>5, <3>7, <3>9, <3>10
  <2> QED  BY <2>3, <2>4
<1>14. ASSUME NEW t \in Turns, AddItem(t) \/ Retype(t) \/ PlaceOrder(t)
       PROVE  ConversationTyped'
  <2> DEFINE c == Now(t).cart
  <2>1. /\ turn[t] # Idle /\ turn[t].at \in CartStages \union {"SELECT_ORDER_TYPE"}
        /\ UNCHANGED <<session, customer, worker, wait, slip, unaware, received, faults>>
    BY <1>14 DEF AddItem, Retype, PlaceOrder, At, CartStages
  <2>2. /\ turn[t] \in TurnState /\ Now(t) \in Contexts /\ Sound(turn[t]) /\ session # Idle
        /\ c \in Carts /\ carts[c] \in CartState
        /\ turn[t].sees \in 0 .. MaxLines
    BY <2>1, TurnFacts DEF Now, Sound, CartStages
  <2>3. ASSUME NEW new \in CartState, carts' = [carts EXCEPT ![c] = new]
        PROVE  CartsKept /\ SessionsCart
    <3>1. carts \in [Carts -> CartState \union {Idle}]
      BY DEF ConversationTyped, ConversationTypeOK
    <3>2. carts' \in [Carts -> CartState \union {Idle}]
      BY <2>2, <2>3, <3>1
    <3>3. \A d \in Carts : carts[d] # Idle => carts'[d] # Idle
      BY <2>2, <2>3, <3>1
    <3>4. session.now.cart # NoCart => session.now.cart \in Carts /\ carts[session.now.cart] # Idle
      BY <2>2, SessionFacts
    <3> QED  BY <2>1, <3>2, <3>3, <3>4 DEF CartsKept, SessionsCart
  <2>4. c \in Carts /\ CartsKept => carts'[c] # Idle
    BY <2>2 DEF CartsKept
  <2>5. ASSUME NEW x \in TurnState, turn' = [turn EXCEPT ![t] = x], CartsKept,
               x.now.cart \in {c, NoCart}, x.at \in CartStages => x.now.cart # NoCart
        PROVE  Turned
    <3>1. Sound(x)'
      BY <2>1, <2>2, <2>4, <2>5 DEF Sound
    <3> QED  BY <1>2, <2>5, <3>1
  <2> DEFINE y == carts[c]
  <2>6. c # NoCart
    BY <2>2, NoCartIsNone
  <2>7. CASE AddItem(t)
    <3>1. [y EXCEPT !.lines = y.lines + 1] \in CartState
      <4>1. y.lines \in 0 .. MaxLines /\ y.lines < MaxLines
        BY <2>2, <2>7 DEF AddItem, CartState
      <4>2. y.lines + 1 \in 0 .. MaxLines
        BY <4>1, BoundsAreNumbers
      <4> QED  BY <2>2, <4>2 DEF CartState
    <3>2. CartsKept /\ SessionsCart
      BY <2>3, <2>7, <3>1 DEF AddItem
    <3>3. PICK x \in TurnState :
            turn' = [turn EXCEPT ![t] = x] /\ x.at = "added" /\ x.now = turn[t].now
      BY <2>2, <2>7, GotoFacts DEF AddItem, Stages
    <3>4. Turned
      BY <2>5, <2>6, <3>2, <3>3 DEF Now
    <3> QED  BY <1>0, <1>1, <2>1, <2>7, <3>2, <3>4 DEF AddItem
  <2>8. CASE Retype(t)
    <3>1. [y EXCEPT !.type = turn[t].reply] \in CartState
      BY <2>2, <2>8 DEF Retype, BranchSupports, CartState
    <3>2. CartsKept /\ SessionsCart
      BY <2>3, <2>8, <3>1 DEF Retype
    <3>3. ASSUME Goto(t, "retyped") PROVE Turned
      <4>1. PICK x \in TurnState :
              turn' = [turn EXCEPT ![t] = x] /\ x.at = "retyped" /\ x.now = turn[t].now
        BY <2>2, <3>3, GotoFacts DEF Stages
      <4> QED  BY <2>5, <2>6, <3>2, <4>1 DEF Now
    <3>4. ASSUME Outcome(t, Now(t), "ASKING_ADDRESS", "none") PROVE Turned
      <4>1. PICK x : turn' = [turn EXCEPT ![t] = x] /\ Understood(x, t, Now(t))
        BY <2>2, <3>4, OutcomeFacts DEF UsedStates, States, Screens
      <4> QED  BY <2>5, <3>2, <4>1 DEF Understood, CartStages, Services
    <3>5. Turned
      BY <2>8, <3>3, <3>4 DEF Retype
    <3> QED  BY <1>0, <1>1, <2>1, <2>8, <3>2, <3>5 DEF Retype
  <2>9. CASE PlaceOrder(t)
    <3>1. [y EXCEPT !.status = "CHECKED_OUT"] \in CartState
      BY <2>2 DEF CartState
    <3>2. CartsKept /\ SessionsCart
      BY <2>3, <2>9, <3>1 DEF PlaceOrder
    <3>3. OrdersKept
      <4>1. [cart |-> c, lines |-> turn[t].sees, saw |-> customer.saw, slip |-> slip] \in OrderState
        BY <2>2 DEF OrderState, ConversationTyped, ConversationTypeOK
      <4>2. orders' = Append(orders, [cart |-> c, lines |-> turn[t].sees,
                                      saw |-> customer.saw, slip |-> slip])
        BY <2>9 DEF PlaceOrder
      <4> QED  BY <4>1, <4>2 DEF OrdersKept, ConversationTyped
    <3>4. Turned
      <4>1. PICK x \in TurnState :
              turn' = [turn EXCEPT ![t] = x] /\ x.at = "save" /\ x.now.cart = NoCart
        BY <2>2, <2>9, PlacedFacts
      <4> QED  BY <2>5, <3>2, <4>1 DEF CartStages
    <3> QED  BY <1>0, <1>1, <2>1, <3>2, <3>3, <3>4 DEF Sessions
  <2> QED  BY <1>14, <2>7, <2>8, <2>9
<1>15. ASSUME NEW t \in Turns, OpenCart(t) PROVE ConversationTyped'
  <2>1. turn[t] # Idle /\ turn[t].at = "CONFIRM" /\ UNCHANGED rest
    BY <1>15 DEF OpenCart, At
  <2>2. PICK x \in TurnState :
          turn' = [turn EXCEPT ![t] = x] /\ x.at = "place" /\ x.now = turn[t].now
    BY <1>15, OpenCartFacts
  <2>3. Sound(turn[t])
    BY <2>1, TurnFacts
  <2>4. Sound(x)'
    BY <2>1, <2>2, <2>3 DEF Sound, CartStages
  <2> QED  BY <1>0, <1>1, <1>2, <2>1, <2>2, <2>4
<1>16. ASSUME NEW t \in Turns, Save(t) PROVE ConversationTyped'
  <2>1. turn[t] # Idle /\ turn[t].at = "save" /\ UNCHANGED <<carts, orders, customer, slip, received, faults>>
    BY <1>16 DEF Save, At
  <2>2. /\ turn[t] \in TurnState /\ turn[t].now \in Contexts /\ Sound(turn[t]) /\ session # Idle
        /\ turn[t].show \in Screens /\ turn[t].sees \in 0 .. MaxLines
    BY <2>1, TurnFacts DEF Sound
  <2>3. Sessions /\ SessionsCart
    <3>1. CASE UNCHANGED session
      BY <1>1, <2>1, <3>1
    <3>2. CASE \E e : session' = Row(turn[t].now, 0, session.escalated /\ e)
      <4>1. PICK e : session' = Row(turn[t].now, 0, session.escalated /\ e)
        BY <3>2
      <4>2. (session.escalated /\ e) \in BOOLEAN
        OBVIOUS
      <4>3. session' \in SessionState /\ session'.now = turn[t].now
        BY <2>2, <4>1, <4>2 DEF Row, SessionState
      <4> QED  BY <2>1, <2>2, <4>3 DEF Sessions, SessionsCart, Sound
    <3> QED  BY <1>16, <3>1, <3>2 DEF Save
  <2>4. Rest
    <3>1. UNCHANGED worker \/ worker' = [w \in Workers |->
                                 IF worker[w] = "emit" THEN "emit late" ELSE worker[w]]
      BY <1>16 DEF Save, ClearWait
    <3>2. worker' \in [Workers -> {"idle", "claim", "emit", "emit late"}]
      <4>1. worker \in [Workers -> {"idle", "claim", "emit", "emit late"}]
        BY DEF ConversationTyped, ConversationTypeOK
      <4> QED  BY <3>1, <4>1
    <3>3. \A w \in Workers : worker'[w] # "idle" => worker[w] # "idle"
      BY <3>1
    <3>4. unaware' \subseteq Turns
      BY <1>16 DEF Save, InFlight, ConversationTyped, ConversationTypeOK
    <3> QED  BY <2>1, <3>2, <3>3, <3>4 DEF Rest, ConversationTyped, ConversationTypeOK
  <2>5. Turned
    <3>1. turn' = [turn EXCEPT ![t] = Say(turn[t].show, turn[t].sees)]
      BY <1>16 DEF Save
    <3>2. PICK x \in TurnState : x = Say(turn[t].show, turn[t].sees)
      BY <2>2, SayFacts
    <3>3. x.at = "reply" /\ x.now = Fresh
      BY <2>2, <3>2, SayFacts
    <3>4. Sound(x)'
      BY <2>2, <2>3, <3>3 DEF Sound, CartStages, Sessions
    <3> QED  BY <1>2, <3>1, <3>2, <3>4
  <2> QED  BY <1>0, <1>1, <2>1, <2>3, <2>4, <2>5
<1>17. ASSUME StaffReply \/ Resolve PROVE ConversationTyped'
  <2>1. session # Idle /\ UNCHANGED <<turn, carts, orders, customer, slip, unaware, received, faults>>
    BY <1>17 DEF StaffReply, Resolve, Waiting
  <2>2. session \in SessionState /\ session.age \in 0 .. 2
    BY <2>1, SessionFacts
  <2>3. Sessions /\ SessionsCart
    <3>1. CASE StaffReply
      <4>1. session' \in SessionState /\ session'.now = session.now
        BY <2>2, <3>1 DEF StaffReply, SessionState
      <4> QED  BY <2>1, <4>1, SessionFacts DEF Sessions, SessionsCart
    <3>2. CASE Resolve
      <4>1. session' \in SessionState /\ session'.now = Fresh
        BY <2>2, <3>2 DEF Resolve, Row, SessionState
      <4> QED  BY <4>1 DEF Sessions, SessionsCart
    <3> QED  BY <1>17, <3>1, <3>2
  <2>4. Rest
    <3>1. worker' = [w \in Workers |-> IF worker[w] = "emit" THEN "emit late" ELSE worker[w]]
      BY <1>17 DEF StaffReply, Resolve, ClearWait
    <3>2. worker' \in [Workers -> {"idle", "claim", "emit", "emit late"}]
      <4>1. worker \in [Workers -> {"idle", "claim", "emit", "emit late"}]
        BY DEF ConversationTyped, ConversationTypeOK
      <4> QED  BY <3>1, <4>1
    <3>3. \A w \in Workers : worker'[w] # "idle" => worker[w] # "idle"
      BY <3>1
    <3> QED  BY <2>1, <3>2, <3>3 DEF Rest, ConversationTyped, ConversationTypeOK
  <2> QED  BY <1>0, <1>1, <2>1, <2>3, <2>4
<1>18. ASSUME NEW w \in Workers, Sweep(w) \/ WorkerDies(w) PROVE ConversationTyped'
  <2>1. UNCHANGED <<turn, carts, orders, customer, slip, unaware, received>>
    BY <1>18 DEF Sweep, FindWaiting, Claim, Emit, WorkerDies
  <2>2. Sessions /\ SessionsCart
    <3>1. CASE UNCHANGED session
      BY <1>1, <2>1, <3>1
    <3>2. CASE session' = [session EXCEPT !.escalated = TRUE] /\ session # Idle
      <4>1. session \in SessionState
        BY <3>2, SessionFacts
      <4>2. session' \in SessionState /\ session'.now = session.now
        BY <3>2, <4>1 DEF SessionState
      <4> QED  BY <2>1, <3>2, <4>2, SessionFacts DEF Sessions, SessionsCart
    <3>3. UNCHANGED session \/ Claim(w)
      BY <1>18 DEF Sweep, FindWaiting, Emit, WorkerDies
    <3>4. CASE Claim(w)
      <4>1. session # Idle
        BY <3>4 DEF Claim, ConversationTyped
      <4> QED  BY <3>1, <3>2, <3>4, <4>1 DEF Claim
    <3> QED  BY <3>1, <3>3, <3>4
  <2>3. Rest
    <3>1. worker' \in [Workers -> {"idle", "claim", "emit", "emit late"}]
      <4>1. worker \in [Workers -> {"idle", "claim", "emit", "emit late"}]
        BY DEF ConversationTyped, ConversationTypeOK
      <4> QED  BY <1>18, <4>1 DEF Sweep, FindWaiting, Claim, Emit, WorkerDies
    <3>2. faults' \in 0 .. MaxFaults
      <4>1. faults \in 0 .. MaxFaults
        BY DEF ConversationTyped, ConversationTypeOK
      <4>2. \/ faults' = faults
            \/ faults < MaxFaults /\ faults' = faults + 1
        BY <1>18 DEF Sweep, FindWaiting, Claim, Emit, WorkerDies
      <4> QED  BY <4>1, <4>2, BoundsAreNumbers
    <3>3. ASSUME NEW v \in Workers, worker'[v] # "idle", worker[v] = "idle" PROVE session' # Idle
      <4>1. worker \in [Workers -> {"idle", "claim", "emit", "emit late"}]
        BY DEF ConversationTyped, ConversationTypeOK
      <4>2. FindWaiting(w)
        BY <1>18, <3>3, <4>1 DEF Sweep, Claim, Emit, WorkerDies
      <4> QED  BY <4>2 DEF FindWaiting, Waiting
    <3> QED  BY <2>1, <3>1, <3>2, <3>3 DEF Rest, ConversationTyped, ConversationTypeOK
  <2> QED  BY <1>0, <1>1, <2>1, <2>2, <2>3
<1>19. ASSUME Tick PROVE ConversationTyped'
  <2>1. session # Idle /\ UNCHANGED <<turn, orders, customer, worker, wait, slip, unaware, received, faults>>
    BY <1>19 DEF Tick
  <2>2. session \in SessionState /\ session.age \in 0 .. 2 /\ session.age < 2
        /\ session' = [session EXCEPT !.age = session.age + 1]
    BY <1>19, <2>1, SessionFacts DEF Tick
  <2>3. session' \in SessionState /\ session'.now = session.now
    <3>1. session.age + 1 \in 0 .. 2
      BY <2>2
    <3> QED  BY <2>2, <3>1 DEF SessionState
  <2>4. CartsKept
    <3>1. carts \in [Carts -> CartState \union {Idle}]
      BY DEF ConversationTyped, ConversationTypeOK
    <3>2. carts' = [c \in Carts |-> IF Active(c) /\ session.age = 1
                                    THEN [carts[c] EXCEPT !.stale = TRUE] ELSE carts[c]]
      BY <1>19 DEF Tick
    <3>3. \A c \in Carts : carts[c] # Idle => [carts[c] EXCEPT !.stale = TRUE] \in CartState
      BY <3>1 DEF CartState
    <3>4. ASSUME NEW c \in Carts
          PROVE  /\ carts'[c] \in CartState \union {Idle}
                 /\ carts[c] # Idle => carts'[c] # Idle
      <4>1. CASE Active(c) /\ session.age = 1
        BY <3>2, <3>3, <4>1 DEF Active
      <4>2. CASE ~(Active(c) /\ session.age = 1)
        BY <3>1, <3>2, <4>2
      <4> QED  BY <4>1, <4>2
    <3> QED  BY <3>2, <3>4 DEF CartsKept
  <2>5. Sessions /\ SessionsCart
    BY <2>1, <2>3, <2>4, SessionFacts DEF Sessions, SessionsCart, CartsKept
  <2> QED  BY <1>0, <1>1, <2>1, <2>4, <2>5
<1> QED  BY <1>4, <1>5, <1>6, <1>7, <1>8, <1>9, <1>10, <1>11, <1>12, <1>13, <1>14, <1>15,
            <1>16, <1>17, <1>18, <1>19 DEF ConversationNext, Work

LEMMA ConversationTypesInit == ConversationInit => ConversationTyped
<1> SUFFICES ASSUME ConversationInit PROVE ConversationTyped
  OBVIOUS
<1>1. /\ 0 \in 0 .. MaxLines /\ 0 \in 0 .. MaxMessages /\ 0 \in 0 .. MaxFaults
  BY BoundsAreNumbers
<1>2. customer \in [screen : Screens, saw : 0 .. MaxLines]
  BY <1>1 DEF ConversationInit, Screens
<1>3. /\ turn \in [Turns -> TurnState \union {Idle}]
      /\ carts \in [Carts -> CartState \union {Idle}]
      /\ \A t \in Turns : turn[t] = Idle
      /\ worker \in [Workers -> {"idle", "claim", "emit", "emit late"}]
      /\ \A w \in Workers : worker[w] = "idle"
  BY DEF ConversationInit
<1>4. orders \in Seq(OrderState)
  BY DEF ConversationInit
<1> QED  BY <1>1, <1>2, <1>3, <1>4 DEF ConversationInit, ConversationTyped, ConversationTypeOK,
           InFlight

----------------------------------------------------------------------------
(* The alarm.  What the flag stands for is counted in finite sets, however *)
(* many workers there are.                                                 *)

Raising == {w \in Workers : worker[w] = "emit"}
Escalated == session # Idle /\ session.escalated

AlarmInv ==
  /\ wait \in [told : Nat, lost : Nat]
  /\ IsFiniteSet(Raising)
  /\ wait.told + wait.lost + Cardinality(Raising) = IF Escalated THEN 1 ELSE 0

LEMMA AlarmInitially == ConversationInit => AlarmInv
<1> SUFFICES ASSUME ConversationInit PROVE AlarmInv
  OBVIOUS
<1>1. Raising = {}
  BY DEF ConversationInit, Raising
<1>2. IsFiniteSet(Raising) /\ Cardinality(Raising) = 0
  BY <1>1, FS_EmptySet
<1>3. wait = [told |-> 0, lost |-> 0] /\ ~Escalated
  BY DEF ConversationInit, Escalated
<1> QED  BY <1>2, <1>3 DEF AlarmInv

\* The flag goes with its alarms.
LEMMA WaitCleared ==
  ASSUME ClearWait, ~Escalated'
  PROVE  AlarmInv'
<1>1. Raising' = {}
  BY DEF ClearWait, Raising
<1>2. IsFiniteSet(Raising') /\ Cardinality(Raising') = 0
  BY <1>1, FS_EmptySet
<1>3. wait' = [told |-> 0, lost |-> 0]
  BY DEF ClearWait
<1> QED  BY <1>2, <1>3 DEF AlarmInv

LEMMA AlarmSweep ==
  ASSUME ConversationTyped, AlarmInv, NEW w \in Workers, Sweep(w) \/ WorkerDies(w)
  PROVE  AlarmInv'
<1> USE DEF AlarmInv
<1> DEFINE n == Cardinality(Raising)
<1>1. worker \in [Workers -> {"idle", "claim", "emit", "emit late"}]
  BY DEF ConversationTyped, ConversationTypeOK
<1>2. n \in Nat
  BY FS_CardinalityType
<1>3. ASSUME worker[w] # "emit", \E place : place # "emit" /\ worker' = [worker EXCEPT ![w] = place],
             UNCHANGED wait, Escalated' = Escalated
      PROVE  AlarmInv'
  <2>1. Raising' = Raising
    BY <1>1, <1>3 DEF Raising
  <2> QED  BY <1>3, <2>1
<1>4. CASE FindWaiting(w)
  BY <1>3, <1>4 DEF FindWaiting, Escalated
<1>5. CASE Claim(w)
  <2>1. session # Idle /\ worker[w] = "claim" /\ UNCHANGED wait
    BY <1>5 DEF Claim, ConversationTyped
  <2>2. CASE session.escalated
    BY <1>3, <1>5, <2>1, <2>2 DEF Claim, Escalated
  <2>3. CASE ~session.escalated
    <3>1. session \in SessionState
      BY <2>1, SessionFacts
    <3>2. session' \in SessionState /\ session'.escalated
      BY <1>5, <2>3, <3>1 DEF Claim, SessionState
    <3>3. ~Escalated /\ Escalated'
      BY <2>3, <3>2, IdleIsNone DEF Escalated
    <3>4. Raising' = Raising \union {w} /\ w \notin Raising
      BY <1>1, <1>5, <2>1, <2>3 DEF Claim, Raising
    <3>5. IsFiniteSet(Raising') /\ Cardinality(Raising') = n + 1
      BY <3>4, FS_AddElement
    <3> QED  BY <1>2, <2>1, <3>3, <3>5
  <2> QED  BY <2>2, <2>3
<1>6. CASE Emit(w) \/ WorkerDies(w)
  <2>1. worker' = [worker EXCEPT ![w] = "idle"] /\ Escalated' = Escalated
    BY <1>6 DEF Emit, WorkerDies, Escalated
  <2>2. CASE worker[w] # "emit"
    <3>1. UNCHANGED wait
      BY <1>6, <2>2 DEF Emit, WorkerDies
    <3> QED  BY <1>3, <2>1, <2>2, <3>1
  <2>3. CASE worker[w] = "emit"
    <3>1. Raising' = Raising \ {w} /\ w \in Raising
      BY <1>1, <2>1, <2>3 DEF Raising
    <3>2. IsFiniteSet(Raising') /\ Cardinality(Raising') = n - 1
      BY <3>1, FS_RemoveElement
    <3>3. \/ wait' = [wait EXCEPT !.told = wait.told + 1]
          \/ wait' = [wait EXCEPT !.lost = wait.lost + 1]
      BY <1>6, <2>3 DEF Emit, WorkerDies
    <3>4. /\ wait' \in [told : Nat, lost : Nat]
          /\ wait'.told + wait'.lost = wait.told + wait.lost + 1
      BY <3>3
    <3> QED  BY <1>2, <2>1, <3>2, <3>4
  <2> QED  BY <2>2, <2>3
<1> QED  BY <1>4, <1>5, <1>6 DEF Sweep

LEMMA AlarmStep ==
  ASSUME ConversationTyped, AlarmInv, [ConversationNext]_conversationVars
  PROVE  AlarmInv'
<1> USE DEF inbox, alarm, rest, conversing
<1>1. ASSUME UNCHANGED <<worker, wait>>, Escalated' = Escalated PROVE AlarmInv'
  BY <1>1 DEF AlarmInv, Raising
<1>2. CASE UNCHANGED <<worker, wait, session>>
  BY <1>1, <1>2 DEF Escalated
<1>3. ASSUME NEW t \in Turns, Load(t) \/ Touch(t) \/ Create(t) PROVE AlarmInv'
  <2>1. UNCHANGED <<worker, wait>>
    BY <1>3 DEF Load, Touch, Create
  <2>2. CASE UNCHANGED session
    BY <1>2, <2>1, <2>2
  <2>3. CASE session = Idle
    <3>1. UNCHANGED session \/ session' = Row(Fresh, 0, FALSE)
      <4>1. Create(t)
        <5>1. turn[t] # Idle /\ turn[t].at \in {"load", "create", "touch"}
          BY <1>3 DEF Load, Touch, Create, At
        <5> QED  BY <1>3, <2>3, <5>1, TurnFacts DEF Load, Touch, At, Sound
      <4> QED  BY <2>3, <4>1 DEF Create
    <3>2. Row(Fresh, 0, FALSE).escalated = FALSE
      BY DEF Row
    <3>3. ~Escalated
      BY <2>3 DEF Escalated
    <3>4. ASSUME session' # Idle PROVE ~session'.escalated
      BY <2>3, <3>1, <3>2, <3>4
    <3>5. ~Escalated'
      BY <3>4 DEF Escalated
    <3>6. Escalated' = Escalated
      BY <3>3, <3>5 DEF Escalated
    <3> QED  BY <1>1, <2>1, <3>6
  <2>4. CASE session # Idle
    <3>1. session \in SessionState
      BY <2>4, SessionFacts
    <3>2. \/ UNCHANGED session
          \/ session' = Row(Fresh, 0, session.escalated)
          \/ session' = [session EXCEPT !.age = 0]
      BY <1>3, <2>4 DEF Load, Touch, Create
    <3>3. session' \in SessionState /\ session'.escalated = session.escalated
      BY <3>1, <3>2, FreshIsAContext DEF SessionState, Row
    <3>4. Escalated' = Escalated
      BY <2>4, <3>3, IdleIsNone DEF Escalated
    <3> QED  BY <1>1, <2>1, <3>4
  <2> QED  BY <2>3, <2>4
<1>4. ASSUME NEW t \in Turns, Save(t) PROVE AlarmInv'
  <2>1. turn[t] # Idle /\ turn[t].now \in Contexts /\ session # Idle
    <3>1. turn[t] # Idle /\ turn[t].at = "save"
      BY <1>4 DEF Save, At
    <3> QED  BY <3>1, TurnFacts DEF Sound
  <2>2. session.escalated \in BOOLEAN
    BY <2>1, SessionFacts
  <2>3. CASE ~turn[t].own
    BY <1>2, <1>4, <2>3 DEF Save
  <2>4. CASE turn[t].own /\ turn[t].now.state = "HUMAN_HANDOFF"
    <3>1. session' = Row(turn[t].now, 0, FALSE) /\ ClearWait
      BY <1>4, <2>4 DEF Save
    <3>2. ~Escalated'
      BY <3>1 DEF Escalated, Row
    <3> QED  BY <3>1, <3>2, WaitCleared
  <2>5. CASE turn[t].own /\ turn[t].now.state # "HUMAN_HANDOFF"
    <3>1. session' = Row(turn[t].now, 0, session.escalated) /\ UNCHANGED <<worker, wait>>
      BY <1>4, <2>2, <2>5 DEF Save
    <3>2. session' \in SessionState /\ session'.escalated = session.escalated
      BY <2>1, <2>2, <3>1 DEF Row, SessionState
    <3>3. Escalated' = Escalated
      BY <2>1, <3>2, IdleIsNone DEF Escalated
    <3> QED  BY <1>1, <3>1, <3>3
  <2> QED  BY <2>3, <2>4, <2>5
<1>5. CASE StaffReply \/ Resolve
  <2>1. session # Idle /\ ClearWait
    BY <1>5 DEF StaffReply, Resolve, Waiting
  <2>2. session \in SessionState
    BY <2>1, SessionFacts
  <2>3. ~session'.escalated
    BY <1>5, <2>2 DEF StaffReply, Resolve, Row, SessionState
  <2> QED  BY <2>1, <2>3, WaitCleared DEF Escalated
<1>6. CASE Tick
  <2>1. session # Idle /\ UNCHANGED <<worker, wait>>
    BY <1>6 DEF Tick
  <2>2. session \in SessionState
    BY <2>1, SessionFacts
  <2>3. session' = [session EXCEPT !.age = session.age + 1]
    BY <1>6 DEF Tick
  <2>4. session'.escalated = session.escalated /\ session' # Idle
    <3>1. session'.escalated = session.escalated
      BY <2>2, <2>3 DEF SessionState
    <3>2. session' # Idle
      <4>1. session.age \in 0 .. 2 /\ session.age < 2
        BY <1>6, <2>1, SessionFacts DEF Tick
      <4>2. session.age + 1 \in 0 .. 2
        BY <4>1
      <4>3. session' \in SessionState
        BY <2>2, <2>3, <4>2 DEF SessionState
      <4> QED  BY <4>3, IdleIsNone
    <3> QED  BY <3>1, <3>2
  <2>5. Escalated' = Escalated
    BY <2>1, <2>4 DEF Escalated
  <2> QED  BY <1>1, <2>1, <2>5
<1>7. ASSUME NEW t \in Turns,
             \/ Receive(t) \/ LoadNothing(t) \/ Created(t)
             \/ ShowCart(t) \/ StartCheckout(t) \/ AskForConfirmation(t) \/ ShowAdded(t)
             \/ EnsureCart(t) \/ AddItem(t) \/ Retype(t)
             \/ OpenCart(t) \/ PlaceOrder(t) \/ Refuse(t) \/ Send(t) \/ Break(t) \/ Drop(t)
      PROVE  AlarmInv'
  <2>1. UNCHANGED <<worker, wait, session>>
    BY <1>7 DEF Receive, LoadNothing, Created, ShowCart, StartCheckout, AskForConfirmation,
      ShowAdded, EnsureCart, AddItem, Retype, OpenCart, PlaceOrder, Refuse, Send, Break, Drop
  <2> QED  BY <1>2, <2>1
<1>8. CASE UNCHANGED conversationVars
  BY <1>2, <1>8 DEF conversationVars
<1> QED  BY <1>3, <1>4, <1>5, <1>6, <1>7, <1>8, AlarmSweep DEF ConversationNext, Work

----------------------------------------------------------------------------
(* Stale carts.  A turn, and a session that has not expired, only name     *)
(* carts that were never out of use; time does not pass a whole day under  *)
(* a turn.                                                                 *)

NotStale(c) == c # NoCart => ~carts[c].stale

InTime(x) ==
  /\ NotStale(x.now.cart)
  /\ x.at # "load" /\ session # Idle => session.age < 2

StaleInv ==
  /\ NoStaleOrders
  /\ \A t \in Turns : turn[t] # Idle => InTime(turn[t])
  /\ session # Idle /\ session.age < 2 => NotStale(session.now.cart)

LEMMA StaleInitially == ConversationInit => StaleInv
  BY DEF ConversationInit, StaleInv, NoStaleOrders

LEMMA StaleKept ==
  ASSUME ConversationTyped, StaleInv, NoStaleOrders',
         \A c \in Carts : carts[c] # Idle /\ NotStale(c) => NotStale(c)',
         session # Idle /\ session.age < 2 => session' # Idle /\ session'.age < 2,
         session = Idle => session' = Idle \/ session'.age < 2,
         session' # Idle /\ session'.age < 2 =>
           \E c : c = session'.now.cart /\ NotStale(c)',
         \/ UNCHANGED turn
         \/ \E t \in Turns, x \in TurnState \union {Idle} :
              turn' = [turn EXCEPT ![t] = x] /\ (x # Idle => InTime(x)')
  PROVE  StaleInv'
<1>1. turn \in [Turns -> TurnState \union {Idle}]
  BY DEF ConversationTyped, ConversationTypeOK
<1>2. ASSUME NEW t \in Turns, turn'[t] # Idle
      PROVE  \E x \in TurnState : x = turn'[t] /\ InTime(x)'
  <2>1. CASE turn'[t] = turn[t]
    <3>1. turn[t] \in TurnState /\ InTime(turn[t]) /\ Sound(turn[t])
      BY <1>1, <1>2, <2>1 DEF ConversationTyped, StaleInv
    <3>2. PICK x \in TurnState : x = turn[t] /\ InTime(x) /\ Sound(x)
      BY <3>1
    <3>3. x.now.cart \in Carts \union {NoCart}
      BY DEF TurnState, Contexts
    <3>4. NotStale(x.now.cart)'
      BY <3>2, <3>3 DEF InTime, Sound, NotStale
    <3>5. x.at # "load" /\ session' # Idle => session'.age < 2
      BY <3>2 DEF InTime
    <3> QED  BY <2>1, <3>2, <3>4, <3>5 DEF InTime
  <2>2. CASE turn'[t] # turn[t]
    <3>1. PICK u \in Turns, x \in TurnState \union {Idle} :
            turn' = [turn EXCEPT ![u] = x] /\ (x # Idle => InTime(x)')
      BY <2>2
    <3>2. turn'[t] = x /\ x \in TurnState
      BY <1>1, <1>2, <2>2, <3>1
    <3> QED  BY <1>2, <3>1, <3>2
  <2> QED  BY <2>1, <2>2
<1>3. \A t \in Turns : turn'[t] # Idle => InTime(turn[t])'
  BY <1>2 DEF InTime, NotStale
<1> QED  BY <1>3 DEF StaleInv, NotStale

LEMMA StaleStep ==
  ASSUME ConversationTyped, StaleInv, [ConversationNext]_conversationVars
  PROVE  StaleInv'
<1> USE FreshIsAContext, IdleIsNone DEF inbox, alarm, rest, conversing
<1> DEFINE Turned == \/ UNCHANGED turn
                     \/ \E t \in Turns, x \in TurnState \union {Idle} :
                          turn' = [turn EXCEPT ![t] = x] /\ (x # Idle => InTime(x)')
           CartsKept == /\ NoStaleOrders'
                        /\ \A c \in Carts : carts[c] # Idle /\ NotStale(c) => NotStale(c)'
           Ages == /\ session # Idle /\ session.age < 2 => session' # Idle /\ session'.age < 2
                   /\ session = Idle => session' = Idle \/ session'.age < 2
           SessionsCart == session' # Idle /\ session'.age < 2 =>
                             \E c : c = session'.now.cart /\ NotStale(c)'
<1>0. ASSUME Turned, CartsKept, Ages, SessionsCart PROVE StaleInv'
  BY <1>0, StaleKept
<1>1. /\ UNCHANGED carts => CartsKept
      /\ UNCHANGED session => Ages
      /\ UNCHANGED <<session, carts>> => SessionsCart
  BY DEF StaleInv, NoStaleOrders, NotStale, Active
<1>2. ASSUME NEW t \in Turns, NEW x \in TurnState, turn' = [turn EXCEPT ![t] = x], InTime(x)'
      PROVE  Turned
  BY <1>2
<1>3. ASSUME NEW t \in Turns, turn' = [turn EXCEPT ![t] = Idle] PROVE Turned
  BY <1>3
<1>4. UNCHANGED turn => Turned
  OBVIOUS
<1> HIDE DEF Turned, CartsKept, Ages, SessionsCart
\* What most steps of a turn do.
<1>5. ASSUME NEW t \in Turns, turn[t] # Idle, UNCHANGED <<session, carts>>,
             \/ turn[t].at # "load"
             \/ session = Idle,
             NEW x \in TurnState, turn' = [turn EXCEPT ![t] = x],
             x.now.cart \in {turn[t].now.cart, NoCart}
      PROVE  StaleInv'
  <2>1. InTime(turn[t])
    BY <1>5 DEF StaleInv
  <2>2. InTime(x)'
    BY <1>5, <2>1 DEF InTime, NotStale
  <2> QED  BY <1>0, <1>1, <1>2, <1>5, <2>2
<1>6. ASSUME NEW t \in Turns, Receive(t) PROVE StaleInv'
  <2>1. InTime(Began)'
    BY BeganFacts DEF InTime, NotStale
  <2>2. Turned /\ UNCHANGED <<session, carts>>
    BY <1>2, <1>6, <2>1, BeganFacts DEF Receive
  <2> QED  BY <1>0, <1>1, <2>2
<1>7. ASSUME NEW t \in Turns, LoadNothing(t) PROVE StaleInv'
  <2>1. turn[t] # Idle /\ session = Idle /\ UNCHANGED rest /\ Goto(t, "create")
    BY <1>7 DEF LoadNothing, At
  <2>2. PICK x \in TurnState : turn' = [turn EXCEPT ![t] = x] /\ x.now = turn[t].now
    BY <2>1, TurnFacts, GotoFacts DEF Stages
  <2> QED  BY <1>5, <2>1, <2>2
<1>8. ASSUME NEW t \in Turns, Created(t) PROVE StaleInv'
  <2>1. turn[t] # Idle /\ turn[t].at = "created" /\ UNCHANGED rest /\ Understand(t, Fresh)
    BY <1>8 DEF Created, At
  <2>2. PICK x : turn' = [turn EXCEPT ![t] = x] /\ Understood(x, t, Fresh)
    BY <2>1, TurnFacts, UnderstandFacts
  <2>3. x \in TurnState /\ x.now.cart = NoCart
    BY <2>2 DEF Understood
  <2> QED  BY <1>5, <2>1, <2>2, <2>3
<1>9. ASSUME NEW t \in Turns,
             ShowCart(t) \/ AskForConfirmation(t) \/ ShowAdded(t) \/ StartCheckout(t)
      PROVE  StaleInv'
  <2>1. turn[t] # Idle /\ turn[t].at \in CartStages /\ turn[t].at # "load" /\ UNCHANGED rest
    BY <1>9 DEF ShowCart, AskForConfirmation, ShowAdded, StartCheckout, At, CartStages
  <2>2. PICK x \in TurnState :
          turn' = [turn EXCEPT ![t] = x] /\ x.now.cart \in {turn[t].now.cart, NoCart}
    BY <1>9, <2>1, ShowFacts
  <2> QED  BY <1>5, <2>1, <2>2
<1>10. ASSUME NEW t \in Turns, OpenCart(t) PROVE StaleInv'
  <2>1. turn[t] # Idle /\ turn[t].at = "CONFIRM" /\ UNCHANGED rest
    BY <1>10 DEF OpenCart, At
  <2>2. PICK x \in TurnState : turn' = [turn EXCEPT ![t] = x] /\ x.now = turn[t].now
    BY <1>10, <2>1, OpenCartFacts
  <2> QED  BY <1>5, <2>1, <2>2
<1>11. ASSUME NEW t \in Turns, Refuse(t) \/ Break(t) PROVE StaleInv'
  <2>1. turn[t] # Idle /\ turn[t].at # "load" /\ UNCHANGED <<session, carts>>
        /\ turn' = [turn EXCEPT ![t] = Say("none", 0)]
    BY <1>11 DEF Refuse, Break, At
  <2>2. Say("none", 0) \in TurnState /\ Say("none", 0).now.cart = NoCart
    BY SayNothing
  <2> QED  BY <1>5, <2>1, <2>2
<1>12. ASSUME NEW t \in Turns, Send(t) \/ Drop(t) PROVE StaleInv'
  <2>1. turn' = [turn EXCEPT ![t] = Idle] /\ UNCHANGED <<session, carts>>
    BY <1>12 DEF Send, Drop
  <2> QED  BY <1>0, <1>1, <1>3, <2>1
\* What a turn may hold of a session it has loaded.
<1>13. ASSUME NEW t \in Turns, turn[t] # Idle, NEW now, Understand(t, now), now \in Contexts,
              NotStale(now.cart)', session' # Idle => session'.age < 2
       PROVE  Turned
  <2>1. PICK x : turn' = [turn EXCEPT ![t] = x] /\ Understood(x, t, now)
    BY <1>13, TurnFacts, UnderstandFacts
  <2>2. InTime(x)'
    BY <1>13, <2>1 DEF Understood, InTime, NotStale
  <2> QED  BY <1>2, <2>1, <2>2 DEF Understood
<1>14. ASSUME NEW t \in Turns, Load(t) PROVE StaleInv'
  <2>1. turn[t] # Idle /\ turn[t].at = "load" /\ session # Idle /\ UNCHANGED carts
    BY <1>14 DEF Load, At
  <2>2. session \in SessionState /\ session.now \in Contexts /\ session.age \in 0 .. 2
        /\ session.escalated \in BOOLEAN
    BY <2>1, SessionFacts
  <2>3. CASE Expired /\ session' = Row(Fresh, 0, session.escalated) /\ Understand(t, Fresh)
    <3>1. session' \in SessionState /\ session'.now = Fresh /\ session'.age = 0
      BY <2>2, <2>3, RowFacts
    <3>2. NotStale(Fresh.cart)'
      BY DEF NotStale
    <3>3. Turned
      BY <1>13, <2>1, <2>3, <3>1, <3>2
    <3>4. Ages /\ SessionsCart
      BY <2>1, <2>3, <3>1, <3>2 DEF Ages, SessionsCart, Expired
    <3> QED  BY <1>0, <1>1, <2>1, <3>3, <3>4
  <2>4. CASE ~Expired /\ UNCHANGED session
    <3>1. session.age < 2 /\ NotStale(session.now.cart)
      BY <2>1, <2>2, <2>4 DEF Expired, StaleInv
    <3>2. NotStale(session.now.cart)'
      BY <2>1, <2>4, <3>1 DEF NotStale
    <3>3. CASE Understand(t, session.now)
      <4>1. PICK now \in Contexts : now = session.now
        BY <2>2
      <4>2. NotStale(now.cart)'
        BY <2>1, <3>1, <4>1 DEF NotStale
      <4>3. Turned
        BY <1>13, <2>1, <2>4, <3>1, <3>3, <4>1, <4>2
      <4> QED  BY <1>0, <1>1, <2>1, <2>4, <4>3
    <3>4. CASE Goto(t, "touch")
      <4>1. PICK x \in TurnState : turn' = [turn EXCEPT ![t] = x] /\ x.now = turn[t].now
        BY <2>1, <3>4, TurnFacts, GotoFacts DEF Stages
      <4>2. InTime(turn[t])
        BY <2>1 DEF StaleInv
      <4>3. InTime(x)'
        BY <2>1, <2>4, <3>1, <4>1, <4>2 DEF InTime, NotStale
      <4> QED  BY <1>0, <1>1, <1>2, <2>1, <2>4, <4>1, <4>3
    <3> QED  BY <1>14, <2>4, <3>3, <3>4 DEF Load
  <2> QED  BY <1>14, <2>3, <2>4 DEF Load
<1>15. ASSUME NEW t \in Turns, Create(t) PROVE StaleInv'
  <2>1. turn[t] # Idle /\ turn[t].at = "create" /\ UNCHANGED carts
    BY <1>15 DEF Create, At
  <2>2. turn[t] \in TurnState /\ InTime(turn[t])
    BY <2>1, TurnFacts DEF StaleInv
  <2>3. CASE session # Idle
    <3> DEFINE x == [turn[t] EXCEPT !.at = "created", !.own = FALSE]
    <3>1. x \in TurnState /\ x.now = turn[t].now
      BY <2>2 DEF TurnState, Stages
    <3>2. turn' = [turn EXCEPT ![t] = x] /\ UNCHANGED session
      BY <1>15, <2>3 DEF Create
    <3> HIDE DEF x
    <3> QED  BY <1>5, <2>1, <3>1, <3>2
  <2>4. CASE session = Idle
    <3>1. session' = Row(Fresh, 0, FALSE) /\ Goto(t, "created")
      BY <1>15, <2>4 DEF Create
    <3>2. session' \in SessionState /\ session'.now = Fresh /\ session'.age = 0
      BY <3>1 DEF Row, SessionState
    <3>3. PICK x \in TurnState : turn' = [turn EXCEPT ![t] = x] /\ x.now = turn[t].now
      BY <2>2, <3>1, GotoFacts DEF Stages
    <3>4. InTime(x)'
      BY <2>1, <2>2, <3>2, <3>3 DEF InTime, NotStale
    <3>5. Ages /\ SessionsCart
      BY <2>4, <3>2 DEF Ages, SessionsCart, NotStale
    <3> QED  BY <1>0, <1>1, <1>2, <2>1, <3>3, <3>4, <3>5
  <2> QED  BY <2>3, <2>4
<1>16. ASSUME NEW t \in Turns, Touch(t) PROVE StaleInv'
  <2>1. turn[t] # Idle /\ turn[t].at = "touch" /\ turn' = [turn EXCEPT ![t] = Idle]
        /\ UNCHANGED carts /\ session' = [session EXCEPT !.age = 0]
    BY <1>16 DEF Touch, At
  <2>2. session # Idle /\ InTime(turn[t])
    BY <2>1, TurnFacts DEF Sound, StaleInv
  <2>3. session \in SessionState
    BY <2>2, SessionFacts
  <2>4. session' \in SessionState /\ session'.age = 0 /\ session'.now = session.now
    BY <2>1, <2>3 DEF SessionState
  <2>5. NotStale(session.now.cart)
    BY <2>1, <2>2 DEF InTime, StaleInv
  <2>6. Ages /\ SessionsCart
    BY <2>1, <2>2, <2>4, <2>5 DEF Ages, SessionsCart, NotStale
  <2> QED  BY <1>0, <1>1, <1>3, <2>1, <2>6
<1>17. ASSUME NEW t \in Turns, Save(t) PROVE StaleInv'
  <2>1. turn[t] # Idle /\ turn[t].at = "save" /\ UNCHANGED carts
        /\ turn' = [turn EXCEPT ![t] = Say(turn[t].show, turn[t].sees)]
    BY <1>17 DEF Save, At
  <2>2. /\ turn[t].now \in Contexts /\ Sound(turn[t]) /\ session # Idle /\ InTime(turn[t])
        /\ turn[t].show \in Screens /\ turn[t].sees \in 0 .. MaxLines
    BY <2>1, TurnFacts DEF Sound, StaleInv
  <2>3. PICK x \in TurnState : x = Say(turn[t].show, turn[t].sees) /\ x.now = Fresh
    BY <2>2, SayFacts
  <2>4. Ages /\ SessionsCart
    <3>1. CASE UNCHANGED session
      BY <1>1, <2>1, <3>1
    <3>2. CASE \E e : session' = Row(turn[t].now, 0, session.escalated /\ e)
      <4>1. PICK e : session' = Row(turn[t].now, 0, session.escalated /\ e)
        BY <3>2
      <4>2. (session.escalated /\ e) \in BOOLEAN
        OBVIOUS
      <4>3. session' \in SessionState /\ session'.now = turn[t].now /\ session'.age = 0
        BY <2>2, <4>1, <4>2 DEF Row, SessionState
      <4> QED  BY <2>1, <2>2, <4>3 DEF Ages, SessionsCart, InTime, NotStale
    <3> QED  BY <1>17, <3>1, <3>2 DEF Save
  <2>5. InTime(x)'
    <3>1. session.age < 2
      BY <2>1, <2>2 DEF InTime
    <3> QED  BY <2>2, <2>3, <2>4, <3>1 DEF InTime, NotStale, Ages
  <2> QED  BY <1>0, <1>1, <1>2, <2>1, <2>3, <2>4, <2>5
<1>18. ASSUME NEW t \in Turns, NEW c \in Carts, NEW new \in CartState,
              carts' = [carts EXCEPT ![c] = new], ~new.stale,
              UNCHANGED session, turn[t] # Idle, turn[t].at # "load", session # Idle,
              NEW x \in TurnState, turn' = [turn EXCEPT ![t] = x],
              x.now.cart \in {turn[t].now.cart, c, NoCart}
       PROVE  StaleInv'
  <2>1. carts \in [Carts -> CartState \union {Idle}] /\ NoStaleOrders
    BY DEF ConversationTyped, ConversationTypeOK, StaleInv
  <2>2. \A d \in Carts : carts'[d] = IF d = c THEN new ELSE carts[d]
    BY <1>18, <2>1
  <2>3. CartsKept
    BY <2>1, <2>2, <1>18, NoCartIsNone DEF CartsKept, NoStaleOrders, NotStale, Active
  <2>4. \A d \in Carts \union {NoCart} : NotStale(d) => NotStale(d)'
    BY <1>18, <2>2 DEF NotStale
  <2>5. SessionsCart /\ Ages
    <3>1. session.now.cart \in Carts \union {NoCart}
      BY <1>18, SessionFacts DEF Contexts
    <3>2. session.age < 2 => NotStale(session.now.cart)
      BY <1>18 DEF StaleInv
    <3> QED  BY <1>1, <1>18, <2>4, <3>1, <3>2 DEF SessionsCart
  <2>6. InTime(x)'
    <3>1. turn[t].now.cart \in Carts \union {NoCart} /\ InTime(turn[t])
      BY <1>18, TurnFacts DEF Contexts, StaleInv
    <3>2. NotStale(c)' /\ NotStale(NoCart)'
      BY <1>18, <2>2 DEF NotStale
    <3>3. NotStale(x.now.cart)'
      BY <1>18, <2>4, <3>1, <3>2 DEF InTime, NotStale
    <3> QED  BY <1>18, <3>1, <3>3 DEF InTime
  <2> QED  BY <1>0, <1>2, <1>18, <2>3, <2>5, <2>6
<1>19. ASSUME NEW t \in Turns, EnsureCart(t) PROVE StaleInv'
  <2>1. turn[t] # Idle /\ turn[t].at = "ADD_TO_CART" /\ UNCHANGED session
    BY <1>19 DEF EnsureCart, At
  <2>2. turn[t] \in TurnState /\ Now(t) \in Contexts /\ session # Idle /\ Now(t) = turn[t].now
    BY <2>1, TurnFacts DEF Now, Sound
  <2>3. CASE Active(Now(t).cart)
    <3>1. PICK x \in TurnState : turn' = [turn EXCEPT ![t] = x] /\ x.now = turn[t].now
      BY <1>19, <2>2, <2>3, GotoFacts DEF EnsureCart, Stages
    <3> QED  BY <1>5, <1>19, <2>1, <2>3, <3>1 DEF EnsureCart
  <2>4. CASE ~Active(Now(t).cart)
    <3>1. PICK c \in Unused :
            /\ carts' = [carts EXCEPT ![c] = NewCart("PICKUP")]
            /\ turn' = [turn EXCEPT ![t] = [turn[t] EXCEPT !.at = "add",
                                              !.now = [Now(t) EXCEPT !.cart = c]]]
      BY <1>19, <2>4, FirstUnused DEF EnsureCart
    <3>2. NewCart("PICKUP") \in CartState /\ ~NewCart("PICKUP").stale
      BY <1>19, <2>4, BoundsAreNumbers DEF EnsureCart, BranchSupports, NewCart, CartState
    <3> DEFINE n == [Now(t) EXCEPT !.cart = c]
               x == [turn[t] EXCEPT !.at = "add", !.now = n]
    <3>3. n \in Contexts /\ n.cart = c
      BY <2>2, <3>1 DEF Contexts, Unused
    <3>4. turn' = [turn EXCEPT ![t] = x]
      BY <3>1
    <3> HIDE DEF n
    <3>5. x \in TurnState /\ x.now = n
      BY <2>2, <3>3 DEF TurnState, Stages
    <3> HIDE DEF x
    <3>6. c \in Carts /\ x.now.cart = c
      BY <3>1, <3>3, <3>5 DEF Unused
    <3>7. PICK new \in CartState : new = NewCart("PICKUP")
      BY <3>2
    <3>8. turn[t].at # "load" /\ carts' = [carts EXCEPT ![c] = new] /\ ~new.stale
      BY <2>1, <3>1, <3>2, <3>7
    <3> QED  BY <1>18, <2>1, <2>2, <3>4, <3>5, <3>6, <3>8
  <2> QED  BY <2>3, <2>4
<1>20. ASSUME NEW t \in Turns, AddItem(t) \/ Retype(t) \/ PlaceOrder(t) PROVE StaleInv'
  <2> DEFINE c == turn[t].now.cart
             y == carts[c]
  <2>1. /\ turn[t] # Idle /\ turn[t].at \in CartStages /\ turn[t].at # "load"
        /\ UNCHANGED session
    BY <1>20 DEF AddItem, Retype, PlaceOrder, At, CartStages
  <2>2. /\ turn[t] \in TurnState /\ turn[t].now \in Contexts /\ session # Idle
        /\ c \in Carts /\ y \in CartState /\ Now(t) = turn[t].now
    BY <2>1, TurnFacts DEF Now, Sound, CartStages
  <2>3. InTime(turn[t]) /\ ~y.stale
    BY <2>1, <2>2, NoCartIsNone DEF InTime, NotStale, StaleInv
  <2>4. ASSUME NEW new \in CartState, carts' = [carts EXCEPT ![c] = new], ~new.stale,
               NEW x \in TurnState, turn' = [turn EXCEPT ![t] = x], x.now.cart \in {c, NoCart}
        PROVE  StaleInv'
    BY <1>18, <2>1, <2>2, <2>4
  <2>5. CASE AddItem(t)
    <3>1. [y EXCEPT !.lines = y.lines + 1] \in CartState
      <4>1. y.lines \in 0 .. MaxLines /\ y.lines < MaxLines
        BY <2>2, <2>5 DEF AddItem, CartState
      <4>2. y.lines + 1 \in 0 .. MaxLines
        BY <4>1, BoundsAreNumbers
      <4> QED  BY <2>2, <4>2 DEF CartState
    <3>2. ~[y EXCEPT !.lines = y.lines + 1].stale
      BY <2>2, <2>3 DEF CartState
    <3>3. carts' = [carts EXCEPT ![c] = [y EXCEPT !.lines = y.lines + 1]]
      BY <2>2, <2>5 DEF AddItem
    <3>4. PICK x \in TurnState : turn' = [turn EXCEPT ![t] = x] /\ x.now = turn[t].now
      BY <2>2, <2>5, GotoFacts DEF AddItem, Stages
    <3> QED  BY <2>4, <3>1, <3>2, <3>3, <3>4
  <2>6. CASE Retype(t)
    <3>1. [y EXCEPT !.type = turn[t].reply] \in CartState
      BY <2>2, <2>6 DEF Retype, BranchSupports, CartState
    <3>2. ~[y EXCEPT !.type = turn[t].reply].stale
      BY <2>2, <2>3 DEF CartState
    <3>3. carts' = [carts EXCEPT ![c] = [y EXCEPT !.type = turn[t].reply]]
      BY <2>2, <2>6 DEF Retype
    <3>4. PICK x \in TurnState : turn' = [turn EXCEPT ![t] = x] /\ x.now.cart \in {c, NoCart}
      <4>1. CASE Goto(t, "retyped")
        BY <2>2, <4>1, GotoFacts DEF Stages
      <4>2. CASE Outcome(t, turn[t].now, "ASKING_ADDRESS", "none")
        <5>1. PICK x : turn' = [turn EXCEPT ![t] = x] /\ Understood(x, t, turn[t].now)
          BY <2>2, <4>2, OutcomeFacts DEF UsedStates, States, Screens
        <5> QED  BY <5>1 DEF Understood
      <4> QED  BY <2>2, <2>6, <4>1, <4>2 DEF Retype
    <3> QED  BY <2>4, <3>1, <3>2, <3>3, <3>4
  <2>7. CASE PlaceOrder(t)
    <3>1. [y EXCEPT !.status = "CHECKED_OUT"] \in CartState
          /\ ~[y EXCEPT !.status = "CHECKED_OUT"].stale
      BY <2>2, <2>3 DEF CartState
    <3>2. carts' = [carts EXCEPT ![c] = [y EXCEPT !.status = "CHECKED_OUT"]]
      BY <2>2, <2>7 DEF PlaceOrder
    <3>3. PICK x \in TurnState : turn' = [turn EXCEPT ![t] = x] /\ x.now.cart = NoCart
      BY <2>2, <2>7, PlacedFacts
    <3> QED  BY <2>4, <3>1, <3>2, <3>3
  <2> QED  BY <1>20, <2>5, <2>6, <2>7
<1>21. CASE StaffReply \/ Resolve
  <2>1. session # Idle /\ UNCHANGED <<turn, carts>>
    BY <1>21 DEF StaffReply, Resolve, Waiting
  <2>2. session \in SessionState /\ session.age \in 0 .. 2
    BY <2>1, SessionFacts
  <2>3. session' \in SessionState /\ session'.age = session.age
        /\ session'.now.cart \in {session.now.cart, NoCart}
    <3>1. CASE StaffReply
      BY <2>2, <3>1 DEF StaffReply, SessionState
    <3>2. CASE Resolve
      <4>1. session' \in SessionState /\ session'.now = Fresh /\ session'.age = session.age
        BY <2>2, <3>2 DEF Resolve, Row, SessionState
      <4> QED  BY <4>1
    <3> QED  BY <1>21, <3>1, <3>2
  <2>4. Ages /\ SessionsCart
    BY <2>1, <2>3 DEF Ages, SessionsCart, NotStale, StaleInv
  <2> QED  BY <1>0, <1>1, <1>4, <2>1, <2>4
<1>22. ASSUME NEW w \in Workers, Sweep(w) \/ WorkerDies(w) PROVE StaleInv'
  <2>1. UNCHANGED <<turn, carts>>
    BY <1>22 DEF Sweep, FindWaiting, Claim, Emit, WorkerDies
  <2>2. CASE UNCHANGED session
    BY <1>0, <1>1, <1>4, <2>1, <2>2
  <2>3. CASE session # Idle /\ session' = [session EXCEPT !.escalated = TRUE]
    <3>1. session \in SessionState
      BY <2>3, SessionFacts
    <3>2. session' \in SessionState /\ session'.age = session.age /\ session'.now = session.now
      BY <2>3, <3>1 DEF SessionState
    <3>3. Ages /\ SessionsCart
      BY <2>1, <2>3, <3>2 DEF Ages, SessionsCart, NotStale, StaleInv
    <3> QED  BY <1>0, <1>1, <1>4, <2>1, <3>3
  <2>4. UNCHANGED session \/ (session # Idle /\ session' = [session EXCEPT !.escalated = TRUE])
    BY <1>22 DEF Sweep, FindWaiting, Claim, Emit, WorkerDies, ConversationTyped
  <2> QED  BY <2>2, <2>3, <2>4
<1>23. CASE Tick
  <2>1. session # Idle /\ UNCHANGED turn
    BY <1>23 DEF Tick
  <2>2. session \in SessionState /\ session.age \in 0 .. 2 /\ session.age < 2
        /\ session' = [session EXCEPT !.age = session.age + 1]
    BY <1>23, <2>1, SessionFacts DEF Tick
  <2>3. session' \in SessionState /\ session'.now = session.now /\ session'.age = session.age + 1
    <3>1. session.age + 1 \in 0 .. 2
      BY <2>2
    <3> QED  BY <2>2, <3>1 DEF SessionState
  <2>4. carts \in [Carts -> CartState \union {Idle}] /\ NoStaleOrders
        /\ carts' = [c \in Carts |-> IF Active(c) /\ session.age = 1
                                     THEN [carts[c] EXCEPT !.stale = TRUE] ELSE carts[c]]
    BY <1>23 DEF Tick, ConversationTyped, ConversationTypeOK, StaleInv
  \* The first tick leaves the carts alone; the second finds no turn in flight.
  <2>5. CASE session.age = 0
    <3>1. UNCHANGED carts
      BY <2>4, <2>5
    <3>2. Ages /\ SessionsCart
      BY <2>1, <2>3, <2>5, <3>1 DEF Ages, SessionsCart, NotStale, StaleInv
    <3> QED  BY <1>0, <1>1, <1>4, <2>1, <3>1, <3>2
  <2>6. CASE session.age = 1
    <3>1. \A t \in Turns : turn[t] = Idle
      BY <1>23, <2>6 DEF Tick, InFlight
    <3>2. session'.age = 2
      BY <2>3, <2>6
    <3>3. ASSUME NEW c \in Carts, carts'[c] # Idle, carts'[c].stale PROVE Active(c)'
      <4>1. CASE Active(c)
        <5>1. carts[c] \in CartState /\ carts'[c] = [carts[c] EXCEPT !.stale = TRUE]
          BY <2>4, <2>6, <4>1 DEF Active
        <5>2. carts'[c].status = carts[c].status
          BY <5>1 DEF CartState
        <5> QED  BY <3>3, <4>1, <5>2 DEF Active
      <4>2. CASE ~Active(c)
        <5>1. carts'[c] = carts[c]
          BY <2>4, <4>2
        <5> QED  BY <2>4, <3>3, <4>2, <5>1 DEF NoStaleOrders
      <4> QED  BY <4>1, <4>2
    <3> QED  BY <2>1, <3>1, <3>2, <3>3 DEF StaleInv, NoStaleOrders
  <2> QED  BY <2>2, <2>5, <2>6
<1>24. CASE UNCHANGED conversationVars
  BY <1>0, <1>1, <1>4, <1>24 DEF conversationVars
<1> QED  BY <1>6, <1>7, <1>8, <1>9, <1>10, <1>11, <1>12, <1>14, <1>15, <1>16, <1>17, <1>19,
            <1>20, <1>21, <1>22, <1>23, <1>24 DEF ConversationNext, Work

----------------------------------------------------------------------------
(* What the customer sees.  While no two turns have overlapped and no step *)
(* has failed half way, at most one turn is in flight, and what it knows,  *)
(* what the session remembers and what is on the screen agree.  A turn's   *)
(* own writes come between: the reply it has saved is not yet shown.       *)

Remembers(screen, lines) ==
  session # Idle =>
    /\ session.now.shown \in {"none", screen}
    /\ session.now.cart # NoCart => carts[session.now.cart].lines = lines

HasLines(c, lines) == c # NoCart => carts[c].lines = lines

\* The screen and the lines in front of the customer once the turn has replied.
ScreenAfter(x) == IF x.show = "none" THEN customer.screen ELSE x.show
SawAfter(x) == IF x.sees = 0 THEN customer.saw ELSE x.sees

Calm(x) ==
  /\ x.own
  /\ x.at \notin {"load", "create", "touch", "reply"} =>
       session.now.state # "HUMAN_HANDOFF"
  /\ x.at = "create" => session = Idle
  /\ x.at \notin {"added", "save", "reply"} => Remembers(customer.screen, customer.saw)
  /\ x.at \notin {"add", "added", "save", "reply"} => HasLines(x.now.cart, customer.saw)
  /\ x.at \notin {"place", "save", "reply"} => x.sees = 0
  /\ x.at = "place" => x.sees = customer.saw
  /\ x.at = "added" => carts[x.now.cart].lines > 0
  /\ x.at = "save" => x.now.shown \in {"none", x.show} /\ HasLines(x.now.cart, SawAfter(x))
  /\ x.at = "reply" => Remembers(ScreenAfter(x), SawAfter(x))

CalmInv ==
  ~slip =>
    /\ \A t, u \in InFlight : t = u
    /\ InFlight = {} => Remembers(customer.screen, customer.saw)
    /\ \A t \in InFlight : Calm(turn[t])

LEMMA CalmInitially == ConversationInit => CalmInv
  BY DEF ConversationInit, CalmInv, InFlight, Remembers

LEMMA UnderstoodIsCalm ==
  ASSUME NEW t, NEW x, NEW now, Understood(x, t, now), turn[t].own, turn[t].sees = 0,
         session'.now.state # "HUMAN_HANDOFF",
         Remembers(customer.screen, customer.saw)', HasLines(now.cart, customer.saw)'
  PROVE  Calm(x)'
<1>1. x.own /\ x.sees = 0 /\ x.now.cart \in {now.cart, NoCart}
  BY DEF Understood
<1>2. HasLines(x.now.cart, customer.saw)'
  BY <1>1 DEF HasLines
<1>3. \/ x.at = "save" /\ x.now.shown = x.show
      \/ x.at \in Services
  BY DEF Understood
<1>4. CASE x.at \in Services
  BY <1>1, <1>2, <1>4 DEF Calm, Services
<1>5. CASE x.at = "save" /\ x.now.shown = x.show
  BY <1>1, <1>2, <1>5 DEF Calm, SawAfter
<1> QED  BY <1>3, <1>4, <1>5

LEMMA CalmStep ==
  ASSUME ConversationTyped, CalmInv, [ConversationNext]_conversationVars
  PROVE  CalmInv'
<1> USE FreshIsAContext, IdleIsNone DEF inbox, alarm, rest, conversing
<1> SUFFICES ASSUME ~slip' PROVE CalmInv'
  BY DEF CalmInv
<1>1. ASSUME NEW t \in Turns, InFlight \subseteq {t},
             NEW x \in TurnState, turn' = [turn EXCEPT ![t] = x], Calm(x)'
      PROVE  CalmInv'
  <2>1. turn \in [Turns -> TurnState \union {Idle}]
    BY DEF ConversationTyped, ConversationTypeOK
  <2>2. InFlight' = {t} /\ turn'[t] = x
    BY <1>1, <2>1 DEF InFlight
  <2>3. Calm(turn[t])'
    BY <1>1, <2>2 DEF Calm, ScreenAfter, SawAfter, Remembers, HasLines
  <2> QED  BY <2>2, <2>3 DEF CalmInv
<1>2. ASSUME NEW t \in Turns, InFlight \subseteq {t}, turn' = [turn EXCEPT ![t] = Idle],
             Remembers(customer.screen, customer.saw)'
      PROVE  CalmInv'
  <2>1. turn \in [Turns -> TurnState \union {Idle}]
    BY DEF ConversationTyped, ConversationTypeOK
  <2>2. InFlight' = {}
    BY <1>2, <2>1 DEF InFlight
  <2> QED  BY <1>2, <2>2 DEF CalmInv
\* What the staff, a worker or the clock do.
<1>3. ASSUME ~slip, UNCHANGED <<turn, customer>>, \A c \in Carts : carts'[c].lines = carts[c].lines,
             \/ UNCHANGED session
             \/ session # Idle /\ session'.now \in {session.now, Fresh} /\ session' # Idle
      PROVE  CalmInv'
  <2>1. ASSUME NEW screen, NEW lines, Remembers(screen, lines) PROVE Remembers(screen, lines)'
    <3>1. session # Idle => session.now.cart \in Carts \union {NoCart}
      BY SessionFacts DEF Contexts
    <3>2. Fresh.shown = "none"
      BY DEF Fresh
    <3> QED  BY <1>3, <2>1, <3>1, <3>2 DEF Remembers
  <2>2. ASSUME NEW x \in TurnState, Calm(x), Sound(x) PROVE Calm(x)'
    <3>1. x.now.cart \in Carts \union {NoCart}
      BY DEF TurnState, Contexts
    <3>2. \A lines : HasLines(x.now.cart, lines) => HasLines(x.now.cart, lines)'
      BY <1>3, <3>1 DEF HasLines
    <3>3. ScreenAfter(x)' = ScreenAfter(x) /\ SawAfter(x)' = SawAfter(x)
      BY <1>3 DEF ScreenAfter, SawAfter
    <3>4. Fresh.state # "HUMAN_HANDOFF"
      BY DEF Fresh
    <3>5. /\ x.own
          /\ x.at \notin {"load", "create", "touch", "reply"} =>
               session'.now.state # "HUMAN_HANDOFF"
          /\ x.at = "create" => session' = Idle
          /\ x.at \notin {"place", "save", "reply"} => x.sees = 0
          /\ x.at = "place" => x.sees = customer'.saw
      BY <1>3, <2>2, <3>4 DEF Calm
    <3>6. /\ x.at \notin {"added", "save", "reply"} =>
               Remembers(customer.screen, customer.saw)'
          /\ x.at = "reply" => Remembers(ScreenAfter(x), SawAfter(x))'
      BY <1>3, <2>1, <2>2, <3>3 DEF Calm, Remembers
    <3>7. /\ x.at \notin {"add", "added", "save", "reply"} =>
               HasLines(x.now.cart, customer.saw)'
          /\ x.at = "save" =>
               x.now.shown \in {"none", x.show} /\ HasLines(x.now.cart, SawAfter(x))'
      BY <1>3, <2>2, <3>2, <3>3 DEF Calm, HasLines
    <3>8. x.at = "added" => carts'[x.now.cart].lines > 0
      BY <1>3, <2>2, <3>1 DEF Calm, Sound, CartStages
    <3> QED  BY <3>5, <3>6, <3>7, <3>8 DEF Calm
  <2>3. ASSUME NEW t \in InFlight' PROVE Calm(turn[t])'
    <3>1. t \in Turns /\ turn[t] # Idle /\ turn'[t] = turn[t]
      BY <1>3, <2>3 DEF InFlight
    <3>2. turn[t] \in TurnState /\ Sound(turn[t]) /\ Calm(turn[t])
      BY <1>3, <3>1, TurnFacts DEF CalmInv, InFlight
    <3>3. PICK x \in TurnState : x = turn[t] /\ Sound(x) /\ Calm(x)
      BY <3>2
    <3>4. Calm(x)'
      BY <2>2, <3>3
    <3> QED  BY <3>1, <3>3, <3>4 DEF Calm, ScreenAfter, SawAfter, Remembers, HasLines
  <2>4. InFlight' = InFlight
    BY <1>3 DEF InFlight
  <2>5. Remembers(customer.screen, customer.saw) => Remembers(customer.screen, customer.saw)'
    BY <1>3, <2>1 DEF Remembers
  <2> QED  BY <1>3, <2>3, <2>4, <2>5 DEF CalmInv
<1>4. slip \in BOOLEAN /\ turn \in [Turns -> TurnState \union {Idle}]
  BY DEF ConversationTyped, ConversationTypeOK
\* What a turn knows before it takes a step.
<1>5. ASSUME NEW t \in Turns, turn[t] # Idle, ~slip
      PROVE  /\ turn[t] \in TurnState /\ Sound(turn[t]) /\ Calm(turn[t])
             /\ InFlight \subseteq {t}
  BY <1>5, TurnFacts DEF CalmInv, InFlight
<1>6. ASSUME UNCHANGED <<session, carts, customer>>, NEW screen, NEW lines
      PROVE  Remembers(screen, lines) => Remembers(screen, lines)'
  BY <1>6 DEF Remembers
<1>7. ASSUME NEW t \in Turns, Receive(t) PROVE CalmInv'
  <2>1. ~slip /\ InFlight = {} /\ UNCHANGED <<session, carts, customer>>
    BY <1>4, <1>7 DEF Receive
  <2>2. Remembers(customer.screen, customer.saw)'
    BY <2>1 DEF CalmInv, Remembers
  <2>3. Calm(Began)'
    BY <2>2, BeganFacts DEF Calm, HasLines
  <2> QED  BY <1>1, <1>7, <2>1, <2>3, BeganFacts DEF Receive
<1>8. ASSUME NEW t \in Turns, LoadNothing(t) PROVE CalmInv'
  <2>1. ~slip /\ turn[t] # Idle /\ turn[t].at = "load" /\ session = Idle
        /\ UNCHANGED <<session, carts, customer>>
    BY <1>8 DEF LoadNothing, At
  <2>2. /\ turn[t] \in TurnState /\ Sound(turn[t]) /\ Calm(turn[t]) /\ InFlight \subseteq {t}
    BY <1>5, <2>1
  <2>3. PICK x \in TurnState :
           /\ turn' = [turn EXCEPT ![t] = x] /\ x.at = "create"
           /\ x.own = turn[t].own /\ x.now = turn[t].now /\ x.sees = turn[t].sees
    BY <1>8, <2>2, GotoFacts DEF LoadNothing, Stages
  <2>4. Calm(x)'
    BY <2>1, <2>2, <2>3 DEF Calm, HasLines, Remembers
  <2> QED  BY <1>1, <2>2, <2>3, <2>4
<1>9. ASSUME NEW t \in Turns, Load(t) PROVE CalmInv'
  <2>1. ~slip /\ turn[t] # Idle /\ turn[t].at = "load" /\ session # Idle
        /\ UNCHANGED <<carts, customer>>
    BY <1>9 DEF Load, At
  <2>2. /\ turn[t] \in TurnState /\ Sound(turn[t]) /\ Calm(turn[t]) /\ InFlight \subseteq {t}
    BY <1>5, <2>1
  <2>3. turn[t].own /\ turn[t].sees = 0 /\ Remembers(customer.screen, customer.saw)
    BY <2>1, <2>2 DEF Calm
  <2>4. session.now \in Contexts /\ session.escalated \in BOOLEAN
    BY <2>1, SessionFacts
  <2>5. ASSUME NEW now \in Contexts, Understand(t, now), session'.now.state # "HUMAN_HANDOFF",
               Remembers(customer.screen, customer.saw)', HasLines(now.cart, customer.saw)'
        PROVE  CalmInv'
    <3>1. PICK x : turn' = [turn EXCEPT ![t] = x] /\ Understood(x, t, now)
      BY <2>2, <2>5, UnderstandFacts
    <3>2. Calm(x)'
      BY <2>3, <2>5, <3>1, UnderstoodIsCalm
    <3> QED  BY <1>1, <2>2, <3>1, <3>2 DEF Understood
  <2>6. CASE Expired /\ session' = Row(Fresh, 0, session.escalated) /\ Understand(t, Fresh)
    <3>1. session'.now = Fresh /\ Fresh.state # "HUMAN_HANDOFF" /\ Fresh.shown = "none"
      BY <2>4, <2>6, RowFacts DEF Fresh
    <3>2. Remembers(customer.screen, customer.saw)' /\ HasLines(Fresh.cart, customer.saw)'
      BY <3>1 DEF Remembers, HasLines
    <3> QED  BY <2>5, <2>6, <3>1, <3>2
  <2>7. CASE Goto(t, "touch") /\ UNCHANGED session
    <3>1. PICK x \in TurnState :
             /\ turn' = [turn EXCEPT ![t] = x] /\ x.at = "touch"
             /\ x.own = turn[t].own /\ x.now = turn[t].now /\ x.sees = turn[t].sees
      BY <2>2, <2>7, GotoFacts DEF Stages
    <3>2. Calm(x)'
      BY <2>1, <2>2, <2>7, <3>1 DEF Calm, HasLines, Remembers
    <3> QED  BY <1>1, <2>2, <3>1, <3>2
  <2>8. CASE /\ session.now.state # "HUMAN_HANDOFF"
             /\ Understand(t, session.now) /\ UNCHANGED session
    <3>1. PICK now \in Contexts : now = session.now
      BY <2>4
    <3>2. Remembers(customer.screen, customer.saw)' /\ HasLines(now.cart, customer.saw)'
      BY <2>1, <2>3, <2>8, <3>1 DEF Remembers, HasLines
    <3> QED  BY <2>5, <2>8, <3>1, <3>2
  <2> QED  BY <1>9, <2>6, <2>7, <2>8 DEF Load
<1>10. ASSUME NEW t \in Turns, Create(t) PROVE CalmInv'
  <2>1. ~slip /\ turn[t] # Idle /\ turn[t].at = "create" /\ UNCHANGED <<carts, customer>>
    BY <1>10 DEF Create, At
  <2>2. /\ turn[t] \in TurnState /\ Sound(turn[t]) /\ Calm(turn[t]) /\ InFlight \subseteq {t}
    BY <1>5, <2>1
  <2>3. session = Idle
    BY <2>1, <2>2 DEF Calm
  <2>4. session' = Row(Fresh, 0, FALSE) /\ Goto(t, "created")
    BY <1>10, <2>3 DEF Create
  <2>5. session'.now = Fresh /\ Fresh.state # "HUMAN_HANDOFF" /\ Fresh.shown = "none"
    BY <2>4 DEF Row, Fresh
  <2>6. PICK x \in TurnState :
           /\ turn' = [turn EXCEPT ![t] = x] /\ x.at = "created"
           /\ x.own = turn[t].own /\ x.now = turn[t].now /\ x.sees = turn[t].sees
    BY <2>2, <2>4, GotoFacts DEF Stages
  <2>7. Calm(x)'
    BY <2>1, <2>2, <2>5, <2>6 DEF Calm, HasLines, Remembers
  <2> QED  BY <1>1, <2>2, <2>6, <2>7
<1>11. ASSUME NEW t \in Turns, Created(t) PROVE CalmInv'
  <2>1. ~slip /\ turn[t] # Idle /\ turn[t].at = "created" /\ UNCHANGED <<session, carts, customer>>
    BY <1>11 DEF Created, At
  <2>2. /\ turn[t] \in TurnState /\ Sound(turn[t]) /\ Calm(turn[t]) /\ InFlight \subseteq {t}
    BY <1>5, <2>1
  <2>3. PICK x : turn' = [turn EXCEPT ![t] = x] /\ Understood(x, t, Fresh)
    BY <1>11, <2>2, UnderstandFacts DEF Created
  <2>4. /\ turn[t].own /\ turn[t].sees = 0 /\ session'.now.state # "HUMAN_HANDOFF"
        /\ Remembers(customer.screen, customer.saw)' /\ HasLines(Fresh.cart, customer.saw)'
    BY <2>1, <2>2 DEF Calm, Remembers, HasLines
  <2>5. Calm(x)'
    BY <2>3, <2>4, UnderstoodIsCalm
  <2> QED  BY <1>1, <2>2, <2>3, <2>5 DEF Understood
<1>12. ASSUME NEW t \in Turns, Touch(t) PROVE CalmInv'
  <2>1. ~slip /\ turn[t] # Idle /\ turn[t].at = "touch" /\ UNCHANGED <<carts, customer>>
        /\ session' = [session EXCEPT !.age = 0] /\ turn' = [turn EXCEPT ![t] = Idle]
    BY <1>12 DEF Touch, At
  <2>2. /\ Sound(turn[t]) /\ Calm(turn[t]) /\ InFlight \subseteq {t}
    BY <1>5, <2>1
  <2>3. session # Idle /\ session \in SessionState
    BY <2>1, <2>2, SessionFacts DEF Sound
  <2>4. session'.now = session.now
    BY <2>1, <2>3 DEF SessionState
  <2>5. Remembers(customer.screen, customer.saw)'
    BY <2>1, <2>2, <2>3, <2>4 DEF Calm, Remembers
  <2> QED  BY <1>2, <2>1, <2>2, <2>5
<1>13. ASSUME NEW t \in Turns,
              ShowCart(t) \/ AskForConfirmation(t) \/ ShowAdded(t) \/ StartCheckout(t)
       PROVE  CalmInv'
  <2>1. /\ ~slip /\ turn[t] # Idle /\ UNCHANGED <<session, carts, customer>>
        /\ turn[t].at \in {"VIEW_CART", "PROVIDE_ADDRESS", "retyped", "added", "CHECKOUT"}
    BY <1>13 DEF ShowCart, AskForConfirmation, ShowAdded, StartCheckout, At
  <2>2. /\ turn[t] \in TurnState /\ Calm(turn[t]) /\ InFlight \subseteq {t}
        /\ turn[t].now.cart # NoCart /\ carts[turn[t].now.cart].lines \in 0 .. MaxLines
    BY <1>5, <2>1, TurnFacts DEF CartStages, Sound
  <2>3. PICK x \in TurnState :
           /\ turn' = [turn EXCEPT ![t] = x]
           /\ x.at = "save" /\ x.own = turn[t].own
           /\ x.now.cart = turn[t].now.cart /\ x.now.shown = x.show
           /\ x.sees = IF turn[t].at = "CHECKOUT"
                        THEN turn[t].sees ELSE carts[turn[t].now.cart].lines
    BY <1>13, ShowFacts
  <2>4. HasLines(x.now.cart, SawAfter(x))
    <3>1. CASE turn[t].at = "CHECKOUT"
      BY <2>2, <2>3, <3>1 DEF Calm, HasLines, SawAfter
    <3>2. CASE turn[t].at = "added"
      BY <2>2, <2>3, <3>2 DEF Calm, HasLines, SawAfter
    <3>3. CASE turn[t].at \in {"VIEW_CART", "PROVIDE_ADDRESS", "retyped"}
      BY <2>2, <2>3, <3>3 DEF Calm, HasLines, SawAfter
    <3> QED  BY <2>1, <3>1, <3>2, <3>3
  <2>5. Calm(x)'
    BY <2>1, <2>2, <2>3, <2>4 DEF Calm, HasLines, SawAfter
  <2> QED  BY <1>1, <2>2, <2>3, <2>5
<1>14. ASSUME NEW t \in Turns, EnsureCart(t) PROVE CalmInv'
  <2>1. ~slip /\ turn[t] # Idle /\ turn[t].at = "ADD_TO_CART" /\ UNCHANGED <<session, customer>>
    BY <1>14 DEF EnsureCart, At
  <2>2. /\ turn[t] \in TurnState /\ Sound(turn[t]) /\ Calm(turn[t]) /\ InFlight \subseteq {t}
        /\ Now(t) = turn[t].now /\ Now(t) \in Contexts /\ session # Idle
    BY <1>5, <2>1, TurnFacts DEF Now, Sound
  \* The new cart is nobody's yet.
  <2>3. Remembers(customer.screen, customer.saw)'
    <3>1. session.now.cart # NoCart => session.now.cart \in Carts /\ carts[session.now.cart] # Idle
      BY <2>2, SessionFacts
    <3>2. UNCHANGED carts
          \/ \E c \in Unused : carts' = [carts EXCEPT ![c] = NewCart("PICKUP")]
      BY <1>14, FirstUnused DEF EnsureCart
    <3>3. session.now.cart # NoCart => carts'[session.now.cart] = carts[session.now.cart]
      <4>1. carts \in [Carts -> CartState \union {Idle}]
        BY DEF ConversationTyped, ConversationTypeOK
      <4>2. CASE \E c \in Unused : carts' = [carts EXCEPT ![c] = NewCart("PICKUP")]
        BY <3>1, <4>1, <4>2 DEF Unused
      <4> QED  BY <3>2, <4>2
    <3> QED  BY <2>1, <2>2, <3>3 DEF Calm, Remembers
  <2>4. ASSUME NEW x \in TurnState, turn' = [turn EXCEPT ![t] = x], x.at = "add",
               x.own = turn[t].own, x.sees = turn[t].sees
        PROVE  CalmInv'
    <3>1. Calm(x)'
      BY <2>1, <2>2, <2>3, <2>4 DEF Calm
    <3> QED  BY <1>1, <2>2, <2>4, <3>1
  <2>5. CASE Active(Now(t).cart)
    BY <1>14, <2>2, <2>4, <2>5, GotoFacts DEF EnsureCart, Stages
  <2>6. CASE ~Active(Now(t).cart)
    <3>1. PICK c \in Carts :
            turn' = [turn EXCEPT ![t] = [turn[t] EXCEPT !.at = "add",
                                           !.now = [Now(t) EXCEPT !.cart = c]]]
      BY <1>14, <2>6, FirstUnused DEF EnsureCart, Unused
    <3> DEFINE n == [Now(t) EXCEPT !.cart = c]
               x == [turn[t] EXCEPT !.at = "add", !.now = n]
    <3>2. n \in Contexts
      BY <2>2, <3>1 DEF Contexts
    <3>3. turn' = [turn EXCEPT ![t] = x]
      BY <3>1
    <3> HIDE DEF n
    <3>4. x \in TurnState /\ x.at = "add" /\ x.own = turn[t].own /\ x.sees = turn[t].sees
      BY <2>2, <3>2 DEF TurnState, Stages
    <3> HIDE DEF x
    <3> QED  BY <2>4, <3>3, <3>4
  <2> QED  BY <2>5, <2>6
<1>15. ASSUME NEW t \in Turns, AddItem(t) PROVE CalmInv'
  <2>1. ~slip /\ turn[t] # Idle /\ turn[t].at = "add" /\ UNCHANGED <<session, customer>>
    BY <1>15 DEF AddItem, At
  <2>2. /\ turn[t] \in TurnState /\ Calm(turn[t]) /\ InFlight \subseteq {t}
        /\ turn[t].now.cart \in Carts /\ carts[turn[t].now.cart] \in CartState
        /\ carts[turn[t].now.cart].lines \in 0 .. MaxLines
    BY <1>5, <2>1, TurnFacts DEF CartStages
  <2>3. PICK x \in TurnState :
           /\ turn' = [turn EXCEPT ![t] = x] /\ x.at = "added"
           /\ x.own = turn[t].own /\ x.now = turn[t].now /\ x.sees = turn[t].sees
    BY <1>15, <2>2, GotoFacts DEF AddItem, Stages
  <2>4. carts'[turn[t].now.cart].lines > 0
    <3> DEFINE y == carts[turn[t].now.cart]
    <3>1. carts' = [carts EXCEPT ![turn[t].now.cart] = [y EXCEPT !.lines = y.lines + 1]]
      BY <1>15 DEF AddItem, Now
    <3>2. carts \in [Carts -> CartState \union {Idle}]
      BY DEF ConversationTyped, ConversationTypeOK
    <3>3. carts'[turn[t].now.cart] = [y EXCEPT !.lines = y.lines + 1]
      BY <2>2, <3>1, <3>2
    <3>4. [y EXCEPT !.lines = y.lines + 1].lines = y.lines + 1
      BY <2>2 DEF CartState
    <3>5. y.lines \in Nat
      BY <2>2, BoundsAreNumbers
    <3> QED  BY <3>3, <3>4, <3>5
  <2>5. Calm(x)'
    BY <2>1, <2>2, <2>3, <2>4 DEF Calm
  <2> QED  BY <1>1, <2>2, <2>3, <2>5
<1>16. ASSUME NEW t \in Turns, Retype(t) PROVE CalmInv'
  <2>1. /\ ~slip /\ turn[t] # Idle /\ turn[t].at = "SELECT_ORDER_TYPE"
        /\ UNCHANGED <<session, customer>>
    BY <1>16 DEF Retype, At
  <2>2. /\ turn[t] \in TurnState /\ Calm(turn[t]) /\ InFlight \subseteq {t}
        /\ turn[t].now \in Contexts /\ turn[t].now.cart \in Carts
        /\ carts[turn[t].now.cart] \in CartState /\ session # Idle
    BY <1>5, <2>1, TurnFacts DEF CartStages, Sound
  <2>3. \A c \in Carts : carts'[c].lines = carts[c].lines
    <3> DEFINE y == carts[turn[t].now.cart]
    <3>1. carts' = [carts EXCEPT ![turn[t].now.cart] = [y EXCEPT !.type = turn[t].reply]]
      BY <1>16 DEF Retype, Now
    <3>2. carts \in [Carts -> CartState \union {Idle}]
      BY DEF ConversationTyped, ConversationTypeOK
    <3>3. [y EXCEPT !.type = turn[t].reply].lines = y.lines
      BY <2>2 DEF CartState
    <3> QED  BY <3>1, <3>2, <3>3
  <2>4. Remembers(customer.screen, customer.saw)'
    <3>1. session.now.cart \in Carts \union {NoCart}
      BY <2>2, SessionFacts DEF Contexts
    <3>2. Remembers(customer.screen, customer.saw)
      BY <2>1, <2>2 DEF Calm
    <3> QED  BY <2>1, <2>2, <2>3, <3>1, <3>2 DEF Remembers
  <2>5. PICK now \in Contexts : now = turn[t].now
    BY <2>2
  <2>6. HasLines(now.cart, customer.saw)'
    BY <2>1, <2>2, <2>3, <2>5 DEF Calm, HasLines
  <2>7. CASE Goto(t, "retyped")
    <3>1. PICK x \in TurnState :
             /\ turn' = [turn EXCEPT ![t] = x] /\ x.at = "retyped"
             /\ x.own = turn[t].own /\ x.now = turn[t].now /\ x.sees = turn[t].sees
      BY <2>2, <2>7, GotoFacts DEF Stages
    <3>2. Calm(x)'
      BY <2>1, <2>2, <2>4, <2>5, <2>6, <3>1 DEF Calm, HasLines
    <3> QED  BY <1>1, <2>2, <3>1, <3>2
  <2>8. CASE Outcome(t, turn[t].now, "ASKING_ADDRESS", "none")
    <3>1. PICK x : turn' = [turn EXCEPT ![t] = x] /\ Understood(x, t, now)
      BY <2>2, <2>8, <2>5, OutcomeFacts DEF UsedStates, States, Screens
    <3>2. turn[t].own /\ turn[t].sees = 0 /\ session'.now.state # "HUMAN_HANDOFF"
      BY <2>1, <2>2 DEF Calm
    <3>3. Calm(x)'
      BY <2>4, <2>6, <3>1, <3>2, UnderstoodIsCalm
    <3> QED  BY <1>1, <2>2, <3>1, <3>3 DEF Understood
  <2> QED  BY <1>16, <2>7, <2>8 DEF Retype, Now
<1>17. ASSUME NEW t \in Turns, OpenCart(t) PROVE CalmInv'
  <2>1. /\ ~slip /\ turn[t] # Idle /\ turn[t].at = "CONFIRM"
        /\ UNCHANGED <<session, carts, customer>>
    BY <1>17 DEF OpenCart, At
  <2>2. /\ turn[t] \in TurnState /\ Calm(turn[t]) /\ InFlight \subseteq {t}
        /\ turn[t].now.cart # NoCart
    BY <1>5, <2>1 DEF Sound, CartStages
  <2>3. PICK x \in TurnState :
           /\ turn' = [turn EXCEPT ![t] = x]
           /\ x.at = "place" /\ x.own = turn[t].own /\ x.now = turn[t].now
           /\ x.show = turn[t].show /\ x.sees = carts[turn[t].now.cart].lines
    BY <1>17, OpenCartFacts
  <2>4. Calm(x)'
    BY <2>1, <2>2, <2>3 DEF Calm, HasLines, Remembers
  <2> QED  BY <1>1, <2>2, <2>3, <2>4
<1>18. ASSUME NEW t \in Turns, PlaceOrder(t) PROVE CalmInv'
  <2>1. /\ ~slip /\ turn[t] # Idle /\ turn[t].at = "place" /\ UNCHANGED <<session, customer>>
    BY <1>18 DEF PlaceOrder, At
  <2>2. turn[t] \in TurnState /\ Calm(turn[t]) /\ InFlight \subseteq {t}
    BY <1>5, <2>1
  <2>3. PICK x \in TurnState :
           /\ turn' = [turn EXCEPT ![t] = x]
           /\ x.at = "save" /\ x.own = turn[t].own /\ x.show = turn[t].show /\ x.sees = 0
           /\ x.now.cart = NoCart /\ x.now.shown = "none"
    BY <1>18, <2>2, PlacedFacts
  <2>4. Calm(x)'
    BY <2>1, <2>2, <2>3 DEF Calm, HasLines
  <2> QED  BY <1>1, <2>2, <2>3, <2>4
<1>19. ASSUME NEW t \in Turns, Refuse(t) PROVE CalmInv'
  <2>1. /\ ~slip /\ turn[t] # Idle /\ turn[t].at \notin {"added", "save", "reply"}
        /\ UNCHANGED <<session, carts, customer>>
        /\ turn' = [turn EXCEPT ![t] = Say("none", 0)]
    BY <1>19 DEF Refuse, At
  <2>2. Calm(turn[t]) /\ InFlight \subseteq {t}
    BY <1>5, <2>1
  <2>3. PICK x \in TurnState :
          x = Say("none", 0) /\ x.at = "reply" /\ x.own /\ x.show = "none" /\ x.sees = 0
    BY SayNothing
  <2>4. Remembers(customer.screen, customer.saw)'
    BY <2>1, <2>2 DEF Calm, Remembers
  <2>5. Calm(x)'
    BY <2>3, <2>4 DEF Calm, ScreenAfter, SawAfter
  <2> QED  BY <1>1, <2>1, <2>2, <2>3, <2>5
<1>20. ASSUME NEW t \in Turns, Save(t) PROVE CalmInv'
  <2>1. /\ ~slip /\ turn[t] # Idle /\ turn[t].at = "save" /\ UNCHANGED <<carts, customer>>
        /\ turn' = [turn EXCEPT ![t] = Say(turn[t].show, turn[t].sees)]
    BY <1>20 DEF Save, At
  <2>2. /\ Calm(turn[t]) /\ InFlight \subseteq {t} /\ turn[t].own
        /\ turn[t].show \in Screens /\ turn[t].sees \in 0 .. MaxLines
    BY <1>5, <2>1, TurnFacts DEF Calm
  <2>3. session'.now = turn[t].now
    BY <1>20, <2>2 DEF Save, Row
  <2>4. PICK x \in TurnState :
          /\ x = Say(turn[t].show, turn[t].sees)
          /\ x.at = "reply" /\ x.own /\ x.show = turn[t].show /\ x.sees = turn[t].sees
    BY <2>2, SayFacts
  <2>5. Remembers(ScreenAfter(x), SawAfter(x))'
    BY <2>1, <2>2, <2>3, <2>4 DEF Calm, Remembers, HasLines, ScreenAfter, SawAfter
  <2>6. Calm(x)'
    BY <2>4, <2>5 DEF Calm
  <2> QED  BY <1>1, <2>1, <2>2, <2>4, <2>6
<1>21. ASSUME NEW t \in Turns, Send(t) PROVE CalmInv'
  <2>1. /\ ~slip /\ turn[t] # Idle /\ turn[t].at = "reply" /\ UNCHANGED <<session, carts>>
        /\ turn' = [turn EXCEPT ![t] = Idle]
        /\ customer'.screen = ScreenAfter(turn[t]) /\ customer'.saw = SawAfter(turn[t])
    BY <1>21 DEF Send, At, ScreenAfter, SawAfter
  <2>2. Calm(turn[t]) /\ InFlight \subseteq {t}
    BY <1>5, <2>1
  <2>3. Remembers(customer.screen, customer.saw)'
    BY <2>1, <2>2 DEF Calm, Remembers
  <2> QED  BY <1>2, <2>1, <2>2, <2>3
<1>22. ASSUME NEW t \in Turns, Break(t) \/ Drop(t) PROVE FALSE
  BY <1>22 DEF Break, Drop
<1>23. CASE StaffReply \/ Resolve \/ Tick
  <2>1. slip' = slip /\ UNCHANGED <<turn, customer>> /\ session # Idle
    BY <1>23 DEF StaffReply, Resolve, Tick, Waiting
  <2>2. session \in SessionState /\ session.age \in 0 .. 2
    BY <2>1, SessionFacts
  <2>3. \A c \in Carts : carts'[c].lines = carts[c].lines
    <3>1. CASE Tick
      <4>1. carts \in [Carts -> CartState \union {Idle}]
        BY DEF ConversationTyped, ConversationTypeOK
      <4>2. \A c \in Carts : Active(c) => [carts[c] EXCEPT !.stale = TRUE].lines = carts[c].lines
        BY <4>1 DEF Active, CartState
      <4> QED  BY <3>1, <4>2 DEF Tick
    <3> QED  BY <1>23, <3>1 DEF StaffReply, Resolve
  <2>4. session'.now \in {session.now, Fresh} /\ session' # Idle
    <3>1. CASE StaffReply
      <4>1. session' \in SessionState /\ session'.now = session.now
        BY <2>2, <3>1 DEF StaffReply, SessionState
      <4> QED  BY <4>1
    <3>2. CASE Resolve
      <4>1. session' \in SessionState /\ session'.now = Fresh
        BY <2>2, <3>2 DEF Resolve, Row, SessionState
      <4> QED  BY <4>1
    <3>3. CASE Tick
      <4>1. session' = [session EXCEPT !.age = session.age + 1] /\ session.age + 1 \in 0 .. 2
        BY <2>2, <3>3 DEF Tick
      <4>2. session' \in SessionState /\ session'.now = session.now
        BY <2>2, <4>1 DEF SessionState
      <4> QED  BY <4>2
    <3> QED  BY <1>23, <3>1, <3>2, <3>3
  <2> QED  BY <1>3, <2>1, <2>3, <2>4
<1>24. ASSUME NEW w \in Workers, Sweep(w) \/ WorkerDies(w) PROVE CalmInv'
  <2>1. slip' = slip /\ UNCHANGED <<turn, customer, carts>>
    BY <1>24 DEF Sweep, FindWaiting, Claim, Emit, WorkerDies
  <2>2. UNCHANGED session \/ (session # Idle /\ session' = [session EXCEPT !.escalated = TRUE])
    BY <1>24 DEF Sweep, FindWaiting, Claim, Emit, WorkerDies, ConversationTyped
  <2>3. CASE session # Idle /\ session' = [session EXCEPT !.escalated = TRUE]
    <3>1. session \in SessionState
      BY <2>3, SessionFacts
    <3>2. session' \in SessionState /\ session'.now = session.now
      BY <2>3, <3>1 DEF SessionState
    <3> QED  BY <1>3, <2>1, <2>3, <3>2
  <2> QED  BY <1>3, <2>1, <2>2, <2>3
<1>25. CASE UNCHANGED conversationVars
  BY <1>3, <1>25 DEF conversationVars
<1> QED  BY <1>7, <1>8, <1>9, <1>10, <1>11, <1>12, <1>13, <1>14, <1>15, <1>16, <1>17, <1>18,
            <1>19, <1>20, <1>21, <1>22, <1>23, <1>24, <1>25 DEF ConversationNext, Work

LEMMA OrderedStep ==
  ASSUME ConversationTyped, CalmInv, OrderedAsShown, [ConversationNext]_conversationVars
  PROVE  OrderedAsShown'
<1> USE DEF inbox, alarm, rest, conversing
<1>1. CASE UNCHANGED orders
  BY <1>1 DEF OrderedAsShown
<1>2. ASSUME NEW t \in Turns, PlaceOrder(t) PROVE OrderedAsShown'
  <2> DEFINE new == [cart |-> Now(t).cart, lines |-> turn[t].sees, saw |-> customer.saw,
                     slip |-> slip]
  <2>1. turn[t] # Idle /\ turn[t].at = "place" /\ orders' = Append(orders, new)
    BY <1>2 DEF PlaceOrder, At
  <2>2. slip \/ turn[t].sees = customer.saw
    BY <2>1 DEF CalmInv, Calm, InFlight
  <2>3. new.slip \/ new.lines = new.saw
    BY <2>2
  <2>4. orders \in Seq(OrderState)
    BY DEF ConversationTyped
  <2>5. new \in OrderState
    BY <2>1, TurnFacts DEF OrderState, CartStages, Now, ConversationTyped, ConversationTypeOK
  <2> HIDE DEF new
  <2>6. /\ Len(orders) \in Nat
        /\ DOMAIN orders = 1 .. Len(orders) /\ DOMAIN orders' = 1 .. Len(orders) + 1
        /\ \A i \in 1 .. Len(orders) : orders'[i] = orders[i]
        /\ orders'[Len(orders) + 1] = new
    BY <2>1, <2>4, <2>5
  <2> QED  BY <2>3, <2>6 DEF OrderedAsShown
<1>3. UNCHANGED orders \/ \E t \in Turns : PlaceOrder(t)
  BY DEF ConversationNext, Work, conversationVars, Receive, LoadNothing, Create, Created, Load,
    Touch, ShowCart, StartCheckout, AskForConfirmation, ShowAdded, EnsureCart, AddItem, Retype,
    OpenCart, Refuse, Save, Send, Break, Drop, StaffReply, Resolve, Sweep, FindWaiting, Claim,
    Emit, WorkerDies, Tick
<1> QED  BY <1>1, <1>2, <1>3

----------------------------------------------------------------------------
(* The handoff.  Whoever came by its session before it was handed off is   *)
(* remembered; who comes while it waits only touches it.                   *)

Harmless == {"load", "touch", "reply"}

AwareInv ==
  Waiting => \A t \in InFlight : turn[t].at \in Harmless \/ t \in unaware

LEMMA AwareStep ==
  ASSUME ConversationTyped, AwareInv, [ConversationNext]_conversationVars
  PROVE  AwareInv'
<1> USE IdleIsNone DEF inbox, alarm, rest, conversing
<1>1. turn \in [Turns -> TurnState \union {Idle}]
  BY DEF ConversationTyped, ConversationTypeOK
<1>2. ASSUME UNCHANGED <<turn, unaware>>, Waiting' => Waiting PROVE AwareInv'
  BY <1>2 DEF AwareInv, InFlight
\* Most steps are of a turn that has read the session already.
<1>3. ASSUME NEW t \in Turns, turn[t] # Idle, turn[t].at \notin Harmless, UNCHANGED unaware,
             Waiting' => Waiting, NEW x, turn' = [turn EXCEPT ![t] = x]
      PROVE  AwareInv'
  BY <1>1, <1>3 DEF AwareInv, InFlight
<1>4. ASSUME NEW t \in Turns, UNCHANGED unaware, Waiting' => Waiting,
             NEW x, turn' = [turn EXCEPT ![t] = x], x = Idle \/ x.at \in Harmless
      PROVE  AwareInv'
  BY <1>1, <1>4 DEF AwareInv, InFlight
<1>5. ASSUME NEW t \in Turns, Receive(t) PROVE AwareInv'
  <2>1. /\ turn' = [turn EXCEPT ![t] = Began] /\ unaware' = unaware \ {t}
        /\ UNCHANGED session
    BY <1>5 DEF Receive
  <2>2. Began.at \in Harmless
    BY BeganFacts DEF Harmless
  <2> QED  BY <1>1, <2>1, <2>2 DEF AwareInv, InFlight, Waiting
<1>6. ASSUME NEW t \in Turns, Load(t) PROVE AwareInv'
  <2>1. turn[t] # Idle /\ turn[t].at = "load" /\ session # Idle /\ UNCHANGED unaware
    BY <1>6 DEF Load, At
  <2>2. turn[t] \in TurnState
    BY <2>1, TurnFacts
  <2>3. CASE Goto(t, "touch") /\ UNCHANGED session
    <3>1. PICK x \in TurnState : turn' = [turn EXCEPT ![t] = x] /\ x.at = "touch"
      BY <2>2, <2>3, GotoFacts DEF Stages
    <3> QED  BY <1>4, <2>1, <2>3, <3>1 DEF Harmless, Waiting
  <2>4. CASE session' = Row(Fresh, 0, session.escalated)
    <3>1. session'.now = Fresh
      BY <2>4 DEF Row
    <3> QED  BY <3>1 DEF AwareInv, Waiting, Fresh
  <2>5. CASE session.now.state # "HUMAN_HANDOFF" /\ UNCHANGED session
    BY <2>5 DEF AwareInv, Waiting
  <2> QED  BY <1>6, <2>3, <2>4, <2>5 DEF Load
<1>7. ASSUME NEW t \in Turns, LoadNothing(t) PROVE AwareInv'
  BY <1>7 DEF LoadNothing, AwareInv, Waiting
<1>8. ASSUME NEW t \in Turns, Create(t) PROVE AwareInv'
  <2>1. turn[t] # Idle /\ turn[t].at = "create" /\ UNCHANGED unaware
    BY <1>8 DEF Create, At
  <2>2. CASE session = Idle
    <3>1. session'.now = Fresh
      BY <1>8, <2>2 DEF Create, Row
    <3> QED  BY <3>1 DEF AwareInv, Waiting, Fresh
  <2>3. CASE session # Idle
    BY <1>3, <1>8, <2>1, <2>3 DEF Create, Harmless, Waiting
  <2> QED  BY <2>2, <2>3
<1>9. ASSUME NEW t \in Turns, Created(t) PROVE AwareInv'
  <2>1. turn[t] # Idle /\ turn[t].at = "created" /\ UNCHANGED rest /\ Understand(t, Fresh)
    BY <1>9 DEF Created, At
  <2>2. PICK x : turn' = [turn EXCEPT ![t] = x]
    BY <2>1, TurnFacts, FreshIsAContext, UnderstandFacts
  <2> QED  BY <1>3, <2>1, <2>2 DEF Harmless, Waiting
<1>10. ASSUME NEW t \in Turns,
              ShowCart(t) \/ AskForConfirmation(t) \/ ShowAdded(t) \/ StartCheckout(t)
       PROVE  AwareInv'
  <2>1. turn[t] # Idle /\ turn[t].at \notin Harmless /\ UNCHANGED rest
    BY <1>10 DEF ShowCart, AskForConfirmation, ShowAdded, StartCheckout, At, Harmless
  <2>2. PICK x \in TurnState : turn' = [turn EXCEPT ![t] = x]
    BY <1>10, ShowFacts
  <2> QED  BY <1>3, <2>1, <2>2 DEF Waiting
<1>11. ASSUME NEW t \in Turns,
              EnsureCart(t) \/ AddItem(t) \/ Retype(t) \/ OpenCart(t) \/ PlaceOrder(t)
              \/ Refuse(t) \/ Break(t)
       PROVE  AwareInv'
  <2>1. turn[t] # Idle /\ turn[t].at \notin Harmless /\ UNCHANGED <<session, unaware>>
    BY <1>11 DEF EnsureCart, AddItem, Retype, OpenCart, PlaceOrder, Refuse, Break, At, Harmless
  <2>2. \E x : turn' = [turn EXCEPT ![t] = x]
    BY <1>11 DEF EnsureCart, AddItem, Retype, OpenCart, PlaceOrder, Refuse, Break, Goto, Outcome
  <2> QED  BY <1>3, <2>1, <2>2 DEF Waiting
<1>12. ASSUME NEW t \in Turns, Touch(t) PROVE AwareInv'
  <2>1. /\ session # Idle /\ session' = [session EXCEPT !.age = 0] /\ UNCHANGED unaware
        /\ turn' = [turn EXCEPT ![t] = Idle]
    BY <1>12, TurnFacts DEF Touch, At, Sound
  <2>2. session \in SessionState
    BY <2>1, SessionFacts
  <2>3. session'.now = session.now
    BY <2>1, <2>2 DEF SessionState
  <2> QED  BY <1>4, <2>1, <2>3 DEF Waiting
<1>13. ASSUME NEW t \in Turns, Send(t) \/ Drop(t) PROVE AwareInv'
  BY <1>4, <1>13 DEF Send, Drop, Waiting
<1>14. ASSUME NEW t \in Turns, Save(t) PROVE AwareInv'
  <2>1. turn[t] # Idle /\ turn[t].at = "save"
    BY <1>14 DEF Save, At
  <2>2. turn[t].show \in Screens /\ turn[t].sees \in 0 .. MaxLines /\ session # Idle
    BY <2>1, TurnFacts DEF Sound
  <2> DEFINE x == Say(turn[t].show, turn[t].sees)
  <2>3. turn' = [turn EXCEPT ![t] = x] /\ x.at \in Harmless
    BY <1>14, <2>2, SayFacts DEF Save, Harmless
  <2> HIDE DEF x
  <2>4. CASE ~turn[t].own
    <3>1. UNCHANGED <<session, unaware>>
      BY <1>14, <2>4 DEF Save
    <3> QED  BY <1>4, <2>3, <3>1 DEF Waiting
  <2>5. CASE turn[t].own /\ turn[t].now.state # "HUMAN_HANDOFF"
    <3>1. session'.now = turn[t].now
      BY <1>14, <2>5 DEF Save, Row
    <3> QED  BY <2>5, <3>1 DEF AwareInv, Waiting
  <2>6. CASE turn[t].own /\ turn[t].now.state = "HUMAN_HANDOFF"
    <3>1. unaware' = {u \in InFlight \ {t} : ~At(u, "load")}
      BY <1>14, <2>6 DEF Save
    <3>2. ASSUME NEW u \in Turns, u # t, turn'[u] # Idle
          PROVE  turn'[u].at \in Harmless \/ u \in unaware'
      BY <1>1, <2>3, <3>1, <3>2 DEF InFlight, At, Harmless
    <3>3. turn'[t].at \in Harmless
      BY <1>1, <2>3
    <3> QED  BY <3>2, <3>3 DEF AwareInv, InFlight
  <2> QED  BY <2>4, <2>5, <2>6
<1>15. CASE StaffReply \/ Tick
  <2>1. /\ session # Idle /\ UNCHANGED <<turn, unaware>>
        /\ \/ session' = [session EXCEPT !.escalated = FALSE]
           \/ session' = [session EXCEPT !.age = session.age + 1]
    BY <1>15 DEF StaffReply, Tick
  <2>2. session \in SessionState
    BY <2>1, SessionFacts
  <2>3. session'.now = session.now
    BY <2>1, <2>2 DEF SessionState
  <2> QED  BY <1>2, <2>1, <2>3 DEF Waiting
<1>16. CASE Resolve
  <2>1. session'.now = Fresh
    BY <1>16 DEF Resolve, Row
  <2> QED  BY <2>1 DEF AwareInv, Waiting, Fresh
<1>17. ASSUME NEW w \in Workers, Sweep(w) \/ WorkerDies(w) PROVE AwareInv'
  <2>1. UNCHANGED <<turn, unaware>>
    BY <1>17 DEF Sweep, FindWaiting, Claim, Emit, WorkerDies
  <2>2. UNCHANGED session \/ (session # Idle /\ session' = [session EXCEPT !.escalated = TRUE])
    BY <1>17 DEF Sweep, FindWaiting, Claim, Emit, WorkerDies, ConversationTyped
  <2>3. CASE session # Idle /\ session' = [session EXCEPT !.escalated = TRUE]
    <3>1. session \in SessionState
      BY <2>3, SessionFacts
    <3>2. session'.now = session.now
      BY <2>3, <3>1 DEF SessionState
    <3> QED  BY <1>2, <2>1, <2>3, <3>2 DEF Waiting
  <2> QED  BY <1>2, <2>1, <2>2, <2>3 DEF Waiting
<1>18. CASE UNCHANGED conversationVars
  BY <1>2, <1>18 DEF conversationVars, Waiting
<1> QED  BY <1>5, <1>6, <1>7, <1>8, <1>9, <1>10, <1>11, <1>12, <1>13, <1>14, <1>15, <1>16,
            <1>17, <1>18 DEF ConversationNext, Work

\* Only the staff, the day and an unaware turn's save take it back.
LEMMA HandoffStep ==
  ASSUME ConversationTyped, AwareInv, ConversationNext, Waiting,
         session'.now.state # "HUMAN_HANDOFF"
  PROVE  \/ Resolve
         \/ Expired /\ \E t \in Turns : Load(t)
         \/ \E t \in unaware : Save(t)
<1> USE DEF inbox, alarm, rest, conversing
<1>1. session # Idle /\ session.now.state = "HUMAN_HANDOFF"
  BY DEF Waiting
<1>2. session \in SessionState /\ session.age \in 0 .. 2
  BY <1>1, SessionFacts
<1>3. ASSUME UNCHANGED session PROVE FALSE
  BY <1>1, <1>3
<1>4. ASSUME NEW t \in Turns, Save(t) PROVE t \in unaware
  <2>1. turn[t] # Idle /\ turn[t].at = "save"
    BY <1>4 DEF Save, At
  <2> QED  BY <2>1 DEF AwareInv, InFlight, Harmless
<1>5. ASSUME NEW t \in Turns, Load(t) PROVE Expired
  BY <1>3, <1>5 DEF Load
<1>6. ASSUME NEW t \in Turns, Create(t) PROVE FALSE
  BY <1>1, <1>3, <1>6 DEF Create
<1>7. ASSUME NEW e \in BOOLEAN, NEW age,
             \/ session' = [session EXCEPT !.age = age]
             \/ session' = [session EXCEPT !.escalated = e]
      PROVE  FALSE
  <2>1. session'.now = session.now
    BY <1>2, <1>7 DEF SessionState
  <2> QED  BY <1>1, <2>1
<1>8. CASE StaffReply \/ Tick \/ \E t \in Turns : Touch(t)
  BY <1>7, <1>8 DEF StaffReply, Tick, Touch
<1>9. ASSUME NEW w \in Workers, Sweep(w) \/ WorkerDies(w) PROVE FALSE
  BY <1>3, <1>7, <1>9 DEF Sweep, FindWaiting, Claim, Emit, WorkerDies
<1>10. ASSUME NEW t \in Turns,
             \/ Receive(t) \/ LoadNothing(t) \/ Created(t)
             \/ ShowCart(t) \/ StartCheckout(t) \/ AskForConfirmation(t) \/ ShowAdded(t)
             \/ EnsureCart(t) \/ AddItem(t) \/ Retype(t)
             \/ OpenCart(t) \/ PlaceOrder(t) \/ Refuse(t) \/ Send(t) \/ Break(t) \/ Drop(t)
      PROVE  FALSE
  <2>1. UNCHANGED session
    BY <1>10 DEF Receive, LoadNothing, Created, ShowCart, StartCheckout, AskForConfirmation,
      ShowAdded, EnsureCart, AddItem, Retype, OpenCart, PlaceOrder, Refuse, Send, Break, Drop
  <2> QED  BY <1>3, <2>1
<1> QED  BY <1>4, <1>5, <1>6, <1>8, <1>9, <1>10 DEF ConversationNext, Work

----------------------------------------------------------------------------
(* The customer's side.  The parts share no state, so each keeps its own   *)
(* invariant whichever of them a behaviour is one of.                      *)

CustomerSideInv == RoutingTypeOK /\ RoutingInv /\ PricingTyped /\ PricingInv /\ BillInv

THEOREM CustomerSideCorrect == Spec => []CustomerSideInv
<1>1. Init => CustomerSideInv
  BY RoutingInitially, RoutingTypesInit, PricingTypesInit, PricingInitially,
     BillInitially
     DEF Init, CustomerSideInv
<1>2. CustomerSideInv /\ [Next]_vars => CustomerSideInv'
  <2> SUFFICES ASSUME CustomerSideInv, [Next]_vars PROVE CustomerSideInv'
    OBVIOUS
  <2>1. [RoutingNext]_routingVars /\ [PricingNext]_pricingVars
    BY DEF Next, vars
  <2> QED  BY <2>1, RoutingStep, RoutingTypes, PricingTypesStep, PricingStep,
         BillStep
         DEF CustomerSideInv
<1> QED  BY <1>1, <1>2, PTL DEF Spec

(***************************************************************************)
(* NotificationRouting: a recipient of an update has one notice that       *)
(* stands, and one who was planned for is not left with suppressed rows    *)
(* only while a channel remains, for any number of recipients, plans and   *)
(* edits of the settings (dispatcher.ts and sender.ts, suppress).          *)
(***************************************************************************)
THEOREM OneNoticeForEach == Spec => []OneNoticeEach
<1>1. CustomerSideInv => OneNoticeEach
  BY OneNotice DEF CustomerSideInv
<1> QED  BY <1>1, CustomerSideCorrect, PTL

(***************************************************************************)
(* Pricing: what an order charges is what the cart's last answer showed,   *)
(* unless the menu, the settings or the address moved in between, and its  *)
(* bill is never less than its delivery fee nor a part of it negative, for *)
(* any menu, any negative options, any settings, zones and cart (priceCart,*)
(* computeOrderTotals, priceAndPresent and checkout).                      *)
(***************************************************************************)
THEOREM ChargedAsShown == Spec => []PricesHold
<1>1. CustomerSideInv => PricesHold
  BY DEF CustomerSideInv, PricingInv, OrderSaysWhatWasShown, BillInv, BillIsSound, PricesHold
<1> QED  BY <1>1, CustomerSideCorrect, PTL

ConversationInv ==
  ConversationTyped /\ AlarmInv /\ StaleInv /\ CalmInv /\ AwareInv /\ OrderedAsShown

(***************************************************************************)
(* The inductive invariant: types and references, what the alarm's flag    *)
(* counts, which carts a turn may name, what the customer sees, and which  *)
(* turns do not know of a handoff.                                         *)
(***************************************************************************)
THEOREM ConversationCorrect == Spec => []ConversationInv
<1>1. Init => ConversationInv
  <2>1. ConversationInit => OrderedAsShown /\ AwareInv
    BY DEF ConversationInit, OrderedAsShown, AwareInv, Waiting
  <2> QED  BY <2>1, ConversationTypesInit, AlarmInitially, StaleInitially, CalmInitially
             DEF Init, ConversationInv
<1>2. ConversationInv /\ [Next]_vars => ConversationInv'
  <2> SUFFICES ASSUME ConversationInv, [Next]_vars PROVE ConversationInv'
    OBVIOUS
  <2>1. [ConversationNext]_conversationVars
    BY DEF Next, vars
  <2> QED  BY <2>1, ConversationTypesStep, AlarmStep, StaleStep, CalmStep, AwareStep,
               OrderedStep DEF ConversationInv
<1> QED  BY <1>1, <1>2, PTL DEF Spec

(***************************************************************************)
(* Type correctness of the customer's side: a session and a turn name only *)
(* carts that exist, of an order type the branch has, and every line of a  *)
(* cart is priced or refused.                                              *)
(***************************************************************************)
THEOREM TypeCorrect == Spec => []TypeOK
<1>1. ConversationInv /\ CustomerSideInv => TypeOK
  BY DEF ConversationInv, ConversationTyped, CustomerSideInv, PricingTyped, TypeOK
<1> QED  BY <1>1, ConversationCorrect, CustomerSideCorrect, PTL

(***************************************************************************)
(* The handoff's alarm is raised, about to be or lost exactly once while   *)
(* handoffEscalatedAt is set and never while it is not, for any number of  *)
(* workers, turns and staff replies (sweepUnansweredHandoffs).             *)
(***************************************************************************)
THEOREM AlarmsAreOnce == Spec => []AlarmOncePerWait
<1>1. ConversationInv => AlarmOncePerWait
  BY DEF ConversationInv, AlarmInv, AlarmOncePerWait, Raising, Escalated
<1> QED  BY <1>1, ConversationCorrect, PTL

(***************************************************************************)
(* No order is placed from a cart that was in use when its session expired,*)
(* for any number of turns, carts and messages (isConversationExpired and  *)
(* loadSession).                                                           *)
(***************************************************************************)
THEOREM StaleCartsAreLeft == Spec => []NoStaleOrders
<1>1. ConversationInv => NoStaleOrders
  BY DEF ConversationInv, StaleInv
<1> QED  BY <1>1, ConversationCorrect, PTL

(***************************************************************************)
(* Between turns that neither overlapped nor failed half way, the reply    *)
(* ids a session remembers are those of the screen the customer has        *)
(* (shownReplyIdsFrom and save).                                           *)
(***************************************************************************)
THEOREM NumbersKeepTheirMeaning == Spec => []NumbersMeanTheScreen
<1>1. ConversationInv => NumbersMeanTheScreen
  BY DEF ConversationInv, CalmInv, NumbersMeanTheScreen, Remembers
<1> QED  BY <1>1, ConversationCorrect, PTL

(***************************************************************************)
(* An order has the lines of the last summary on the customer's screen     *)
(* unless turns overlapped or failed half way, for any number of turns,    *)
(* carts and lines (cartSummary and placeOrder).                           *)
(***************************************************************************)
THEOREM ConfirmedIsOrdered == Spec => []OrderedAsShown
<1>1. ConversationInv => OrderedAsShown
  BY DEF ConversationInv
<1> QED  BY <1>1, ConversationCorrect, PTL

(***************************************************************************)
(* A conversation that waits for a person goes back to the bot only when   *)
(* the staff resolve it, when a message finds it expired, or by a turn     *)
(* that had read the session before the handoff was saved, for any number  *)
(* of turns, whatever overlapped or failed (loadSession, handle, save and  *)
(* resolve).                                                               *)
(***************************************************************************)
THEOREM HandoffsAreKept == Spec => HandoffIsKept
<1> DEFINE Kept == \/ Resolve
                   \/ Expired /\ \E t \in Turns : Load(t)
                   \/ \E t \in unaware : Save(t)
<1>1. ConversationInv /\ [Next]_vars =>
        [Waiting /\ session'.now.state # "HUMAN_HANDOFF" => Kept]_conversationVars
  <2> SUFFICES ASSUME ConversationInv, [Next]_vars, conversationVars' # conversationVars,
                      Waiting, session'.now.state # "HUMAN_HANDOFF"
               PROVE  Kept
    OBVIOUS
  <2>1. ConversationNext
    BY DEF Next, vars
  <2> QED  BY <2>1, HandoffStep DEF ConversationInv
<1> QED  BY <1>1, ConversationCorrect, PTL DEF Spec, HandoffIsKept

=============================================================================
