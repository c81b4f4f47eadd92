------------------------- MODULE NotificationRouting -------------------------
(***************************************************************************)
(* Who is told of an event, and over which channel: what the dispatcher    *)
(* plans (packages/notifications/src/dispatcher.ts), what the sender makes *)
(* of it (packages/notifications/src/sender.ts), the rules of both         *)
(* (packages/domain/src/notifications.ts) and the settings a tenant may    *)
(* edit meanwhile (apps/api/src/notifications/notifications.service.ts).   *)
(*                                                                         *)
(* One event.  NotificationDispatcher and NotificationSender have the      *)
(* cursor, the claims and the retries: here a batch may be dispatched      *)
(* again until the cursor is past it, and a delivery is one step, for the  *)
(* settings it reads are read in one transaction.  The tenant has a number *)
(* for the branch, one for all of them, or neither.  No spec is MARKETING, *)
(* so that the rule on consent never applies; the wording, providers and   *)
(* e-mail (which no spec lists) are left out.                              *)
(***************************************************************************)
EXTENDS Naturals, Sequences, FiniteSets

CONSTANTS
  Members,       \* of the tenant's staff
  MaxPlans,      \* bound: times the event is dispatched
  MaxSettings    \* bound: edits of the settings, messages of a recipient, windows that close

ASSUME RoutingBoundsAssumption == MaxPlans \in Nat /\ MaxSettings \in Nat

VARIABLES
  event,       \* what happened
  answered,    \* the conversation of an alarm has left HUMAN_HANDOFF
  off,         \* notification_preferences that say no; no row means yes
  team,        \* members with an active account and membership, orders.view and the branch
  phones,      \* members with a phone number
  language,    \* the customer's preferred_language
  numbers,     \* the active WhatsApp numbers
  template,    \* the event's template, by number and language
  window,      \* recipients whose last message is less than a day old
  row,         \* notifications, by recipient and channel
  plans,       \* times the event was dispatched
  passed,      \* the cursor is past it
  rethought,   \* history variable: recipient types whose preferences changed between two plans
  settings     \* counts edits

settingVars == <<answered, off, team, numbers, template, window, settings>>
routingVars == <<event, phones, language, settingVars, row, plans, passed, rethought>>

----------------------------------------------------------------------------
(* The specs.                                                              *)

Customer == "customer"
Recipients == {Customer} \union Members
RecipientType(r) == IF r = Customer THEN "CUSTOMER" ELSE "STAFF"
Channels == {"DASHBOARD", "WHATSAPP", "SMS"}

Update(channels, staff) ==
  [channels |-> channels, mode |-> "first-available", customer |-> TRUE, staff |-> staff]

\* CANCELLED and REJECTED are as CONFIRMED; ACCEPTED, OUT_FOR_DELIVERY, DELIVERED
\* and COMPLETED as READY.
OrderNotifications ==
  [CONFIRMED |-> Update(<<"WHATSAPP", "SMS">>, TRUE), READY |-> Update(<<"WHATSAPP">>, FALSE)]

Alarm == [channels |-> <<"DASHBOARD", "WHATSAPP", "SMS">>, mode |-> "all-channels",
          customer |-> FALSE, staff |-> TRUE]

Events == DOMAIN OrderNotifications \union {"ORDER_UNACKNOWLEDGED", "HANDOFF_UNANSWERED"}

\* specFor(), of the events that have one, and notificationSpecByTemplateKey().
NoticeSpec(e) == IF e \in DOMAIN OrderNotifications THEN OrderNotifications[e] ELSE Alarm

notice == NoticeSpec(event)
Listed == {notice.channels[i] : i \in DOMAIN notice.channels}

RoutingInit ==
  /\ event \in Events
  /\ answered = FALSE
  /\ off = {}
  /\ team = Members
  /\ phones \in SUBSET Members
  /\ language \in {"EN", "UR"}
  /\ numbers \in {{}, {"branch", "tenant"}}
  /\ template = [n \in {"branch", "tenant"} |-> [l \in {"EN", "UR"} |->
                   IF n = "tenant" /\ l = "EN" THEN "APPROVED" ELSE "NONE"]]
  /\ window = {}
  /\ row = [r \in Recipients |-> [c \in Channels |-> "NONE"]]
  /\ plans = 0
  /\ passed = FALSE
  /\ rethought = {}
  /\ settings = 0

----------------------------------------------------------------------------
(* The dispatcher.                                                         *)

\* A customer always has a phone number; a member without one has the dashboard.
Usable(r, c) ==
  /\ <<RecipientType(r), c>> \notin off
  /\ r # Customer => c = "DASHBOARD" \/ r \in phones

ChannelsFor(r) ==
  {c \in Listed : Usable(r, c) /\
     (notice.mode = "first-available" =>
        \E i \in DOMAIN notice.channels : notice.channels[i] = c /\
          \A j \in 1 .. i - 1 : ~Usable(r, notice.channels[j]))}

\* The customer of the order, and staffFor() its branch.
Told == (IF notice.customer THEN {Customer} ELSE {}) \union (IF notice.staff THEN team ELSE {})

\* An alarm for a conversation somebody has answered tells nobody.
Silent == event = "HANDOFF_UNANSWERED" /\ answered

\* Mutant: a row that is there is written over.
PlannedAnew(r, c) ==
  IF r \in Told /\ c \in ChannelsFor(r) /\ ~Silent THEN "PENDING" ELSE row[r][c]

\* createMany with skipDuplicates: one row for an event, recipient and channel.
Planned(r, c) ==
  IF r \in Told /\ c \in ChannelsFor(r) /\ ~Silent /\ row[r][c] = "NONE"
  THEN "PENDING" ELSE row[r][c]

Plan ==
  /\ ~passed
  /\ plans < MaxPlans
  /\ row' = [r \in Recipients |-> [c \in Channels |-> Planned(r, c)]]
  /\ plans' = plans + 1
  /\ UNCHANGED <<event, phones, language, settingVars, passed, rethought>>

\* The rows and the cursor are written in two transactions: in between, a crash
\* has the event dispatched again.
Advance ==
  /\ ~passed
  /\ plans > 0
  /\ passed' = TRUE
  /\ UNCHANGED <<event, phones, language, settingVars, row, plans, rethought>>

----------------------------------------------------------------------------
(* The sender.                                                             *)

\* The branch's own number wins over the tenant's.
Account == CHOOSE n \in numbers : "branch" \in numbers => n = "branch"

RecipientLanguage(r) == IF r = Customer THEN language ELSE "EN"

\* resolveWhatsAppSendMode(), once there is an account to send from.
SendMode(r) ==
  CASE r \in window -> "SESSION"
    [] r \notin window /\ template[Account][RecipientLanguage(r)] = "APPROVED" -> "TEMPLATE"
    [] OTHER -> "NONE"

MaySend(r, c) == c = "WHATSAPP" => numbers # {} /\ SendMode(r) # "NONE"

Due(r, c) == row[r][c] = "PENDING"

Settle(r, c, status) ==
  /\ row' = [row EXCEPT ![r][c] = status]
  /\ UNCHANGED <<event, phones, language, settingVars, plans, passed, rethought>>

Delivered(r, c) == Due(r, c) /\ MaySend(r, c) /\ Settle(r, c, "SENT")

\* The provider refuses it for good, or once too often.  Nothing is promoted.
Undelivered(r, c) == Due(r, c) /\ MaySend(r, c) /\ Settle(r, c, "FAILED")

\* The channels suppress() promotes to: the next one of the spec, as the registry
\* has an adapter for each.  What the recipient may be told over is not asked again.
NextChannels(c) ==
  IF notice.mode = "first-available"
  THEN {notice.channels[i] : i \in {j \in DOMAIN notice.channels :
                                    j > 1 /\ notice.channels[j - 1] = c}}
  ELSE {}

\* What becomes of the rows of a recipient whose row of c is suppressed.
Promote(r, c, d) ==
  IF d = c THEN "SUPPRESSED"
  ELSE IF d \in NextChannels(c) /\ row[r][d] = "NONE" THEN "PENDING" ELSE row[r][d]

Suppress(r, c) ==
  /\ Due(r, c)
  /\ ~MaySend(r, c)
  /\ row' = [row EXCEPT ![r] = [d \in Channels |-> Promote(r, c, d)]]
  /\ UNCHANGED <<event, phones, language, settingVars, plans, passed, rethought>>

Deliver(r, c) == Delivered(r, c) \/ Undelivered(r, c) \/ Suppress(r, c)

----------------------------------------------------------------------------
(* Meanwhile.                                                              *)

EditSettings ==
  /\ settings < MaxSettings
  /\ settings' = settings + 1
  /\ UNCHANGED <<event, phones, language, row, plans, passed>>

\* updatePreferences(): the settings page turns one choice at a time.
UpdatePreferences ==
  /\ EditSettings
  /\ \E type \in {"CUSTOMER", "STAFF"}, c \in Listed :
       /\ off' = IF <<type, c>> \in off THEN off \ {<<type, c>>} ELSE off \union {<<type, c>>}
       /\ rethought' = IF plans > 0 THEN rethought \union {type} ELSE rethought
  /\ UNCHANGED <<answered, team, numbers, template, window>>

\* createAccount(), or updateAccount() that turns a number on.
ConnectNumber ==
  /\ EditSettings
  /\ \E n \in {"branch", "tenant"} \ numbers : numbers' = numbers \union {n}
  /\ UNCHANGED <<answered, off, team, template, window, rethought>>

\* updateAccount() that turns it off.
DisconnectNumber ==
  /\ EditSettings
  /\ \E n \in numbers : numbers' = numbers \ {n}
  /\ UNCHANGED <<answered, off, team, template, window, rethought>>

SetTemplate(n, l, status) ==
  /\ EditSettings
  /\ template' = [template EXCEPT ![n][l] = status]
  /\ UNCHANGED <<answered, off, team, numbers, window, rethought>>

\* createTemplate(): of a number that was connected, and a draft.
CreateTemplate ==
  \E n \in numbers, l \in {"EN", "UR"} :
    template[n][l] = "NONE" /\ SetTemplate(n, l, "DRAFT")

\* updateTemplate(): any status over any other.
UpdateTemplate ==
  \E n \in DOMAIN template, l \in {"EN", "UR"}, status \in {"APPROVED", "REJECTED"} :
    template[n][l] \notin {"NONE", status} /\ SetTemplate(n, l, status)

\* A message of the recipient's own opens the window for a day.
OpenOrCloseWindow ==
  /\ EditSettings
  /\ \E r \in Recipients :
       window' = IF r \in window THEN window \ {r} ELSE window \union {r}
  /\ UNCHANGED <<answered, off, team, numbers, template, rethought>>

\* Somebody joins the branch's staff, or no longer may see its orders.
JoinOrLeave ==
  /\ EditSettings
  /\ \E m \in Members : team' = IF m \in team THEN team \ {m} ELSE team \union {m}
  /\ UNCHANGED <<answered, off, numbers, template, window, rethought>>

Answer ==
  /\ event = "HANDOFF_UNANSWERED"
  /\ EditSettings
  /\ answered' = ~answered
  /\ UNCHANGED <<off, team, numbers, template, window, rethought>>

RoutingNext ==
  \/ Plan \/ Advance
  \/ \E r \in Recipients, c \in Channels : Deliver(r, c)
  \/ UpdatePreferences \/ ConnectNumber \/ DisconnectNumber
  \/ CreateTemplate \/ UpdateTemplate
  \/ OpenOrCloseWindow \/ JoinOrLeave \/ Answer

----------------------------------------------------------------------------
RoutingTypeOK ==
  /\ event \in Events
  /\ answered \in BOOLEAN
  /\ off \subseteq {"CUSTOMER", "STAFF"} \X Channels
  /\ team \subseteq Members
  /\ phones \subseteq Members
  /\ language \in {"EN", "UR"}
  /\ numbers \subseteq {"branch", "tenant"}
  /\ template \in [{"branch", "tenant"} ->
                     [{"EN", "UR"} -> {"NONE", "DRAFT", "APPROVED", "REJECTED"}]]
  /\ window \subseteq Recipients
  /\ row \in [Recipients -> [Channels -> {"NONE", "PENDING", "SENT", "FAILED", "SUPPRESSED"}]]
  /\ plans \in 0 .. MaxPlans
  /\ passed \in BOOLEAN
  /\ rethought \subseteq {"CUSTOMER", "STAFF"}
  /\ settings \in 0 .. MaxSettings

Stands(r) == {c \in Channels : row[r][c] \in {"PENDING", "SENT", "FAILED"}}

\* "Telling a customer their food is ready over WhatsApp and SMS is noise they did
\* not ask for": a recipient of an update has one notice that stands, however often
\* the event is planned and its channels are suppressed, unless the preferences
\* changed between two plans.
HeardOnce ==
  notice.mode = "first-available" =>
    \A r \in Recipients : RecipientType(r) \notin rethought => Cardinality(Stands(r)) <= 1

\* Where SMS is listed, a recipient who was planned for is never left with nothing
\* but suppressed rows: an unusable WhatsApp makes way.  An alarm has a row for each
\* channel from the start, and may be left with none that stands.
NotLeftSilent ==
  event = "CONFIRMED" =>
    \A r \in Recipients : (\E c \in Channels : row[r][c] # "NONE") => Stands(r) # {}

\* An update is heard once, and is not lost on the way to the last channel.
OneNoticeEach == HeardOnce /\ NotLeftSilent
=============================================================================
