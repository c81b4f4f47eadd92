# Restaurant OS, specified

TLA+ models of the concurrent core of this repository (a multi-tenant
restaurant platform: NestJS API, a worker process, a dashboard, Postgres and
Redis), the TLC configurations that check them, and TLAPS proofs of what
matters most. Paths below are relative to `src/`.

The code has no locks of its own. Everything it promises rests on Postgres at
READ COMMITTED (each statement sees what is committed when it runs; an UPDATE
or an upsert locks its row until the transaction ends; a unique index makes one
of two INSERTs fail), on the transactions that `withTenantContext`
(`packages/database/src/tenant.ts`) opens around each service call, and on the
transactional outbox. So the models are about what is read in one statement or
transaction and used in another, in what order transactions commit, and what a
crash between two of them leaves behind.

## 1. Inventory

For each part: the state it keeps, its operations, how it talks to the others,
what is hard about it, what makes it correct, and where it is specified.

| Part | State | Operations | Hard behaviour | Correct when | Module |
|---|---|---|---|---|---|
| Order state machine (`packages/domain/src/order-state-machine.ts`) | none (pure) | `canTransition`, `customerMayCancel`, ... | rules depend on order type, payment and role | the graph and its guards are used by everybody | `OrderStateMachine` |
| Order transitions (`apps/api/src/orders/orders.service.ts`) | `orders`, `order_status_history`, `customers.total_orders`, outbox rows | `transitionOrder`, `cancel` | read, validate, then update by id alone | status, history, events, payment and totals agree | `Orders`, abstract `OrderLifecycle` |
| Idempotency (`apps/api/src/common/idempotency.service.ts`) | `idempotency_keys` | claim, look up, take over an expired key, record, release | five separate transactions; crashes between them | one order per key; keys are not left locked | `Checkout` |
| Checkout (`orders.service.ts`) | orders, order lines, `order_number_counters`, carts | `checkout` by HTTP (keyed) and by WhatsApp (unkeyed) | cart read twice, row lock on the counter, commit order | one order per cart, order equals cart, numbers without gaps | `Checkout`, abstract `OrderDesk` |
| Cart (`apps/api/src/cart/cart.service.ts`) | `carts`, `cart_items` | create, update, addItem, updateItem, removeItem, clear | edits race the checkout | a closed cart is what was ordered | `Checkout` |
| Outbox (`apps/api/src/events/outbox.service.ts`) | `outbox_events` | `emit` inside every domain transaction | a BIGSERIAL is drawn at the INSERT and visible at the COMMIT | readers miss nothing | `Outbox`, abstract `EventLog` |
| Outbox publisher (`apps/worker/src/outbox-publisher.ts`) | `outbox_events.status` | `drainOnce` to Redis | crash before marking, several workers, refused publishes | at least once, in order unless there is a reason | `OutboxPublisher` |
| Notification dispatcher (`packages/notifications/src/dispatcher.ts`) | `outbox_cursors`, `notifications` | `dispatchOnce` | the watermark against late commits; tenants that fail | every event that implies a notification gets it | `NotificationDispatcher` |
| Notification sender (`packages/notifications/src/sender.ts`) and WhatsApp receipts (`apps/api/src/notifications/whatsapp-webhook.service.ts`) | `notifications`, `whatsapp_messages`, `inbound_webhook_events` | claim, deliver, suppress, record a failure; receipts | sending inside a transaction; reclaiming; receipts out of order | nobody is told twice or never, attempts are bounded | `NotificationSender` |
| Escalation monitor (`apps/worker/src/escalation-monitor.ts`) | `order_escalations`, `conversation_sessions.handoff_escalated_at` | `sweepOnce`, `sweepUnansweredHandoffs` | order accepted between the sweep and the raise; reads of limited size; claim and event apart | each level once and in order, one pass catches up, banners follow the orders; one alarm for one wait | `EscalationMonitor`; handoff alarm in `Conversation` |
| Conversation (`apps/api/src/whatsapp/`, `packages/domain/src/conversation.ts`) | `conversation_sessions`, the customer's carts and orders | a customer's turn; staff reply and resolve; expiry | turns overlap; the whole row is saved at the end of a turn; old buttons stay in the chat | what is confirmed is what was shown; a handoff stays with a person | `ConversationRules`, `Conversation` |
| Notification settings (`apps/api/src/notifications/notifications.service.ts`, `packages/domain/src/notifications.ts`) | preferences, numbers, templates | edits, while notices are planned and sent | an event planned twice under different settings; suppressed channels | an update is heard once and not lost | `NotificationRouting` |
| Kitchen display (`apps/api/src/kds/`, `apps/api/src/realtime/`, `apps/dashboard/src/lib/kds-stream.ts`) | the screen's board; listeners and Redis subscriptions of an API instance | snapshot, stream, poll | answers out of order; streams that come and go around an await | the board converges to the orders; an open stream is heard | `KitchenScreen` |
| Authentication (`apps/api/src/auth/`, `apps/dashboard/src/lib/api-client.ts`) | sessions, the cookie, the tabs' tokens | login, refresh, logout | rotation is read, issue, revoke; tabs share one cookie | sessions do not pile up; nobody is thrown out for nothing | `Access` |
| Staff and roles (`apps/api/src/staff/staff.service.ts`, guards) | memberships, roles, branches | invite, update | authorised before the transaction; a membership read without a lock and updated by id; lists replaced by delete and insert | nobody gives or regains rights by a race; members have what was last asked for | `Staffing` |
| Pricing (`apps/api/src/pricing/`, `packages/domain/src/pricing.ts`, `money.ts`) | none (reads menu, settings, zones, addresses) | `priceCart` by the preview and by the checkout | everything it reads may change in between; negative options | charged as shown; no part of a bill is negative | `Pricing` |
| Menu (`apps/api/src/menu/`, `packages/domain/src/menu.ts`) | items, categories, overrides, modifier groups and their options | edits by several managers | checked as read, written as it is | what is offered can be ordered; groups can be satisfied | `Catalogue` |
| Customers, branches, organizations | rows edited one at a time | CRUD | default address | | in `Pricing`, as far as prices depend on them |
| Adapters, pages, rate limiting, audit, health, configuration | | formatting, I/O | little interaction | | not modelled |

`transitionOrder` and `checkout` write the outbox in their own transaction; the
publisher and the dispatcher read it independently; the dispatcher writes the
rows the sender sends; the webhook feeds receipts to those rows and customers'
messages to the conversation, which calls the same `CartService` and
`OrdersService.checkout` as the HTTP controllers; the escalation monitor reads
orders and conversations and writes outbox events that come back through the
dispatcher; the publisher's messages reach kitchen screens over Redis.

The hazards this list leads to, each at its line and with the property that
would catch it, are in `PROJECT.json`.

## 2. Modules and how they correspond to the code

**`OrderStateMachine`**: the transition map as a set of edges, with the
order-type rule (`CanTransition`), `shouldMarkPaid` and
`assertActorMayTransition` as predicates. It has no state; `Orders` and
`OrderLifecycle` take their guards from it.

**`Orders`**: the variables are the columns and tables `transitionOrder`
writes, plus `txn`, what each open call has read. `Load` is everything from the
read to the last validation, `Commit` the update and everything that becomes
visible with it, `Rollback` the timeout, a failed statement or a death. The
update in the code waits for the row lock and then writes by id; since the
update and the commit are one step here, the lock needs no variable. `raced`
is a history variable: the orders on which two calls overlapped. What the code
guarantees only without overlap says so by it.

**`OrderLifecycle`**: the abstract promise. `Orders` implements it with the
refinement mapping `held <- Held`, the statuses that appear in the history.

**`Checkout`**: `IdempotencyService.run`, `OrdersService.checkout` and
`CartService` together, because what each guarantees depends on the others.
A request is at a program counter that names the next statement or
transaction; `draft` is what its open transaction has read; `lock` is the row
lock of the order-number counter; `edit` is an open `CartService` call. The
history variables `loose` (keys that ran unclaimed, were taken over after they
expired, or whose recording failed) and `disturbed` (carts edited during a
checkout) name the cases in which the code gives no guarantee. What these
two exclude is what `OncePerKey` and `CartMatchesOrder` do not promise; the
run `checkout_retry` shows the first such case.

**`OrderDesk`**: the abstract promise of the checkout, a desk that serves one request at
a time: let in to an open cart, a request goes away or becomes at one moment an order with
the branch's next number; a guarding key has one order; who is told of an order is told of
one that came under his key. `Checkout` implements it (`ImplementsDesk`): a request that
has read its cart is inside until its transaction ends, and a key is void when it is in
`loose`.

**`Outbox`**: a log of events named by their sequence, with the phase of the
transaction that drew each, and `overtaken`, the events a higher sequence
committed before.

**`EventLog`**: what either reader makes of the outbox, without batches, workers or
crashes. Entries commit, are served (in sequence within a stream, late and refused ones
excepted) and are left behind: by row, when they were served, or by a position, when what
was not late was. The publisher implements it with one stream and its PROCESSED rows
(`PublisherLog`), the dispatcher with a stream per tenant and its watermark
(`DispatcherLog`).

**`OutboxReader`** adds what its two readers share (batch, faults).
**`OutboxPublisher`** and **`NotificationDispatcher`** EXTEND it with
`drainOnce`, split at each await that others can interleave with (read, each
publish, mark), and `dispatchOnce` (read the cursor, read the batch, one
transaction per tenant, advance). `MCEvents` composes them.

**`NotificationSender`**: one row per notice and channel, and what each worker
is in the middle of (`job`): the claim (one transaction), the provider's answer
and the recording (a second), the failure (a third, in two statements). The
database's answer to a claim is its row count, so `Claim` compares the status
found with the status now. Dates are abstracted to "has one": whether it has
come, or is long past, is open at every pass. What may be sent at all (service
window, templates, consent, destination) is a choice per attempt, `Suppress` or
`Send`. `Delivered` and `Bounced` are `recordStatus`. History variables:
`excused` (notices for which a second message had a reason), `early` (bounces
reported before the send was recorded) and `extra` (claims that go round the
attempt budget).

**`EscalationMonitor`**: a sweep is cut at every statement (`ReadWaiting`,
`ReadFired` and `Raise` per order and rung, `ReadOpen`, `ReadStillWaiting`,
`Resolve`), because each is its own transaction; `Raise` is the one transaction
with two inserts, and the unique index is its test for an existing row. A
ladder is the set of its rungs; `IsSane` is the validation of the settings and
`Ladder` the fallback. The model counts time in steps. Both reads have a limit
(500 in the code): the one of waiting orders takes the oldest `TakeOrders`, the one
of open escalations names no order, so `ReadOpen` takes any `TakeOpen` of them.

**`NotificationRouting`**: one event, from the specification of its notice to
rows per recipient and channel. `Plan` is `planNotifications` (it may run
again until `Advance` moves the cursor), `Delivered`, `Undelivered` and
`Suppress` what the sender makes of a row, and the rest are the edits of
preferences, numbers, templates and staff in between. Claims and retries are
`NotificationSender`'s and not repeated.

**`ConversationRules`** is `resolveIntent`: a message (a tap on an id, or a kind
of text) to an intent, in a state and against the ids last shown.
**`Conversation`** is everything around it. `Receive` is the webhook's claim of
the message, `Load` or `Create` the session as the turn finds it, then one step
for each call of the cart or order service, `Save` the whole row by id and
`Send` the reply. Staff (`StaffReply`, `Resolve`) and two workers (`FindWaiting`,
`Claim`, `Emit`) act between any two of these. A session has an age of three
values: fresh, past the handoff threshold, past 24 hours. What a menu or order
query answers is any answer. `slip` (two turns overlapped, or a step failed after
it had written) names when the code promises nothing of carts and screens; it stays
set. `HandoffIsKept` does not ask it: `unaware` has the turns that had read the
session before the handoff was saved, and only those may write over it.

**`KitchenScreen`**: one screen and the streams of its branch on one API
instance. A board is the number of changes it shows. `Subscribe` and `Leave` are
`RealtimeService.subscribe` and the function it returns, cut at the await of
Redis, whose commands go over one connection in order; an entry goes by the
stream that made its Set, because a caller that awaited joins the Set it made.
The client loads a snapshot on every event, `connected` and poll, whatever the
sequence says, so sequences are left out.

**`Access`**: every statement of `login` and `refresh` commits by itself and is a
step; the cookie travels with the answer. `logout` is one step (`SignOut`): its one
UPDATE decides nothing, and a refresh that would come between it and the clearing of
the cookie is one that took the cookie before and is served after. Each tab has its own
token and its own one refresh in flight. `reasons` counts the calls that met
another, were lost, or signed in over a live session.

**`Catalogue`**: one dish, its overrides, category and groups. Single-statement
edits are one step; `update` of a group is cut between its read and its UPDATE
and `setItemModifiers` between its DELETE and its INSERT, as READ COMMITTED
allows: the DELETE takes the links it saw (`doomed`), less those another call has
deleted by then (`Outrun`), and an INSERT of a link that is there rolls back. A group
has the options `available`, which managers add, switch and remove without a look at
its rule; a choice is a set of them. `OfferedByBot` and `AcceptedBare` are two
channels' reading of the same rows. History variables: `lopsided` (groups whose rule
was last written against another than the one read, or by contradictory defaults),
`written` and `beyond` (the last list of groups, and what others wrote between its
DELETE and its INSERT).

**`Staffing`**: `Authorize` is the guards, before the transaction. `invite` looks
for the user (`FindUser`), adds one (`CreateUser`), reads the membership and checks
the roles (`FindMembership`), inserts the membership or updates it by id
(`WriteMembership`), and replaces both lists and commits (`AddMember`). Nothing checks
again what was read: the insert fails only on the unique index, the update waits for
the row's lock (`Locked`) and then writes. `update` reads and checks (`Load`), and
replaces a list (`Replace`) or sets the status (`SetStatus`), which waits for the same
lock. A list is replaced as in `Catalogue`: of what the delete saw nothing is left
(`seen`, `Left`, `Overtaken`), what was inserted since stays, and `Clash` is the unique
index. `ordered` has the lists last written, `mingled` what others wrote while those
were being written.

**`Pricing`**: `PriceCart` is `CartPricingService.priceCart` with the rules of
the domain package as operators: settings resolved key by key, unit price,
options, zone, fee, minimum, service charge, tax, rounding. `preview` is the
cart API's last answer and `order` what the checkout stored; in between managers
edit what the price depends on. Amounts are integers of minor units.

**`MC*`** modules give constants to a specification, and three compose several
modules. `MCEvents`, `MCCustomerSide` and `MCBackOffice` each bring modules together
that touch none of each other's state: a variable `part` picks one at the start,
the others stay in an initial state, so the run has the sum of their states and
not the product. What interacts is in one module (the conversation with its cart,
orders, staff and alarm; checkout with idempotency and cart; the outbox under its
readers), or is the abstract side of a refinement
(`OrderLifecycle`, `OrderDesk`, `EventLog`). `MCBackOffice` gives TLC a `CheckedSpec`,
`Spec` from fewer initial states (`FewerStarts`): the theorems are about `Spec`.

Every operator whose comment says *Mutant* is a plausible slip in the code it
stands beside. No specification uses it: a run must fail when it replaces the
definition that `PROJECT.json` pairs it with.

## 3. Runs

| Run | Configuration | Checks |
|---|---|---|
| `orders` | 1 order of every type and method, 2 calls in flight (one by a holder of `orders.cancel`), 8 history rows | `TypeOK`, `TrailAgrees`, `UnracedLifecycle`, `PaidMeansReceived`, `LifetimeTotals`, `ImplementsLifecycle` |
| `orders_overlap` (violation) | the same, 7 rows | `TerminalIsFinal` |
| `checkout` | 3 requests (keyed or not; the second has another body), 1 key, 1 cart, 1 line, 1 branch, 1 editor | `TypeOK`, `OncePerKey`, `TwiceOnlyIfOverlapped`, `CartMatchesOrder`, `KeysAreFreed`, `ImplementsDesk` |
| `checkout_retry` (violation) | the same with equal bodies | `OneOrderPerKey` |
| `events` | publisher: 3 events, 2 workers; dispatcher: 4 events of 2 tenants, 2 dispatchers; batches of 2, 2 faults | `TypeOK`, `NothingLost`, `HeardInOrder`, `ImplementsLog`, `EventsAreHeard`, `EventsArePlanned` |
| `dispatcher_gap` (violation) | the same | `NoNotificationMissing` |
| `sender` | 1 notice, 2 channels (one with receipts), 2 workers, 2 attempts, 1 fault, 2 receipts | `TypeOK`, `ToldOnce`, `StatusIsTrue`, `EveryNoticeSettles` |
| `sender_claim` (violation) | the same | `ClaimIsExclusive` |
| `escalation` | 2 orders, 2 workers, 3 ladders (default, levels against delays, a level twice), 1 order per sweep, 2 of the 4 possible escalations per read, 3 steps of time with a look-back of 2, 1 fault | `TypeOK`, `LadderIsClimbed`, `OnePassCatchesUp`, `BannersAreTrue` |
| `customer_side` | conversation: 4 messages, 2 turns at once, 2 workers, 2 carts, 2 lines, 1 fault; routing: 1 member, 2 plans, 2 edits; pricing: 2 dishes, 1 price change, 2 cart edits | `TypeOK`, `OrderedAsShown`, `NoStaleOrders`, `NumbersMeanTheScreen`, `AlarmOncePerWait`, `OneNoticeEach`, `PricesHold`, `HandoffIsKept` |
| `price_floor` (violation) | the same | `LinesAreNotNegative` |
| `back_office` | kitchen: 3 streams (2 of the screen), 1 change, 2 loads at once; access: 2 tabs, 4 sessions, 1 mishap; catalogue: 2 groups, 2 options, 2 editors, 3 edits; staffing: 3 people (2 from the start), 1 branch, 3 requests | `TypeOK`, `StreamsAreHeard`, `SessionsAreAccountedFor`, `MenuIsCoherent`, `StaffIsInOrder`, `BoardCatchesUp` |

What they show:

- However calls of `transitionOrder` overlap, the last history row is the
  status, the outbox events are the history, a paid order was once handed
  over, and a status is only written along an edge from a status the order has
  had. Without overlap the history is a path of the state machine, the
  cancellation rule was kept, paid means received, and lifetime counts are
  exact. With overlap an order can leave a terminal status
  (`orders_overlap`): both calls read PREPARING, say, one cancels and the
  other makes it READY.
- While its claim holds, a key makes one order; a key in progress always has
  somebody who will free it, unless a process died. Two orders of one cart
  come only from checkouts that overlapped. `checkout_retry`: request 1
  fails; request 2's INSERT loses to it, but its lookup comes after the
  release and finds nothing, so it runs without a claim; request 3 claims the
  free key; both read the cart ACTIVE and both commit.
- The order equals the cart it closed unless an edit overlapped the checkout,
  and the numbers of a branch's day have no gap, whatever aborts. Seen through
  `OrderDesk`, the five transactions, the lock and the failures between them are one
  moment.
- The publisher loses nothing and repeats itself at worst; out of order means
  a late commit or a refused publish. The dispatcher misses only events that
  committed after a higher sequence, and does miss those (`dispatcher_gap`); a
  tenant's notifications are planned in the order of its events, although tenants
  fail one by one and another dispatcher may set the watermark back.
- The sender tells a customer once unless a claim was taken over, a message was
  out when its recording failed, or one bounced. The transaction around the
  send does not prevent the second case, although the comment on its timeout
  (`sender.ts:249-252`) reads as if it did: a rollback forgets a message that
  is out, and the row is sent again. The claim is exclusive among workers that
  found the row PENDING only (`sender_claim`): the first claims a row that
  waited long; the second finds it PROCESSING and, by its old date, stale, and
  claims it as well. Attempts stay within the budget plus one for each such
  take-over and each bounce. A bounce that is reported before the send is
  recorded leaves the row SENT (`early`), contrary to the comment at
  `whatsapp-webhook.service.ts:330`.
- The escalation monitor raises each rung of a sane ladder once, never before
  one of a shorter delay, and all that are due in one pass,
  except for orders that 500 older ones (here one) kept out of the sweep. An
  order acknowledged during a sweep may still be alerted; its banner is then
  cleared, as long as the open escalations of orders that still wait leave room in
  the read behind it (500 rows, here two): while they fill it, the others may be passed
  over every time (`Crowded`). This rests on orders never returning to CONFIRMED, which the
  overlaps of `orders_overlap` could break.
- A confirmed order has the lines of the last summary on the customer's screen,
  and a typed number means the screen it answers, as long as turns do not overlap and
  no step fails half way; both exceptions are real (section 5). Old buttons never
  order a cart that its session has outlived. A handed-off conversation stays with the
  staff until they resolve it or a day passes, whatever overlaps or fails, except that
  a turn which had read the session before the handoff writes over it. The
  alarm for a wait is raised or lost once, never twice.
- A recipient of an order update has one notice that stands, however often the
  event is planned, unless preferences changed between two plans; where SMS is
  listed, an unusable WhatsApp makes way for it.
- The checkout charges what the cart's last answer said unless something a price
  depends on changed since, or the order goes to another address than the one it
  was previewed for. No part that is added to a bill is negative, though a line
  may be (`price_floor`): resolveUnitPrice holds the price with its options above
  zero, but is called without them.
- The kitchen screen ends up with the board as it is, past failed loads and late
  answers: this rests on the poll alone. An open stream is among the listeners
  unless another left while it awaited Redis.
- Sessions beyond the one in use, and a member thrown out for reusing a token of
  his own, always come of tabs that met, an answer that was lost, a second
  sign-in or a suspension; a single undisturbed tab sees neither.
- The bot offers a dish exactly when its category is on and the cart would take it
  without a choice, however edits overlap. A group has a choice that satisfies it,
  unless fewer of its options are available than it asks for, or its last update
  passed its check against another rule than the one it wrote over, or its creation
  left out a number whose default contradicts the rest. Two lists of groups written at once may mix, and no
  further than this: all of the last one is on the dish, and besides only what another
  call wrote between its delete and its insert.
- A member has the roles and branches last written, and others only if they were being
  written at the same time. Nobody is left in charge only where a request
  outlives its author's own charge: two owners demote each other, or one who is removed
  and set active again invites himself. Roles are granted by who held their permissions when the
  request was authorised, never to oneself for use. A former member is let in again only
  when somebody else sets the status, however many invitations overtake each
  other: an invitation leaves INVITED, also over a status set meanwhile.

### Bounds, and why they are enough

- *orders*: the longest path through the state machine without returning
  (CONFIRMED to DELIVERED) is 6 rows and one retry of a failed delivery adds
  2: `MaxHistory` 8 covers both. Two calls are enough for every overlap the
  properties speak of: a stale writer and the one it did not see. Orders do
  not interact except through a customer's total, which `raced` already
  separates by order.
- *checkout*: three requests are the least that show the lookup window (a
  winner that fails, a loser that looks late, a third that claims), the
  take-over of an expired key by two, and three numbers of a counter. One
  editor is one edit inside or across a checkout; quantities are 0 and 1,
  since the properties only tell equal lines from different ones. Requests are
  taken in order of arrival, which loses nothing but a renaming, except that
  it is always the second to arrive that brings the other body.
- *events*: the least inversion takes two events; three and four leave one in
  another batch or of another tenant. `MaxFaults` 2 allows a fault for each worker,
  or two in a row for one.
- *sender*: two workers and one fault give every overlap of a claim with a
  take-over; two attempts are one retry and one exhaustion; two channels one
  promotion; two receipts a report on an attempt and one on its retry, or both
  kinds on one message. Rows of different notices do not interact.
- *escalation*: two rungs and two workers give every interleaving of a ladder;
  two orders with one per sweep show the full sweep; the third step of time
  lets an order get too old for the look-back. Orders are numbered as they are
  confirmed, and time is counted from the first. There may be four open escalations
  and a read takes two, so both rungs of an order that waits can fill it.
- *customer_side*. Conversation: four messages are enough to put a dish in a cart,
  check out and confirm (by taps on old screens too), with two of them at once; a second cart follows a
  confirmed or expired one. Routing: two plans are one repetition, two edits one
  between them and one after; every event has one of the four shapes. Pricing: a dish with a size and one with a branch
  price and an option that takes off more than it costs; two cart edits fill two
  lines, and one change between preview and checkout is the least that moves a
  price.
- *back_office*. Kitchen: three streams show one making the entry, one joining and
  one leaving during an await; one change is what a late answer can hide. Access:
  four sessions are two tabs' two rotations. Catalogue: two edits overlap, the third
  sets the scene; a minimum of two meets two options, one or none. Staffing: three
  requests are a removal, an invitation that reads it and a change of status that it
  writes over, or two invitations of one removed member, or two owners against each
  other and one to write a list between. TLC starts from one owner beside a head of
  staff and a dish that is on sale, with all groups or none; the others are
  a request or an edit away.

The runs stop when their requests, events or rows are used up; that is why
they do not check deadlock.

### Fairness

`Orders`, `Checkout` and the modules of `MCCustomerSide` state none: a client may
always go away. Both outbox readers have weak fairness of each worker's own steps
(each in the behaviours that are its part), and faults have none.
The code justifies it: `tick` schedules the next pass after every pass,
whether it returned or threw, and the deployment restarts a dead worker. Nothing
is assumed of the transactions that insert events; the liveness properties
begin at a commit. The sender and the escalation monitor likewise have weak
fairness of each worker's own steps; the sender's also takes it that every date
comes. Providers owe no receipt, kitchens no acknowledgement. The kitchen screen
has weak fairness of its poll (an interval timer) and of answers on their way, and
strong fairness of the snapshot, which may fail now and then but not for ever;
streams owe nothing. Faults are finite (`MaxFaults`): a Redis or a database that
refuses for ever loses liveness in the code as well.

## 4. Proofs

Every invariant of the passing runs is proved as a theorem of
the run's specification (of `Spec`, where the run starts from fewer states), for any values of the constants that the named assumptions
beside them allow (TLC evaluates those on every run), and so are the three refinements. Each
proof is an inductive invariant: `Init` implies it, every step keeps it, it implies
the property. Where it is stronger than the property, the strengthening says how far
what an open call, turn, sweep or pass has read may be from what is there now.

| Module | Proves | Inductive invariant, beyond the property |
|---|---|---|
| `OrdersProofs` | `TypeOK`, `TrailAgrees`, `UnracedLifecycle`, `PaidMeansReceived`, `LifetimeTotals`, `ImplementsLifecycle` | `LifeInv`: a call on an unraced order has read what is still there (`SeenIsCurrent`) and its move was legal for that (`MoveWasLegal`); an order with an ACCEPTED row never again counts as untouched by the kitchen (`KitchenRemembered`). Totals: the finite set of a customer's received orders grows by one, leaves out one, or stays. Refinement: whatever a call read is a status the order has had (`FromWasHeld`), raced or not |
| `CheckoutProofs` | `TypeOK`, `ImplementsDesk`, `GaplessNumbers` (the numbers of `OrderDesk`, as an invariant of the code's state), `KeysAreFreed`, `CartMatchesOrder`, `TwiceOnlyIfOverlapped`, `OncePerKey` | `Stages`: what a request has at each stage. `CounterCounts`: the counter is how many orders the branch has, numbered 1 to it. `DraftsMatch`: a draft of an undisturbed cart has its lines. `ReadersAreSeen`: who read a cart open is remembered. `Guards`: a key that never got loose has one holder or one answer. Refinement: `Answers`, a response kept for a key is an order placed under it |
| `OutboxProofs` | `TypeOK`, `NothingLost`, `HeardInOrder`, `ImplementsLog`, `OnlyOvertakenAreSkipped`, and the order within a tenant (`InOrder` of `DispatcherLog`) | `OrderInv`: below an event that was heard or is about to be sent, every committed event was heard, is excused or comes before it in the batch; here batches are ordered and the least one is sent. `WatermarkInv`: up to the cursor, and up to where a pass has come, what was not planned had been overtaken. Refinement: each invariant is used only in the part of the run it is about (`PartInv`) |
| `SenderProofs` | `TypeOK`, `StatusIsTrue`, `ToldOnce`, and `NothingIsStranded`, the safety part of `EveryNoticeSettles` | `Booked`: jobs and receipts are of rows and messages there are. `Truth`: what a worker is about to record happened. `InBudget`: attempts, holders and a row that waits together are within the grants. `OneAtATime` and `OneChannel`: a row without an excuse has one holder and one message, a notice one row that is not suppressed. `Climbs`: behind every suppressed row there is one on the next channel, up to the last |
| `EscalationProofs` | `TypeOK`, `LadderIsClimbed`, `OnePassCatchesUp`, and `BannersStayUp`, the safety part of `BannersAreTrue` | `Sweeps`: where a sweep is and what it has. `RungsAreNext`: the rung a worker is about to raise comes after those already raised, also by somebody else since it looked. `PassCatchesUp`: for each waiting order, a pass is full, has yet to come to it, is at it, or has raised what was due |
| `CustomerSideProofs` | `TypeOK`, `OrderedAsShown`, `NoStaleOrders`, `NumbersMeanTheScreen`, `AlarmOncePerWait`, `HandoffIsKept`, `OneNoticeEach`, `PricesHold` | Conversation: `Sound` turns name carts that exist; `AlarmInv` counts alarms told, lost and about to be told against the claim, for any number of workers; `StaleInv`: neither a turn nor a session in time names a cart that was left; `CalmInv`: while nothing overlapped or failed, at most one turn is in flight, and what it knows, what the session remembers and what is on the screen agree (or differ by exactly the reply it is about to send); `AwareInv`: while the conversation waits, a turn that may still save had read the session before the handoff. Routing: `RowsOf`, the shapes one recipient's rows may have between plans. Pricing: `PreviewIsFresh`, and `BillInv` about the sums |
| `BackOfficeProofs` | `TypeOK`, `StreamsAreHeard`, `SessionsAreAccountedFor`, `MenuIsCoherent`, `StaffIsInOrder`, and `StaysUpToDate`, the safety part of `BoardCatchesUp` | Streams: the last command to Redis agrees with the entry (`LastWordIsEntry`), and a waiting stream made the entry unless somebody left (`WaitersMadeEntry`). Screen: the snapshots asked for and those under way, a bag, stay within the limit. Sessions: unclaimed sessions and calls together are owed to a reason or to a refresh that will take one back (`SessionsOwed`); a call that met no other knows all the live sessions (`Alone`); tokens are of sessions with a hash, and the calls that may make a session leave room for it (`TokensAreHashed`). Menu: a list that is being written knows every list written since its delete began (`OthersAreMet`), and a group of a rule that was checked has a choice of the least size it asks for (`SubsetOfSize`). Staff: what an open request may grant its author held (`Permitted`), an invitation leaves only a first membership ACTIVE (`Admitting`), a request that is replacing lists has seen or met all that is in them (`Replacing`), and one invitation at a time has a membership's row (`OneFills`) |
| `FiniteSums` | the sums behind `SumFunction` and `BagCardinality` exist (`SumExists`), stay in the numbers summed (`SumIsIn`), and do not depend on the order (`SumAnyFirst`, `SumOfSame`) | |

Invariants that say what a whole conversation agrees on were first checked by TLC
(`CalmInv` on the states of `customer_side`), which found the shapes it has
to allow while a reply is saved and not yet sent.

Two kinds of argument need a word. *Counting* (`LifetimeTotals`, `AlarmInv`,
`SessionsOwed`, `InBudget`) is done with cardinalities of finite sets, one element
added or removed by a step. *Sums and least elements*: the induction theorems of the
library take an operator, which the provers cannot instantiate, so `FiniteSums`
argues by a smallest counterexample (`WFMin` on the natural numbers): the sets for which a
fact fails form a set, and if it is not empty one of them has the least size.
So `PricesHold` holds for carts of any number of lines.

Assumptions worth knowing. `SettingsAssumption` of `Pricing` (no readable setting is
negative) is what `settingsSchema` enforces; `ZonesAssumption` (no zone's fee is) what
`computeOrderTotals` refuses; prices are not negative by the DTOs, while an option's
delta may be any integer, and the bill is sound nevertheless. The `None` and `Idle`
assumptions say that "no call" is no call: TLC's instances use model values or
records of another shape.

Only model-checked: `EventsAreHeard`, `EventsArePlanned`, `EveryNoticeSettles`,
`BannersAreTrue` and `BoardCatchesUp`, which are liveness under fairness (`ENABLED` and
`WF` are out of the provers' reach). What of each is safety is proved:

| Checked | Proved half |
|---|---|
| `EventsAreHeard` | `NothingLost`: no row is PROCESSED that was not heard, so one that was not is still read |
| `EventsArePlanned` | `OnlyOvertakenAreSkipped`: what the watermark has passed unplanned was overtaken |
| `EveryNoticeSettles` | `NothingIsStranded`: a notice that is not settled has a row that a pass looks for |
| `BannersAreTrue` | `BannersStayUp`: what is resolved was acknowledged |
| `BoardCatchesUp` | `StaysUpToDate`: only a change makes a board stale that is right and has no older answer on its way |

The runs that expect a violation are counterexamples, and there is nothing to prove about
them. No theorem uses fairness, and the abstract specifications state none.

## 5. Where code and comments part

The runs that expect a violation each show one. Others came up while reading; the
models follow the code, and no run is spent on them.

- *Conversation.* Two turns that overlap each save the whole session, so the later
  one can undo a handoff the earlier one made, contrary to "The only exit from
  HUMAN_HANDOFF" of `conversations.service.ts`; expiry is another exit. A crash
  between the claim of a handoff alarm and its event loses the alarm. A staff reply
  clears the claim while the last inbound message stays where it was, so the next
  sweep alarms again; a customer's message puts the alarm off. `findOne` of the inbox
  takes the oldest 100 messages, so in a long thread the service window is judged by
  old ones. The cart is made as PICKUP, so a branch that only delivers takes no
  WhatsApp order. Two first messages at once: the loser's outcome is saved under an
  id nobody has.
- *Kitchen.* The comparison of sequences in `kds-stream.ts` has no effect: both branches
  load. `connected` is sent before the subscription exists. Heartbeats are comments,
  which the client never sees, so a quiet stream turns stale. The first order on an
  empty board is silent. A request that closes before its cleanup is installed stays
  among the listeners.
- *Access.* "Presenting an already-rotated token means the token was captured"
  (`auth.service.ts:202`) and "only one refresh is ever in flight"
  (`api-client.ts:69`) hold for a tab, and a browser has several with one cookie. A
  refresh under way while its member is suspended issues a session that outlives the
  suspension (the guard still refuses it while the suspension lasts).
- *Escalation.* "Clears open escalations for orders that have since been acknowledged"
  (`escalation-monitor.ts:310`): of 500 read in no order. Where as many belong to orders
  that still wait, the read may be full of them sweep after sweep.
- *Staffing.* Two owners can demote each other at once. An invitation of a removed
  member updates the membership it read by id: it makes INVITED of a status another
  request has set since, and of two invitations both succeed, although the second
  finds what it would have refused as "already a member". Two replacements of one
  list add up. A custom role with the right
  to manage staff can demote the last owner. No code makes an invited account ACTIVE;
  a user left behind by an invitation that broke off becomes a member at once on the next.
- *Menu.* `setItemModifiers` promises "no ordering hazard between two concurrent
  editors — the last write is coherent rather than a mix of both"; their lists can mix.
  Two updates of a group that each pass the check can leave it without a satisfying
  choice. No edit of options looks at the group's rule, so a group may ask for more
  options than are available, and then every choice is rejected. Creation accepts groups whose defaults contradict
  what was given. The items of an archived category are said to become uncategorized;
  the public menu drops them.
- *Pricing.* A branch setting that is not readable hides the organization's and falls to
  the default. A delivery to an address without coordinates has no zone check. A preview
  is priced for the default address, the checkout for the one requested; an edit in
  between charges a price nobody was shown, although the comment of `priceCart` says
  the two cannot drift. An exact half of a minor unit may round down, being computed
  in a double.
- *Routing.* The sender's comment says that `order_ready` lists SMS after WhatsApp; it
  lists WhatsApp alone, so where that is unusable nobody is told. Promotion does not ask
  the preferences again, and a FAILED row promotes nothing. An alarm whose recipients
  only left WhatsApp on may be suppressed altogether.

## 6. Not modelled, and why

Row-level security, and permissions other than those the models name; passwords, the
lockout counter and session expiry (single statements or dates); formatting, templates'
wording and provider protocols (outcomes only); the dashboard's pages; the inbox's and
the kitchen's lists; find-or-create of customers, branches and the organization's
profile (single-row edits); rate limiting, configuration, seeding, audit and health.
Stage timestamps and audit rows are written by the same statements as state that is
modelled, and no property reads them. The board of a kitchen screen is abstracted to how
recent it is, a menu query in a conversation to any answer, a message's body to what
tells two of them apart. A deadlock between two checkouts of one customer is to the
models an abort; failures that never end are outside them.

## 7. What may come next

Each promise that overlap can break is proved of what the history variables `raced`,
`loose`, `disturbed` and `slip` leave: calls, keys, carts and screens with no overlap
of their own. What an overlap may do at worst is stated only by the refinements
(`OrderLifecycle`, `OrderDesk`, `EventLog`); the conversation, the sessions and the staff's
rights have no abstract specification yet. Customer rows, and with them the deadlock of
two checkouts, would be the next part to model.
