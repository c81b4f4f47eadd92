------------------------------ MODULE Checkout ------------------------------
(***************************************************************************)
(* Turning a cart into an order: IdempotencyService.run around             *)
(* OrdersService.checkout, with CartService editing the same carts         *)
(* (apps/api/src/common/idempotency.service.ts, orders/orders.service.ts,  *)
(* cart/cart.service.ts).                                                  *)
(*                                                                         *)
(* A request is one HTTP call (a retry is another request with the same    *)
(* key) or one WhatsApp confirmation, which calls checkout with no key at  *)
(* all.  Every step below is one statement or one transaction boundary:    *)
(* the claim, the lookup after a lost claim, the reads of the checkout     *)
(* transaction, the row lock on the order-number counter, the commit, and  *)
(* the update that records the response in a transaction of its own.       *)
(* Postgres runs at READ COMMITTED, so each read sees what is committed at *)
(* that moment and nothing re-reads before the commit.                     *)
(*                                                                         *)
(* Prices, customers and addresses are not modelled: they can refuse a     *)
(* checkout, which Abort does.                                             *)
(***************************************************************************)
EXTENDS Naturals, FiniteSets

CONSTANTS
  Requests,         \* numbered in the order they arrive
  Keys, NoKey,
  Bodies, BodyOf,   \* what each request asks
  CartOf,           \* the cart a body names
  Carts, Lines,     \* Lines: the ids cart_items rows may have
  Branches, BranchOf,
  Editors,          \* CartService calls that may be in flight at once
  MaxQty,           \* bound: the largest quantity of a line
  None

ASSUME RequestsAssumption == Requests \subseteq Nat
ASSUME BodyOfAssumption == BodyOf \in [Requests -> Bodies]
ASSUME CartOfAssumption == CartOf \in [Bodies -> Carts]
ASSUME BranchOfAssumption == BranchOf \in [Carts -> Branches]
ASSUME MaxQtyAssumption == MaxQty \in Nat \ {0}
ASSUME NoKeyAssumption == NoKey \notin Keys

VARIABLES
  cart,       \* carts with their cart_items
  key,        \* idempotency_keys, by key
  counter,    \* order_number_counters of today, by branch
  lock,       \* who holds the counter's row lock
  orders,     \* the order each request placed, if it did
  pc, ask,    \* where each request is, and the key it came with
  draft,      \* what an open checkout transaction has read
  answer,     \* the request whose order this request's client was told of
  edit,       \* open CartService transactions
  loose,      \* history variable: keys that stopped guarding, see OncePerKey
  disturbed   \* history variable: carts an edit changed during their checkout

vars == <<cart, key, counter, lock, orders, pc, ask, draft, answer, edit,
          loose, disturbed>>

OrderType == {"DELIVERY", "PICKUP"}
NoLines == [l \in Lines |-> 0]

Transacting == {"open", "price", "number", "commit"}
Answered == {"done", "refused", "crashed", "unreleased"}

Init ==
  /\ cart \in [Carts -> [status : {"ACTIVE"}, type : {"PICKUP"},
                         lines : {NoLines}]]
  /\ key = [k \in Keys |-> None]
  /\ counter = [b \in Branches |-> 0]
  /\ lock = [b \in Branches |-> None]
  /\ orders = [r \in Requests |-> None]
  /\ pc = [r \in Requests |-> "idle"]
  /\ ask = [r \in Requests |-> None]
  /\ draft = [r \in Requests |-> None]
  /\ answer = [r \in Requests |-> None]
  /\ edit = [e \in Editors |-> None]
  /\ loose = {}
  /\ disturbed = {}

Goto(r, place) == pc' = [pc EXCEPT ![r] = place]

\* Leaving work() with an error: the catch of run(), if there is a run().
Fail(r) == Goto(r, IF ask[r] = NoKey THEN "refused" ELSE "release")

carts    == <<cart, edit, disturbed>>
numbers  == <<counter, lock, orders>>

----------------------------------------------------------------------------
(* The idempotency key.  A body stands for its hash. *)

Claimed(x) == [body |-> x, completed |-> FALSE, response |-> None,
               expired |-> FALSE]

Arrive(r, k) ==
  /\ pc[r] = "idle"
  /\ \A q \in Requests : q < r => pc[q] # "idle"
  /\ ask' = [ask EXCEPT ![r] = k]
  /\ UNCHANGED <<draft, answer, loose, carts, numbers>>

\* A WhatsApp customer taps "Place order": checkout with no key.
Confirm(r) == Arrive(r, NoKey) /\ Goto(r, "open") /\ UNCHANGED key

\* Mutant: an upsert, which takes the key from whoever has it.
ClaimByUpsert(r, k) ==
  /\ Arrive(r, k)
  /\ key' = [key EXCEPT ![k] = Claimed(BodyOf[r])]
  /\ Goto(r, "open")

\* POST /orders begins with the unique INSERT of its key.
Claim(r, k) ==
  /\ Arrive(r, k)
  /\ IF key[k] = None
     THEN key' = [key EXCEPT ![k] = Claimed(BodyOf[r])] /\ Goto(r, "open")
     ELSE Goto(r, "lookup") /\ UNCHANGED key

\* A separate read after the failed INSERT.  When the winner has released the
\* key in between there is no row, claim() returns null as if it had won, and
\* work() runs with no claim behind it.
Lookup(r) ==
  /\ pc[r] = "lookup"
  /\ LET row == key[ask[r]] IN
       \/ /\ row = None
          /\ Goto(r, "open")
          /\ loose' = loose \union {ask[r]}
          /\ UNCHANGED answer
       \/ /\ row # None /\ row.expired
          /\ Goto(r, "reclaim")
          /\ UNCHANGED <<loose, answer>>
       \/ /\ row # None /\ ~row.expired
          /\ row.body # BodyOf[r] \/ ~row.completed
          /\ Goto(r, "refused")
          /\ UNCHANGED <<loose, answer>>
       \/ /\ row # None /\ ~row.expired
          /\ row.body = BodyOf[r] /\ row.completed
          /\ Goto(r, "done")
          /\ answer' = [answer EXCEPT ![r] = row.response]
          /\ UNCHANGED loose
  /\ UNCHANGED <<key, ask, draft, carts, numbers>>

\* updateMany by key alone: whatever row has the key now, or none.
Reclaim(r) ==
  /\ pc[r] = "reclaim"
  /\ key' = [key EXCEPT ![ask[r]] =
               IF @ = None THEN None ELSE Claimed(BodyOf[r])]
  /\ Goto(r, "open")
  /\ loose' = loose \union {ask[r]}
  /\ UNCHANGED <<ask, draft, answer, carts, numbers>>

\* After the work: COMPLETED, with the response, by key alone.
Record(r) ==
  /\ pc[r] = "record"
  /\ key' = [key EXCEPT ![ask[r]] =
               IF @ = None THEN None
               ELSE [@ EXCEPT !.completed = TRUE, !.response = r]]
  /\ answer' = [answer EXCEPT ![r] = r]
  /\ Goto(r, "done")
  /\ UNCHANGED <<ask, draft, loose, carts, numbers>>

\* The order is committed and its recording is not: the catch releases the key.
RecordFails(r) ==
  /\ pc[r] = "record"
  /\ loose' = loose \union {ask[r]}
  /\ Goto(r, "release")
  /\ UNCHANGED <<key, ask, draft, answer, carts, numbers>>

\* Mutant: the error is passed on and the key is kept.
ReleaseNothing(r) ==
  /\ pc[r] = "release"
  /\ Goto(r, "refused")
  /\ UNCHANGED <<key, ask, draft, answer, loose, carts, numbers>>

\* deleteMany of the key if IN_PROGRESS, whoever claimed it.
Release(r) ==
  /\ pc[r] = "release"
  /\ key' = [key EXCEPT ![ask[r]] =
               IF @ # None /\ ~@.completed THEN None ELSE @]
  /\ Goto(r, "refused")
  /\ UNCHANGED <<ask, draft, answer, loose, carts, numbers>>

\* A failed clean-up is logged and never masks the original error.
ReleaseFails(r) ==
  /\ pc[r] = "release"
  /\ Goto(r, "unreleased")
  /\ UNCHANGED <<key, ask, draft, answer, loose, carts, numbers>>

\* Twenty-four hours pass, which no request outlives.
Expire(k) ==
  /\ key[k] # None /\ ~key[k].expired
  /\ \A r \in Requests : ask[r] = k => pc[r] \in Answered
  /\ key' = [key EXCEPT ![k].expired = TRUE]
  /\ UNCHANGED <<pc, ask, draft, answer, loose, carts, numbers>>

----------------------------------------------------------------------------
(* The checkout transaction. *)

CartFor(r) == CartOf[BodyOf[r]]
NewDraft(type) == [type |-> type, priced |-> type, lines |-> NoLines, number |-> 0]

\* Mutant: a cart that was checked out can be checked out again.
OpenAnyCart(r) ==
  /\ pc[r] = "open"
  /\ draft' = [draft EXCEPT ![r] = NewDraft(cart[CartFor(r)].type)]
  /\ Goto(r, "price")
  /\ UNCHANGED <<key, ask, answer, loose, carts, numbers>>

\* The first read of the transaction; the order takes its type from it.
OpenCart(r) ==
  /\ pc[r] = "open"
  /\ LET c == cart[CartFor(r)] IN
       IF c.status = "ACTIVE"
       THEN draft' = [draft EXCEPT ![r] = NewDraft(c.type)] /\ Goto(r, "price")
       ELSE Fail(r) /\ UNCHANGED draft
  /\ UNCHANGED <<key, ask, answer, loose, carts, numbers>>

\* priceCart reads the cart and its lines again, without looking at the status.
\* "The cart is empty" refuses.
Price(r) ==
  /\ pc[r] = "price"
  /\ LET c == cart[CartFor(r)] IN
       IF c.lines = NoLines
       THEN Fail(r) /\ draft' = [draft EXCEPT ![r] = None]
       ELSE /\ draft' = [draft EXCEPT ![r] =
                           [@ EXCEPT !.lines = c.lines, !.priced = c.type]]
            /\ Goto(r, "number")
  /\ UNCHANGED <<key, ask, answer, loose, carts, numbers>>

BranchFor(r) == BranchOf[CartFor(r)]

\* Mutant: a database sequence, which a rollback does not return.
AllocateFromSequence(r) ==
  /\ pc[r] = "number"
  /\ counter' = [counter EXCEPT ![BranchFor(r)] = @ + 1]
  /\ draft' = [draft EXCEPT ![r].number = counter[BranchFor(r)] + 1]
  /\ Goto(r, "commit")
  /\ UNCHANGED <<key, ask, answer, loose, carts, lock, orders>>

\* allocateOrderNumber: the upsert holds the counter row until the transaction
\* ends, and the new value is seen by others only if it commits.
Allocate(r) ==
  /\ pc[r] = "number"
  /\ lock[BranchFor(r)] = None
  /\ lock' = [lock EXCEPT ![BranchFor(r)] = r]
  /\ draft' = [draft EXCEPT ![r].number = counter[BranchFor(r)] + 1]
  /\ Goto(r, "commit")
  /\ UNCHANGED <<key, ask, answer, loose, carts, counter, orders>>

Unlock(r) == lock' = [b \in Branches |-> IF lock[b] = r THEN None ELSE lock[b]]

\* Those still inside a checkout of the cart that r is committing.
OpenOn(c, r) == {q \in Requests \ {r} :
                  /\ pc[q] \in Transacting \ {"open"}
                  /\ CartFor(q) = c}

\* The order with its lines, the cart closed by id, the counter: one commit.
Commit(r) ==
  /\ pc[r] = "commit"
  /\ LET c == CartFor(r)
         d == draft[r]
     IN
       /\ orders' = [orders EXCEPT ![r] =
                       [cart |-> c, type |-> d.type, priced |-> d.priced,
                        lines |-> d.lines, number |-> d.number,
                        overlapped |-> OpenOn(c, r)]]
       /\ cart' = [cart EXCEPT ![c].status = "CHECKED_OUT"]
       /\ counter' = [counter EXCEPT ![BranchFor(r)] = d.number]
       /\ edit' = [e \in Editors |->
                     IF edit[e] # None /\ edit[e].cart = c
                     THEN [edit[e] EXCEPT !.crossed = TRUE] ELSE edit[e]]
  /\ Unlock(r)
  /\ draft' = [draft EXCEPT ![r] = None]
  /\ IF ask[r] = NoKey
     THEN Goto(r, "done") /\ answer' = [answer EXCEPT ![r] = r]
     ELSE Goto(r, "record") /\ UNCHANGED answer
  /\ UNCHANGED <<key, ask, loose, disturbed>>

\* A refusal, a database error, a deadlock victim or the fifteen-second timeout.
Abort(r) ==
  /\ pc[r] \in Transacting
  /\ Unlock(r)
  /\ draft' = [draft EXCEPT ![r] = None]
  /\ Fail(r)
  /\ UNCHANGED <<key, ask, answer, loose, carts, counter, orders>>

\* The API process dies; the database rolls its transaction back.
Crash(r) ==
  /\ pc[r] \notin Answered \union {"idle"}
  /\ Unlock(r)
  /\ draft' = [draft EXCEPT ![r] = None]
  /\ Goto(r, "crashed")
  /\ UNCHANGED <<key, ask, answer, loose, carts, counter, orders>>

----------------------------------------------------------------------------
(* CartService.  Every operation reads the cart once, refuses a cart that   *)
(* is not ACTIVE, and then writes cart_items and touches the cart by id.    *)

requests == <<key, counter, lock, orders, pc, ask, draft, answer, loose>>

\* Mutant: the edit of a closed cart is not refused.
LoadAnyCart(e, c) ==
  /\ edit[e] = None
  /\ edit' = [edit EXCEPT ![e] = [cart |-> c, crossed |-> FALSE]]
  /\ UNCHANGED <<cart, disturbed, requests>>

LoadActiveCart(e, c) ==
  /\ edit[e] = None
  /\ cart[c].status = "ACTIVE"
  /\ edit' = [edit EXCEPT ![e] = [cart |-> c, crossed |-> FALSE]]
  /\ UNCHANGED <<cart, disturbed, requests>>

\* The edit commits.  It overlapped a checkout if one is open on the cart, or
\* committed since the cart was loaded.
Write(e, type, lines) ==
  LET c == edit[e].cart IN
    /\ cart' = [cart EXCEPT ![c] = [@ EXCEPT !.type = type, !.lines = lines]]
    /\ edit' = [edit EXCEPT ![e] = None]
    /\ disturbed' = IF \/ edit[e].crossed
                       \/ \E r \in Requests : /\ pc[r] \in Transacting
                                              /\ CartFor(r) = c
                    THEN disturbed \union {c} ELSE disturbed
    /\ UNCHANGED requests

Was(e) == cart[edit[e].cart]

UpdateType(e, type) == edit[e] # None /\ Write(e, type, Was(e).lines)

AddItem(e, l, q) ==
  /\ edit[e] # None
  /\ Was(e).lines[l] = 0
  /\ Write(e, Was(e).type, [Was(e).lines EXCEPT ![l] = q])

\* Quantity zero means "remove"; removeItem is the same write.
UpdateItem(e, l, q) ==
  /\ edit[e] # None
  /\ Was(e).lines[l] > 0
  /\ Write(e, Was(e).type, [Was(e).lines EXCEPT ![l] = q])

Clear(e) == edit[e] # None /\ Write(e, Was(e).type, NoLines)

\* A line that is not there, an item that is not orderable, a timeout, a crash.
AbandonEdit(e) ==
  /\ edit[e] # None
  /\ edit' = [edit EXCEPT ![e] = None]
  /\ UNCHANGED <<cart, disturbed, requests>>

----------------------------------------------------------------------------
Serve(r) ==
  \/ Lookup(r) \/ Reclaim(r)
  \/ OpenCart(r) \/ Price(r) \/ Allocate(r) \/ Commit(r) \/ Abort(r)
  \/ Record(r) \/ RecordFails(r) \/ Release(r) \/ ReleaseFails(r)

Edit(e) ==
  \/ \E c \in Carts : LoadActiveCart(e, c)
  \/ \E type \in OrderType : UpdateType(e, type)
  \/ \E l \in Lines, q \in 1 .. MaxQty : AddItem(e, l, q)
  \/ \E l \in Lines, q \in 0 .. MaxQty : UpdateItem(e, l, q)
  \/ Clear(e)
  \/ AbandonEdit(e)

Next ==
  \/ \E r \in Requests :
       \/ Confirm(r)
       \/ \E k \in Keys : Claim(r, k)
       \/ Serve(r)
       \/ Crash(r)
  \/ \E k \in Keys : Expire(k)
  \/ \E e \in Editors : Edit(e)

Spec == Init /\ [][Next]_vars

----------------------------------------------------------------------------
CartRow == [status : {"ACTIVE", "CHECKED_OUT"}, type : OrderType,
            lines : [Lines -> 0 .. MaxQty]]
KeyRow == [body : Bodies, completed : BOOLEAN,
           response : Requests \union {None}, expired : BOOLEAN]
Order == [cart : Carts, type : OrderType, priced : OrderType,
          lines : [Lines -> 0 .. MaxQty], number : Nat,
          overlapped : SUBSET Requests]
Draft == [type : OrderType, priced : OrderType,
          lines : [Lines -> 0 .. MaxQty], number : Nat]
OpenEdit == [cart : Carts, crossed : BOOLEAN]

\* A null is none of the values it stands in for.
ASSUME NoneAssumption ==
  /\ None \notin Requests \union Keys \union {NoKey}
  /\ None \notin KeyRow \union Order \union Draft \union OpenEdit
  /\ None \notin [cart : Carts, number : Nat]

\* The type invariant; the counter row has at most one holder, who is about to
\* commit with the next number.
TypeOK ==
  /\ cart \in [Carts -> CartRow]
  /\ key \in [Keys -> KeyRow \union {None}]
  /\ counter \in [Branches -> Nat]
  /\ lock \in [Branches -> Requests \union {None}]
  /\ orders \in [Requests -> Order \union {None}]
  /\ pc \in [Requests -> Transacting \union Answered \union
             {"idle", "lookup", "reclaim", "record", "release"}]
  /\ ask \in [Requests -> Keys \union {NoKey, None}]
  /\ draft \in [Requests -> Draft \union {None}]
  /\ answer \in [Requests -> Requests \union {None}]
  /\ edit \in [Editors -> OpenEdit \union {None}]
  /\ loose \subseteq Keys
  /\ disturbed \subseteq Carts
  /\ \A b \in Branches, r \in Requests :
       lock[b] = r <=> pc[r] = "commit" /\ BranchFor(r) = b
  /\ \A r \in Requests :
       pc[r] = "commit" => draft[r].number = counter[BranchFor(r)] + 1

Placed == {r \in Requests : orders[r] # None}

(***************************************************************************)
(* One order per key, and a replay is the order of the same body, for as   *)
(* long as the key guards: nobody ran it without a claim, nobody took it   *)
(* over after its 24 hours, and no recording failed.                       *)
(***************************************************************************)
OncePerKey ==
  \A r \in Requests :
    ask[r] \in Keys \ loose =>
      /\ r \in Placed => \A q \in Placed \ {r} : ask[q] # ask[r]
      /\ pc[r] = "done" => /\ answer[r] \in Placed
                           /\ BodyOf[answer[r]] = BodyOf[r]

(***************************************************************************)
(* A cart becomes two orders only if the two checkouts overlapped: the one *)
(* that committed later had read the cart as ACTIVE before the other       *)
(* closed it.  A retry that starts after the answer never orders again.    *)
(***************************************************************************)
TwiceOnlyIfOverlapped ==
  \A r, q \in Placed :
    r # q /\ orders[r].cart = orders[q].cart =>
      q \in orders[r].overlapped \/ r \in orders[q].overlapped

(***************************************************************************)
(* "The cart and the order it became" agree, in lines and in type, and the *)
(* type is the one it was priced for, unless an edit overlapped the        *)
(* checkout.  A cart is closed exactly when an order was made of it.       *)
(***************************************************************************)
CartMatchesOrder ==
  /\ \A c \in Carts : cart[c].status = "CHECKED_OUT" <=>
                        \E r \in Placed : orders[r].cart = c
  /\ \A r \in Placed :
       LET o == orders[r] IN
         o.cart \notin disturbed =>
           /\ o.lines = cart[o.cart].lines
           /\ o.type = cart[o.cart].type
           /\ o.priced = o.type

(***************************************************************************)
(* The orders of a branch's day are numbered 1, 2, 3 with no gap and no    *)
(* repetition, whatever fails on the way.                                  *)
(***************************************************************************)
Numbered(b) == {r \in Placed : BranchOf[orders[r].cart] = b}

GaplessNumbers ==
  \A b \in Branches :
    {orders[r].number : r \in Numbered(b)} = 1 .. Cardinality(Numbered(b))

(***************************************************************************)
(* Checkout implements OrderDesk: seen from outside, an order appears at   *)
(* one moment, with the next number, out of a cart that its request found  *)
(* open, once for a key that guards; nothing is left of a request that     *)
(* failed; and what a client is told of is an order of its key.            *)
(***************************************************************************)
DeskPlace(r) ==
  CASE pc[r] = "idle" -> "away"
    [] pc[r] \in {"lookup", "reclaim", "open"} -> "asked"
    [] pc[r] \in Transacting \ {"open"} -> "inside"
    [] OTHER -> "gone"

DeskOrder(r) ==
  IF orders[r] = None THEN None
  ELSE [cart |-> orders[r].cart, number |-> orders[r].number]

ClosedCarts == {c \in Carts : cart[c].status = "CHECKED_OUT"}

Desk == INSTANCE OrderDesk WITH
          at <- [r \in Requests |-> DeskPlace(r)],
          asked <- ask, closed <- ClosedCarts,
          placed <- [r \in Requests |-> DeskOrder(r)],
          told <- answer, void <- loose
ImplementsDesk == Desk!Spec

(***************************************************************************)
(* "A key is released when its request fails so a transient error does not *)
(* lock it for 24 hours": while a key is in progress some request that has *)
(* it is still being served and will free it, unless the process died or   *)
(* the release itself failed.                                              *)
(***************************************************************************)
InProgress(k) == key[k] # None /\ ~key[k].completed

KeysAreFreed ==
  \A k \in Keys : InProgress(k) =>
    \E r \in Requests :
      ask[r] = k /\ pc[r] \in Transacting \union
                              {"record", "release", "crashed", "unreleased"}

(***************************************************************************)
(* IdempotencyService.run: "Runs work at most once per key".  The window   *)
(* between a lost claim and its lookup breaks it (run checkout_retry).     *)
(***************************************************************************)
OneOrderPerKey ==
  \A r, q \in Placed : r # q /\ ask[r] \in Keys => ask[r] # ask[q]
=============================================================================
