------------------------------ MODULE OrderDesk ------------------------------
(***************************************************************************)
(* What POST /orders and the WhatsApp confirmation promise, as a desk that *)
(* takes one request at a time: a request that was let in to an open cart  *)
(* either goes away or becomes, at one moment, an order with the branch's  *)
(* next number, which closes the cart; a key that guards has one order;    *)
(* and who is told of an order is told of one that came under the same     *)
(* key, and while the key guards of one for the same body, once.  Rows,    *)
(* locks, counters, retries of the claim and crashes are Checkout's.       *)
(***************************************************************************)
EXTENDS Naturals

CONSTANTS Requests, Keys, NoKey, Bodies, BodyOf, CartOf, Branches, BranchOf,
          Carts, None

VARIABLES
  at,       \* where each request stands
  asked,    \* the key it came with
  closed,   \* the carts that became an order
  placed,   \* the order of each request, if there is one
  told,     \* the request whose order each request was told of
  void      \* the keys that stopped guarding

vars == <<at, asked, closed, placed, told, void>>

CartFor(r) == CartOf[BodyOf[r]]
Ordered == {r \in Requests : placed[r] # None}
Numbers(b) == {placed[r].number : r \in {q \in Ordered : BranchOf[placed[q].cart] = b}}

Init ==
  /\ at = [r \in Requests |-> "away"]
  /\ asked = [r \in Requests |-> None]
  /\ closed = {}
  /\ placed = [r \in Requests |-> None]
  /\ told = [r \in Requests |-> None]
  /\ void = {}

Ask(r) ==
  /\ at[r] = "away"
  /\ \E k \in Keys \union {NoKey} : asked' = [asked EXCEPT ![r] = k]
  /\ at' = [at EXCEPT ![r] = "asked"]
  /\ UNCHANGED <<closed, placed, told, void>>

\* Only while the cart is open.
Enter(r) ==
  /\ at[r] = "asked"
  /\ CartFor(r) \notin closed
  /\ at' = [at EXCEPT ![r] = "inside"]
  /\ UNCHANGED <<asked, closed, placed, told, void>>

\* Refused, given up, crashed: nothing is left of it.
Leave(r) ==
  /\ at[r] \in {"asked", "inside"}
  /\ at' = [at EXCEPT ![r] = "gone"]
  /\ UNCHANGED <<asked, closed, placed, told, void>>

\* The number is the one after those the branch has given, which have no gap.
\* Those who came with no key hear of their order as it is placed.
Place(r) ==
  /\ at[r] = "inside"
  /\ placed[r] = None
  /\ asked[r] \in Keys \ void => \A q \in Ordered : asked[q] # asked[r]
  /\ LET c == CartFor(r)
         given == Numbers(BranchOf[c])
     IN
       /\ \E n \in {1} \union {m + 1 : m \in given} :
            /\ given = 1 .. n - 1
            /\ placed' = [placed EXCEPT ![r] = [cart |-> c, number |-> n]]
       /\ closed' = closed \union {c}
  /\ at' = [at EXCEPT ![r] = "gone"]
  /\ told' = IF asked[r] = NoKey THEN [told EXCEPT ![r] = r] ELSE told
  /\ UNCHANGED <<asked, void>>

\* The order of this request, or a replay.
Tell(r, q) ==
  /\ at[r] \in {"asked", "gone"}
  /\ told[r] = None
  /\ q \in Ordered
  /\ asked[r] \in Keys /\ asked[q] = asked[r]
  /\ asked[r] \notin void => BodyOf[q] = BodyOf[r]
  /\ at' = [at EXCEPT ![r] = "gone"]
  /\ told' = [told EXCEPT ![r] = q]
  /\ UNCHANGED <<asked, closed, placed, void>>

\* A key is lost: someone ran without its claim, took it over when it had
\* expired, or could not record its response.  That takes a request that has it.
Lose(r) ==
  /\ asked[r] \in Keys
  /\ at[r] \in {"asked", "gone"}
  /\ void' = void \union {asked[r]}
  /\ UNCHANGED <<at, asked, closed, placed, told>>

Next ==
  \E r \in Requests :
    \/ Ask(r) \/ Enter(r) \/ Leave(r) \/ Place(r) \/ Lose(r)
    \/ \E q \in Requests : Tell(r, q)

Spec == Init /\ [][Next]_vars
=============================================================================
