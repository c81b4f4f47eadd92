--------------------------- MODULE CheckoutProofs ---------------------------
(***************************************************************************)
(* What Checkout promises for any number of requests, keys, carts, lines,  *)
(* branches and open edits: the type invariant, that a failed request      *)
(* leaves its key to somebody who frees it, gapless order numbers, when a  *)
(* cart can become two orders, the agreement of a cart with its order, and *)
(* one order per key while the key guards.                                 *)
(***************************************************************************)
EXTENDS Checkout, FiniteSetTheorems, TLAPS

----------------------------------------------------------------------------
(* Where a request can be, and what it has there.  TypeOK is not inductive *)
(* without it: it does not say that a request at a step of run() has a     *)
(* key, nor that a priced checkout has a draft.                            *)

Keyed == {"lookup", "reclaim", "record", "release", "unreleased"}
Drafting == {"price", "number", "commit"}
BeforeCommit == {"idle", "lookup", "reclaim"} \union Transacting

Stages ==
  \A r \in Requests :
    /\ pc[r] # "idle" => ask[r] # None
    /\ pc[r] \in Keyed => ask[r] \in Keys
    /\ pc[r] \in Drafting => draft[r] \in Draft
    /\ pc[r] \in BeforeCommit => orders[r] = None
    /\ pc[r] = "record" => orders[r] # None

\* Where a request's body sends it.
LEMMA BodiesHaveACart ==
  ASSUME NEW r \in Requests
  PROVE  CartFor(r) \in Carts /\ BranchFor(r) \in Branches
  BY BodyOfAssumption, CartOfAssumption, BranchOfAssumption
     DEF CartFor, BranchFor

\* A row of any table is not the null that stands for its absence.
LEMMA RowsAreNotNull ==
  ASSUME TypeOK
  PROVE  /\ \A k \in Keys : key[k] # None <=> key[k] \in KeyRow
         /\ \A r \in Requests : orders[r] # None <=> orders[r] \in Order
         /\ \A r \in Requests : draft[r] # None <=> draft[r] \in Draft
         /\ \A e \in Editors : edit[e] # None <=> edit[e] \in OpenEdit
  BY NoneAssumption DEF TypeOK

\* What the writes of a row leave it: a row.
LEMMA WritesKeepRows ==
  /\ \A c \in CartRow : [c EXCEPT !.status = "CHECKED_OUT"] \in CartRow
  /\ \A c \in CartRow, type \in OrderType, lines \in [Lines -> 0 .. MaxQty] :
       [c EXCEPT !.type = type, !.lines = lines] \in CartRow
  /\ \A d \in Draft, type \in OrderType, lines \in [Lines -> 0 .. MaxQty] :
       [d EXCEPT !.lines = lines, !.priced = type] \in Draft
<1>1. \A c \in CartRow : [c EXCEPT !.status = "CHECKED_OUT"] \in CartRow
  BY DEF CartRow
<1>2. \A c \in CartRow, type \in OrderType, lines \in [Lines -> 0 .. MaxQty] :
       [c EXCEPT !.type = type, !.lines = lines] \in CartRow
  BY DEF CartRow
<1>3. \A d \in Draft, type \in OrderType, lines \in [Lines -> 0 .. MaxQty] :
       [d EXCEPT !.lines = lines, !.priced = type] \in Draft
  BY DEF Draft
<1> QED  BY <1>1, <1>2, <1>3

\* TypeOK, with the Stages it needs to be inductive.
THEOREM TypeCorrect == Spec => [](TypeOK /\ Stages)
<1> USE DEF Transacting, Answered, Keyed, Drafting, BeforeCommit, Goto, Fail,
            Unlock, carts, numbers, requests
<1>1. Init => TypeOK /\ Stages
  BY MaxQtyAssumption, NoneAssumption
     DEF Init, TypeOK, Stages, CartRow, OrderType, NoLines
<1>2. TypeOK /\ Stages /\ [Next]_vars => (TypeOK /\ Stages)'
  <2> SUFFICES ASSUME TypeOK, Stages, [Next]_vars PROVE TypeOK' /\ Stages'
    OBVIOUS
  <2> USE BodiesHaveACart
  <2>1. ASSUME NEW r \in Requests, Confirm(r)
        PROVE  TypeOK' /\ Stages'
    <3>1. /\ ask' = [ask EXCEPT ![r] = NoKey]
          /\ pc' = [pc EXCEPT ![r] = "open"]
          /\ pc[r] = "idle"
          /\ UNCHANGED <<cart, key, counter, lock, orders, draft, answer, edit,
                         loose, disturbed>>
      BY <2>1 DEF Confirm, Arrive
    <3>2. TypeOK'
      BY <3>1 DEF TypeOK, BranchFor, CartFor
    <3>3. Stages'
      BY <3>1, NoneAssumption DEF TypeOK, Stages
    <3> QED  BY <3>2, <3>3
  <2>2. ASSUME NEW r \in Requests, NEW k \in Keys, Claim(r, k)
        PROVE  TypeOK' /\ Stages'
    <3>1. /\ ask' = [ask EXCEPT ![r] = k]
          /\ \/ pc' = [pc EXCEPT ![r] = "open"]
             \/ pc' = [pc EXCEPT ![r] = "lookup"]
          /\ pc[r] = "idle"
          /\ UNCHANGED <<cart, counter, lock, orders, draft, answer, edit,
                         loose, disturbed>>
      BY <2>2 DEF Claim, Arrive
    <3>2. key' \in [Keys -> KeyRow \union {None}]
      <4>1. Claimed(BodyOf[r]) \in KeyRow
        BY BodyOfAssumption DEF Claimed, KeyRow
      <4> QED  BY <2>2, <4>1 DEF Claim, TypeOK
    <3>3. TypeOK'
      BY <3>1, <3>2 DEF TypeOK, BranchFor, CartFor
    <3>4. Stages'
      BY <3>1, NoneAssumption DEF TypeOK, Stages
    <3> QED  BY <3>3, <3>4
  <2>3. ASSUME NEW r \in Requests, Lookup(r)
        PROVE  TypeOK' /\ Stages'
    <3>1. ask[r] \in Keys
      BY <2>3 DEF Lookup, Stages
    <3>2. /\ answer' \in [Requests -> Requests \union {None}]
          /\ loose' \subseteq Keys
      BY <2>3, <3>1, RowsAreNotNull DEF Lookup, TypeOK, KeyRow
    <3>3. /\ pc[r] = "lookup"
          /\ \E place \in {"open", "reclaim", "refused", "done"} :
               pc' = [pc EXCEPT ![r] = place]
          /\ UNCHANGED <<cart, key, counter, lock, orders, ask, draft, edit,
                         disturbed>>
      BY <2>3 DEF Lookup
    <3>4. TypeOK'
      BY <3>2, <3>3 DEF TypeOK, BranchFor, CartFor
    <3>5. Stages'
      BY <3>1, <3>3 DEF TypeOK, Stages
    <3> QED  BY <3>4, <3>5
  <2>4. ASSUME NEW r \in Requests, Reclaim(r)
        PROVE  TypeOK' /\ Stages'
    <3>1. ask[r] \in Keys /\ Claimed(BodyOf[r]) \in KeyRow
      BY <2>4, BodyOfAssumption DEF Reclaim, Stages, Claimed, KeyRow
    <3>2. TypeOK'
      BY <2>4, <3>1 DEF Reclaim, TypeOK, BranchFor, CartFor
    <3>3. Stages'
      BY <2>4 DEF Reclaim, TypeOK, Stages
    <3> QED  BY <3>2, <3>3
  <2>5. ASSUME NEW r \in Requests, OpenCart(r)
        PROVE  TypeOK' /\ Stages'
    <3>1. ASSUME NEW type \in OrderType
          PROVE  NewDraft(type) \in Draft
      BY MaxQtyAssumption DEF NewDraft, NoLines, Draft
    <3>2. cart[CartFor(r)].type \in OrderType
      BY DEF TypeOK, CartRow
    <3>3. /\ pc[r] = "open"
          /\ UNCHANGED <<cart, key, counter, lock, orders, ask, answer, edit,
                         loose, disturbed>>
          /\ \/ /\ draft' = [draft EXCEPT ![r] = NewDraft(cart[CartFor(r)].type)]
                /\ pc' = [pc EXCEPT ![r] = "price"]
             \/ /\ draft' = draft
                /\ ask[r] = NoKey
                /\ pc' = [pc EXCEPT ![r] = "refused"]
             \/ /\ draft' = draft
                /\ ask[r] # NoKey
                /\ pc' = [pc EXCEPT ![r] = "release"]
      BY <2>5 DEF OpenCart
    <3>4. TypeOK'
      BY <3>1, <3>2, <3>3 DEF TypeOK, BranchFor, CartFor
    <3>5. Stages'
      BY <3>1, <3>2, <3>3 DEF TypeOK, Stages
    <3> QED  BY <3>4, <3>5
  <2>6. ASSUME NEW r \in Requests, Price(r)
        PROVE  TypeOK' /\ Stages'
    <3> DEFINE c == cart[CartFor(r)]
               d == [draft[r] EXCEPT !.lines = c.lines, !.priced = c.type]
    <3>1. d \in Draft
      <4>1. draft[r] \in Draft
        BY <2>6 DEF Price, Stages
      <4>2. c.type \in OrderType /\ c.lines \in [Lines -> 0 .. MaxQty]
        BY DEF TypeOK, CartRow
      <4> QED  BY <4>1, <4>2, WritesKeepRows
    <3>2. /\ pc[r] = "price"
          /\ UNCHANGED <<cart, key, counter, lock, orders, ask, answer, edit,
                         loose, disturbed>>
          /\ \/ /\ draft' = [draft EXCEPT ![r] = d]
                /\ pc' = [pc EXCEPT ![r] = "number"]
             \/ /\ draft' = [draft EXCEPT ![r] = None]
                /\ ask[r] = NoKey
                /\ pc' = [pc EXCEPT ![r] = "refused"]
             \/ /\ draft' = [draft EXCEPT ![r] = None]
                /\ ask[r] # NoKey
                /\ pc' = [pc EXCEPT ![r] = "release"]
      BY <2>6 DEF Price, TypeOK
    <3> HIDE DEF d
    <3>3. TypeOK'
      BY <3>1, <3>2 DEF TypeOK, BranchFor, CartFor
    <3>4. Stages'
      BY <3>1, <3>2 DEF TypeOK, Stages
    <3> QED  BY <3>3, <3>4
  <2>7. ASSUME NEW r \in Requests, Allocate(r)
        PROVE  TypeOK' /\ Stages'
    <3> DEFINE d == [draft[r] EXCEPT !.number = counter[BranchFor(r)] + 1]
    <3>1. d \in Draft /\ d.number = counter[BranchFor(r)] + 1
      BY <2>7 DEF Allocate, Stages, TypeOK, Draft
    <3>2. /\ pc[r] = "number"
          /\ lock[BranchFor(r)] = None
          /\ lock' = [lock EXCEPT ![BranchFor(r)] = r]
          /\ draft' = [draft EXCEPT ![r] = d]
          /\ pc' = [pc EXCEPT ![r] = "commit"]
          /\ UNCHANGED <<cart, key, counter, orders, ask, answer, edit,
                         loose, disturbed>>
      BY <2>7 DEF Allocate, TypeOK
    <3> HIDE DEF d
    <3>3. TypeOK'
      BY <3>1, <3>2, NoneAssumption DEF TypeOK, BranchFor, CartFor
    <3>4. Stages'
      BY <3>1, <3>2 DEF TypeOK, Stages
    <3> QED  BY <3>3, <3>4
  <2>8. ASSUME NEW r \in Requests, Commit(r)
        PROVE  TypeOK' /\ Stages'
    <3> DEFINE c == CartFor(r)
               d == draft[r]
               o == [cart |-> c, type |-> d.type, priced |-> d.priced,
                     lines |-> d.lines, number |-> d.number,
                     overlapped |-> OpenOn(c, r)]
    <3>1. d \in Draft /\ o \in Order /\ d.number = counter[BranchFor(r)] + 1
      BY <2>8 DEF Commit, Stages, TypeOK, Draft, Order, OpenOn
    <3>2. orders' = [orders EXCEPT ![r] = o] /\ o # None
      BY <2>8, <3>1, NoneAssumption DEF Commit
    <3>3. cart' \in [Carts -> CartRow]
      <4>1. [cart[c] EXCEPT !.status = "CHECKED_OUT"] \in CartRow
        <5>1. cart[c] \in CartRow
          BY <2>8 DEF Commit, TypeOK, CartFor
        <5> QED  BY <5>1, WritesKeepRows
      <4> QED  BY <2>8, <4>1 DEF Commit, TypeOK
    <3>4. edit' \in [Editors -> OpenEdit \union {None}]
      <4>1. \A e \in Editors : edit[e] # None =>
              [edit[e] EXCEPT !.crossed = TRUE] \in OpenEdit
        BY RowsAreNotNull DEF OpenEdit
      <4> QED  BY <2>8, <4>1 DEF Commit, TypeOK
    <3>5. /\ pc[r] = "commit"
          /\ counter' = [counter EXCEPT ![BranchFor(r)] = d.number]
          /\ lock' = [b \in Branches |-> IF lock[b] = r THEN None ELSE lock[b]]
          /\ draft' = [draft EXCEPT ![r] = None]
          /\ \/ /\ pc' = [pc EXCEPT ![r] = "done"]
                /\ answer' = [answer EXCEPT ![r] = r]
             \/ /\ ask[r] # NoKey
                /\ pc' = [pc EXCEPT ![r] = "record"]
                /\ answer' = answer
          /\ UNCHANGED <<key, ask, loose, disturbed>>
      BY <2>8 DEF Commit
    <3> HIDE DEF o
    <3>6. /\ counter' \in [Branches -> Nat]
          /\ orders' \in [Requests -> Order \union {None}]
          /\ lock' \in [Branches -> Requests \union {None}]
      BY <3>1, <3>2, <3>5 DEF TypeOK, Draft
    <3>7. /\ pc' \in [Requests -> Transacting \union Answered \union
                       {"idle", "lookup", "reclaim", "record", "release"}]
          /\ draft' \in [Requests -> Draft \union {None}]
          /\ answer' \in [Requests -> Requests \union {None}]
      BY <3>5 DEF TypeOK
    <3>8. ASSUME NEW b \in Branches, NEW q \in Requests
          PROVE  lock'[b] = q <=> pc'[q] = "commit" /\ BranchFor(q) = b
      BY <3>5, NoneAssumption DEF TypeOK
    <3>9. ASSUME NEW q \in Requests, pc'[q] = "commit"
          PROVE  draft'[q].number = counter'[BranchFor(q)] + 1
      <4>1. q # r /\ pc[q] = "commit"
        BY <3>5, <3>9 DEF TypeOK
      <4>2. BranchFor(q) # BranchFor(r)
        BY <3>5, <4>1 DEF TypeOK
      <4> QED  BY <3>5, <4>1, <4>2 DEF TypeOK
    <3>10. TypeOK'
      BY <3>3, <3>4, <3>5, <3>6, <3>7, <3>8, <3>9 DEF TypeOK, BranchFor, CartFor
    <3>11. Stages'
      BY <3>2, <3>5 DEF TypeOK, Stages
    <3> QED  BY <3>10, <3>11
  <2>9. ASSUME NEW r \in Requests, Abort(r)
        PROVE  TypeOK' /\ Stages'
    <3>1. TypeOK'
      BY <2>9, NoneAssumption DEF Abort, TypeOK, BranchFor, CartFor
    <3>2. Stages'
      BY <2>9 DEF Abort, TypeOK, Stages
    <3> QED  BY <3>1, <3>2
  <2>10. ASSUME NEW r \in Requests, Record(r)
        PROVE  TypeOK' /\ Stages'
    <3>1. ask[r] \in Keys
      BY <2>10 DEF Record, Stages
    <3>2. key' \in [Keys -> KeyRow \union {None}]
      <4>1. key[ask[r]] # None =>
              [key[ask[r]] EXCEPT !.completed = TRUE, !.response = r] \in KeyRow
        BY <3>1, RowsAreNotNull DEF KeyRow
      <4> QED  BY <2>10, <4>1 DEF Record, TypeOK
    <3>3. /\ pc[r] = "record"
          /\ pc' = [pc EXCEPT ![r] = "done"]
          /\ answer' = [answer EXCEPT ![r] = r]
          /\ UNCHANGED <<cart, counter, lock, orders, ask, draft, edit, loose,
                         disturbed>>
      BY <2>10 DEF Record
    <3>4. TypeOK'
      BY <3>2, <3>3 DEF TypeOK, BranchFor, CartFor
    <3>5. Stages'
      BY <3>3 DEF TypeOK, Stages
    <3> QED  BY <3>4, <3>5
  <2>11. ASSUME NEW r \in Requests, RecordFails(r)
        PROVE  TypeOK' /\ Stages'
    <3>1. ask[r] \in Keys
      BY <2>11 DEF RecordFails, Stages
    <3>2. TypeOK'
      BY <2>11, <3>1 DEF RecordFails, TypeOK, BranchFor, CartFor
    <3>3. Stages'
      BY <2>11, <3>1 DEF RecordFails, TypeOK, Stages
    <3> QED  BY <3>2, <3>3
  <2>12. ASSUME NEW r \in Requests, Release(r)
        PROVE  TypeOK' /\ Stages'
    <3>1. TypeOK'
      <4>1. \E row \in {None, key[ask[r]]} : key' = [key EXCEPT ![ask[r]] = row]
        BY <2>12 DEF Release
      <4>2. key' \in [Keys -> KeyRow \union {None}]
        <5>1. ask[r] \in Keys /\ key[ask[r]] \in KeyRow \union {None}
          BY <2>12 DEF Release, Stages, TypeOK
        <5> QED  BY <4>1, <5>1 DEF TypeOK
      <4> QED  BY <2>12, <4>2 DEF Release, TypeOK, BranchFor, CartFor
    <3>2. Stages'
      <4>1. /\ pc[r] = "release"
            /\ pc' = [pc EXCEPT ![r] = "refused"]
            /\ UNCHANGED <<ask, draft, orders>>
        BY <2>12 DEF Release
      <4> QED  BY <4>1 DEF TypeOK, Stages
    <3> QED  BY <3>1, <3>2
  <2>13. ASSUME NEW r \in Requests, ReleaseFails(r)
        PROVE  TypeOK' /\ Stages'
    <3>1. TypeOK'
      BY <2>13 DEF ReleaseFails, TypeOK, BranchFor, CartFor
    <3>2. Stages'
      BY <2>13 DEF ReleaseFails, TypeOK, Stages
    <3> QED  BY <3>1, <3>2
  <2>14. ASSUME NEW r \in Requests, Crash(r)
        PROVE  TypeOK' /\ Stages'
    <3>1. TypeOK'
      BY <2>14, NoneAssumption DEF Crash, TypeOK, BranchFor, CartFor
    <3>2. Stages'
      BY <2>14 DEF Crash, TypeOK, Stages
    <3> QED  BY <3>1, <3>2
  <2>15. ASSUME NEW k \in Keys, Expire(k)
        PROVE  TypeOK' /\ Stages'
    <3>1. key' \in [Keys -> KeyRow \union {None}]
      <4>1. [key[k] EXCEPT !.expired = TRUE] \in KeyRow
        BY <2>15, RowsAreNotNull DEF Expire, KeyRow
      <4> QED  BY <2>15, <4>1 DEF Expire, TypeOK
    <3>2. TypeOK'
      BY <2>15, <3>1 DEF Expire, TypeOK, BranchFor, CartFor
    <3>3. Stages'
      BY <2>15 DEF Expire, Stages
    <3> QED  BY <3>2, <3>3
  <2>16. ASSUME NEW e \in Editors, NEW c \in Carts, LoadActiveCart(e, c)
        PROVE  TypeOK' /\ Stages'
    <3>1. TypeOK'
      BY <2>16 DEF LoadActiveCart, TypeOK, OpenEdit, BranchFor, CartFor
    <3>2. Stages'
      BY <2>16 DEF LoadActiveCart, Stages
    <3> QED  BY <3>1, <3>2
  <2>17. ASSUME NEW e \in Editors, edit[e] # None,
                NEW type \in OrderType, NEW lines \in [Lines -> 0 .. MaxQty],
                Write(e, type, lines)
        PROVE  TypeOK' /\ Stages'
    <3>1. edit[e].cart \in Carts
      BY <2>17, RowsAreNotNull DEF OpenEdit
    <3> DEFINE c == edit[e].cart
    <3>2. /\ cart' \in [Carts -> CartRow]
          /\ disturbed' \subseteq Carts
      <4>1. [cart[c] EXCEPT !.type = type, !.lines = lines] \in CartRow
        <5>1. cart[c] \in CartRow
          BY <3>1 DEF TypeOK
        <5> QED  BY <2>17, <5>1, WritesKeepRows
      <4> QED  BY <2>17, <3>1, <4>1 DEF Write, TypeOK
    <3>3. TypeOK'
      BY <2>17, <3>2 DEF Write, TypeOK, BranchFor, CartFor
    <3>4. Stages'
      BY <2>17 DEF Write, Stages
    <3> QED  BY <3>3, <3>4
  <2>18. ASSUME NEW e \in Editors, edit[e] # None
        PROVE  Was(e).type \in OrderType /\ Was(e).lines \in [Lines -> 0 .. MaxQty]
    BY <2>18, RowsAreNotNull DEF Was, TypeOK, OpenEdit, CartRow
  <2>19. ASSUME NEW e \in Editors, NEW type \in OrderType, UpdateType(e, type)
        PROVE  TypeOK' /\ Stages'
    BY <2>17, <2>18, <2>19 DEF UpdateType
  <2>20. ASSUME NEW e \in Editors, NEW l \in Lines, NEW q \in 1 .. MaxQty,
                AddItem(e, l, q)
        PROVE  TypeOK' /\ Stages'
    <3>1. [Was(e).lines EXCEPT ![l] = q] \in [Lines -> 0 .. MaxQty]
      BY <2>18, <2>20, MaxQtyAssumption DEF AddItem
    <3> QED  BY <2>17, <2>18, <2>20, <3>1 DEF AddItem
  <2>21. ASSUME NEW e \in Editors, NEW l \in Lines, NEW q \in 0 .. MaxQty,
                UpdateItem(e, l, q)
        PROVE  TypeOK' /\ Stages'
    <3>1. [Was(e).lines EXCEPT ![l] = q] \in [Lines -> 0 .. MaxQty]
      BY <2>18, <2>21 DEF UpdateItem
    <3> QED  BY <2>17, <2>18, <2>21, <3>1 DEF UpdateItem
  <2>22. ASSUME NEW e \in Editors, Clear(e)
        PROVE  TypeOK' /\ Stages'
    <3>1. NoLines \in [Lines -> 0 .. MaxQty]
      BY MaxQtyAssumption DEF NoLines
    <3> QED  BY <2>17, <2>18, <2>22, <3>1 DEF Clear
  <2>23. ASSUME NEW e \in Editors, AbandonEdit(e)
        PROVE  TypeOK' /\ Stages'
    <3>1. TypeOK'
      BY <2>23 DEF AbandonEdit, TypeOK, BranchFor, CartFor
    <3>2. Stages'
      BY <2>23 DEF AbandonEdit, Stages
    <3> QED  BY <3>1, <3>2
  <2>24. CASE UNCHANGED vars
    <3>1. TypeOK'
      BY <2>24 DEF vars, TypeOK, BranchFor, CartFor
    <3>2. Stages'
      BY <2>24 DEF vars, Stages
    <3> QED  BY <3>1, <3>2
  <2> QED
    BY <2>1, <2>2, <2>3, <2>4, <2>5, <2>6, <2>7, <2>8, <2>9, <2>10, <2>11,
       <2>12, <2>13, <2>14, <2>15, <2>16, <2>19, <2>20, <2>21, <2>22, <2>23,
       <2>24
    DEF Next, Serve, Edit
<1> QED  BY <1>1, <1>2, PTL DEF Spec

----------------------------------------------------------------------------
(* Frames: which steps touch what. *)

\* CartService never touches what the requests have.
LEMMA EditsLeaveRequests ==
  ASSUME NEW e \in Editors, Edit(e)
  PROVE  UNCHANGED requests
  BY DEF Edit, LoadActiveCart, UpdateType, AddItem, UpdateItem, Clear,
         AbandonEdit, Write, requests

\* An order, and a number, come of a commit and of nothing else.
LEMMA OnlyCommitsOrder ==
  ASSUME [Next]_vars
  PROVE  UNCHANGED <<orders, counter>> \/ \E r \in Requests : Commit(r)
<1> USE DEF numbers
<1>1. ASSUME NEW r \in Requests, Confirm(r) \/ \E k \in Keys : Claim(r, k)
      PROVE  UNCHANGED <<orders, counter>>
  BY <1>1 DEF Confirm, Claim, Arrive
<1>2. ASSUME NEW r \in Requests, Serve(r), ~Commit(r)
      PROVE  UNCHANGED <<orders, counter>>
  BY <1>2 DEF Serve, Lookup, Reclaim, OpenCart, Price, Allocate, Abort, Record,
              RecordFails, Release, ReleaseFails
<1>3. ASSUME NEW r \in Requests, Crash(r)
      PROVE  UNCHANGED <<orders, counter>>
  BY <1>3 DEF Crash
<1>4. ASSUME NEW k \in Keys, Expire(k)
      PROVE  UNCHANGED <<orders, counter>>
  BY <1>4 DEF Expire
<1>5. ASSUME NEW e \in Editors, Edit(e)
      PROVE  UNCHANGED <<orders, counter>>
  BY <1>5, EditsLeaveRequests DEF requests
<1>6. CASE UNCHANGED vars
  BY <1>6 DEF vars
<1> QED  BY <1>1, <1>2, <1>3, <1>4, <1>5, <1>6 DEF Next

\* A request that works from a draft has found the cart ACTIVE.
LEMMA DraftsAreOfActiveCarts ==
  ASSUME TypeOK, [Next]_vars, NEW q \in Requests, pc'[q] \in Drafting
  PROVE  \/ pc[q] \in Drafting
         \/ pc[q] = "open" /\ cart[CartFor(q)].status = "ACTIVE"
<1> USE DEF Drafting, Goto, Fail, TypeOK
<1>1. ASSUME NEW r \in Requests, Confirm(r) \/ \E k \in Keys : Claim(r, k)
      PROVE  pc[q] \in Drafting
  BY <1>1 DEF Confirm, Claim
<1>2. ASSUME NEW r \in Requests, Serve(r)
      PROVE  \/ pc[q] \in Drafting
             \/ pc[q] = "open" /\ cart[CartFor(q)].status = "ACTIVE"
  <2>1. CASE OpenCart(r)
    BY <2>1 DEF OpenCart
  <2>2. CASE Price(r) \/ Allocate(r)
    BY <2>2 DEF Price, Allocate
  <2>3. CASE ~OpenCart(r) /\ ~Price(r) /\ ~Allocate(r)
    BY <1>2, <2>3 DEF Serve, Lookup, Reclaim, Commit, Abort, Record, RecordFails,
                      Release, ReleaseFails
  <2> QED  BY <2>1, <2>2, <2>3
<1>3. ASSUME NEW r \in Requests, Crash(r)
      PROVE  pc[q] \in Drafting
  BY <1>3 DEF Crash
<1>4. ASSUME NEW k \in Keys, Expire(k)
      PROVE  pc[q] \in Drafting
  BY <1>4 DEF Expire
<1>5. ASSUME NEW e \in Editors, Edit(e)
      PROVE  pc[q] \in Drafting
  BY <1>5, EditsLeaveRequests DEF requests
<1>6. CASE UNCHANGED vars
  BY <1>6 DEF vars
<1> QED  BY <1>1, <1>2, <1>3, <1>4, <1>5, <1>6 DEF Next

\* What a commit writes; used by every proof below.
LEMMA CommitPlaces ==
  ASSUME TypeOK, Stages, NEW r \in Requests, Commit(r)
  PROVE  LET c == CartFor(r)
             o == [cart |-> c, type |-> draft[r].type,
                   priced |-> draft[r].priced, lines |-> draft[r].lines,
                   number |-> draft[r].number, overlapped |-> OpenOn(c, r)]
         IN  /\ orders[r] = None /\ o # None
             /\ orders' = [orders EXCEPT ![r] = o]
             /\ Placed' = Placed \union {r}
             /\ draft[r].number = counter[BranchFor(r)] + 1
             /\ counter' = [counter EXCEPT ![BranchFor(r)] = draft[r].number]
<1> DEFINE o == [cart |-> CartFor(r), type |-> draft[r].type,
                 priced |-> draft[r].priced, lines |-> draft[r].lines,
                 number |-> draft[r].number, overlapped |-> OpenOn(CartFor(r), r)]
<1>1. o \in Order
  BY BodiesHaveACart DEF Commit, Stages, Drafting, Draft, Order, OpenOn
<1>2. o # None
  BY <1>1, NoneAssumption
<1>3. orders[r] = None
  BY DEF Commit, Stages, BeforeCommit, Transacting
<1>4. orders' = [orders EXCEPT ![r] = o]
  BY DEF Commit
<1> HIDE DEF o
<1>5. Placed' = Placed \union {r}
  BY <1>2, <1>3, <1>4 DEF Placed, TypeOK
<1>6. /\ draft[r].number = counter[BranchFor(r)] + 1
      /\ counter' = [counter EXCEPT ![BranchFor(r)] = draft[r].number]
  BY DEF Commit, TypeOK
<1> QED  BY <1>2, <1>3, <1>4, <1>5, <1>6 DEF o

----------------------------------------------------------------------------
(* The numbers of a branch: the counter is how many orders it has, which   *)
(* is what makes the next number the next one.                             *)

CounterCounts ==
  \A b \in Branches :
    /\ IsFiniteSet(Numbered(b))
    /\ counter[b] = Cardinality(Numbered(b))
    /\ {orders[r].number : r \in Numbered(b)} = 1 .. counter[b]

LEMMA CountersCount == Spec => []CounterCounts
<1>1. Init => CounterCounts
  <2> SUFFICES ASSUME Init, NEW b \in Branches
               PROVE  Numbered(b) = {} /\ counter[b] = 0
    BY FS_EmptySet DEF CounterCounts
  <2> QED  BY DEF Init, Numbered, Placed
<1>2. TypeOK /\ Stages /\ CounterCounts /\ [Next]_vars => CounterCounts'
  <2> SUFFICES ASSUME TypeOK, Stages, CounterCounts, [Next]_vars,
                      NEW b \in Branches
               PROVE  /\ IsFiniteSet(Numbered(b))'
                      /\ (counter[b] = Cardinality(Numbered(b)))'
                      /\ ({orders[r].number : r \in Numbered(b)}
                            = 1 .. counter[b])'
    BY DEF CounterCounts
  <2> DEFINE N == Numbered(b)
  <2>0. /\ IsFiniteSet(N)
        /\ counter[b] = Cardinality(N)
        /\ {orders[r].number : r \in N} = 1 .. counter[b]
        /\ counter[b] \in Nat
    BY DEF CounterCounts, TypeOK
  <2>1. CASE UNCHANGED <<orders, counter>>
    BY <2>0, <2>1 DEF Numbered, Placed
  <2>2. ASSUME NEW r \in Requests, Commit(r)
        PROVE  /\ IsFiniteSet(Numbered(b))'
               /\ (counter[b] = Cardinality(Numbered(b)))'
               /\ ({orders[q].number : q \in Numbered(b)} = 1 .. counter[b])'
    <3> DEFINE o == orders'[r]
    <3>1. /\ orders[r] = None
          /\ orders' = [orders EXCEPT ![r] = o]
          /\ Placed' = Placed \union {r}
          /\ o.cart = CartFor(r)
          /\ o.number = counter[BranchFor(r)] + 1
          /\ counter' = [counter EXCEPT ![BranchFor(r)] = o.number]
      BY <2>2, CommitPlaces DEF TypeOK
    <3>2. r \notin N /\ \A q \in N : orders'[q] = orders[q]
      BY <3>1 DEF Numbered, Placed, TypeOK
    <3> HIDE DEF o
    <3>3. CASE b # BranchFor(r)
      <4>1. Numbered(b)' = N
        BY <3>1, <3>2, <3>3 DEF Numbered, BranchFor, Placed, TypeOK
      <4>2. counter'[b] = counter[b]
        BY <3>1, <3>3 DEF TypeOK
      <4> QED  BY <2>0, <3>2, <4>1, <4>2
    <3>4. CASE b = BranchFor(r)
      <4>1. Numbered(b)' = N \union {r}
        BY <3>1, <3>2, <3>4 DEF Numbered, BranchFor, Placed, TypeOK, o
      <4>2. /\ IsFiniteSet(N \union {r})
            /\ Cardinality(N \union {r}) = Cardinality(N) + 1
        BY <2>0, <3>2, FS_AddElement
      <4>3. counter'[b] = counter[b] + 1
        BY <3>1, <3>4 DEF TypeOK
      <4>4. {orders'[q].number : q \in N \union {r}} = 1 .. counter[b] + 1
        <5>1. {orders'[q].number : q \in N \union {r}}
                = {orders[q].number : q \in N} \union {counter[b] + 1}
          BY <3>1, <3>2, <3>4 DEF o
        <5>2. \A n \in Nat : (1 .. n) \union {n + 1} = 1 .. n + 1
          OBVIOUS
        <5> QED  BY <2>0, <5>1, <5>2
      <4> QED  BY <2>0, <4>1, <4>2, <4>3, <4>4
    <3> QED  BY <3>3, <3>4
  <2> QED  BY <2>1, <2>2, OnlyCommitsOrder
<1> QED  BY <1>1, <1>2, TypeCorrect, PTL DEF Spec

\* GaplessNumbers: a branch's orders are numbered 1, 2, 3, whatever fails.
THEOREM NumbersHaveNoGap == Spec => []GaplessNumbers
<1>1. CounterCounts => GaplessNumbers
  BY DEF CounterCounts, GaplessNumbers
<1> QED  BY <1>1, CountersCount, PTL

----------------------------------------------------------------------------
(* A key in progress has a request that will free it. *)

\* KeysAreFreed: no failure leaves a key in progress with nobody to free it.
THEOREM KeysAreAlwaysFreed == Spec => []KeysAreFreed
<1> DEFINE Freeing == Transacting \union
                      {"record", "release", "crashed", "unreleased"}
           Frees(r, k) == ask[r] = k /\ pc[r] \in Freeing
<1> USE DEF Transacting, Goto, Fail
<1>1. Init => KeysAreFreed
  BY DEF Init, KeysAreFreed, InProgress
<1>2. TypeOK /\ Stages /\ KeysAreFreed /\ [Next]_vars => KeysAreFreed'
  <2> SUFFICES ASSUME TypeOK, Stages, KeysAreFreed, [Next]_vars,
                      NEW k \in Keys, InProgress(k)'
               PROVE  \E r \in Requests : Frees(r, k)'
    BY DEF KeysAreFreed
  <2>0. ASSUME InProgress(k)
        PROVE  \E r \in Requests : Frees(r, k)
    BY <2>0 DEF KeysAreFreed
  <2> USE DEF TypeOK, InProgress
  <2>1. ASSUME NEW r \in Requests, Confirm(r)
        PROVE  \E q \in Requests : Frees(q, k)'
    BY <2>0, <2>1 DEF Confirm, Arrive
  <2>2. ASSUME NEW r \in Requests, NEW j \in Keys, Claim(r, j)
        PROVE  \E q \in Requests : Frees(q, k)'
    BY <2>0, <2>2 DEF Claim, Arrive
  <2>3. ASSUME NEW r \in Requests, Lookup(r)
        PROVE  \E q \in Requests : Frees(q, k)'
    BY <2>0, <2>3 DEF Lookup
  <2>4. ASSUME NEW r \in Requests, Reclaim(r)
        PROVE  \E q \in Requests : Frees(q, k)'
    BY <2>0, <2>4 DEF Reclaim
  <2>5. ASSUME NEW r \in Requests, OpenCart(r)
        PROVE  \E q \in Requests : Frees(q, k)'
    BY <2>0, <2>5, NoKeyAssumption DEF OpenCart
  <2>6. ASSUME NEW r \in Requests, Price(r)
        PROVE  \E q \in Requests : Frees(q, k)'
    BY <2>0, <2>6, NoKeyAssumption DEF Price
  <2>7. ASSUME NEW r \in Requests, Allocate(r)
        PROVE  \E q \in Requests : Frees(q, k)'
    BY <2>0, <2>7 DEF Allocate
  <2>8. ASSUME NEW r \in Requests, Commit(r)
        PROVE  \E q \in Requests : Frees(q, k)'
    BY <2>0, <2>8, NoKeyAssumption DEF Commit
  <2>9. ASSUME NEW r \in Requests, Abort(r)
        PROVE  \E q \in Requests : Frees(q, k)'
    BY <2>0, <2>9, NoKeyAssumption DEF Abort
  <2>10. ASSUME NEW r \in Requests, Record(r)
         PROVE  \E q \in Requests : Frees(q, k)'
    <3>1. ask[r] # k
      BY <2>10, RowsAreNotNull DEF Record, KeyRow
    <3> QED  BY <2>0, <2>10, <3>1 DEF Record
  <2>11. ASSUME NEW r \in Requests, RecordFails(r)
         PROVE  \E q \in Requests : Frees(q, k)'
    BY <2>0, <2>11 DEF RecordFails
  <2>12. ASSUME NEW r \in Requests, Release(r)
         PROVE  \E q \in Requests : Frees(q, k)'
    BY <2>0, <2>12 DEF Release
  <2>13. ASSUME NEW r \in Requests, ReleaseFails(r)
         PROVE  \E q \in Requests : Frees(q, k)'
    BY <2>0, <2>13 DEF ReleaseFails
  <2>14. ASSUME NEW r \in Requests, Crash(r)
         PROVE  \E q \in Requests : Frees(q, k)'
    BY <2>0, <2>14 DEF Crash
  <2>15. ASSUME NEW j \in Keys, Expire(j)
         PROVE  \E q \in Requests : Frees(q, k)'
    <3>1. InProgress(k)
      BY <2>15, RowsAreNotNull DEF Expire, KeyRow
    <3> QED  BY <2>0, <2>15, <3>1 DEF Expire
  <2>16. ASSUME NEW e \in Editors, Edit(e)
         PROVE  \E q \in Requests : Frees(q, k)'
    BY <2>0, <2>16, EditsLeaveRequests DEF requests
  <2>17. CASE UNCHANGED vars
    BY <2>0, <2>17 DEF vars
  <2> QED
    BY <2>1, <2>2, <2>3, <2>4, <2>5, <2>6, <2>7, <2>8, <2>9, <2>10, <2>11,
       <2>12, <2>13, <2>14, <2>15, <2>16, <2>17
    DEF Next, Serve
<1> QED  BY <1>1, <1>2, TypeCorrect, PTL DEF Spec

----------------------------------------------------------------------------
(* A cart and the order it became.                                         *)

\* Until the cart is disturbed, an open checkout has read it as it is.
DraftsMatch ==
  \A r \in Requests :
    CartFor(r) \notin disturbed =>
      /\ pc[r] \in Drafting => /\ draft[r].type = cart[CartFor(r)].type
                               /\ draft[r].priced = draft[r].type
      /\ pc[r] \in {"number", "commit"} =>
           draft[r].lines = cart[CartFor(r)].lines

\* An edit no commit has crossed is still of an ACTIVE cart.
EditsAreOfActiveCarts ==
  \A e \in Editors :
    edit[e] # None /\ ~edit[e].crossed => cart[edit[e].cart].status = "ACTIVE"

CartInv == CartMatchesOrder /\ DraftsMatch /\ EditsAreOfActiveCarts

\* The parts of CartMatchesOrder, one cart and one order at a time.
ClosedByOrder(c) ==
  cart[c].status = "CHECKED_OUT" <=> \E r \in Placed : orders[r].cart = c

OrderIsOf(r) ==
  LET o == orders[r] IN
    o.cart \notin disturbed =>
      /\ o.lines = cart[o.cart].lines
      /\ o.type = cart[o.cart].type
      /\ o.priced = o.type

LEMMA CartMatchesOrderByParts ==
  CartMatchesOrder <=> /\ \A c \in Carts : ClosedByOrder(c)
                       /\ \A r \in Placed : OrderIsOf(r)
  BY DEF CartMatchesOrder, ClosedByOrder, OrderIsOf

\* An edit that overlaps no checkout and no commit finds no order of its cart.
LEMMA QuietWrites ==
  ASSUME TypeOK, CartInv, NEW e \in Editors, edit[e] # None,
         NEW type, NEW lines, Write(e, type, lines),
         edit[e].cart \notin disturbed'
  PROVE  /\ \A r \in Placed : orders[r].cart # edit[e].cart
         /\ \A r \in Requests : pc[r] \in Drafting => CartFor(r) # edit[e].cart
         /\ disturbed' = disturbed
<1>1. ~edit[e].crossed /\ disturbed' = disturbed
  BY DEF Write
<1>2. \A r \in Requests : pc[r] \in Drafting => CartFor(r) # edit[e].cart
  BY DEF Write, Transacting, Drafting
<1>3. edit[e].cart \in Carts /\ cart[edit[e].cart].status = "ACTIVE"
  BY <1>1, RowsAreNotNull DEF CartInv, EditsAreOfActiveCarts, OpenEdit
<1> QED  BY <1>1, <1>2, <1>3 DEF CartInv, CartMatchesOrder

\* CartMatchesOrder: an undisturbed cart and its order agree, and a cart is
\* closed exactly when it has become an order.
THEOREM CartsMatchOrders == Spec => [](TypeOK /\ Stages /\ CartInv)
<1> USE DEF Goto, Fail
<1>1. Init => CartInv
  BY BodiesHaveACart DEF Init, CartInv, CartMatchesOrder, DraftsMatch,
     EditsAreOfActiveCarts, Placed, Drafting
<1>2. TypeOK /\ Stages /\ CartInv /\ [Next]_vars => CartInv'
  <2> SUFFICES ASSUME TypeOK, Stages, CartInv, [Next]_vars PROVE CartInv'
    OBVIOUS
  <2> USE BodiesHaveACart
  \* Steps that leave carts, orders and edits alone only have to keep the drafts.
  <2>1. ASSUME UNCHANGED <<cart, orders, edit, disturbed>>, DraftsMatch'
        PROVE  CartInv'
    BY <2>1 DEF CartInv, CartMatchesOrder, EditsAreOfActiveCarts, Placed
  <2>2. ASSUME UNCHANGED <<cart, orders, edit, disturbed>>,
               \A q \in Requests :
                 /\ pc'[q] \in Drafting => pc[q] \in Drafting
                 /\ pc'[q] \in {"number", "commit"} =>
                      pc[q] \in {"number", "commit"}
                 /\ pc'[q] \in Drafting =>
                      /\ draft'[q].type = draft[q].type
                      /\ draft'[q].priced = draft[q].priced
                      /\ draft'[q].lines = draft[q].lines
        PROVE  CartInv'
    <3>1. DraftsMatch'
      BY <2>2 DEF CartInv, DraftsMatch, CartFor, Drafting
    <3> QED  BY <2>1, <2>2, <3>1
  <2> USE DEF Drafting, carts, numbers, TypeOK
  <2>3. ASSUME NEW r \in Requests, Confirm(r) \/ \E k \in Keys : Claim(r, k)
        PROVE  CartInv'
    BY <2>2, <2>3 DEF Confirm, Claim, Arrive
  <2>4. ASSUME NEW r \in Requests,
               \/ Lookup(r) \/ Reclaim(r) \/ Abort(r) \/ Record(r)
               \/ RecordFails(r) \/ Release(r) \/ ReleaseFails(r) \/ Crash(r)
        PROVE  CartInv'
    BY <2>2, <2>4 DEF Lookup, Reclaim, Abort, Record, RecordFails, Release,
                      ReleaseFails, Crash
  <2>5. ASSUME NEW r \in Requests, OpenCart(r)
        PROVE  CartInv'
    <3>1. DraftsMatch'
      BY <2>5 DEF OpenCart, CartInv, DraftsMatch, CartFor, NewDraft
    <3> QED  BY <2>1, <2>5, <3>1 DEF OpenCart
  <2>6. ASSUME NEW r \in Requests, Price(r)
        PROVE  CartInv'
    <3>1. DraftsMatch'
      <4>1. pc[r] = "price" /\ draft[r] \in Draft
        BY <2>6 DEF Price, Stages
      <4>2. pc'[r] = "number" =>
              /\ draft'[r].type = draft[r].type
              /\ draft'[r].priced = cart[CartFor(r)].type
              /\ draft'[r].lines = cart[CartFor(r)].lines
        <5> DEFINE c == cart[CartFor(r)]
                   d == [draft[r] EXCEPT !.lines = c.lines, !.priced = c.type]
        <5>1. pc'[r] = "number" => draft'[r] = d
          BY <2>6 DEF Price
        <5>2. d.type = draft[r].type /\ d.priced = c.type /\ d.lines = c.lines
          BY <4>1 DEF Draft
        <5> QED  BY <5>1, <5>2
      <4>3. /\ pc'[r] \in {"number", "refused", "release"}
            /\ \A q \in Requests \ {r} : pc'[q] = pc[q] /\ draft'[q] = draft[q]
            /\ UNCHANGED <<cart, disturbed>>
        BY <2>6 DEF Price
      <4> QED  BY <4>1, <4>2, <4>3 DEF CartInv, DraftsMatch, CartFor
    <3> QED  BY <2>1, <2>6, <3>1 DEF Price
  <2>7. ASSUME NEW r \in Requests, Allocate(r)
        PROVE  CartInv'
    <3>1. /\ pc[r] = "number" /\ pc'[r] = "commit" /\ draft[r] \in Draft
          /\ \A q \in Requests \ {r} : pc'[q] = pc[q] /\ draft'[q] = draft[q]
      BY <2>7 DEF Allocate, Stages
    <3>2. /\ draft'[r].type = draft[r].type
          /\ draft'[r].priced = draft[r].priced
          /\ draft'[r].lines = draft[r].lines
      BY <2>7, <3>1 DEF Allocate, Draft
    <3> QED  BY <2>2, <2>7, <3>1, <3>2 DEF Allocate
  <2>8. ASSUME NEW r \in Requests, Commit(r)
        PROVE  CartInv'
    <3> DEFINE c == CartFor(r)
               o == orders'[r]
    <3>1. /\ orders[r] = None
          /\ orders' = [orders EXCEPT ![r] = o]
          /\ Placed' = Placed \union {r}
          /\ o.cart = c
          /\ o.type = draft[r].type
          /\ o.priced = draft[r].priced
          /\ o.lines = draft[r].lines
      BY <2>8, CommitPlaces
    <3>2. /\ pc[r] = "commit" /\ pc'[r] \notin Drafting
          /\ \A q \in Requests \ {r} : pc'[q] = pc[q] /\ draft'[q] = draft[q]
          /\ disturbed' = disturbed
      BY <2>8 DEF Commit
    <3>3. /\ cart'[c].status = "CHECKED_OUT"
          /\ \A d \in Carts : /\ d # c => cart'[d] = cart[d]
                              /\ cart'[d].type = cart[d].type
                              /\ cart'[d].lines = cart[d].lines
      <4>1. cart[c] \in CartRow
        OBVIOUS
      <4> QED  BY <2>8, <4>1 DEF Commit, CartRow
    <3>4. \A q \in Placed : /\ q \in Requests \ {r} /\ orders'[q] = orders[q]
                            /\ orders[q].cart \in Carts
      BY <3>1, RowsAreNotNull DEF Placed, Order
    <3> HIDE DEF o, c
    <3>5. CartMatchesOrder'
      <4>1. ASSUME NEW d \in Carts
            PROVE  ClosedByOrder(d)'
        BY <3>1, <3>3, <3>4 DEF ClosedByOrder, CartInv, CartMatchesOrder, o
      <4>2. ASSUME NEW q \in Placed
            PROVE  OrderIsOf(q)'
        BY <3>2, <3>3, <3>4 DEF OrderIsOf, CartInv, CartMatchesOrder
      <4>3. OrderIsOf(r)'
        <5>1. c \notin disturbed => /\ draft[r].type = cart[c].type
                                    /\ draft[r].priced = draft[r].type
                                    /\ draft[r].lines = cart[c].lines
          BY <3>2 DEF CartInv, DraftsMatch, c
        <5>2. c \in Carts
          BY DEF c
        <5> QED  BY <3>1, <3>2, <3>3, <5>1, <5>2 DEF OrderIsOf, o
      <4> QED  BY <3>1, <4>1, <4>2, <4>3 DEF CartMatchesOrder, ClosedByOrder, OrderIsOf
    <3>6. DraftsMatch'
      BY <3>2, <3>3 DEF CartInv, DraftsMatch, CartFor
    <3>7. EditsAreOfActiveCarts'
      <4> SUFFICES ASSUME NEW e \in Editors, edit'[e] # None, ~edit'[e].crossed
                   PROVE  cart'[edit'[e].cart].status = "ACTIVE"
        BY DEF EditsAreOfActiveCarts
      <4>1. edit[e] \in OpenEdit
        BY <2>8, RowsAreNotNull DEF Commit
      <4>2. edit[e].cart # c /\ edit'[e] = edit[e]
        BY <2>8, <4>1 DEF Commit, OpenEdit, c
      <4> QED  BY <3>3, <4>1, <4>2 DEF CartInv, EditsAreOfActiveCarts, OpenEdit
    <3> QED  BY <3>5, <3>6, <3>7 DEF CartInv
  <2>9. ASSUME NEW k \in Keys, Expire(k)
        PROVE  CartInv'
    BY <2>2, <2>9 DEF Expire
  <2>10. ASSUME NEW e \in Editors, NEW c \in Carts, LoadActiveCart(e, c)
         PROVE  CartInv'
    <3>1. UNCHANGED <<cart, orders, disturbed, pc, draft>>
      BY <2>10 DEF LoadActiveCart, requests
    <3>2. EditsAreOfActiveCarts'
      BY <2>10 DEF LoadActiveCart, CartInv, EditsAreOfActiveCarts
    <3>3. DraftsMatch' /\ CartMatchesOrder'
      BY <3>1 DEF CartInv, DraftsMatch, CartMatchesOrder, Placed, CartFor
    <3> QED  BY <3>2, <3>3 DEF CartInv
  <2>11. ASSUME NEW e \in Editors, edit[e] # None, NEW type, NEW lines,
                Write(e, type, lines)
         PROVE  CartInv'
    <3> DEFINE c == edit[e].cart
    <3>1. c \in Carts
      BY <2>11, RowsAreNotNull DEF OpenEdit
    <3>2. /\ UNCHANGED <<orders, pc, draft>>
          /\ Placed' = Placed
          /\ disturbed \subseteq disturbed'
      BY <2>11 DEF Write, requests, Placed
    <3>3. /\ \A d \in Carts : /\ cart'[d].status = cart[d].status
                              /\ d # c => cart'[d] = cart[d]
      <4>1. cart[c] \in CartRow
        BY <3>1
      <4> QED  BY <2>11, <3>1, <4>1 DEF Write, CartRow
    <3>4. c \notin disturbed' => /\ \A r \in Placed : orders[r].cart # c
                                 /\ \A r \in Requests : pc[r] \in Drafting =>
                                      CartFor(r) # c
      BY <2>11, QuietWrites
    <3>5. \A r \in Placed : orders[r].cart \in Carts
      BY RowsAreNotNull DEF Placed, Order
    <3>6. /\ edit'[e] = None
          /\ \A f \in Editors \ {e} : edit'[f] = edit[f]
          /\ \A f \in Editors : edit[f] # None => edit[f].cart \in Carts
      BY <2>11, RowsAreNotNull DEF Write, OpenEdit
    <3> HIDE DEF c
    <3>7. CartMatchesOrder'
      <4>1. CartMatchesOrder
        BY DEF CartInv
      <4>2. ASSUME NEW d \in Carts
            PROVE  cart'[d].status = "CHECKED_OUT" <=>
                     \E r \in Placed' : orders'[r].cart = d
        BY <3>2, <3>3, <4>1 DEF CartMatchesOrder
      <4>3. ASSUME NEW r \in Placed', orders'[r].cart \notin disturbed'
            PROVE  /\ orders'[r].lines = cart'[orders'[r].cart].lines
                   /\ orders'[r].type = cart'[orders'[r].cart].type
                   /\ orders'[r].priced = orders'[r].type
        <5>1. r \in Placed /\ orders'[r] = orders[r] /\ orders[r].cart \in Carts
          BY <3>2, <3>5, <4>3
        <5>2. orders[r].cart \notin disturbed /\ orders[r].cart # c
          BY <3>2, <3>4, <4>3, <5>1
        <5>3. cart'[orders[r].cart] = cart[orders[r].cart]
          BY <3>3, <5>1, <5>2
        <5> QED  BY <4>1, <5>1, <5>2, <5>3 DEF CartMatchesOrder
      <4> QED  BY <4>2, <4>3 DEF CartMatchesOrder
    <3>8. DraftsMatch'
      BY <3>2, <3>3, <3>4 DEF CartInv, DraftsMatch, CartFor
    <3>9. EditsAreOfActiveCarts'
      BY <3>3, <3>6 DEF CartInv, EditsAreOfActiveCarts
    <3> QED  BY <3>7, <3>8, <3>9 DEF CartInv
  <2>12. ASSUME NEW e \in Editors, AbandonEdit(e)
         PROVE  CartInv'
    <3>1. UNCHANGED <<cart, orders, disturbed, pc, draft>>
      BY <2>12 DEF AbandonEdit, requests
    <3>2. EditsAreOfActiveCarts'
      BY <2>12 DEF AbandonEdit, CartInv, EditsAreOfActiveCarts
    <3>3. DraftsMatch' /\ CartMatchesOrder'
      BY <3>1 DEF CartInv, DraftsMatch, CartMatchesOrder, Placed, CartFor
    <3> QED  BY <3>2, <3>3 DEF CartInv
  <2>13. ASSUME NEW e \in Editors, Edit(e)
         PROVE  CartInv'
    <3>1. ASSUME NEW type \in OrderType, UpdateType(e, type)
          PROVE  CartInv'
      BY <2>11, <3>1 DEF UpdateType
    <3>2. ASSUME NEW l \in Lines, NEW q,
                 AddItem(e, l, q) \/ UpdateItem(e, l, q)
          PROVE  CartInv'
      BY <2>11, <3>2 DEF AddItem, UpdateItem
    <3>3. ASSUME Clear(e)
          PROVE  CartInv'
      BY <2>11, <3>3 DEF Clear
    <3> QED  BY <2>10, <2>12, <2>13, <3>1, <3>2, <3>3 DEF Edit
  <2>14. CASE UNCHANGED vars
    BY <2>2, <2>14 DEF vars
  <2> QED
    BY <2>3, <2>4, <2>5, <2>6, <2>7, <2>8, <2>9, <2>13, <2>14 DEF Next, Serve
<1> QED  BY <1>1, <1>2, TypeCorrect, PTL DEF Spec

\* CartMatchesOrder by itself.
COROLLARY CartsAlwaysMatchOrders == Spec => []CartMatchesOrder
<1>1. CartInv => CartMatchesOrder
  BY DEF CartInv
<1> QED  BY <1>1, CartsMatchOrders, PTL

----------------------------------------------------------------------------
(* Two orders of one cart.                                                 *)

\* A checkout that has read its cart was seen by whoever ordered from it.
ReadersAreSeen ==
  \A r, q \in Requests :
    pc[r] \in Drafting /\ orders[q] # None /\ orders[q].cart = CartFor(r)
      => r \in orders[q].overlapped

\* TwiceOnlyIfOverlapped: two orders of a cart come of overlapping checkouts.
THEOREM TwiceMeansOverlapped == Spec => []TwiceOnlyIfOverlapped
<1>1. Init => ReadersAreSeen /\ TwiceOnlyIfOverlapped
  BY DEF Init, ReadersAreSeen, TwiceOnlyIfOverlapped, Placed
<1>2. /\ TypeOK /\ Stages /\ CartInv /\ [Next]_vars
      /\ ReadersAreSeen /\ TwiceOnlyIfOverlapped
      => (ReadersAreSeen /\ TwiceOnlyIfOverlapped)'
  <2> SUFFICES ASSUME TypeOK, Stages, CartInv, [Next]_vars,
                      ReadersAreSeen, TwiceOnlyIfOverlapped
               PROVE  (ReadersAreSeen /\ TwiceOnlyIfOverlapped)'
    OBVIOUS
  <2>1. ASSUME NEW r \in Requests, NEW q \in Requests,
               orders[q] # None, orders[q].cart = CartFor(r),
               pc'[r] \in Drafting
        PROVE  pc[r] \in Drafting /\ r \in orders[q].overlapped
    <3>1. cart[CartFor(r)].status = "CHECKED_OUT"
      BY <2>1, BodiesHaveACart DEF CartInv, CartMatchesOrder, Placed
    <3>2. pc[r] \in Drafting
      BY <2>1, <3>1, DraftsAreOfActiveCarts
    <3> QED  BY <2>1, <3>2 DEF ReadersAreSeen
  <2>2. CASE UNCHANGED <<orders, counter>>
    <3>1. ReadersAreSeen'
      BY <2>1, <2>2 DEF ReadersAreSeen, CartFor
    <3> QED  BY <2>2, <3>1 DEF TwiceOnlyIfOverlapped, Placed
  <2>3. ASSUME NEW s \in Requests, Commit(s)
        PROVE  (ReadersAreSeen /\ TwiceOnlyIfOverlapped)'
    <3> DEFINE o == orders'[s]
    <3>1. /\ orders' = [orders EXCEPT ![s] = o]
          /\ Placed' = Placed \union {s}
          /\ s \notin Placed
          /\ o.cart = CartFor(s)
          /\ o.overlapped = OpenOn(CartFor(s), s)
      BY <2>3, CommitPlaces DEF TypeOK, Placed
    <3>2. /\ pc[s] = "commit" /\ pc'[s] \notin Drafting
          /\ \A q \in Requests \ {s} : pc'[q] = pc[q]
      BY <2>3 DEF Commit, Goto, TypeOK, Drafting
    <3>3. \A q \in Requests \ {s} : orders'[q] = orders[q]
      BY <3>1 DEF TypeOK
    <3> HIDE DEF o
    <3>4. ReadersAreSeen'
      <4> SUFFICES ASSUME NEW r \in Requests, NEW q \in Requests,
                          pc'[r] \in Drafting, orders'[q] # None,
                          orders'[q].cart = CartFor(r)
                   PROVE  r \in orders'[q].overlapped
        BY DEF ReadersAreSeen, CartFor
      <4>1. CASE q # s
        BY <2>1, <3>3, <4>1
      <4>2. CASE q = s
        BY <3>1, <3>2, <4>2 DEF o, OpenOn, Drafting, Transacting
      <4> QED  BY <4>1, <4>2
    <3>5. ASSUME NEW q \in Placed, orders[q].cart = CartFor(s)
          PROVE  s \in orders[q].overlapped
      BY <3>2, <3>5 DEF ReadersAreSeen, Placed, Drafting
    <3>6. TwiceOnlyIfOverlapped'
      <4>1. \A q \in Placed : q # s /\ orders'[q] = orders[q]
        BY <3>1, <3>3 DEF Placed
      <4> QED  BY <3>1, <3>5, <4>1 DEF TwiceOnlyIfOverlapped, o
    <3> QED  BY <3>4, <3>6
  <2> QED  BY <2>2, <2>3, OnlyCommitsOrder
<1> QED  BY <1>1, <1>2, CartsMatchOrders, PTL DEF Spec

----------------------------------------------------------------------------
(* One order per key.                                                      *)

\* A request holds its key while it works, while it has still to record or
\* release, and for good once it has placed an order.
Holds(r, k) ==
  /\ ask[r] = k
  /\ pc[r] \in Transacting \union {"record", "release"} \/ orders[r] # None

\* What a key that never stopped guarding knows: nobody shares it; it is there
\* as long as somebody holds it, for the holder's body; a request that releases
\* it placed nothing; and what it replays, or has replayed, is an order of the
\* body it is for.
Guards(k) ==
  /\ \A r, q \in Requests : Holds(r, k) /\ Holds(q, k) => r = q
  /\ \A r \in Requests : Holds(r, k) => key[k] # None
  /\ \A r \in Requests : ask[r] = k /\ pc[r] \in Transacting \union {"record"}
                           => key[k].body = BodyOf[r]
  /\ \A r \in Requests : ask[r] = k /\ pc[r] = "release" => orders[r] = None
  /\ key[k] # None /\ key[k].completed =>
       key[k].response \in Placed /\ BodyOf[key[k].response] = key[k].body
  /\ \A r \in Requests : ask[r] = k /\ pc[r] = "done" =>
       answer[r] \in Placed /\ BodyOf[answer[r]] = BodyOf[r]

KeyInv == \A k \in Keys \ loose : Guards(k)

\* The key as it was, except perhaps for its age.
SameKey(k) ==
  /\ key'[k] # None <=> key[k] # None
  /\ key[k] # None => /\ key'[k].body = key[k].body
                      /\ key'[k].completed = key[k].completed
                      /\ key'[k].response = key[k].response

\* A step that leaves the key alone, lets nobody new hold it or be told of an
\* order, and takes no order away leaves it guarding.
LEMMA KeyKeepsGuarding ==
  ASSUME NEW k \in Keys, Guards(k), SameKey(k), Placed \subseteq Placed',
         \A q \in Requests : ask'[q] = k =>
           /\ Holds(q, k)' => Holds(q, k)
           /\ pc'[q] \in Transacting \union {"record"} =>
                ask[q] = k /\ pc[q] \in Transacting \union {"record"}
           /\ pc'[q] = "release" => orders'[q] = None
           /\ pc'[q] = "done" => /\ ask[q] = k /\ pc[q] = "done"
                                 /\ answer'[q] = answer[q]
  PROVE  Guards(k)'
<1>1. /\ \A r, q \in Requests : Holds(r, k)' /\ Holds(q, k)' => r = q
      /\ \A r \in Requests : Holds(r, k)' => key'[k] # None
  <2>1. \A q \in Requests : Holds(q, k)' => Holds(q, k)
    BY DEF Holds
  <2> QED  BY <2>1 DEF Guards, SameKey
<1>2. \A r \in Requests : ask'[r] = k /\ pc'[r] \in Transacting \union {"record"}
                            => key'[k].body = BodyOf[r]
  <2> SUFFICES ASSUME NEW r \in Requests, ask'[r] = k,
                      pc'[r] \in Transacting \union {"record"}
               PROVE  key'[k].body = BodyOf[r]
    OBVIOUS
  <2>1. Holds(r, k) /\ key[k].body = BodyOf[r]
    BY DEF Guards, Holds
  <2> QED  BY <2>1 DEF Guards, SameKey
<1>3. \A r \in Requests : ask'[r] = k /\ pc'[r] = "release" => orders'[r] = None
  OBVIOUS
<1>4. key'[k] # None /\ key'[k].completed =>
        key'[k].response \in Placed' /\ BodyOf[key'[k].response] = key'[k].body
  BY DEF Guards, SameKey
<1>5. \A r \in Requests : ask'[r] = k /\ pc'[r] = "done" =>
        answer'[r] \in Placed' /\ BodyOf[answer'[r]] = BodyOf[r]
  BY DEF Guards
<1> QED  BY <1>1, <1>2, <1>3, <1>4, <1>5 DEF Guards

LEMMA KeysGuard == Spec => []KeyInv
<1> USE DEF Transacting, Goto, Fail
<1>1. Init => KeyInv
  BY NoneAssumption DEF Init, KeyInv, Guards, Holds
<1>2. TypeOK /\ Stages /\ KeyInv /\ [Next]_vars => KeyInv'
  <2> SUFFICES ASSUME TypeOK, Stages, KeyInv, [Next]_vars,
                      NEW k \in Keys, k \notin loose'
               PROVE  Guards(k)'
    BY DEF KeyInv
  <2> USE DEF TypeOK, carts, numbers
  <2>0. loose \subseteq loose'
    <3>1. ASSUME NEW r \in Requests, Serve(r)
          PROVE  loose \subseteq loose'
      BY <3>1 DEF Serve, Lookup, Reclaim, OpenCart, Price, Allocate, Commit,
                  Abort, Record, RecordFails, Release, ReleaseFails
    <3> QED
      BY <3>1, EditsLeaveRequests
         DEF Next, Confirm, Claim, Arrive, Crash, Expire, requests, vars
  <2>1. Guards(k) /\ k \notin loose
    BY <2>0 DEF KeyInv
  <2>2. ASSUME UNCHANGED orders
        PROVE  Placed' = Placed
    BY <2>2 DEF Placed
  <2>3. ASSUME NEW r \in Requests, Confirm(r)
        PROVE  Guards(k)'
    <3>1. UNCHANGED <<key, orders, answer>> /\ ask' = [ask EXCEPT ![r] = NoKey]
          /\ \A q \in Requests \ {r} : pc'[q] = pc[q]
      BY <2>3 DEF Confirm, Arrive
    <3>2. \A q \in Requests : ask'[q] = k => /\ ask[q] = k /\ pc'[q] = pc[q]
                                             /\ (Holds(q, k)' <=> Holds(q, k))
      BY <3>1, NoKeyAssumption DEF Holds
    <3>3. \A q \in Requests : ask'[q] = k /\ pc'[q] = "release" => orders'[q] = None
      BY <2>1, <3>1, <3>2 DEF Guards
    <3> QED
      BY <2>1, <2>2, <3>1, <3>2, <3>3, KeyKeepsGuarding DEF SameKey
  <2>4. ASSUME NEW r \in Requests, NEW j \in Keys, Claim(r, j)
        PROVE  Guards(k)'
    <3>1. /\ UNCHANGED <<orders, answer>> /\ ask' = [ask EXCEPT ![r] = j]
          /\ \A q \in Requests \ {r} : pc'[q] = pc[q]
          /\ pc[r] = "idle" /\ orders[r] = None
          /\ Placed' = Placed
      BY <2>2, <2>4 DEF Claim, Arrive, Stages, BeforeCommit
    <3>2. CASE k = j /\ key[k] = None
      <4>1. /\ key'[k] = Claimed(BodyOf[r])
            /\ pc'[r] = "open"
        BY <2>4, <3>2 DEF Claim
      <4>2. /\ key'[k] # None /\ key'[k].body = BodyOf[r]
            /\ ~key'[k].completed
        <5>1. Claimed(BodyOf[r]) \in KeyRow
          BY BodyOfAssumption DEF Claimed, KeyRow
        <5>2. key'[k] # None
          BY <4>1, <5>1, NoneAssumption
        <5> QED  BY <4>1, <5>2 DEF Claimed
      <4>3. \A q \in Requests \ {r} : ~Holds(q, k)'
        BY <2>1, <3>1, <3>2 DEF Guards, Holds
      <4>4. /\ \A q, p \in Requests : Holds(q, k)' /\ Holds(p, k)' => q = p
            /\ \A q \in Requests : Holds(q, k)' => key'[k] # None
        BY <4>2, <4>3
      <4>5. \A q \in Requests : ask'[q] = k /\
              pc'[q] \in Transacting \union {"record"} =>
                key'[k].body = BodyOf[q]
        BY <4>2, <4>3 DEF Holds
      <4>6. \A q \in Requests : ask'[q] = k =>
              /\ pc'[q] = "release" => orders'[q] = None
              /\ pc'[q] = "done" =>
                   answer'[q] \in Placed' /\ BodyOf[answer'[q]] = BodyOf[q]
        BY <2>1, <3>1, <4>1 DEF Guards
      <4> QED  BY <4>2, <4>4, <4>5, <4>6 DEF Guards
    <3>3. CASE ~(k = j /\ key[k] = None)
      <4>1. key'[k] = key[k]
        BY <2>4, <3>3 DEF Claim
      <4>2. k = j => pc'[r] = "lookup"
        BY <2>4, <3>3 DEF Claim
      <4>3. \A q \in Requests : ask'[q] = k =>
              \/ ask[q] = k /\ pc'[q] = pc[q] /\ orders'[q] = orders[q]
              \/ pc'[q] = "lookup" /\ orders'[q] = None
        BY <3>1, <4>2
      <4>4. \A q \in Requests : ask'[q] = k =>
              /\ Holds(q, k)' => Holds(q, k)
              /\ pc'[q] = "release" => orders'[q] = None
        BY <2>1, <4>3 DEF Holds, Guards
      <4> QED
        BY <2>1, <3>1, <4>1, <4>3, <4>4, KeyKeepsGuarding DEF SameKey
    <3> QED  BY <3>2, <3>3
  \* The steps of one request that leave the key alone.
  <2>5. ASSUME NEW r \in Requests, SameKey(k), UNCHANGED <<orders, ask>>,
               \A q \in Requests \ {r} : pc'[q] = pc[q] /\ answer'[q] = answer[q],
               ask[r] = k => /\ pc'[r] # "done"
                             /\ pc'[r] \in Transacting \union {"record"} =>
                                  pc[r] \in Transacting \union {"record"}
                             /\ pc'[r] = "release" =>
                                  pc[r] \in Transacting \union {"release"}
        PROVE  Guards(k)'
    <3>1. \A q \in Requests : ask'[q] = k =>
            /\ Holds(q, k)' => Holds(q, k)
            /\ pc'[q] \in Transacting \union {"record"} =>
                 ask[q] = k /\ pc[q] \in Transacting \union {"record"}
            /\ pc'[q] = "release" => orders'[q] = None
            /\ pc'[q] = "done" => /\ ask[q] = k /\ pc[q] = "done"
                                  /\ answer'[q] = answer[q]
      BY <2>1, <2>5 DEF Holds, Guards, Stages, BeforeCommit
    <3> QED  BY <2>1, <2>2, <2>5, <3>1, KeyKeepsGuarding
  <2>6. ASSUME NEW r \in Requests, Lookup(r)
        PROVE  Guards(k)'
    <3>1. /\ UNCHANGED <<key, orders, ask>> /\ pc[r] = "lookup"
          /\ \A q \in Requests \ {r} : pc'[q] = pc[q] /\ answer'[q] = answer[q]
          /\ Placed' = Placed
      BY <2>2, <2>6 DEF Lookup
    <3>2. CASE ask[r] = k /\ pc'[r] = "done"
      <4>1. /\ key[k] # None /\ key[k].completed /\ key[k].body = BodyOf[r]
            /\ answer'[r] = key[k].response
        BY <2>6, <3>2 DEF Lookup
      <4>2. answer'[r] \in Placed' /\ BodyOf[answer'[r]] = BodyOf[r]
        BY <2>1, <3>1, <4>1 DEF Guards
      <4>3. \A q \in Requests : /\ Holds(q, k)' => Holds(q, k)
                                /\ pc'[q] \in Transacting \union {"record",
                                     "release"} => q # r
        BY <3>1, <3>2 DEF Holds
      <4>4. /\ \A q, p \in Requests : Holds(q, k)' /\ Holds(p, k)' => q = p
            /\ \A q \in Requests : Holds(q, k)' => key'[k] # None
        BY <2>1, <3>1, <4>3 DEF Guards
      <4>5. \A q \in Requests : ask'[q] = k =>
              /\ pc'[q] \in Transacting \union {"record"} =>
                   key'[k].body = BodyOf[q]
              /\ pc'[q] = "release" => orders'[q] = None
        BY <2>1, <3>1, <4>3 DEF Guards
      <4>6. \A q \in Requests : ask'[q] = k /\ pc'[q] = "done" =>
              answer'[q] \in Placed' /\ BodyOf[answer'[q]] = BodyOf[q]
        BY <2>1, <3>1, <4>2 DEF Guards
      <4> QED  BY <2>1, <3>1, <4>4, <4>5, <4>6 DEF Guards
    <3>3. CASE ~(ask[r] = k /\ pc'[r] = "done")
      <4>1. ask[r] = k => pc'[r] \in {"reclaim", "refused"}
        BY <2>6, <3>3 DEF Lookup
      <4> QED  BY <2>5, <3>1, <4>1 DEF SameKey
    <3> QED  BY <3>2, <3>3
  <2>7. ASSUME NEW r \in Requests, Reclaim(r)
        PROVE  Guards(k)'
    <3>1. ask[r] # k
      BY <2>7 DEF Reclaim, Stages, Keyed
    <3>2. SameKey(k)
      BY <2>7, <3>1 DEF Reclaim, SameKey
    <3> QED  BY <2>5, <2>7, <3>1, <3>2 DEF Reclaim
  <2>8. ASSUME NEW r \in Requests,
               \/ OpenCart(r) \/ Price(r) \/ Allocate(r) \/ Abort(r)
               \/ ReleaseFails(r) \/ Crash(r)
        PROVE  Guards(k)'
    <3>1. UNCHANGED <<key, orders, ask, answer>>
      BY <2>8 DEF OpenCart, Price, Allocate, Abort, ReleaseFails, Crash
    <3>2. /\ \A q \in Requests \ {r} : pc'[q] = pc[q]
          /\ ask[r] = k => /\ pc'[r] # "done"
                           /\ pc'[r] \in Transacting \union {"record"} =>
                                pc[r] \in Transacting \union {"record"}
                           /\ pc'[r] = "release" =>
                                pc[r] \in Transacting \union {"release"}
      BY <2>8 DEF OpenCart, Price, Allocate, Abort, ReleaseFails, Crash
    <3> QED  BY <2>5, <3>1, <3>2 DEF SameKey
  <2>9. ASSUME NEW r \in Requests, Commit(r)
        PROVE  Guards(k)'
    <3> DEFINE o == orders'[r]
    <3>0. orders' = [orders EXCEPT ![r] = o] /\ Placed \subseteq Placed'
      BY <2>9, CommitPlaces
    <3> HIDE DEF o
    <3>1. /\ UNCHANGED <<key, ask>> /\ pc[r] = "commit"
          /\ \A q \in Requests \ {r} :
               pc'[q] = pc[q] /\ answer'[q] = answer[q] /\ orders'[q] = orders[q]
          /\ Placed \subseteq Placed'
          /\ ask[r] = k => pc'[r] = "record"
      BY <2>9, <3>0, NoKeyAssumption DEF Commit
    <3>2. \A q \in Requests : ask'[q] = k =>
            /\ Holds(q, k)' => Holds(q, k)
            /\ pc'[q] = "release" => orders'[q] = None
      BY <2>1, <3>1 DEF Holds, Guards
    <3> QED  BY <2>1, <3>1, <3>2, KeyKeepsGuarding DEF SameKey
  <2>10. ASSUME NEW r \in Requests, Record(r)
         PROVE  Guards(k)'
    <3>1. /\ UNCHANGED <<orders, ask>> /\ pc[r] = "record" /\ pc'[r] = "done"
          /\ \A q \in Requests \ {r} : pc'[q] = pc[q] /\ answer'[q] = answer[q]
          /\ answer'[r] = r
          /\ Placed' = Placed
      BY <2>2, <2>10 DEF Record
    <3>2. CASE ask[r] = k
      <4>1. Holds(r, k) /\ r \in Placed
        BY <3>1, <3>2 DEF Holds, Stages, Placed
      <4>2. key[k] \in KeyRow /\ key[k].body = BodyOf[r]
        BY <2>1, <3>1, <3>2, <4>1 DEF Guards
      <4>3. /\ key'[k] # None /\ key'[k].body = BodyOf[r]
            /\ key'[k].response = r
        <5> DEFINE row == [key[k] EXCEPT !.completed = TRUE, !.response = r]
        <5>1. key'[k] = row
          BY <2>10, <3>2, <4>2, NoneAssumption DEF Record
        <5>2. row \in KeyRow /\ row.body = key[k].body /\ row.response = r
          BY <4>2 DEF KeyRow
        <5> QED  BY <4>2, <5>1, <5>2, NoneAssumption
      <4>4. \A q \in Requests : Holds(q, k)' => q = r
        BY <2>1, <3>1, <4>1 DEF Guards, Holds
      <4>5. /\ \A q, p \in Requests : Holds(q, k)' /\ Holds(p, k)' => q = p
            /\ \A q \in Requests : Holds(q, k)' => key'[k] # None
        BY <4>3, <4>4
      <4>6. \A q \in Requests : ask'[q] = k =>
              /\ pc'[q] \in Transacting \union {"record"} =>
                   key'[k].body = BodyOf[q]
              /\ pc'[q] = "release" => orders'[q] = None
        BY <4>3, <4>4, <3>1 DEF Holds
      <4>7. \A q \in Requests : ask'[q] = k /\ pc'[q] = "done" =>
              answer'[q] \in Placed' /\ BodyOf[answer'[q]] = BodyOf[q]
        BY <2>1, <3>1, <4>1 DEF Guards
      <4> QED  BY <3>1, <4>1, <4>3, <4>5, <4>6, <4>7 DEF Guards
    <3>3. CASE ask[r] # k
      <4>1. key'[k] = key[k]
        BY <2>10, <3>3 DEF Record
      <4>2. SameKey(k)
        BY <4>1 DEF SameKey
      <4> QED  BY <2>5, <3>1, <3>3, <4>2
    <3> QED  BY <3>2, <3>3
  <2>11. ASSUME NEW r \in Requests, RecordFails(r)
         PROVE  Guards(k)'
    <3>1. ask[r] # k
      BY <2>11 DEF RecordFails, Stages, Keyed
    <3> QED  BY <2>5, <2>11, <3>1 DEF RecordFails, SameKey
  <2>12. ASSUME NEW r \in Requests, Release(r)
         PROVE  Guards(k)'
    <3>1. /\ UNCHANGED <<orders, ask, answer>>
          /\ pc[r] = "release" /\ pc'[r] = "refused"
          /\ \A q \in Requests \ {r} : pc'[q] = pc[q]
          /\ Placed' = Placed
      BY <2>2, <2>12 DEF Release
    <3>2. CASE ask[r] = k
      <4>1. Holds(r, k) /\ orders[r] = None
        BY <2>1, <3>1, <3>2 DEF Holds, Guards
      <4>2. \A q \in Requests : ~Holds(q, k)'
        BY <2>1, <3>1, <4>1 DEF Guards, Holds
      <4>3. key'[k] \in {None, key[k]}
        BY <2>12, <3>2 DEF Release
      <4>4. \A q \in Requests : ask'[q] = k =>
              pc'[q] \notin Transacting \union {"record", "release"}
        BY <4>2 DEF Holds
      <4>5. key'[k] # None /\ key'[k].completed =>
              key'[k].response \in Placed' /\ BodyOf[key'[k].response] = key'[k].body
        BY <2>1, <3>1, <4>3 DEF Guards
      <4>6. \A q \in Requests : ask'[q] = k /\ pc'[q] = "done" =>
              answer'[q] \in Placed' /\ BodyOf[answer'[q]] = BodyOf[q]
        BY <2>1, <3>1 DEF Guards
      <4> QED  BY <4>2, <4>4, <4>5, <4>6 DEF Guards
    <3>3. CASE ask[r] # k
      <4>1. SameKey(k)
        BY <2>12, <3>3 DEF Release, SameKey
      <4> QED  BY <2>5, <3>1, <3>3, <4>1
    <3> QED  BY <3>2, <3>3
  <2>13. ASSUME UNCHANGED <<pc, ask, answer, orders>>, SameKey(k)
         PROVE  Guards(k)'
    <3>1. \A q \in Requests : Holds(q, k)' => Holds(q, k)
      BY <2>13 DEF Holds
    <3>2. \A q \in Requests : ask'[q] = k /\ pc'[q] = "release" => orders'[q] = None
      BY <2>1, <2>13 DEF Guards
    <3> QED  BY <2>1, <2>2, <2>13, <3>1, <3>2, KeyKeepsGuarding
  <2>14. ASSUME NEW j \in Keys, Expire(j)
         PROVE  Guards(k)'
    <3>1. key[j] \in KeyRow
      BY <2>14 DEF Expire
    <3>2. SameKey(k)
      <4> DEFINE row == [key[j] EXCEPT !.expired = TRUE]
      <4>1. row \in KeyRow /\ row.body = key[j].body
            /\ row.completed = key[j].completed /\ row.response = key[j].response
        BY <3>1 DEF KeyRow
      <4>2. key' = [key EXCEPT ![j] = row]
        BY <2>14 DEF Expire
      <4> HIDE DEF row
      <4> QED  BY <3>1, <4>1, <4>2, NoneAssumption DEF SameKey
    <3> QED  BY <2>13, <2>14, <3>2 DEF Expire
  <2>15. ASSUME NEW e \in Editors, Edit(e)
         PROVE  Guards(k)'
    BY <2>13, <2>15, EditsLeaveRequests DEF requests, SameKey
  <2>16. CASE UNCHANGED vars
    BY <2>13, <2>16 DEF vars, SameKey
  <2> QED
    BY <2>3, <2>4, <2>6, <2>7, <2>8, <2>9, <2>10, <2>11, <2>12, <2>14, <2>15,
       <2>16
    DEF Next, Serve
<1> QED  BY <1>1, <1>2, TypeCorrect, PTL DEF Spec

\* OncePerKey: a key that never stopped guarding has one order, of its body.
THEOREM OneOrderWhileItGuards == Spec => []OncePerKey
<1>1. TypeOK /\ KeyInv => OncePerKey
  BY DEF TypeOK, KeyInv, Guards, Holds, OncePerKey, Placed
<1> QED  BY <1>1, KeysGuard, TypeCorrect, PTL

----------------------------------------------------------------------------
(* Checkout implements OrderDesk.                                          *)

\* A response kept for a key is an order placed under it, and who was told of
\* an order is done.
Answers ==
  /\ \A k \in Keys : key[k] # None /\ key[k].completed =>
       key[k].response \in Placed /\ ask[key[k].response] = k
  /\ \A r \in Requests : answer[r] # None => pc[r] = "done"

\* A response is kept by a step that leaves the key's, or makes it again.
LEMMA AnswersStay ==
  ASSUME TypeOK, Answers, Placed \subseteq Placed',
         \A q \in Placed : ask'[q] = ask[q],
         \A k \in Keys : key'[k] # None /\ key'[k].completed =>
           /\ key[k] # None /\ key[k].completed
           /\ key'[k].response = key[k].response,
         \A q \in Requests : answer'[q] # None =>
           \/ pc'[q] = "done"
           \/ answer[q] # None /\ pc'[q] = pc[q]
  PROVE  Answers'
<1>1. ASSUME NEW k \in Keys, key'[k] # None, key'[k].completed
      PROVE  key'[k].response \in Placed' /\ ask'[key'[k].response] = k
  BY <1>1 DEF Answers
<1>2. ASSUME NEW q \in Requests, answer'[q] # None
      PROVE  pc'[q] = "done"
  BY <1>2 DEF Answers
<1> QED  BY <1>1, <1>2 DEF Answers

LEMMA AnswersAlways == Spec => []Answers
<1> USE DEF TypeOK, Goto, Fail, carts, numbers
<1>1. Init => Answers
  BY DEF Init, Answers
<1>2. TypeOK /\ Stages /\ Answers /\ [Next]_vars => Answers'
  <2> SUFFICES ASSUME TypeOK, Stages, Answers, [Next]_vars PROVE Answers'
    OBVIOUS
  <2>0. ASSUME UNCHANGED orders PROVE Placed' = Placed
    BY <2>0 DEF Placed
  <2>1. ASSUME NEW r \in Requests, NEW k \in Keys \union {NoKey}, Arrive(r, k),
               pc'[r] # "idle", \A q \in Requests \ {r} : pc'[q] = pc[q],
               \A j \in Keys : key'[j] = key[j] \/ key'[j] = Claimed(BodyOf[r])
        PROVE  Answers'
    <3>1. /\ UNCHANGED <<orders, answer>> /\ r \notin Placed /\ answer[r] = None
          /\ \A q \in Requests \ {r} : ask'[q] = ask[q]
      BY <2>1 DEF Arrive, Stages, BeforeCommit, Placed, Answers
    <3>2. ASSUME NEW j \in Keys, key'[j] # None, key'[j].completed
          PROVE  key'[j] = key[j]
      BY <2>1, <3>2 DEF Claimed
    <3> QED  BY <2>0, <2>1, <3>1, <3>2, AnswersStay DEF Placed
  <2>2. ASSUME NEW r \in Requests, Confirm(r) PROVE Answers'
    <3>1. /\ Arrive(r, NoKey) /\ pc'[r] # "idle" /\ key' = key
          /\ \A q \in Requests \ {r} : pc'[q] = pc[q]
      BY <2>2 DEF Confirm, Arrive
    <3> QED  BY <2>1, <3>1
  <2>3. ASSUME NEW r \in Requests, NEW k \in Keys, Claim(r, k) PROVE Answers'
    <3>1. /\ Arrive(r, k) /\ pc'[r] # "idle"
          /\ \A q \in Requests \ {r} : pc'[q] = pc[q]
      BY <2>3 DEF Claim, Arrive
    <3>2. \A j \in Keys : key'[j] = key[j] \/ key'[j] = Claimed(BodyOf[r])
      BY <2>3 DEF Claim
    <3> QED  BY <2>1, <3>1, <3>2
  \* The steps that leave key, orders and answers.
  <2>4. ASSUME NEW r \in Requests, UNCHANGED <<key, orders, ask, answer>>,
               \A q \in Requests \ {r} : pc'[q] = pc[q],
               pc[r] # "done"
        PROVE  Answers'
    <3>1. answer[r] = None
      BY <2>4 DEF Answers
    <3> QED  BY <2>0, <2>4, <3>1, AnswersStay
  <2>5. ASSUME NEW r \in Requests, Lookup(r) PROVE Answers'
    <3>1. /\ UNCHANGED <<key, orders, ask>> /\ pc[r] = "lookup"
          /\ \A q \in Requests \ {r} : pc'[q] = pc[q] /\ answer'[q] = answer[q]
          /\ answer'[r] = answer[r] \/ pc'[r] = "done"
      BY <2>5 DEF Lookup
    <3>2. answer[r] = None
      BY <3>1 DEF Answers
    <3>3. \A q \in Requests : answer'[q] # None =>
            \/ pc'[q] = "done"
            \/ answer[q] # None /\ pc'[q] = pc[q]
      BY <3>1, <3>2
    <3> QED  BY <2>0, <3>1, <3>3, AnswersStay
  <2>6. ASSUME NEW r \in Requests,
               \/ OpenCart(r) \/ Price(r) \/ Allocate(r) \/ Abort(r)
               \/ RecordFails(r) \/ ReleaseFails(r) \/ Crash(r)
        PROVE  Answers'
    <3>1. /\ UNCHANGED <<key, orders, ask, answer>> /\ pc[r] # "done"
          /\ \A q \in Requests \ {r} : pc'[q] = pc[q]
      BY <2>6 DEF OpenCart, Price, Allocate, Abort, RecordFails, ReleaseFails, Crash,
                  Transacting, Answered
    <3> QED  BY <2>4, <3>1
  <2>7. ASSUME NEW r \in Requests, Reclaim(r) \/ Release(r) PROVE Answers'
    <3>1. /\ UNCHANGED <<orders, ask, answer>> /\ pc[r] \in {"reclaim", "release"}
          /\ \A q \in Requests \ {r} : pc'[q] = pc[q]
      BY <2>7 DEF Reclaim, Release
    <3>2. \A k \in Keys : \/ key'[k] \in {key[k], None}
                          \/ key'[k] = Claimed(BodyOf[r])
      BY <2>7 DEF Reclaim, Release
    <3>3. ASSUME NEW k \in Keys, key'[k] # None, key'[k].completed
          PROVE  key'[k] = key[k]
      BY <3>2, <3>3 DEF Claimed
    <3>4. answer[r] = None
      BY <3>1 DEF Answers
    <3> QED  BY <2>0, <3>1, <3>3, <3>4, AnswersStay
  <2>8. ASSUME NEW r \in Requests, Record(r) PROVE Answers'
    <3>1. /\ UNCHANGED <<orders, ask>> /\ pc[r] = "record" /\ pc'[r] = "done"
          /\ \A q \in Requests \ {r} : pc'[q] = pc[q] /\ answer'[q] = answer[q]
          /\ Placed' = Placed /\ r \in Placed /\ ask[r] \in Keys
      BY <2>0, <2>8 DEF Record, Stages, Keyed, Placed
    <3>2. ASSUME NEW k \in Keys, key'[k] # None, key'[k].completed
          PROVE  key'[k].response \in Placed' /\ ask'[key'[k].response] = k
      <4>1. CASE k # ask[r]
        BY <2>8, <3>1, <3>2, <4>1 DEF Record, Answers
      <4>2. CASE k = ask[r]
        <5> DEFINE row == [key[k] EXCEPT !.completed = TRUE, !.response = r]
        <5>1. key[k] \in KeyRow /\ key'[k] = row
          BY <2>8, <3>2, <4>2 DEF Record
        <5>2. row.response = r
          BY <5>1 DEF KeyRow
        <5> QED  BY <3>1, <4>2, <5>1, <5>2
      <4> QED  BY <4>1, <4>2
    <3>3. \A q \in Requests : answer'[q] # None => pc'[q] = "done"
      BY <3>1 DEF Answers
    <3> QED  BY <3>2, <3>3 DEF Answers
  <2>9. ASSUME NEW r \in Requests, Commit(r) PROVE Answers'
    <3>1. Placed \subseteq Placed'
      BY <2>9, CommitPlaces
    <3>2. /\ UNCHANGED <<key, ask>> /\ pc[r] = "commit"
          /\ \A q \in Requests \ {r} : pc'[q] = pc[q] /\ answer'[q] = answer[q]
          /\ answer'[r] = answer[r] \/ pc'[r] = "done"
      BY <2>9 DEF Commit
    <3>3. answer[r] = None
      BY <3>2 DEF Answers
    <3>4. \A q \in Requests : answer'[q] # None =>
            \/ pc'[q] = "done"
            \/ answer[q] # None /\ pc'[q] = pc[q]
      BY <3>2, <3>3
    <3> QED  BY <3>1, <3>2, <3>4, AnswersStay
  <2>10. ASSUME NEW j \in Keys, Expire(j) PROVE Answers'
    <3> DEFINE row == [key[j] EXCEPT !.expired = TRUE]
    <3>1. /\ UNCHANGED <<pc, orders, ask, answer>> /\ key[j] \in KeyRow
          /\ key' = [key EXCEPT ![j] = row]
      BY <2>10 DEF Expire
    <3>2. row.completed = key[j].completed /\ row.response = key[j].response
      BY <3>1 DEF KeyRow
    <3> HIDE DEF row
    <3>3. ASSUME NEW k \in Keys, key'[k] # None, key'[k].completed
          PROVE  /\ key[k] # None /\ key[k].completed
                 /\ key'[k].response = key[k].response
      BY <2>10, <3>1, <3>2, <3>3 DEF Expire
    <3> QED  BY <2>0, <3>1, <3>3, AnswersStay
  <2>11. ASSUME UNCHANGED <<key, orders, ask, answer, pc>> PROVE Answers'
    BY <2>0, <2>11, AnswersStay
  <2>12. ASSUME NEW e \in Editors, Edit(e) PROVE Answers'
    BY <2>11, <2>12, EditsLeaveRequests DEF requests
  <2>13. CASE UNCHANGED vars
    BY <2>11, <2>13 DEF vars
  <2> QED
    BY <2>2, <2>3, <2>5, <2>6, <2>7, <2>8, <2>9, <2>10, <2>12, <2>13
    DEF Next, Serve
<1> QED  BY <1>1, <1>2, TypeCorrect, PTL DEF Spec

\* The desk's variables, as functions.
DeskAt == [r \in Requests |-> DeskPlace(r)]
DeskOrders == [r \in Requests |-> DeskOrder(r)]

\* Where the desk sees a request after it has moved, and all if none has.
LEMMA DeskMoves ==
  ASSUME TypeOK, NEW r \in Requests, NEW p, pc' = [pc EXCEPT ![r] = p]
  PROVE  /\ DeskAt' = [DeskAt EXCEPT ![r] = DeskPlace(r)']
         /\ pc'[r] = p /\ DeskAt[r] = DeskPlace(r)
<1>1. pc'[r] = p /\ \A q \in Requests \ {r} : pc'[q] = pc[q]
  BY DEF TypeOK
<1>2. \A q \in Requests \ {r} : DeskPlace(q)' = DeskPlace(q)
  BY <1>1 DEF DeskPlace
<1> QED  BY <1>1, <1>2 DEF DeskAt

LEMMA DeskRests == (UNCHANGED pc => DeskAt' = DeskAt) /\ (UNCHANGED orders => DeskOrders' = DeskOrders)
<1>1. ASSUME UNCHANGED pc PROVE DeskAt' = DeskAt
  BY <1>1 DEF DeskAt, DeskPlace
<1>2. ASSUME UNCHANGED orders PROVE DeskOrders' = DeskOrders
  BY <1>2 DEF DeskOrders, DeskOrder
<1> QED  BY <1>1, <1>2

\* The desk's orders are the orders.
LEMMA DeskSeesOrders ==
  ASSUME TypeOK
  PROVE  /\ \A q \in Requests : /\ DeskOrders[q] # None <=> orders[q] # None
                                /\ orders[q] # None =>
                                     /\ DeskOrders[q].cart = orders[q].cart
                                     /\ DeskOrders[q].number = orders[q].number
         /\ Desk!Ordered = Placed
         /\ \A b \in Branches :
              Desk!Numbers(b) = {orders[q].number : q \in Numbered(b)}
<1>1. ASSUME NEW q \in Requests, orders[q] # None
      PROVE  /\ DeskOrder(q) # None
             /\ DeskOrder(q).cart = orders[q].cart
             /\ DeskOrder(q).number = orders[q].number
  <2>1. orders[q].cart \in Carts /\ orders[q].number \in Nat
    BY <1>1, RowsAreNotNull DEF Order
  <2>2. DeskOrder(q) = [cart |-> orders[q].cart, number |-> orders[q].number]
    BY <1>1 DEF DeskOrder
  <2>3. [cart |-> orders[q].cart, number |-> orders[q].number]
          \in [cart : Carts, number : Nat]
    BY <2>1
  <2> QED  BY <2>2, <2>3, NoneAssumption
<1>2. \A q \in Requests : /\ DeskOrders[q] # None <=> orders[q] # None
                          /\ orders[q] # None =>
                               /\ DeskOrders[q].cart = orders[q].cart
                               /\ DeskOrders[q].number = orders[q].number
  BY <1>1 DEF DeskOrders, DeskOrder
<1>3. Desk!Ordered = Placed
  BY <1>2 DEF Desk!Ordered, Placed, DeskOrders
<1>4. ASSUME NEW b \in Branches
      PROVE  Desk!Numbers(b) = {orders[q].number : q \in Numbered(b)}
  <2>1. {q \in Desk!Ordered : BranchOf[DeskOrders[q].cart] = b} = Numbered(b)
    BY <1>2, <1>3 DEF Numbered, Placed
  <2>2. Desk!Numbers(b) = {DeskOrders[q].number : q \in Numbered(b)}
    BY <2>1 DEF Desk!Numbers, DeskOrders
  <2>3. \A q \in Numbered(b) : DeskOrders[q].number = orders[q].number
    BY <1>2 DEF Numbered, Placed
  <2> QED  BY <2>2, <2>3
<1> QED  BY <1>2, <1>3, <1>4

\* A commit is the desk's one moment.
LEMMA CommitIsPlace ==
  ASSUME TypeOK, Stages, CounterCounts, KeyInv, NEW r \in Requests, Commit(r)
  PROVE  Desk!Place(r)
<1> DEFINE c == CartFor(r)
<1>0. c \in Carts /\ BranchFor(r) \in Branches
  BY BodiesHaveACart
<1>1. DeskAt[r] = "inside" /\ DeskAt' = [DeskAt EXCEPT ![r] = "gone"]
  <2>1. pc[r] = "commit" /\ DeskPlace(r) = "inside"
    BY DEF Commit, DeskPlace, Transacting
  <2>2. PICK p \in {"done", "record"} : pc' = [pc EXCEPT ![r] = p]
    BY DEF Commit, Goto
  <2>3. DeskAt' = [DeskAt EXCEPT ![r] = DeskPlace(r)'] /\ pc'[r] = p
        /\ DeskAt[r] = DeskPlace(r)
    BY <2>2, DeskMoves
  <2>4. DeskPlace(r)' = "gone"
    BY <2>2, <2>3 DEF DeskPlace, Transacting
  <2> QED  BY <2>1, <2>3, <2>4
<1>2. /\ orders[r] = None
      /\ Placed' = Placed \union {r}
      /\ orders'[r] # None /\ orders'[r].cart = c
      /\ orders'[r].number = counter[BranchFor(r)] + 1
      /\ \A q \in Requests \ {r} : orders'[q] = orders[q]
  BY CommitPlaces DEF TypeOK
<1>3. DeskOrders[r] = None
  BY <1>2 DEF DeskOrders, DeskOrder
<1>4. ask[r] \in Keys \ loose => \A q \in Placed : ask[q] # ask[r]
  BY <1>2 DEF KeyInv, Guards, Holds, Placed, Commit, Transacting
<1>5. PICK n \in {1} \union {m + 1 : m \in Desk!Numbers(BranchOf[c])} :
        /\ Desk!Numbers(BranchOf[c]) = 1 .. n - 1
        /\ DeskOrders' = [DeskOrders EXCEPT ![r] = [cart |-> c, number |-> n]]
  <2> DEFINE b == BranchFor(r)
             n == counter[b] + 1
  <2>1. Desk!Numbers(BranchOf[c]) = 1 .. counter[b] /\ counter[b] \in Nat
    BY <1>0, DeskSeesOrders DEF BranchFor, CounterCounts, TypeOK
  <2>2. DeskOrder(r)' = [cart |-> c, number |-> n]
    BY <1>2 DEF DeskOrder
  <2>3. \A q \in Requests \ {r} : DeskOrder(q)' = DeskOrder(q)
    BY <1>2 DEF DeskOrder
  <2>4. DeskOrders' = [DeskOrders EXCEPT ![r] = [cart |-> c, number |-> n]]
    <3> HIDE DEF c, n
    <3> QED  BY <2>2, <2>3 DEF DeskOrders
  <2>5. 1 .. counter[b] = 1 .. n - 1
    BY <2>1
  <2>6. n \in {1} \union {m + 1 : m \in 1 .. counter[b]}
    <3>1. CASE counter[b] = 0
      BY <3>1
    <3>2. CASE counter[b] # 0
      BY <2>1, <3>2
    <3> QED  BY <3>1, <3>2
  <2> HIDE DEF c, n, b
  <2> QED  BY <2>1, <2>4, <2>5, <2>6
<1>6. ClosedCarts' = ClosedCarts \union {c}
  <2>1. /\ cart' = [cart EXCEPT ![c].status = "CHECKED_OUT"]
        /\ cart[c] \in CartRow
    BY <1>0 DEF Commit, TypeOK
  <2>2. cart'[c].status = "CHECKED_OUT" /\ \A d \in Carts \ {c} : cart'[d] = cart[d]
    BY <1>0, <2>1 DEF TypeOK, CartRow
  <2> QED  BY <1>0, <2>2 DEF ClosedCarts
<1>7. /\ answer' = IF ask[r] = NoKey THEN [answer EXCEPT ![r] = r] ELSE answer
      /\ UNCHANGED <<ask, loose>>
  BY DEF Commit
<1>8. Desk!Ordered = Placed
  BY DeskSeesOrders
<1> HIDE DEF c
<1>9. c = Desk!CartFor(r)
  BY DEF c, CartFor, Desk!CartFor
<1>10. /\ n \in {1} \union {m + 1 : m \in Desk!Numbers(BranchOf[Desk!CartFor(r)])}
       /\ Desk!Numbers(BranchOf[Desk!CartFor(r)]) = 1 .. n - 1
       /\ DeskOrders' = [DeskOrders EXCEPT ![r] =
                           [cart |-> Desk!CartFor(r), number |-> n]]
  BY <1>5, <1>9
<1>11. ClosedCarts' = ClosedCarts \union {Desk!CartFor(r)}
  BY <1>6, <1>9
<1>12. ask[r] \in Keys \ loose => \A q \in Desk!Ordered : ask[q] # ask[r]
  BY <1>4, <1>8
<1> QED
  BY <1>1, <1>3, <1>7, <1>10, <1>11, <1>12 DEF Desk!Place, DeskAt, DeskOrders

\* The other steps of a request, as the desk sees them.
LEMMA ServingIsDesk ==
  ASSUME TypeOK, Stages, KeyInv, Answers, NEW r \in Requests,
         (Serve(r) /\ ~Commit(r)) \/ Crash(r)
  PROVE  Desk!Next \/ UNCHANGED Desk!vars
<1> USE DEF Goto, Fail, carts, numbers
<1>1. /\ UNCHANGED <<ask, orders>> /\ ClosedCarts' = ClosedCarts
      /\ DeskOrders' = DeskOrders
  <2>1. UNCHANGED <<ask, orders, cart>>
    BY DEF Serve, Lookup, Reclaim, OpenCart, Price, Allocate, Abort, Record,
           RecordFails, Release, ReleaseFails, Crash
  <2> QED  BY <2>1, DeskRests DEF ClosedCarts
<1>2. PICK p : pc' = [pc EXCEPT ![r] = p]
  BY DEF Serve, Lookup, Reclaim, OpenCart, Price, Allocate, Abort, Record,
         RecordFails, Release, ReleaseFails, Crash
<1>3. /\ DeskAt' = [DeskAt EXCEPT ![r] = DeskPlace(r)']
      /\ pc'[r] = p /\ DeskAt[r] = DeskPlace(r)
  BY <1>2, DeskMoves
<1>4. DeskPlace(r)' = DeskPlace(r) => DeskAt' = DeskAt
  BY <1>3 DEF DeskAt
\* Nothing but its place changes.
<1>5. ASSUME UNCHANGED <<answer, loose>>,
             \/ DeskPlace(r)' = DeskPlace(r)
             \/ DeskPlace(r)' = "gone" /\ DeskPlace(r) \in {"asked", "inside"}
      PROVE  Desk!Next \/ UNCHANGED Desk!vars
  <2>1. CASE DeskPlace(r)' = DeskPlace(r)
    BY <1>1, <1>4, <1>5, <2>1 DEF Desk!vars, DeskAt, DeskOrders
  <2>2. CASE DeskPlace(r)' = "gone" /\ DeskPlace(r) \in {"asked", "inside"}
    <3>1. Desk!Leave(r)
      BY <1>1, <1>3, <1>5, <2>2 DEF Desk!Leave, DeskAt, DeskOrders
    <3> QED  BY <3>1 DEF Desk!Next
  <2> QED  BY <1>5, <2>1, <2>2
\* A key is lost by a request that has it.
<1>6. ASSUME UNCHANGED answer, loose' = loose \union {ask[r]}, ask[r] \in Keys,
             DeskPlace(r)' = DeskPlace(r), DeskPlace(r) \in {"asked", "gone"}
      PROVE  Desk!Next
  <2>1. Desk!Lose(r)
    BY <1>1, <1>3, <1>4, <1>6 DEF Desk!Lose, DeskAt, DeskOrders
  <2> QED  BY <2>1 DEF Desk!Next
\* It is told.
<1>7. ASSUME NEW q \in Placed, answer' = [answer EXCEPT ![r] = q], UNCHANGED loose,
             ask[r] \in Keys, ask[q] = ask[r],
             ask[r] \notin loose => BodyOf[q] = BodyOf[r],
             DeskPlace(r) \in {"asked", "gone"}, pc'[r] = "done", pc[r] # "done"
      PROVE  Desk!Next
  <2>1. DeskPlace(r)' = "gone" /\ answer[r] = None
    BY <1>7 DEF DeskPlace, Transacting, Answers
  <2>2. Desk!Ordered = Placed /\ q \in Requests
    BY DeskSeesOrders DEF Placed
  <2>3. Desk!Tell(r, q)
    BY <1>1, <1>3, <1>7, <2>1, <2>2 DEF Desk!Tell, DeskAt, DeskOrders
  <2> QED  BY <2>2, <2>3 DEF Desk!Next
<1>8. CASE Lookup(r)
  <2>0. pc[r] = "lookup" /\ DeskPlace(r) = "asked" /\ ask[r] \in Keys
    BY <1>8 DEF Lookup, DeskPlace, Transacting, Stages, Keyed
  <2>1. CASE pc'[r] = "open"
    <3>1. loose' = loose \union {ask[r]} /\ UNCHANGED answer
      BY <1>8, <2>1 DEF Lookup, TypeOK
    <3>2. DeskPlace(r)' = "asked"
      BY <2>1 DEF DeskPlace
    <3> QED  BY <1>6, <2>0, <3>1, <3>2
  <2>2. CASE pc'[r] \in {"reclaim", "refused"}
    <3>1. UNCHANGED <<answer, loose>>
      BY <1>8, <2>2 DEF Lookup, TypeOK
    <3>2. DeskPlace(r)' \in {"asked", "gone"}
      BY <2>2 DEF DeskPlace, Transacting
    <3> QED  BY <1>5, <2>0, <3>1, <3>2
  <2>3. CASE pc'[r] = "done"
    <3> DEFINE k == ask[r]
               q == key[k].response
    <3>1. /\ key[k] # None /\ key[k].completed /\ key[k].body = BodyOf[r]
          /\ answer' = [answer EXCEPT ![r] = q] /\ UNCHANGED loose
      BY <1>8, <2>3 DEF Lookup, TypeOK
    <3>2. q \in Placed /\ ask[q] = k
      BY <2>0, <3>1 DEF Answers
    <3>3. k \notin loose => BodyOf[q] = BodyOf[r]
      BY <2>0, <3>1 DEF KeyInv, Guards
    <3> HIDE DEF q
    <3> QED  BY <1>7, <2>0, <2>3, <3>1, <3>2, <3>3
  <2> QED  BY <1>8, <2>1, <2>2, <2>3 DEF Lookup, TypeOK
<1>9. CASE Reclaim(r)
  <2>1. /\ pc[r] = "reclaim" /\ pc'[r] = "open" /\ ask[r] \in Keys
        /\ loose' = loose \union {ask[r]} /\ UNCHANGED answer
    BY <1>9 DEF Reclaim, TypeOK, Stages, Keyed
  <2>2. DeskPlace(r) = "asked" /\ DeskPlace(r)' = "asked"
    BY <2>1 DEF DeskPlace, Transacting
  <2> QED  BY <1>6, <2>1, <2>2
<1>10. CASE RecordFails(r)
  <2>1. /\ pc[r] = "record" /\ pc'[r] = "release" /\ ask[r] \in Keys
        /\ loose' = loose \union {ask[r]} /\ UNCHANGED answer
    BY <1>10 DEF RecordFails, TypeOK, Stages, Keyed
  <2>2. DeskPlace(r) = "gone" /\ DeskPlace(r)' = "gone"
    BY <2>1 DEF DeskPlace, Transacting
  <2> QED  BY <1>6, <2>1, <2>2
<1>11. CASE Record(r)
  <2>1. /\ pc[r] = "record" /\ pc'[r] = "done" /\ ask[r] \in Keys
        /\ answer' = [answer EXCEPT ![r] = r] /\ UNCHANGED loose
        /\ r \in Placed
    BY <1>11 DEF Record, TypeOK, Stages, Keyed, Placed
  <2>2. DeskPlace(r) = "gone"
    BY <2>1 DEF DeskPlace, Transacting
  <2> QED  BY <1>7, <2>1, <2>2
<1>12. CASE OpenCart(r)
  <2>1. /\ pc[r] = "open" /\ UNCHANGED <<answer, loose>>
        /\ \/ pc'[r] = "price" /\ cart[CartFor(r)].status = "ACTIVE"
           \/ pc'[r] \in {"refused", "release"}
    BY <1>12 DEF OpenCart, TypeOK
  <2>2. DeskPlace(r) = "asked"
    BY <2>1 DEF DeskPlace
  <2>3. CASE pc'[r] = "price" /\ cart[CartFor(r)].status = "ACTIVE"
    <3>1. DeskPlace(r)' = "inside" /\ CartFor(r) \notin ClosedCarts
      BY <2>3 DEF DeskPlace, Transacting, ClosedCarts
    <3>2. Desk!Enter(r)
      BY <1>1, <1>3, <2>1, <2>2, <3>1
      DEF Desk!Enter, Desk!CartFor, CartFor, DeskAt, DeskOrders
    <3> QED  BY <3>2 DEF Desk!Next
  <2>4. CASE pc'[r] \in {"refused", "release"}
    <3>1. DeskPlace(r)' = "gone"
      BY <2>4 DEF DeskPlace, Transacting
    <3> QED  BY <1>5, <2>1, <2>2, <3>1
  <2> QED  BY <2>1, <2>3, <2>4
<1>13. CASE Price(r) \/ Allocate(r)
  <2>1. /\ pc[r] \in {"price", "number"} /\ UNCHANGED <<answer, loose>>
        /\ pc'[r] \in {"number", "commit", "refused", "release"}
    BY <1>13 DEF Price, Allocate, TypeOK
  <2>2. DeskPlace(r) = "inside" /\ DeskPlace(r)' \in {"inside", "gone"}
    BY <2>1 DEF DeskPlace, Transacting
  <2> QED  BY <1>5, <2>1, <2>2
<1>14. CASE Abort(r) \/ Crash(r) \/ Release(r) \/ ReleaseFails(r)
  <2>1. /\ UNCHANGED <<answer, loose>> /\ pc[r] # "idle"
        /\ pc'[r] \in {"refused", "release", "crashed", "unreleased"}
    BY <1>14 DEF Abort, Crash, Release, ReleaseFails, TypeOK, Transacting
  <2>2. DeskPlace(r)' = "gone" /\ DeskPlace(r) \in {"asked", "inside", "gone"}
    BY <2>1 DEF DeskPlace, Transacting
  <2> QED  BY <1>5, <2>1, <2>2
<1> QED
  BY <1>8, <1>9, <1>10, <1>11, <1>12, <1>13, <1>14 DEF Serve

\* Neither time nor an edit is seen at the desk.
LEMMA EditsAreNotSeen ==
  ASSUME TypeOK, NEW e \in Editors, Edit(e)
  PROVE  UNCHANGED Desk!vars
<1>1. UNCHANGED <<pc, ask, orders, answer, loose>>
  BY EditsLeaveRequests DEF requests
<1>2. \A c \in Carts : cart'[c].status = cart[c].status
  <2>1. ASSUME edit[e] # None, NEW type, NEW lines, Write(e, type, lines)
        PROVE  \A c \in Carts : cart'[c].status = cart[c].status
    <3>1. edit[e].cart \in Carts /\ cart[edit[e].cart] \in CartRow
      BY <2>1, RowsAreNotNull DEF OpenEdit, TypeOK
    <3> QED  BY <2>1, <3>1 DEF Write, CartRow, TypeOK
  <2>2. ASSUME (\E c \in Carts : LoadActiveCart(e, c)) \/ AbandonEdit(e)
        PROVE  \A c \in Carts : cart'[c].status = cart[c].status
    BY <2>2 DEF LoadActiveCart, AbandonEdit
  <2> QED  BY <2>1, <2>2 DEF Edit, UpdateType, AddItem, UpdateItem, Clear
<1>3. ClosedCarts' = ClosedCarts
  BY <1>2 DEF ClosedCarts
<1> QED  BY <1>1, <1>3, DeskRests DEF Desk!vars, DeskAt, DeskOrders

\* ImplementsDesk: Checkout implements OrderDesk.
THEOREM CheckoutImplementsDesk == Spec => ImplementsDesk
<1>1. Init => Desk!Init
  <2> SUFFICES ASSUME Init PROVE Desk!Init
    OBVIOUS
  <2>1. \A r \in Requests : DeskPlace(r) = "away" /\ DeskOrder(r) = None
    BY DEF Init, DeskPlace, DeskOrder, Transacting
  <2>2. ClosedCarts = {}
    BY DEF Init, ClosedCarts
  <2> QED  BY <2>1, <2>2 DEF Init, Desk!Init
<1>2. TypeOK /\ Stages /\ CounterCounts /\ KeyInv /\ Answers /\ [Next]_vars
        => [Desk!Next]_(Desk!vars)
  <2> SUFFICES ASSUME TypeOK, Stages, CounterCounts, KeyInv, Answers, [Next]_vars
               PROVE  Desk!Next \/ UNCHANGED Desk!vars
    OBVIOUS
  <2>1. ASSUME NEW r \in Requests, NEW k \in Keys \union {NoKey}, Arrive(r, k),
               NEW p \in {"open", "lookup"}, pc' = [pc EXCEPT ![r] = p]
        PROVE  Desk!Next
    <3>1. DeskAt[r] = "away" /\ DeskAt' = [DeskAt EXCEPT ![r] = "asked"]
      BY <2>1, DeskMoves DEF Arrive, DeskPlace, Transacting
    <3>2. /\ ask' = [ask EXCEPT ![r] = k] /\ UNCHANGED <<answer, loose>>
          /\ DeskOrders' = DeskOrders /\ ClosedCarts' = ClosedCarts
      BY <2>1, DeskRests DEF Arrive, carts, numbers, ClosedCarts
    <3>3. Desk!Ask(r)
      BY <3>1, <3>2 DEF Desk!Ask, DeskAt, DeskOrders
    <3> QED  BY <3>3 DEF Desk!Next
  <2>2. ASSUME NEW r \in Requests, Confirm(r) PROVE Desk!Next
    BY <2>1, <2>2 DEF Confirm, Goto
  <2>3. ASSUME NEW r \in Requests, NEW k \in Keys, Claim(r, k) PROVE Desk!Next
    BY <2>1, <2>3 DEF Claim, Goto
  <2>4. ASSUME NEW r \in Requests, Commit(r) PROVE Desk!Next
    BY <2>4, CommitIsPlace DEF Desk!Next
  <2>5. ASSUME NEW r \in Requests, (Serve(r) /\ ~Commit(r)) \/ Crash(r)
        PROVE  Desk!Next \/ UNCHANGED Desk!vars
    BY <2>5, ServingIsDesk
  <2>6. ASSUME NEW k \in Keys, Expire(k) PROVE UNCHANGED Desk!vars
    BY <2>6, DeskRests
    DEF Expire, carts, numbers, ClosedCarts, Desk!vars, DeskAt, DeskOrders
  <2>7. ASSUME NEW e \in Editors, Edit(e) PROVE UNCHANGED Desk!vars
    BY <2>7, EditsAreNotSeen
  <2>8. CASE UNCHANGED vars
    BY <2>8, DeskRests DEF vars, ClosedCarts, Desk!vars, DeskAt, DeskOrders
  <2> QED  BY <2>2, <2>3, <2>4, <2>5, <2>6, <2>7, <2>8 DEF Next
<1> QED
  BY <1>1, <1>2, TypeCorrect, CountersCount, KeysGuard, AnswersAlways, PTL
  DEF Spec, ImplementsDesk, Desk!Spec

=============================================================================
