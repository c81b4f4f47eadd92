------------------------------ MODULE Staffing ------------------------------
(***************************************************************************)
(* Who works for an organization and as what: StaffService                 *)
(* (apps/api/src/staff/staff.service.ts) behind the guards of its          *)
(* controller, and the permissions of roles                                *)
(* (packages/domain/src/authorization.ts).                                 *)
(*                                                                         *)
(* A request is authorised before its transaction begins, by what its      *)
(* author held then.  What its transaction (read committed) writes nobody  *)
(* sees before the commit, but a row it updates or inserts keeps another   *)
(* one waiting.  A list of roles or branches is replaced by a delete that  *)
(* takes what was committed when it began, and an insert.  A request       *)
(* carries one of the fields update() takes.  Of the permissions there are *)
(* the two that staff.service asks for and one that stands for the rest.   *)
(* Sessions are Access's.                                                  *)
(***************************************************************************)
EXTENDS Naturals, FiniteSets

CONSTANTS
  People,
  Founders,       \* who belong to the organization from the start
  Branches,
  MaxRequests     \* bound: requests that are authorised

ASSUME StaffingAssumption == Founders \subseteq People /\ MaxRequests \in Nat

VARIABLES
  account,      \* users.status, a person's own wherever they work
  membership,   \* memberships.status
  roles,        \* membership_roles
  branches,     \* membership_branches
  request,      \* what each person's browser awaits
  requests,     \* counts requests
  ordered,      \* history variable: the lists of roles and of branches last written
  mingled       \* history variable: what others wrote while those were being written

staffVars == <<account, membership, roles, branches>>
staffHistory == <<ordered, mingled>>
staffingVars == <<staffVars, request, requests, staffHistory>>

----------------------------------------------------------------------------
\* KITCHEN_STAFF and the like are as BRANCH_MANAGER.  HEAD_OF_STAFF is a role of the
\* organization's own, of which the table may have any.
RolePermissions ==
  [OWNER          |-> {"STAFF_MANAGE", "ORGANIZATION_MANAGE", "OTHER"},
   BRANCH_MANAGER |-> {"OTHER"},
   HEAD_OF_STAFF  |-> {"STAFF_MANAGE", "OTHER"}]

Roles == DOMAIN RolePermissions

\* loadGrants(): what the role rows add up to.
Permissions(p) == UNION {RolePermissions[r] : r \in roles[p]}

\* resolveAuthContext() lets the person in.
Admitted(p) == account[p] = "ACTIVE" /\ membership[p] = "ACTIVE"

InCharge(p) == Admitted(p) /\ "STAFF_MANAGE" \in Permissions(p)

Lists == {"roles", "branches"}
List(list, q) == IF list = "roles" THEN roles[q] ELSE branches[q]
NoLists == [list \in Lists |-> {}]

NoRequest == [step |-> "none"]

\* Others may have an account of another organization's.
StaffingInit ==
  /\ account \in [People -> {"NONE", "ACTIVE"}]
  /\ \A p \in Founders : account[p] = "ACTIVE"
  /\ membership = [p \in People |-> IF p \in Founders THEN "ACTIVE" ELSE "NONE"]
  /\ roles \in [People -> {{}, {"OWNER"}, {"HEAD_OF_STAFF"}}]
  /\ \A p \in People : roles[p] = {} <=> p \notin Founders
  /\ \E p \in Founders : roles[p] = {"OWNER"}
  /\ branches = [p \in People |-> {}]
  /\ request = [p \in People |-> NoRequest]
  /\ requests = 0
  /\ ordered = [list \in Lists |-> [p \in People |-> List(list, p)]]
  /\ mingled = [list \in Lists |-> [p \in People |-> {}]]

----------------------------------------------------------------------------
(* A request.                                                              *)

Invitations ==
  [kind : {"invite"}, whom : People, roles : {{r} : r \in Roles}, branches : SUBSET Branches]

Updates ==
  [kind : {"roles"}, whom : People, roles : (SUBSET Roles) \ {{}}] \union
  [kind : {"branches"}, whom : People, branches : SUBSET Branches] \union
  [kind : {"status"}, whom : People, status : {"ACTIVE", "INVITED", "SUSPENDED", "REMOVED"}]

\* JwtAuthGuard and PermissionsGuard: what the author holds now is what counts.
Authorize(p) ==
  /\ request[p] = NoRequest
  /\ InCharge(p)
  /\ requests < MaxRequests
  /\ \E body \in Invitations \union Updates :
       request' = [request EXCEPT ![p] =
         [step |-> IF body.kind = "invite" THEN "find" ELSE "load", body |-> body,
          grants |-> Permissions(p), status |-> "NONE", seen |-> NoLists, met |-> NoLists]]
  /\ requests' = requests + 1
  /\ UNCHANGED <<staffVars, staffHistory>>

In(p, step) == request[p].step = step
Body(p) == request[p].body

\* On to the next step, with nothing to be seen of it.
Continue(p, next) ==
  /\ request' = [request EXCEPT ![p] = next]
  /\ UNCHANGED <<staffVars, requests, staffHistory>>

\* Refused, or struck by a fault: the transaction is rolled back.
TurnedDown(p) == Continue(p, NoRequest)

\* loadGrantableRoles(): no role above one's own permissions, except for those who
\* may manage the organization.
MayGrant(p, granted) ==
  \/ "ORGANIZATION_MANAGE" \in request[p].grants
  \/ \A r \in granted : RolePermissions[r] \subseteq request[p].grants

----------------------------------------------------------------------------
(* A list that is replaced.  Of what the delete saw, nothing is left; what *)
(* another request has inserted since is, the same roles too, and if they  *)
(* are wanted here as well the insert breaks the unique index.             *)

Wanted(p, list) == IF list \in DOMAIN Body(p) THEN Body(p)[list] ELSE {}

\* The deletes begin.
Deleting(p, step) ==
  [request[p] EXCEPT !.step = step,
     !.seen = [list \in Lists |->
       IF list \in DOMAIN Body(p) THEN List(list, Body(p).whom) ELSE {}]]

Left(p, list) == List(list, Body(p).whom) \ request[p].seen[list]

Clash(p) == \E list \in Lists : Left(p, list) \intersect Wanted(p, list) # {}

\* What the commit of p means to another request that is replacing the same lists.
Overtaken(o, p) ==
  IF request[o].step \in {"write", "fill"} /\ Body(o).whom = Body(p).whom
  THEN [request[o] EXCEPT
          !.seen = [list \in Lists |-> @[list] \ request[p].seen[list]],
          !.met = [list \in Lists |-> @[list] \union Wanted(p, list)]]
  ELSE request[o]

\* In the history of the lists that were replaced.
Noted(p, history, new) ==
  [list \in Lists |->
     IF list \in DOMAIN Body(p) THEN [history[list] EXCEPT ![Body(p).whom] = new[list]]
     ELSE history[list]]

ReplaceLists(p) ==
  LET q == Body(p).whom
      new == [list \in Lists |-> Left(p, list) \union Wanted(p, list)]
  IN
  /\ roles' = [roles EXCEPT ![q] = new["roles"]]
  /\ branches' = [branches EXCEPT ![q] = new["branches"]]
  /\ ordered' = Noted(p, ordered, [list \in Lists |-> Wanted(p, list)])
  /\ mingled' = Noted(p, mingled, request[p].met)
  /\ request' = [o \in People |-> IF o = p THEN NoRequest ELSE Overtaken(o, p)]

----------------------------------------------------------------------------
(* invite().                                                               *)

\* The user is looked for, and added, outside the transaction.
FindUser(p) ==
  /\ In(p, "find")
  /\ Continue(p, [request[p] EXCEPT !.step =
                    IF account[Body(p).whom] = "NONE" THEN "create" ELSE "add known"])

\* Another invitation may have been first: the address is unique.
CreateUser(p) ==
  /\ In(p, "create")
  /\ IF account[Body(p).whom] = "NONE"
     THEN /\ account' = [account EXCEPT ![Body(p).whom] = "INVITED"]
          /\ request' = [request EXCEPT ![p].step = "add new"]
          /\ UNCHANGED <<membership, roles, branches, requests, staffHistory>>
     ELSE TurnedDown(p)

\* Mutant: a person with an account is a member at once, also one who was removed.
AtOnceAgain(p) == IF In(p, "add known") THEN "ACTIVE" ELSE "INVITED"

\* A person with an account is a member at once, unless they were one before.
FirstStatus(p) ==
  IF membership[Body(p).whom] = "NONE" /\ In(p, "add known") THEN "ACTIVE" ELSE "INVITED"

\* The membership is looked for, without a lock, and the roles are checked.
FindMembership(p) ==
  LET q == Body(p).whom IN
  /\ In(p, "add known") \/ In(p, "add new")
  /\ IF membership[q] \in {"NONE", "REMOVED"} /\ MayGrant(p, Body(p).roles)
     THEN Continue(p, [request[p] EXCEPT !.status = FirstStatus(p),
                         !.step = IF membership[q] = "NONE" THEN "insert" ELSE "readmit"])
     ELSE TurnedDown(p)

\* An invitation has written the membership and has not committed.
Locked(q) == \E o \in People : In(o, "fill") /\ Body(o).whom = q

\* The membership is inserted, where somebody else's may be by now, or updated by its
\* id, whatever has become of it; and the lists' deletes begin.
WriteMembership(p) ==
  LET q == Body(p).whom IN
  /\ In(p, "insert") \/ In(p, "readmit")
  /\ ~Locked(q)
  /\ IF In(p, "insert") /\ membership[q] # "NONE" THEN TurnedDown(p)
     ELSE Continue(p, Deleting(p, "fill"))

\* The lists' inserts and the commit.
AddMember(p) ==
  /\ In(p, "fill")
  /\ IF Clash(p) THEN TurnedDown(p)
     ELSE /\ ReplaceLists(p)
          /\ membership' = [membership EXCEPT ![Body(p).whom] = request[p].status]
          /\ UNCHANGED <<account, requests>>

----------------------------------------------------------------------------
(* update().                                                               *)

\* "You cannot change your own roles", nor "your own membership status".
Allowed(p) ==
  /\ Body(p).kind \in {"roles", "status"} => Body(p).whom # p
  /\ Body(p).kind = "roles" => MayGrant(p, Body(p).roles)

\* The membership is found, the request checked, and the delete of a list begins.
Load(p) ==
  /\ In(p, "load")
  /\ IF membership[Body(p).whom] # "NONE" /\ Allowed(p)
     THEN Continue(p, Deleting(p, "write"))
     ELSE TurnedDown(p)

Replace(p) ==
  /\ In(p, "write") /\ Body(p).kind \in Lists
  /\ IF Clash(p) THEN TurnedDown(p)
     ELSE ReplaceLists(p) /\ UNCHANGED <<account, membership, requests>>

SetStatus(p) ==
  /\ In(p, "write") /\ Body(p).kind = "status"
  /\ ~Locked(Body(p).whom)
  /\ membership' = [membership EXCEPT ![Body(p).whom] = Body(p).status]
  /\ request' = [request EXCEPT ![p] = NoRequest]
  /\ UNCHANGED <<account, roles, branches, requests, staffHistory>>

\* The API dies, or the database is away.
Breakdown(p) == request[p] # NoRequest /\ TurnedDown(p)

StaffingNext ==
  \E p \in People :
    \/ Authorize(p)
    \/ FindUser(p) \/ CreateUser(p) \/ FindMembership(p) \/ WriteMembership(p) \/ AddMember(p)
    \/ Load(p) \/ Replace(p) \/ SetStatus(p)
    \/ Breakdown(p)

----------------------------------------------------------------------------
StaffingTypeOK ==
  /\ account \in [People -> {"NONE", "INVITED", "ACTIVE"}]
  /\ membership \in [People -> {"NONE", "INVITED", "ACTIVE", "SUSPENDED", "REMOVED"}]
  /\ roles \in [People -> SUBSET Roles]
  /\ branches \in [People -> SUBSET Branches]
  /\ \A p \in People :
       request[p].step \in {"none", "find", "create", "add known", "add new", "insert",
                            "readmit", "fill", "load", "write"}
  /\ requests \in 0 .. MaxRequests
  /\ \A list \in Lists, p \in People :
       ordered[list][p] \union mingled[list][p] \subseteq Roles \union Branches

\* A member has all of the roles and of the branches last written, and no others but
\* what requests wrote while these were being written.
ListsAreAsAsked ==
  \A list \in Lists, q \in People :
    /\ ordered[list][q] \subseteq List(list, q)
    /\ List(list, q) \subseteq ordered[list][q] \union mingled[list][q]

\* The request of p comes to its end.
Ends(p) == request[p] # NoRequest /\ request'[p] = NoRequest

\* "Removing your own last privileged role locks you out of your own organization,
\* and nobody else can restore it": nobody is left in charge only where a request
\* outlives its author's own charge.  Two owners who demote each other do that, and
\* one who is removed and set active again while inviting himself.
LastOneStays ==
  (\E p \in People : InCharge(p)) /\ (\A p \in People : ~InCharge(p)') =>
    \E p \in People : Ends(p) /\ (InCharge(p) => In(p, "fill") /\ Body(p).whom = p)

\* "A member may only grant roles whose permissions they already hold themselves", held
\* when the request was authorised, and to themselves none that lets them do anything.
GrantsAreHeld ==
  \A q \in People : Permissions(q)' \subseteq Permissions(q) \/
    \E p \in People :
      /\ Ends(p) /\ (p = q => ~Admitted(q)')
      /\ Permissions(q)' \subseteq Permissions(q) \union request[p].grants

\* Whoever has been a member is let in again only by a change of status that
\* another one asked for, however many invitations pass it.
ReturnIsDecided ==
  \A q \in People : ~Admitted(q) /\ Admitted(q)' =>
    \/ membership[q] = "NONE"
    \/ \E p \in People \ {q} : Ends(p) /\ Body(p).kind = "status"

StaffIsInOrder ==
  [](ListsAreAsAsked) /\ [][LastOneStays /\ GrantsAreHeld /\ ReturnIsDecided]_staffingVars
=============================================================================
