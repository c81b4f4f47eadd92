-------------------------- MODULE BackOfficeProofs --------------------------
(***************************************************************************)
(* What the back office promises for every number of people, editors,      *)
(* groups, tabs and streams: who may manage the staff and which roles a    *)
(* member has, what the menu offers, which streams of a kitchen screen are *)
(* heard, and how many sessions are live.                                  *)
(***************************************************************************)
EXTENDS MCBackOffice, FiniteSums

----------------------------------------------------------------------------
(* Staffing. *)

AllPermissions == {"STAFF_MANAGE", "ORGANIZATION_MANAGE", "OTHER"}
Items == Roles \union Branches

StaffTyped ==
  /\ account \in [People -> {"NONE", "INVITED", "ACTIVE"}]
  /\ membership \in [People -> {"NONE", "INVITED", "ACTIVE", "SUSPENDED", "REMOVED"}]
  /\ roles \in [People -> SUBSET Roles]
  /\ branches \in [People -> SUBSET Branches]
  /\ ordered \in [Lists -> [People -> SUBSET Items]]
  /\ mingled \in [Lists -> [People -> SUBSET Items]]
  /\ requests \in 0 .. MaxRequests

\* A request, in the steps of its kind.
Asked ==
  [step : {"find", "create", "add known", "add new", "insert", "readmit", "fill"},
   body : Invitations, grants : SUBSET AllPermissions, status : {"NONE", "ACTIVE", "INVITED"},
   seen : [Lists -> SUBSET Items], met : [Lists -> SUBSET Items]]
  \union
  [step : {"load", "write"},
   body : Updates, grants : SUBSET AllPermissions, status : {"NONE", "ACTIVE", "INVITED"},
   seen : [Lists -> SUBSET Items], met : [Lists -> SUBSET Items]]

RequestsTyped == request \in [People -> Asked \union {NoRequest}]

\* Who may manage the organization may do everything.
GrantsAreWhole(r) == "ORGANIZATION_MANAGE" \in r.grants => r.grants = AllPermissions

\* No role is granted above the author's own, and none to the author by an update.
Permitted(r, p) ==
  /\ r.step = "write" /\ r.body.kind \in {"roles", "status"} => r.body.whom # p
  /\ \/ r.step \in {"insert", "readmit", "fill"}
     \/ r.step = "write" /\ r.body.kind = "roles"
     => \A x \in r.body.roles : RolePermissions[x] \subseteq r.grants

\* Only a new member is let in by an invitation; while it holds the membership nobody
\* else makes one.
Admitting(r) ==
  /\ r.step = "readmit" => r.status = "INVITED"
  /\ r.step \in {"insert", "fill"} => r.status \in {"ACTIVE", "INVITED"}
  /\ r.step = "fill" /\ r.status = "ACTIVE" => membership[r.body.whom] = "NONE"

\* What a delete leaves in a list, somebody else has written since it began.
Replacing(r) ==
  r.step \in {"write", "fill"} =>
    \A list \in Lists :
      /\ list \in DOMAIN r.body => List(list, r.body.whom) \ r.seen[list] \subseteq r.met[list]
      /\ list \notin DOMAIN r.body => r.seen[list] = {}

Sound(p) ==
  LET r == request[p] IN
  r # NoRequest =>
    /\ membership[p] # "NONE"
    /\ GrantsAreWhole(r) /\ Permitted(r, p) /\ Admitting(r) /\ Replacing(r)

OneFills ==
  \A p, o \in People :
    request[p].step = "fill" /\ request[o].step = "fill" /\ Body(p).whom = Body(o).whom => p = o

StaffInv ==
  /\ StaffTyped /\ RequestsTyped
  /\ \A p \in People : Sound(p)
  /\ OneFills
  /\ ListsAreAsAsked

StaffBounds == LastOneStays /\ GrantsAreHeld /\ ReturnIsDecided

LEMMA RoleFacts ==
  /\ \A r \in Roles : RolePermissions[r] \subseteq AllPermissions
  /\ \A r \in Roles : "ORGANIZATION_MANAGE" \in RolePermissions[r] =>
       RolePermissions[r] = AllPermissions
  BY DEF Roles, RolePermissions, AllPermissions

LEMMA InvitationFacts ==
  ASSUME NEW b \in Invitations
  PROVE  /\ b.kind = "invite" /\ b.whom \in People
         /\ b.roles \in SUBSET Roles /\ b.branches \in SUBSET Branches
         /\ b["roles"] = b.roles /\ b["branches"] = b.branches
         /\ \A list \in Lists : list \in DOMAIN b
  BY DEF Invitations, Lists

LEMMA UpdateFacts ==
  ASSUME NEW b \in Updates
  PROVE  /\ b.kind \in {"roles", "branches", "status"} /\ b.whom \in People
         /\ b.kind = "roles" => /\ b.roles \in SUBSET Roles /\ b["roles"] = b.roles
                                /\ "roles" \in DOMAIN b /\ "branches" \notin DOMAIN b
         /\ b.kind = "branches" => /\ b["branches"] \in SUBSET Branches
                                   /\ "branches" \in DOMAIN b /\ "roles" \notin DOMAIN b
         /\ b.kind = "status" => /\ b.status \in {"ACTIVE", "INVITED", "SUSPENDED", "REMOVED"}
                                 /\ "roles" \notin DOMAIN b /\ "branches" \notin DOMAIN b
  BY DEF Updates

LEMMA RequestFacts ==
  ASSUME RequestsTyped, NEW p \in People, request[p].step # "none"
  PROVE  /\ request[p] \in Asked /\ request[p] # NoRequest
         /\ request[p].step \in {"load", "write"} => request[p].body \in Updates
         /\ request[p].step \notin {"load", "write"} => request[p].body \in Invitations
         /\ request[p].body.whom \in People
<1>1. request[p] \in Asked /\ request[p] # NoRequest
  BY DEF RequestsTyped, NoRequest
<1>2. /\ request[p].step \in {"load", "write"} => request[p].body \in Updates
      /\ request[p].step \notin {"load", "write"} => request[p].body \in Invitations
  BY <1>1 DEF Asked
<1>3. request[p].body.whom \in People
  BY <1>2, InvitationFacts, UpdateFacts
<1> QED  BY <1>1, <1>2, <1>3

LEMMA AskedFacts ==
  ASSUME NEW r \in Asked
  PROVE  r.step # "none" /\ r # NoRequest
<1>1. r.step # "none"
  BY DEF Asked
<1> QED  BY <1>1 DEF NoRequest

LEMMA StaffInit == StaffingInit => StaffInv
<1> SUFFICES ASSUME StaffingInit PROVE StaffInv
  OBVIOUS
<1>1. /\ account \in [People -> {"NONE", "INVITED", "ACTIVE"}]
      /\ membership \in [People -> {"NONE", "INVITED", "ACTIVE", "SUSPENDED", "REMOVED"}]
      /\ branches \in [People -> SUBSET Branches]
      /\ requests \in 0 .. MaxRequests
  BY StaffingAssumption DEF StaffingInit
<1>2. roles \in [People -> SUBSET Roles]
  <2>1. {{}, {"OWNER"}, {"HEAD_OF_STAFF"}} \subseteq SUBSET Roles
    BY DEF Roles, RolePermissions
  <2> QED  BY <2>1 DEF StaffingInit
<1>3. \A list \in Lists, p \in People : List(list, p) \in SUBSET Items
  BY <1>1, <1>2 DEF List, Items
<1>4. ordered \in [Lists -> [People -> SUBSET Items]] /\ mingled \in [Lists -> [People -> SUBSET Items]]
  BY <1>3 DEF StaffingInit
<1>5. \A p \in People : request[p] = NoRequest /\ request[p].step = "none"
  BY DEF StaffingInit, NoRequest
<1>6. RequestsTyped /\ OneFills /\ \A p \in People : Sound(p)
  BY <1>5 DEF StaffingInit, RequestsTyped, OneFills, Sound
<1>7. ListsAreAsAsked
  BY DEF StaffingInit, ListsAreAsAsked
<1> QED  BY <1>1, <1>2, <1>4, <1>6, <1>7 DEF StaffInv, StaffTyped

\* A step of one request that nobody sees anything of but a new account.
LEMMA StaffQuiet ==
  ASSUME StaffInv, NEW p \in People, NEW r \in Asked \union {NoRequest},
         request' = [request EXCEPT ![p] = r], Sound(p)',
         r.step = "fill" => ~Locked(r.body.whom),
         UNCHANGED <<membership, roles, branches, ordered, mingled>>,
         requests' \in 0 .. MaxRequests,
         account' \in [People -> {"NONE", "INVITED", "ACTIVE"}],
         \A q \in People : account[q] = "ACTIVE" <=> account'[q] = "ACTIVE"
  PROVE  StaffInv' /\ StaffBounds
<1>1. StaffTyped' /\ RequestsTyped'
  BY DEF StaffInv, StaffTyped, RequestsTyped
<1>2. \A o \in People : request'[o] = IF o = p THEN r ELSE request[o]
  BY DEF StaffInv, RequestsTyped
<1>3. \A o \in People : Sound(o)'
  <2> SUFFICES ASSUME NEW o \in People, o # p PROVE Sound(o)'
    OBVIOUS
  <2>1. request'[o] = request[o] /\ Sound(o)
    BY <1>2 DEF StaffInv
  <2> QED  BY <2>1 DEF Sound, Admitting, Replacing, List
<1>4. OneFills'
  <2> SUFFICES ASSUME NEW a \in People, NEW b \in People, request'[a].step = "fill",
                      request'[b].step = "fill", Body(a)'.whom = Body(b)'.whom, a # b
               PROVE  FALSE
    BY DEF OneFills
  <2>1. CASE a # p /\ b # p
    BY <1>2, <2>1 DEF StaffInv, OneFills, Body
  <2>2. CASE a = p
    BY <1>2, <2>2 DEF Locked, In, Body
  <2>3. CASE b = p
    BY <1>2, <2>3 DEF Locked, In, Body
  <2> QED  BY <2>1, <2>2, <2>3
<1>5. ListsAreAsAsked'
  BY DEF StaffInv, ListsAreAsAsked, List
<1>6. \A q \in People : /\ Permissions(q)' = Permissions(q) /\ Admitted(q)' = Admitted(q)
                        /\ InCharge(q)' = InCharge(q)
  BY DEF Permissions, Admitted, InCharge
<1>7. StaffBounds
  BY <1>6 DEF StaffBounds, LastOneStays, GrantsAreHeld, ReturnIsDecided
<1> QED  BY <1>1, <1>3, <1>4, <1>5, <1>7 DEF StaffInv

LEMMA StaffContinues ==
  ASSUME StaffInv, NEW p \in People, NEW r \in Asked \union {NoRequest}, Continue(p, r),
         Sound(p)', r.step = "fill" => ~Locked(r.body.whom)
  PROVE  StaffInv' /\ StaffBounds
<1>1. /\ request' = [request EXCEPT ![p] = r]
      /\ UNCHANGED <<account, membership, roles, branches, requests, ordered, mingled>>
  BY DEF Continue, staffVars, staffHistory
<1>2. requests' \in 0 .. MaxRequests /\ account' \in [People -> {"NONE", "INVITED", "ACTIVE"}]
  BY <1>1 DEF StaffInv, StaffTyped
<1> QED  BY <1>1, <1>2, StaffQuiet

LEMMA StaffTurnedDown ==
  ASSUME StaffInv, NEW p \in People, TurnedDown(p)
  PROVE  StaffInv' /\ StaffBounds
<1>1. request'[p] = NoRequest
  BY DEF TurnedDown, Continue, StaffInv, RequestsTyped
<1>2. Sound(p)'
  BY <1>1 DEF Sound
<1>3. NoRequest.step # "fill"
  BY DEF NoRequest
<1> QED  BY <1>2, <1>3, StaffContinues DEF TurnedDown

\* A request that goes on without a list or a membership in its hands.
LEMMA StaffGoesOn ==
  ASSUME StaffInv, NEW p \in People, request[p].step # "none",
         NEW step \in {"create", "add known", "add new"},
         request[p].step \in {"find", "create"},
         request'[p] = [request[p] EXCEPT !.step = step], membership' = membership
  PROVE  [request[p] EXCEPT !.step = step] \in Asked /\ Sound(p)'
<1> DEFINE r == request[p]
           s == [r EXCEPT !.step = step]
<1>1. r \in Asked /\ r # NoRequest /\ Sound(p)
  BY RequestFacts DEF StaffInv
<1>2. s \in Asked /\ s.step = step /\ s.grants = r.grants
  BY <1>1 DEF Asked
<1>3. membership[p] # "NONE" /\ GrantsAreWhole(r)
  BY <1>1 DEF Sound
<1> QED  BY <1>2, <1>3 DEF Sound, GrantsAreWhole, Permitted, Admitting, Replacing

LEMMA StaffOpening ==
  ASSUME StaffInv, NEW p \in People, Authorize(p) \/ FindUser(p) \/ CreateUser(p)
  PROVE  StaffInv' /\ StaffBounds
<1>0. account \in [People -> {"NONE", "INVITED", "ACTIVE"}]
  BY DEF StaffInv, StaffTyped
<1>1. ASSUME Authorize(p) PROVE StaffInv' /\ StaffBounds
  <2>1. PICK body \in Invitations \union Updates :
          request' = [request EXCEPT ![p] =
            [step |-> IF body.kind = "invite" THEN "find" ELSE "load", body |-> body,
             grants |-> Permissions(p), status |-> "NONE", seen |-> NoLists, met |-> NoLists]]
    BY <1>1 DEF Authorize
  <2> DEFINE r == [step |-> IF body.kind = "invite" THEN "find" ELSE "load", body |-> body,
                   grants |-> Permissions(p), status |-> "NONE", seen |-> NoLists, met |-> NoLists]
  <2>2. /\ Permissions(p) \in SUBSET AllPermissions
        /\ "ORGANIZATION_MANAGE" \in Permissions(p) => Permissions(p) = AllPermissions
    <3>1. roles[p] \in SUBSET Roles
      BY DEF StaffInv, StaffTyped
    <3> QED  BY <3>1, RoleFacts DEF Permissions
  <2>3. \/ body \in Invitations /\ body.kind = "invite"
        \/ body \in Updates /\ body.kind # "invite"
    <3>1. CASE body \in Invitations
      BY <3>1, InvitationFacts
    <3>2. CASE body \in Updates
      <4>1. body.kind # "invite"
        BY <3>2, UpdateFacts
      <4> QED  BY <3>2, <4>1
    <3> QED  BY <3>1, <3>2
  <2>4. NoLists \in [Lists -> SUBSET Items]
    BY DEF NoLists
  <2>5. /\ r \in Asked /\ r.step \notin {"write", "fill", "insert", "readmit"}
        /\ r.grants = Permissions(p)
    BY <2>2, <2>3, <2>4 DEF Asked
  <2>6. request'[p] = r
    BY <2>1 DEF StaffInv, RequestsTyped
  <2>7. /\ requests' \in 0 .. MaxRequests
        /\ UNCHANGED <<account, membership, roles, branches, ordered, mingled>>
    BY <1>1, StaffingAssumption DEF Authorize, StaffInv, StaffTyped, staffVars, staffHistory
  <2>8. membership'[p] # "NONE"
    BY <1>1, <2>7 DEF Authorize, InCharge, Admitted
  <2> HIDE DEF r
  <2>9. Sound(p)'
    BY <2>2, <2>5, <2>6, <2>8 DEF Sound, GrantsAreWhole, Permitted, Admitting, Replacing
  <2> QED  BY <1>0, <2>1, <2>5, <2>7, <2>9, StaffQuiet DEF r
<1>2. ASSUME FindUser(p) PROVE StaffInv' /\ StaffBounds
  <2>1. PICK step \in {"create", "add known"} :
          Continue(p, [request[p] EXCEPT !.step = step])
    BY <1>2 DEF FindUser
  <2>2. request[p].step = "find"
    BY <1>2 DEF FindUser, In
  <2>3. request'[p] = [request[p] EXCEPT !.step = step] /\ membership' = membership
    BY <2>1 DEF Continue, StaffInv, RequestsTyped, staffVars
  <2>4. [request[p] EXCEPT !.step = step] \in Asked /\ Sound(p)'
    BY <2>2, <2>3, StaffGoesOn
  <2>5. [request[p] EXCEPT !.step = step].step # "fill"
    BY <2>2, RequestFacts DEF StaffInv, Asked
  <2> QED  BY <2>1, <2>4, <2>5, StaffContinues
<1>3. ASSUME CreateUser(p), account[Body(p).whom] = "NONE" PROVE StaffInv' /\ StaffBounds
  <2>1. /\ request[p].step = "create"
        /\ account' = [account EXCEPT ![Body(p).whom] = "INVITED"]
        /\ request' = [request EXCEPT ![p] = [request[p] EXCEPT !.step = "add new"]]
        /\ UNCHANGED <<membership, roles, branches, requests, ordered, mingled>>
    BY <1>3 DEF CreateUser, In, staffHistory
  <2>2. request'[p] = [request[p] EXCEPT !.step = "add new"]
    BY <2>1 DEF StaffInv, RequestsTyped
  <2>3. [request[p] EXCEPT !.step = "add new"] \in Asked /\ Sound(p)'
    BY <2>1, <2>2, StaffGoesOn
  <2>4. [request[p] EXCEPT !.step = "add new"].step # "fill"
    BY <2>1, RequestFacts DEF StaffInv, Asked
  <2>5. /\ account' \in [People -> {"NONE", "INVITED", "ACTIVE"}]
        /\ \A q \in People : account[q] = "ACTIVE" <=> account'[q] = "ACTIVE"
    BY <1>0, <1>3, <2>1
  <2>6. requests' \in 0 .. MaxRequests
    BY <2>1 DEF StaffInv, StaffTyped
  <2> QED  BY <2>1, <2>3, <2>4, <2>5, <2>6, StaffQuiet
<1>4. ASSUME CreateUser(p), account[Body(p).whom] # "NONE" PROVE StaffInv' /\ StaffBounds
  BY <1>4, StaffTurnedDown DEF CreateUser
<1> QED  BY <1>1, <1>2, <1>3, <1>4

\* MayGrant is what Permitted asks for.
LEMMA GrantsSuffice ==
  ASSUME NEW p \in People, NEW granted \in SUBSET Roles, MayGrant(p, granted),
         GrantsAreWhole(request[p])
  PROVE  \A x \in granted : RolePermissions[x] \subseteq request[p].grants
  BY RoleFacts DEF MayGrant, GrantsAreWhole

LEMMA StaffFindMembership ==
  ASSUME StaffInv, NEW p \in People, FindMembership(p)
  PROVE  StaffInv' /\ StaffBounds
<1> DEFINE q == Body(p).whom
           fits == membership[q] \in {"NONE", "REMOVED"} /\ MayGrant(p, Body(p).roles)
<1>1. CASE ~fits
  BY <1>1, StaffTurnedDown DEF FindMembership
<1>2. CASE fits
  <2>1. /\ request[p].step \in {"add known", "add new"}
        /\ request[p] \in Asked /\ request[p].body \in Invitations /\ request[p] # NoRequest
    BY RequestFacts DEF FindMembership, In, StaffInv
  <2>2. PICK step \in {"insert", "readmit"} :
          /\ Continue(p, [request[p] EXCEPT !.status = FirstStatus(p), !.step = step])
          /\ step = "insert" <=> membership[q] = "NONE"
    BY <1>2 DEF FindMembership
  <2> DEFINE r == [request[p] EXCEPT !.status = FirstStatus(p), !.step = step]
  <2>3. FirstStatus(p) \in {"ACTIVE", "INVITED"} /\ (step = "readmit" => FirstStatus(p) = "INVITED")
    BY <2>2 DEF FirstStatus
  <2>4. /\ r \in Asked /\ r.step = step /\ r.status = FirstStatus(p)
        /\ r.body = request[p].body /\ r.grants = request[p].grants
    BY <2>1, <2>3 DEF Asked
  <2>5. Sound(p)
    BY DEF StaffInv
  <2>6. membership[p] # "NONE" /\ GrantsAreWhole(request[p])
    BY <2>1, <2>5 DEF Sound
  <2>7. \A x \in r.body.roles : RolePermissions[x] \subseteq r.grants
    BY <1>2, <2>1, <2>4, <2>6, InvitationFacts, GrantsSuffice DEF Body
  <2>8. request'[p] = r /\ membership' = membership
    BY <2>2 DEF Continue, StaffInv, RequestsTyped, staffVars
  <2> HIDE DEF r
  <2>9. Sound(p)'
    BY <2>3, <2>4, <2>6, <2>7, <2>8 DEF Sound, GrantsAreWhole, Permitted, Admitting, Replacing
  <2> QED  BY <2>2, <2>4, <2>9, StaffContinues DEF r
<1> QED  BY <1>1, <1>2

\* The deletes of a request begin: nothing is left of its lists.
LEMMA DeletingFacts ==
  ASSUME StaffInv, NEW p \in People, NEW step \in {"write", "fill"},
         \/ step = "fill" /\ request[p].step \in {"insert", "readmit"}
         \/ step = "write" /\ request[p].step = "load"
  PROVE  /\ Deleting(p, step) \in Asked /\ Deleting(p, step).step = step
         /\ Deleting(p, step).body = request[p].body
         /\ Deleting(p, step).grants = request[p].grants
         /\ Deleting(p, step).status = request[p].status
         /\ Replacing(Deleting(p, step))
<1> DEFINE seen == [list \in Lists |->
                      IF list \in DOMAIN Body(p) THEN List(list, Body(p).whom) ELSE {}]
           r == [request[p] EXCEPT !.step = step, !.seen = seen]
<1>1. /\ request[p] \in Asked /\ Body(p).whom \in People
      /\ request[p].step \in {"load", "write"} => request[p].body \in Updates
  BY RequestFacts DEF StaffInv, Body
<1>2. seen \in [Lists -> SUBSET Items]
  BY <1>1 DEF StaffInv, StaffTyped, List, Items
<1>3. /\ r \in Asked /\ r.step = step /\ r.body = request[p].body
      /\ r.grants = request[p].grants /\ r.status = request[p].status /\ r.seen = seen
  BY <1>1, <1>2 DEF Asked
<1>4. r = Deleting(p, step)
  BY DEF Deleting
<1> HIDE DEF r
<1>5. Replacing(r)
  BY <1>3 DEF Replacing, Body
<1> QED  BY <1>3, <1>4, <1>5

LEMMA StaffWriteMembership ==
  ASSUME StaffInv, NEW p \in People, WriteMembership(p)
  PROVE  StaffInv' /\ StaffBounds
<1> DEFINE q == Body(p).whom
           r == Deleting(p, "fill")
<1>1. CASE In(p, "insert") /\ membership[q] # "NONE"
  BY <1>1, StaffTurnedDown DEF WriteMembership
<1>2. CASE ~(In(p, "insert") /\ membership[q] # "NONE")
  <2>1. request[p].step \in {"insert", "readmit"} /\ ~Locked(q) /\ Continue(p, r)
    BY <1>2 DEF WriteMembership, In
  <2>2. /\ r \in Asked /\ r.step = "fill" /\ r.body = request[p].body
        /\ r.grants = request[p].grants /\ r.status = request[p].status /\ Replacing(r)
    BY <2>1, DeletingFacts
  <2>3. request[p] # NoRequest /\ Sound(p)
    BY <2>1, RequestFacts DEF StaffInv
  <2>4. /\ membership[p] # "NONE" /\ GrantsAreWhole(request[p])
        /\ \A x \in request[p].body.roles : RolePermissions[x] \subseteq request[p].grants
        /\ request[p].status \in {"ACTIVE", "INVITED"}
        /\ request[p].status = "ACTIVE" => membership[q] = "NONE"
    BY <1>2, <2>1, <2>3 DEF Sound, Permitted, Admitting, In
  <2>5. /\ request'[p] = r
        /\ UNCHANGED <<membership, roles, branches>>
    BY <2>1 DEF Continue, StaffInv, RequestsTyped, staffVars
  <2> HIDE DEF r
  <2>6. Replacing(request[p])'
    BY <2>2, <2>5 DEF Replacing, List
  <2>7. Sound(p)'
    BY <2>2, <2>4, <2>5, <2>6 DEF Sound, GrantsAreWhole, Permitted, Admitting, Body
  <2> QED  BY <2>1, <2>2, <2>7, StaffContinues DEF Body
<1> QED  BY <1>1, <1>2

LEMMA StaffLoad ==
  ASSUME StaffInv, NEW p \in People, Load(p)
  PROVE  StaffInv' /\ StaffBounds
<1> DEFINE r == Deleting(p, "write")
           fits == membership[Body(p).whom] # "NONE" /\ Allowed(p)
<1>1. CASE ~fits
  BY <1>1, StaffTurnedDown DEF Load
<1>2. CASE fits
  <2>1. request[p].step = "load" /\ Continue(p, r)
    BY <1>2 DEF Load, In
  <2>2. /\ r \in Asked /\ r.step = "write" /\ r.body = request[p].body
        /\ r.grants = request[p].grants /\ r.status = request[p].status /\ Replacing(r)
    BY <2>1, DeletingFacts
  <2>3. request[p] # NoRequest /\ Sound(p) /\ request[p].body \in Updates
    BY <2>1, RequestFacts DEF StaffInv
  <2>4. membership[p] # "NONE" /\ GrantsAreWhole(request[p])
    BY <2>3 DEF Sound
  <2>5. /\ request[p].body.kind \in {"roles", "status"} => request[p].body.whom # p
        /\ request[p].body.kind = "roles" =>
             \A x \in request[p].body.roles : RolePermissions[x] \subseteq request[p].grants
    <3>1. request[p].body.kind = "roles" => request[p].body.roles \in SUBSET Roles
      BY <2>3, UpdateFacts
    <3> QED  BY <1>2, <2>4, <3>1, GrantsSuffice DEF Allowed, Body
  <2>6. /\ request'[p] = r
        /\ UNCHANGED <<membership, roles, branches>>
    BY <2>1 DEF Continue, StaffInv, RequestsTyped, staffVars
  <2> HIDE DEF r
  <2>7. Replacing(request[p])'
    BY <2>2, <2>6 DEF Replacing, List
  <2>8. Sound(p)'
    BY <2>2, <2>4, <2>5, <2>6, <2>7 DEF Sound, GrantsAreWhole, Permitted, Admitting
  <2> QED  BY <2>1, <2>2, <2>8, StaffContinues
<1> QED  BY <1>1, <1>2

----------------------------------------------------------------------------
(* A commit. *)

\* What another request becomes of it.
LEMMA OvertakenFacts ==
  ASSUME StaffInv, NEW p \in People, NEW o \in People, request[p].step \in {"write", "fill"}
  PROVE  /\ Overtaken(o, p) \in Asked \union {NoRequest}
         /\ Overtaken(o, p) = NoRequest <=> request[o] = NoRequest
         /\ request[o] # NoRequest =>
              /\ Overtaken(o, p).step = request[o].step /\ Overtaken(o, p).body = request[o].body
              /\ Overtaken(o, p).grants = request[o].grants
              /\ Overtaken(o, p).status = request[o].status
         /\ IF request[o].step \in {"write", "fill"} /\ Body(o).whom = Body(p).whom
            THEN \A list \in Lists :
                   /\ Overtaken(o, p).seen[list] = request[o].seen[list] \ request[p].seen[list]
                   /\ Overtaken(o, p).met[list] = request[o].met[list] \union Wanted(p, list)
            ELSE Overtaken(o, p) = request[o]
<1>1. request[o] \in Asked \union {NoRequest}
  BY DEF StaffInv, RequestsTyped
<1> DEFINE meets == request[o].step \in {"write", "fill"} /\ Body(o).whom = Body(p).whom
<1>2. CASE ~meets
  BY <1>1, <1>2 DEF Overtaken
<1>3. CASE meets
  <2> DEFINE seen == [list \in Lists |-> request[o].seen[list] \ request[p].seen[list]]
             met == [list \in Lists |-> request[o].met[list] \union Wanted(p, list)]
             r == [request[o] EXCEPT !.seen = seen, !.met = met]
  <2>1. request[o] \in Asked /\ request[o] # NoRequest /\ request[o].step # "none"
    BY <1>3, RequestFacts DEF StaffInv
  <2>2. \A list \in Lists : Wanted(p, list) \in SUBSET Items
    <3>1. /\ request[p].step = "write" => request[p].body \in Updates
          /\ request[p].step = "fill" => request[p].body \in Invitations
      BY RequestFacts DEF StaffInv
    <3> QED  BY <3>1, InvitationFacts, UpdateFacts DEF Wanted, Body, Items, Lists
  <2>3. /\ request[o].seen \in [Lists -> SUBSET Items]
        /\ request[o].met \in [Lists -> SUBSET Items]
    BY <2>1 DEF Asked
  <2>4. seen \in [Lists -> SUBSET Items] /\ met \in [Lists -> SUBSET Items]
    BY <2>2, <2>3
  <2>5. /\ r \in Asked /\ r.step = request[o].step /\ r.body = request[o].body
        /\ r.grants = request[o].grants /\ r.status = request[o].status
        /\ r.seen = seen /\ r.met = met
    BY <2>1, <2>4 DEF Asked
  <2>6. Overtaken(o, p) = r
    BY <1>3 DEF Overtaken
  <2>7. r # NoRequest
    BY <2>5, AskedFacts
  <2>8. \A list \in Lists : /\ seen[list] = request[o].seen[list] \ request[p].seen[list]
                            /\ met[list] = request[o].met[list] \union Wanted(p, list)
    OBVIOUS
  <2> HIDE DEF r, seen, met
  <2> QED  BY <1>3, <2>1, <2>5, <2>6, <2>7, <2>8
<1> QED  BY <1>2, <1>3

\* What becomes of the lists.
LEMMA ReplacedFacts ==
  ASSUME StaffInv, NEW p \in People, request[p].step \in {"write", "fill"}, ReplaceLists(p)
  PROVE  /\ roles' \in [People -> SUBSET Roles] /\ branches' \in [People -> SUBSET Branches]
         /\ \A list \in Lists, x \in People :
              List(list, x)' = IF x = Body(p).whom THEN Left(p, list) \union Wanted(p, list)
                               ELSE List(list, x)
         /\ \A list \in Lists \ DOMAIN Body(p) : Left(p, list) = List(list, Body(p).whom)
         /\ \A list \in Lists \ DOMAIN Body(p) : Wanted(p, list) = {}
         /\ "roles" \in DOMAIN Body(p) =>
              \A x \in Wanted(p, "roles") : x \in Roles /\ RolePermissions[x] \subseteq request[p].grants
<1> DEFINE q == Body(p).whom
<1>1. /\ request[p] \in Asked /\ request[p] # NoRequest /\ q \in People
      /\ request[p].step = "write" => request[p].body \in Updates
      /\ request[p].step = "fill" => request[p].body \in Invitations
  BY RequestFacts DEF StaffInv, Body
<1>2. Sound(p)
  BY DEF StaffInv
<1>3. Permitted(request[p], p) /\ Replacing(request[p])
  BY <1>1, <1>2 DEF Sound
<1>4. /\ Wanted(p, "roles") \in SUBSET Roles /\ Wanted(p, "branches") \in SUBSET Branches
      /\ "roles" \in DOMAIN Body(p) => Wanted(p, "roles") = Body(p).roles
      /\ "roles" \in DOMAIN Body(p) /\ request[p].step = "write" => Body(p).kind = "roles"
  BY <1>1, InvitationFacts, UpdateFacts DEF Wanted, Body
<1>5. /\ roles' = [roles EXCEPT ![q] = Left(p, "roles") \union Wanted(p, "roles")]
      /\ branches' = [branches EXCEPT ![q] = Left(p, "branches") \union Wanted(p, "branches")]
  BY DEF ReplaceLists, Lists
<1>6. Left(p, "roles") \in SUBSET Roles /\ Left(p, "branches") \in SUBSET Branches
  BY <1>1 DEF Left, List, Body, StaffInv, StaffTyped
<1>7. roles' \in [People -> SUBSET Roles] /\ branches' \in [People -> SUBSET Branches]
  BY <1>4, <1>5, <1>6 DEF StaffInv, StaffTyped
<1>8. \A list \in Lists, x \in People :
        List(list, x)' = IF x = q THEN Left(p, list) \union Wanted(p, list) ELSE List(list, x)
  <2>1. roles \in [People -> SUBSET Roles] /\ branches \in [People -> SUBSET Branches]
    BY DEF StaffInv, StaffTyped
  <2> HIDE DEF q
  <2> QED  BY <1>1, <1>5, <2>1 DEF List, Lists
<1>9. \A list \in Lists \ DOMAIN Body(p) : request[p].seen[list] = {}
  BY <1>3 DEF Replacing, Body
<1>10. \A list \in Lists \ DOMAIN Body(p) :
         Left(p, list) = List(list, q) /\ Wanted(p, list) = {}
  BY <1>9 DEF Left, Wanted
<1>11. "roles" \in DOMAIN Body(p) =>
         \A x \in Wanted(p, "roles") : x \in Roles /\ RolePermissions[x] \subseteq request[p].grants
  BY <1>3, <1>4 DEF Permitted, Body
<1> QED  BY <1>7, <1>8, <1>10, <1>11

LEMMA StaffCommit ==
  ASSUME StaffInv, NEW p \in People, ReplaceLists(p), UNCHANGED <<account, requests>>,
         \/ request[p].step = "write" /\ Body(p).kind \in Lists /\ membership' = membership
         \/ /\ request[p].step = "fill"
            /\ membership' = [membership EXCEPT ![Body(p).whom] = request[p].status]
  PROVE  StaffInv' /\ StaffBounds
<1> DEFINE q == Body(p).whom
           lists == DOMAIN Body(p)
<1>1. /\ request[p] \in Asked /\ request[p] # NoRequest /\ q \in People
      /\ request[p].step = "write" => request[p].body \in Updates
      /\ request[p].step = "fill" => request[p].body \in Invitations
  BY RequestFacts DEF StaffInv, Body
<1>2. /\ Permitted(request[p], p) /\ Admitting(request[p]) /\ Replacing(request[p])
      /\ membership[p] # "NONE"
  <2>1. Sound(p)
    BY DEF StaffInv
  <2> QED  BY <1>1, <2>1 DEF Sound
<1>3. /\ roles' \in [People -> SUBSET Roles] /\ branches' \in [People -> SUBSET Branches]
      /\ \A list \in Lists, x \in People :
           List(list, x)' = IF x = q THEN Left(p, list) \union Wanted(p, list) ELSE List(list, x)
      /\ \A list \in Lists \ lists : Left(p, list) = List(list, q) /\ Wanted(p, list) = {}
      /\ "roles" \in lists =>
           \A x \in Wanted(p, "roles") : x \in Roles /\ RolePermissions[x] \subseteq request[p].grants
  BY ReplacedFacts
<1>4. /\ request[p].step = "fill" => request[p].status \in {"ACTIVE", "INVITED"}
      /\ request[p].step = "fill" /\ request[p].status = "ACTIVE" => membership[q] = "NONE"
  BY <1>2 DEF Admitting, Body
<1>5. /\ membership' \in [People -> {"NONE", "INVITED", "ACTIVE", "SUSPENDED", "REMOVED"}]
      /\ \A x \in People : x # q => membership'[x] = membership[x]
      /\ membership'[q] # membership[q] => request[p].step = "fill" /\ membership'[q] = request[p].status
      /\ request[p].step = "fill" => membership'[q] = request[p].status
      /\ \A x \in People : membership[x] # "NONE" => membership'[x] # "NONE"
  BY <1>1, <1>4 DEF StaffInv, StaffTyped
<1>6. /\ request' = [o \in People |-> IF o = p THEN NoRequest ELSE Overtaken(o, p)]
      /\ ordered' = Noted(p, ordered, [list \in Lists |-> Wanted(p, list)])
      /\ mingled' = Noted(p, mingled, request[p].met)
  BY DEF ReplaceLists
<1>7. \A list \in Lists : Left(p, list) \union Wanted(p, list) \in SUBSET Items
  BY <1>1, <1>3 DEF List, Lists, Items
<1>8. request[p].met \in [Lists -> SUBSET Items]
  BY <1>1 DEF Asked
<1>9. \A list \in Lists, x \in People :
        /\ ordered'[list][x] = IF list \in lists /\ x = q THEN Wanted(p, list) ELSE ordered[list][x]
        /\ mingled'[list][x] = IF list \in lists /\ x = q THEN request[p].met[list] ELSE mingled[list][x]
  BY <1>1, <1>6 DEF Noted, StaffInv, StaffTyped
<1>10. /\ ordered' \in [Lists -> [People -> SUBSET Items]]
       /\ mingled' \in [Lists -> [People -> SUBSET Items]]
  BY <1>1, <1>6, <1>7, <1>8 DEF Noted, StaffInv, StaffTyped
<1>11. StaffTyped'
  BY <1>3, <1>5, <1>10 DEF StaffInv, StaffTyped
<1>12. /\ request'[p] = NoRequest /\ NoRequest.step = "none"
       /\ \A o \in People : o # p => request'[o] = Overtaken(o, p)
  BY <1>6 DEF NoRequest
<1>13. RequestsTyped'
  <2>1. \A o \in People : request'[o] \in Asked \union {NoRequest}
    BY <1>1, <1>12, OvertakenFacts
  <2> QED  BY <1>6, <2>1 DEF RequestsTyped
<1>14. ASSUME NEW o \in People, o # p, request'[o] # NoRequest
       PROVE  /\ request[o] # NoRequest /\ Sound(o)
              /\ request'[o].step = request[o].step /\ request'[o].body = request[o].body
              /\ request'[o].grants = request[o].grants
              /\ request'[o].status = request[o].status
  BY <1>1, <1>12, <1>14, OvertakenFacts DEF StaffInv
<1>15. OneFills'
  <2> SUFFICES ASSUME NEW a \in People, NEW b \in People, request'[a].step = "fill",
                      request'[b].step = "fill", Body(a)'.whom = Body(b)'.whom
               PROVE  a = b
    BY DEF OneFills
  <2>1. a # p /\ b # p /\ request'[a] # NoRequest /\ request'[b] # NoRequest
    BY <1>12
  <2>2. request[a].step = "fill" /\ request[b].step = "fill" /\ Body(a).whom = Body(b).whom
    BY <1>14, <2>1 DEF Body
  <2> QED  BY <2>2 DEF StaffInv, OneFills
<1>16. \A o \in People : Sound(o)'
  <2> SUFFICES ASSUME NEW o \in People, o # p, request'[o] # NoRequest PROVE Sound(o)'
    BY <1>12 DEF Sound
  <2>1. /\ request[o] # NoRequest /\ Sound(o)
        /\ request'[o].step = request[o].step /\ request'[o].body = request[o].body
        /\ request'[o].grants = request[o].grants /\ request'[o].status = request[o].status
    BY <1>14
  <2>2. /\ membership[o] # "NONE" /\ GrantsAreWhole(request[o]) /\ Permitted(request[o], o)
        /\ Admitting(request[o]) /\ Replacing(request[o])
    BY <2>1 DEF Sound
  <2>3. membership'[o] # "NONE" /\ GrantsAreWhole(request[o])' /\ Permitted(request[o], o)'
    BY <1>5, <2>1, <2>2 DEF GrantsAreWhole, Permitted
  <2>4. request[o].step # "none" /\ request[o].body.whom \in People
    <3>1. request[o] \in Asked
      BY <2>1 DEF StaffInv, RequestsTyped
    <3>2. request[o].step # "none"
      BY <3>1, AskedFacts
    <3> QED  BY <3>2, RequestFacts DEF StaffInv
  <2>5. Admitting(request[o])'
    <3>1. request[o].step = "fill" /\ request[p].step = "fill" => request[o].body.whom # q
      BY DEF StaffInv, OneFills, Body
    <3>2. request[o].step = "fill" => membership'[request[o].body.whom] = membership[request[o].body.whom]
      BY <1>5, <2>4, <3>1
    <3> QED  BY <2>1, <2>2, <3>2 DEF Admitting
  <2>6. Replacing(request[o])'
    <3> SUFFICES ASSUME request[o].step \in {"write", "fill"}, NEW list \in Lists
                 PROVE  /\ list \in DOMAIN request[o].body =>
                             List(list, request[o].body.whom)' \ request'[o].seen[list]
                               \subseteq request'[o].met[list]
                        /\ list \notin DOMAIN request[o].body => request'[o].seen[list] = {}
      BY <2>1 DEF Replacing
    <3>1. /\ list \in DOMAIN request[o].body =>
               List(list, request[o].body.whom) \ request[o].seen[list] \subseteq request[o].met[list]
          /\ list \notin DOMAIN request[o].body => request[o].seen[list] = {}
      BY <2>2 DEF Replacing
    <3>2. PICK x \in People : x = request[o].body.whom /\ x = request'[o].body.whom
      BY <2>1, <2>4
    <3>3. CASE x # q
      <4>1. request'[o] = request[o]
        BY <1>1, <1>12, <3>2, <3>3, OvertakenFacts DEF Body
      <4>2. List(list, x)' = List(list, x)
        BY <1>3, <3>3
      <4> QED  BY <3>1, <3>2, <4>1, <4>2 DEF List
    <3>4. CASE x = q
      <4>1. /\ request'[o].seen[list] = request[o].seen[list] \ request[p].seen[list]
            /\ request'[o].met[list] = request[o].met[list] \union Wanted(p, list)
        <5>1. /\ request[o].step \in {"write", "fill"} /\ Body(o).whom = Body(p).whom
              /\ request[p].step \in {"write", "fill"} /\ request'[o] = Overtaken(o, p)
          BY <1>12, <3>2, <3>4 DEF Body
        <5> QED  BY <5>1, OvertakenFacts
      <4>2. List(list, x)' = (List(list, x) \ request[p].seen[list]) \union Wanted(p, list)
        BY <1>3, <3>4 DEF Left
      <4> HIDE DEF q
      <4> QED  BY <3>1, <3>2, <4>1, <4>2 DEF List
    <3> QED  BY <3>3, <3>4
  <2> QED  BY <2>3, <2>5, <2>6 DEF Sound
<1>17. ListsAreAsAsked'
  <2> SUFFICES ASSUME NEW list \in Lists, NEW x \in People
               PROVE  /\ ordered'[list][x] \subseteq List(list, x)'
                      /\ List(list, x)' \subseteq ordered'[list][x] \union mingled'[list][x]
    BY DEF ListsAreAsAsked
  <2>1. /\ ordered[list][x] \subseteq List(list, x)
        /\ List(list, x) \subseteq ordered[list][x] \union mingled[list][x]
    BY DEF StaffInv, ListsAreAsAsked
  <2>2. CASE list \in lists /\ x = q
    <3>1. Left(p, list) \subseteq request[p].met[list]
      BY <1>1, <1>2, <2>2 DEF Replacing, Left, Body
    <3> QED  BY <1>3, <1>9, <2>2, <3>1
  <2>3. CASE ~(list \in lists /\ x = q)
    <3>1. List(list, x)' = List(list, x)
      BY <1>3, <2>3
    <3> QED  BY <1>9, <2>1, <2>3, <3>1
  <2> QED  BY <2>2, <2>3
<1>18. /\ \A x \in People : x # q => roles'[x] = roles[x]
       /\ roles'[q] = Left(p, "roles") \union Wanted(p, "roles")
       /\ Left(p, "roles") \subseteq roles[q]
       /\ "roles" \notin lists => roles'[q] = roles[q]
  BY <1>1, <1>3 DEF List, Lists, Left
<1>19. Ends(p)
  BY <1>1, <1>12 DEF Ends
<1>20. request[p].step = "write" => /\ Body(p).kind \in {"roles", "branches"}
                                    /\ Body(p).kind = "roles" => q # p
                                    /\ Body(p).kind # "roles" => "roles" \notin lists
  BY <1>1, <1>2, UpdateFacts DEF Permitted, Body, Lists
<1>21. request[p].step = "fill" /\ p = q => ~Admitted(p)'
  BY <1>2, <1>4, <1>5 DEF Admitted
<1>22. LastOneStays
  <2> SUFFICES ASSUME InCharge(p), ~(In(p, "fill") /\ q = p) PROVE InCharge(p)'
    BY <1>19 DEF LastOneStays
  <2>1. roles'[p] = roles[p] /\ membership'[p] = membership[p]
    BY <1>5, <1>18, <1>20 DEF In
  <2> QED  BY <2>1 DEF InCharge, Admitted, Permissions
<1>23. GrantsAreHeld
  <2> SUFFICES ASSUME NEW x \in People, ~(Permissions(x)' \subseteq Permissions(x))
               PROVE  /\ p = x => ~Admitted(x)'
                      /\ Permissions(x)' \subseteq Permissions(x) \union request[p].grants
    BY <1>19 DEF GrantsAreHeld
  <2>1. x = q /\ "roles" \in lists
    BY <1>18 DEF Permissions
  <2>2. p = x => ~Admitted(x)'
    BY <1>20, <1>21, <2>1
  <2>3. Permissions(x)' \subseteq Permissions(x) \union request[p].grants
    BY <1>3, <1>18, <2>1 DEF Permissions
  <2> QED  BY <2>2, <2>3
<1>24. ReturnIsDecided
  BY <1>4, <1>5 DEF ReturnIsDecided, Admitted
<1> QED  BY <1>11, <1>13, <1>15, <1>16, <1>17, <1>22, <1>23, <1>24 DEF StaffInv, StaffBounds

LEMMA StaffReplace ==
  ASSUME StaffInv, NEW p \in People, Replace(p) \/ AddMember(p)
  PROVE  StaffInv' /\ StaffBounds
<1>1. CASE Clash(p)
  BY <1>1, StaffTurnedDown DEF Replace, AddMember
<1>2. CASE ~Clash(p)
  BY <1>2, StaffCommit DEF Replace, AddMember, In
<1> QED  BY <1>1, <1>2

LEMMA StaffSetStatus ==
  ASSUME StaffInv, NEW p \in People, SetStatus(p)
  PROVE  StaffInv' /\ StaffBounds
<1> DEFINE q == Body(p).whom
           status == Body(p).status
<1>1. /\ request[p].step = "write" /\ request[p].body \in Updates /\ request[p] # NoRequest
      /\ Body(p).kind = "status" /\ q \in People /\ ~Locked(q)
      /\ status \in {"ACTIVE", "INVITED", "SUSPENDED", "REMOVED"}
  BY RequestFacts, UpdateFacts DEF SetStatus, In, Body, StaffInv
<1>2. q # p
  <2>1. Sound(p)
    BY DEF StaffInv
  <2> QED  BY <1>1, <2>1 DEF Sound, Permitted, Body
<1>3. /\ membership' = [membership EXCEPT ![q] = status]
      /\ request' = [request EXCEPT ![p] = NoRequest]
      /\ UNCHANGED <<account, roles, branches, requests, ordered, mingled>>
  BY DEF SetStatus, staffHistory
<1> HIDE DEF q, status
<1>4. /\ \A o \in People : request'[o] = IF o = p THEN NoRequest ELSE request[o]
      /\ NoRequest.step = "none"
  BY <1>3 DEF StaffInv, RequestsTyped, NoRequest
<1>5. \A x \in People : membership'[x] = IF x = q THEN status ELSE membership[x]
  BY <1>3 DEF StaffInv, StaffTyped
<1>6. StaffTyped' /\ RequestsTyped'
  BY <1>1, <1>3 DEF StaffInv, StaffTyped, RequestsTyped
<1>7. \A o \in People : Sound(o)'
  <2> SUFFICES ASSUME NEW o \in People, o # p, request[o] # NoRequest PROVE Sound(o)'
    BY <1>4 DEF Sound
  <2>1. Sound(o) /\ request'[o] = request[o]
    BY <1>4 DEF StaffInv
  <2>2. /\ membership[o] # "NONE" /\ GrantsAreWhole(request[o]) /\ Permitted(request[o], o)
        /\ Admitting(request[o]) /\ Replacing(request[o])
    BY <2>1 DEF Sound
  <2>3. request[o].step = "fill" =>
          request[o].body.whom # q /\ request[o].body.whom \in People
    BY <1>1, RequestFacts DEF Locked, In, Body, StaffInv
  <2>4. Admitting(request[o])'
    BY <1>5, <2>1, <2>2, <2>3 DEF Admitting
  <2>5. membership'[o] # "NONE" /\ GrantsAreWhole(request[o])' /\ Permitted(request[o], o)'
        /\ Replacing(request[o])'
    BY <1>1, <1>3, <1>5, <2>1, <2>2 DEF GrantsAreWhole, Permitted, Replacing, List
  <2> QED  BY <2>1, <2>4, <2>5 DEF Sound
<1>8. OneFills'
  BY <1>4 DEF StaffInv, OneFills, Body
<1>9. ListsAreAsAsked'
  BY <1>3 DEF StaffInv, ListsAreAsAsked, List
<1>10. Ends(p)
  BY <1>1, <1>4 DEF Ends
<1>11. \A x \in People : Permissions(x)' = Permissions(x)
  BY <1>3 DEF Permissions
<1>12. LastOneStays
  <2>1. InCharge(p) => InCharge(p)'
    BY <1>2, <1>3, <1>5, <1>11 DEF InCharge, Admitted
  <2> QED  BY <1>10, <2>1 DEF LastOneStays
<1>13. GrantsAreHeld
  BY <1>11 DEF GrantsAreHeld
<1>14. ReturnIsDecided
  <2> SUFFICES ASSUME NEW x \in People, ~Admitted(x), Admitted(x)'
               PROVE  x # p /\ Ends(p) /\ Body(p).kind = "status"
    BY DEF ReturnIsDecided
  <2>1. x = q
    BY <1>3, <1>5 DEF Admitted
  <2> QED  BY <1>1, <1>2, <1>10, <2>1
<1> QED  BY <1>6, <1>7, <1>8, <1>9, <1>12, <1>13, <1>14 DEF StaffInv, StaffBounds

LEMMA StaffStep ==
  ASSUME StaffInv, [StaffingNext]_staffingVars
  PROVE  StaffInv' /\ [StaffBounds]_staffingVars
<1>1. CASE UNCHANGED staffingVars
  <2>1. UNCHANGED <<account, membership, roles, branches, request, requests, ordered, mingled>>
    BY <1>1 DEF staffingVars, staffVars, staffHistory
  <2>2. \A p \in People : Sound(p)'
    BY <2>1 DEF StaffInv, Sound, GrantsAreWhole, Permitted, Admitting, Replacing, List
  <2> QED  BY <1>1, <2>1, <2>2 DEF StaffInv, StaffTyped, RequestsTyped, OneFills, Body,
              ListsAreAsAsked, List
<1>2. ASSUME NEW p \in People, Breakdown(p) PROVE StaffInv' /\ StaffBounds
  BY <1>2, StaffTurnedDown DEF Breakdown
<1>3. ASSUME StaffingNext PROVE StaffInv' /\ StaffBounds
  BY <1>2, <1>3, StaffOpening, StaffFindMembership, StaffWriteMembership, StaffLoad,
     StaffReplace, StaffSetStatus
  DEF StaffingNext
<1> QED  BY <1>1, <1>3


----------------------------------------------------------------------------
(* The menu. *)

GroupRow ==
  [type : {"SINGLE", "MULTIPLE"}, required : BOOLEAN, min : Minimums \union {0},
   max : Maximums \union {1, 5}, active : BOOLEAN]

There == {g \in Groups : group[g] # NoGroup}

Update == [what : {"update"}, id : There, existing : GroupRow]
Replacement ==
  [what : {"replace"}, new : SUBSET There, doomed : SUBSET There, met : SUBSET There]

MenuTyped ==
  /\ dish \in [availability : Availability, active : BOOLEAN]
  /\ categoryOn \in BOOLEAN
  /\ override \in Availability \union {"none", "inherit"}
  /\ group \in [Groups -> GroupRow \union {NoGroup}]
  /\ available \in [Groups -> SUBSET Options]
  /\ \A g \in Groups : group[g] = NoGroup => available[g] = {}
  /\ attached \subseteq There
  /\ edit \in [Editors -> Update \union Replacement \union {NoEdit}]
  /\ edits \in 0 .. MaxEdits
  /\ lopsided \subseteq There

\* Every group but the lopsided ones obeys the rule of update.
GroupsAreWellFormed == \A g \in There \ lopsided : WellFormed(group[g])

\* What is on the dish that an open replacement did not delete, somebody else has
\* written since.
OthersAreMet ==
  \A e \in Editors : edit[e].what = "replace" => attached \ edit[e].doomed \subseteq edit[e].met

MenuInv == MenuTyped /\ GroupsAreWellFormed /\ OthersAreMet /\ ListsMixNoFurther


LEMMA GroupRowFacts ==
  /\ NoGroup \notin GroupRow
  /\ \A row \in GroupRow :
       /\ row.type \in {"SINGLE", "MULTIPLE"} /\ row.required \in BOOLEAN
       /\ row.min \in Nat /\ row.max \in Nat /\ row.max >= 1 /\ row.active \in BOOLEAN
<1>1. \A row \in GroupRow : row.type \in {"SINGLE", "MULTIPLE"}
  BY DEF GroupRow
<1>2. NoGroup.type = "none"
  BY DEF NoGroup
<1>3. NoGroup \notin GroupRow
  BY <1>1, <1>2
<1>4. /\ \A n \in Minimums \union {0} : n \in Nat
      /\ \A n \in Maximums \union {1, 5} : n \in Nat /\ n >= 1
  BY CountsAssumption
<1>5. ASSUME NEW row \in GroupRow
      PROVE  /\ row.required \in BOOLEAN /\ row.active \in BOOLEAN
             /\ row.min \in Minimums \union {0} /\ row.max \in Maximums \union {1, 5}
  BY DEF GroupRow
<1> QED  BY <1>1, <1>3, <1>4, <1>5

LEMMA GivenIn ==
  ASSUME NEW S, NEW field \in Maybe(S), NEW otherwise \in S
  PROVE  Given(field, otherwise) \in S
<1>1. CASE field = {}
  BY <1>1 DEF Given
<1>2. CASE field # {}
  <2>1. PICK x \in S : field = {x}
    BY <1>2 DEF Maybe
  <2> QED  BY <2>1 DEF Given
<1> QED  BY <1>1, <1>2

\* A patch makes one row of another, field by field.
LEMMA MergedFacts ==
  ASSUME NEW row \in GroupRow, NEW patch \in Patches
  PROVE  Merged(row, patch) \in GroupRow
<1>1. /\ patch.type \in Maybe({"SINGLE", "MULTIPLE"})
      /\ patch.required \in Maybe(BOOLEAN) /\ patch.active \in Maybe(BOOLEAN)
      /\ patch.min \in Maybe(Minimums \union {0}) /\ patch.max \in Maybe(Maximums \union {1, 5})
  BY DEF Patches, Maybe
<1>2. /\ row.type \in {"SINGLE", "MULTIPLE"} /\ row.required \in BOOLEAN
      /\ row.active \in BOOLEAN
      /\ row.min \in Minimums \union {0} /\ row.max \in Maximums \union {1, 5}
  BY DEF GroupRow
<1>3. /\ Given(patch.type, row.type) \in {"SINGLE", "MULTIPLE"}
      /\ Given(patch.required, row.required) \in BOOLEAN
      /\ Given(patch.min, row.min) \in Minimums \union {0}
      /\ Given(patch.max, row.max) \in Maximums \union {1, 5}
      /\ Given(patch.active, row.active) \in BOOLEAN
  BY <1>1, <1>2, GivenIn
<1> QED  BY <1>3 DEF Merged, GroupRow

\* The rule reads the three fields a patch of the same row comes out with.
LEMMA SameRuleMerged ==
  ASSUME NEW a, NEW b, NEW patch, SameRule(a, b), WellFormed(Merged(b, patch))
  PROVE  WellFormed(Merged(a, patch))
  BY DEF SameRule, WellFormed, Merged

\* What is open stays well typed while no group goes away.
LEMMA EditsStay ==
  ASSUME MenuTyped, There \subseteq There'
  PROVE  /\ \A e \in Editors : edit[e] \in (Update \union Replacement \union {NoEdit})'
         /\ attached \subseteq There' /\ lopsided \subseteq There'
<1>1. Update \subseteq Update' /\ Replacement \subseteq Replacement'
  <2>1. Update \subseteq [what : {"update"}, id : There', existing : GroupRow]
    BY DEF Update
  <2>2. Replacement \subseteq [what : {"replace"}, new : SUBSET There',
                              doomed : SUBSET There', met : SUBSET There']
    BY DEF Replacement
  <2> QED  BY <2>1, <2>2 DEF Update, Replacement, GroupRow
<1> QED  BY <1>1 DEF MenuTyped, NoEdit

LEMMA MenuInit == CatalogueInit => MenuInv
<1> SUFFICES ASSUME CatalogueInit PROVE MenuInv
  OBVIOUS
<1>1. PlainGroup \in GroupRow /\ WellFormed(PlainGroup)
  BY DEF PlainGroup, GroupRow, WellFormed
<1>2. group \in [Groups -> GroupRow \union {NoGroup}]
  BY <1>1 DEF CatalogueInit
<1>3. dish \in [availability : Availability, active : BOOLEAN]
  BY DEF CatalogueInit
<1>4. /\ available \in [Groups -> SUBSET Options]
      /\ \A g \in Groups : group[g] = NoGroup => available[g] = {}
  BY DEF CatalogueInit
<1>5. /\ edit \in [Editors -> Update \union Replacement \union {NoEdit}]
      /\ edits \in 0 .. MaxEdits
  BY CatalogueBoundsAssumption DEF CatalogueInit
<1>6. MenuTyped
  BY <1>2, <1>3, <1>4, <1>5 DEF CatalogueInit, MenuTyped
<1>7. GroupsAreWellFormed
  BY <1>1 DEF CatalogueInit, GroupsAreWellFormed, There
<1>8. OthersAreMet
  BY DEF CatalogueInit, OthersAreMet, NoEdit
<1> QED  BY <1>6, <1>7, <1>8 DEF CatalogueInit, ListsMixNoFurther, MenuInv

LEMMA MenuEditItem ==
  ASSUME MenuInv, EditItem
  PROVE  MenuInv'
<1> USE DEF MenuInv
<1>1. /\ UNCHANGED <<group, available, attached, edit, menuHistory>>
      /\ edits' \in 0 .. MaxEdits
  BY CatalogueBoundsAssumption DEF EditItem, UpdateItem, ArchiveItem, SetAvailability,
    UpdateCategory, ArchiveCategory, SetBranchAvailability, SetBranchOverride,
    ClearBranchOverride, EditDish, EditCategory, EditOverride, Count1, MenuTyped,
    menuHistory
<1>2. dish' \in [availability : Availability, active : BOOLEAN]
  <2>1. dish \in [availability : Availability, active : BOOLEAN]
    BY DEF MenuTyped
  <2>2. CASE UpdateItem
    BY <2>2 DEF UpdateItem, EditDish
  <2>3. CASE ArchiveItem \/ SetAvailability
    BY <2>1, <2>3 DEF ArchiveItem, SetAvailability, EditDish
  <2>4. CASE dish' = dish
    BY <2>1, <2>4
  <2> QED
    BY <2>2, <2>3, <2>4 DEF EditItem, UpdateCategory, ArchiveCategory,
      SetBranchAvailability, SetBranchOverride, ClearBranchOverride, EditCategory, EditOverride
<1>3. categoryOn' \in BOOLEAN
  BY DEF EditItem, UpdateItem, ArchiveItem, SetAvailability, UpdateCategory,
    ArchiveCategory, SetBranchAvailability, SetBranchOverride, ClearBranchOverride,
    EditDish, EditCategory, EditOverride, MenuTyped
<1>4. override' \in Availability \union {"none", "inherit"}
  BY DEF EditItem, UpdateItem, ArchiveItem, SetAvailability, UpdateCategory,
    ArchiveCategory, SetBranchAvailability, SetBranchOverride, ClearBranchOverride,
    EditDish, EditCategory, EditOverride, MenuTyped
<1>5. MenuTyped'
  BY <1>1, <1>2, <1>3, <1>4 DEF MenuTyped, There, Update, Replacement, menuHistory
<1> QED
  BY <1>1, <1>5 DEF GroupsAreWellFormed, There, OthersAreMet, ListsMixNoFurther, menuHistory

\* A group is written: nothing else changes but what is noted as lopsided, and the
\* edit that wrote it.
LEMMA MenuEditGroup ==
  ASSUME MenuInv, NEW g \in Groups, NEW new \in GroupRow, EditGroup(g, new),
         edits' \in 0 .. MaxEdits, available' \in [Groups -> SUBSET Options],
         \A h \in Groups \ {g} : available'[h] = available[h],
         \/ edit' = edit
         \/ \E e \in Editors : edit' = [edit EXCEPT ![e] = NoEdit],
         lopsided' \subseteq lopsided \union {g}, lopsided \subseteq lopsided' \union {g},
         g \in lopsided' \/ WellFormed(new)
  PROVE  MenuInv'
<1> USE DEF MenuInv
<1>1. /\ group' = [group EXCEPT ![g] = new]
      /\ UNCHANGED <<dish, categoryOn, override, attached, written, beyond>>
  BY DEF EditGroup
<1>2. /\ \A h \in Groups \ {g} : group'[h] = group[h]
      /\ group'[g] = new /\ new # NoGroup
      /\ group' \in [Groups -> GroupRow \union {NoGroup}]
  BY <1>1, GroupRowFacts DEF MenuTyped
<1>3. There' = There \union {g}
  BY <1>2 DEF There
<1>4. /\ \A e \in Editors : edit[e] \in (Update \union Replacement \union {NoEdit})'
      /\ attached \subseteq There' /\ lopsided \subseteq There'
  BY <1>3, EditsStay
<1>5. \A e \in Editors : edit'[e] = edit[e] \/ edit'[e] = NoEdit
  BY DEF MenuTyped
<1>6. edit' \in [Editors -> (Update \union Replacement \union {NoEdit})']
  <2>1. \A e \in Editors : edit'[e] \in (Update \union Replacement \union {NoEdit})'
    BY <1>4, <1>5
  <2>2. edit' = [e \in Editors |-> edit'[e]]
    BY DEF MenuTyped
  <2> QED  BY <2>1, <2>2
<1>7. MenuTyped'
  BY <1>1, <1>2, <1>3, <1>4, <1>6 DEF MenuTyped, GroupRow
<1>8. GroupsAreWellFormed'
  <2> SUFFICES ASSUME NEW h \in There', h \notin lopsided' PROVE WellFormed(group'[h])
    BY DEF GroupsAreWellFormed, WellFormed
  <2>1. CASE h = g
    BY <1>2, <2>1
  <2>2. CASE h # g
    <3>1. h \in There \ lopsided /\ group'[h] = group[h]
      BY <1>2, <1>3, <2>2 DEF There
    <3> QED  BY <3>1 DEF GroupsAreWellFormed
  <2> QED  BY <2>1, <2>2
<1>9. OthersAreMet'
  BY <1>1, <1>5 DEF OthersAreMet, NoEdit
<1> QED  BY <1>1, <1>7, <1>8, <1>9 DEF ListsMixNoFurther


LEMMA MenuGroups ==
  ASSUME MenuInv, NEW g \in Groups, CreateGroup(g) \/ ArchiveGroup(g)
  PROVE  MenuInv'
<1> USE DEF MenuInv
<1>1. Count1 => edits' \in 0 .. MaxEdits
  BY CatalogueBoundsAssumption DEF Count1, MenuTyped
<1>2. ASSUME CreateGroup(g) PROVE MenuInv'
  <2>1. PICK t \in Maybe({"SINGLE", "MULTIPLE"}), r \in BOOLEAN,
             min \in Maybe(Minimums), max \in Maybe(Maximums) :
          LET type == Given(t, "SINGLE")
              new == [type |-> type, required |-> r, min |-> Given(min, 0),
                      max |-> Given(max, DefaultMaximum(type)), active |-> TRUE]
          IN /\ min # {} /\ max # {} => new.min <= new.max
             /\ t # {} /\ max # {} => (type = "SINGLE" => new.max = 1)
             /\ EditGroup(g, new)
             /\ lopsided' = IF WellFormed(new) THEN lopsided ELSE lopsided \union {g}
    BY <1>2, Zenon DEF CreateGroup
  <2> DEFINE type == Given(t, "SINGLE")
             new == [type |-> type, required |-> r, min |-> Given(min, 0),
                     max |-> Given(max, DefaultMaximum(type)), active |-> TRUE]
  <2>2. new \in GroupRow
    <3>1. type \in {"SINGLE", "MULTIPLE"}
      BY GivenIn
    <3>2. min \in Maybe(Minimums \union {0}) /\ max \in Maybe(Maximums \union {1, 5})
      BY DEF Maybe
    <3>3. Given(min, 0) \in Minimums \union {0}
      BY <3>2, GivenIn
    <3>4. DefaultMaximum(type) \in Maximums \union {1, 5}
      BY DEF DefaultMaximum
    <3>5. Given(max, DefaultMaximum(type)) \in Maximums \union {1, 5}
      BY <3>2, <3>4, GivenIn
    <3> QED  BY <3>1, <3>3, <3>5 DEF GroupRow
  <2>3. /\ EditGroup(g, new)
        /\ lopsided' = IF WellFormed(new) THEN lopsided ELSE lopsided \union {g}
    BY <2>1
  <2> HIDE DEF new
  <2>4. edit' = edit /\ edits' \in 0 .. MaxEdits
    BY <1>1, <1>2 DEF CreateGroup
  <2>5. PICK options \in SUBSET Options : available' = [available EXCEPT ![g] = options]
    BY <1>2 DEF CreateGroup
  <2>6. /\ available' \in [Groups -> SUBSET Options]
        /\ \A h \in Groups \ {g} : available'[h] = available[h]
    BY <2>5 DEF MenuTyped
  <2> QED  BY <2>2, <2>3, <2>4, <2>6, MenuEditGroup
<1>3. ASSUME ArchiveGroup(g) PROVE MenuInv'
  <2> DEFINE new == [group[g] EXCEPT !.active = FALSE]
  <2>1. /\ EditGroup(g, new) /\ edit' = edit /\ lopsided' = lopsided
        /\ edits' \in 0 .. MaxEdits /\ g \in There /\ available' = available
    BY <1>1, <1>3 DEF ArchiveGroup, There
  <2>2. group[g] \in GroupRow
    BY <2>1 DEF MenuTyped, There
  <2>3. new \in GroupRow
    BY <2>2 DEF GroupRow
  <2>4. g \in lopsided' \/ WellFormed(new)
    BY <2>1, <2>2 DEF GroupsAreWellFormed, WellFormed, GroupRow
  <2> HIDE DEF new
  <2>5. available \in [Groups -> SUBSET Options]
    BY DEF MenuTyped
  <2> QED  BY <2>1, <2>3, <2>4, <2>5, MenuEditGroup
<1> QED  BY <1>2, <1>3

\* Options come and go and no rule of a group looks at them.
LEMMA MenuOptions ==
  ASSUME MenuInv, NEW g \in Groups, NEW o \in Options, OfferOption(g, o) \/ WithdrawOption(g, o)
  PROVE  MenuInv'
<1> USE DEF MenuInv
<1>1. /\ group[g] # NoGroup /\ Count1
      /\ UNCHANGED <<dish, categoryOn, override, group, attached, edit, menuHistory>>
      /\ \/ available' = [available EXCEPT ![g] = available[g] \union {o}]
         \/ available' = [available EXCEPT ![g] = available[g] \ {o}]
  BY DEF OfferOption, WithdrawOption, EditOptions
<1>2. /\ available' \in [Groups -> SUBSET Options]
      /\ \A h \in Groups \ {g} : available'[h] = available[h]
  BY <1>1 DEF MenuTyped
<1>3. edits' \in 0 .. MaxEdits
  BY <1>1, CatalogueBoundsAssumption DEF Count1, MenuTyped
<1>4. MenuTyped'
  BY <1>1, <1>2, <1>3 DEF MenuTyped, There, Update, Replacement, menuHistory
<1> QED
  BY <1>1, <1>4 DEF GroupsAreWellFormed, There, OthersAreMet, ListsMixNoFurther, menuHistory

LEMMA MenuReadGroup ==
  ASSUME MenuInv, NEW e \in Editors, NEW g \in Groups, ReadGroup(e, g)
  PROVE  MenuInv'
<1> USE DEF MenuInv
<1> DEFINE r == [what |-> "update", id |-> g, existing |-> group[g]]
<1>1. /\ edit' = [edit EXCEPT ![e] = r] /\ edits' \in 0 .. MaxEdits
      /\ UNCHANGED <<dish, categoryOn, override, group, available, attached, menuHistory>>
      /\ g \in There
  BY CatalogueBoundsAssumption DEF ReadGroup, Count1, MenuTyped, There
<1>2. r \in Update /\ r.what # "replace"
  BY <1>1 DEF Update, There, MenuTyped
<1> HIDE DEF r
<1>3. MenuTyped'
  BY <1>1, <1>2 DEF MenuTyped, There, Update, Replacement, menuHistory
<1>4. \A o \in Editors : edit'[o] = edit[o] \/ edit'[o].what # "replace"
  BY <1>1, <1>2 DEF MenuTyped
<1>5. OthersAreMet'
  BY <1>1, <1>4 DEF OthersAreMet
<1> QED  BY <1>1, <1>3, <1>5 DEF GroupsAreWellFormed, There, ListsMixNoFurther, menuHistory

LEMMA MenuWriteGroup ==
  ASSUME MenuInv, NEW e \in Editors, WriteGroup(e)
  PROVE  MenuInv'
<1> USE DEF MenuInv
<1> DEFINE g == edit[e].id
           existing == edit[e].existing
           passing == {patch \in Patches : WellFormed(Merged(existing, patch))}
<1>1. /\ g \in There /\ existing \in GroupRow
  <2>1. edit[e] \in Update \union Replacement \union {NoEdit} /\ edit[e].what = "update"
    BY DEF WriteGroup, MenuTyped
  <2>2. edit[e] \notin Replacement /\ edit[e] # NoEdit
    BY <2>1 DEF Replacement, NoEdit
  <2>3. edit[e] \in Update
    BY <2>1, <2>2
  <2> QED  BY <2>3 DEF Update
<1>2. /\ edit' = [edit EXCEPT ![e] = NoEdit] /\ edits' = edits /\ available' = available
      /\ \/ /\ \E patch \in passing : EditGroup(g, Merged(group[g], patch))
            /\ lopsided' = IF SameRule(group[g], existing)
                             THEN lopsided \ {g} ELSE lopsided \union {g}
         \/ UNCHANGED <<dish, categoryOn, override, group, attached, menuHistory>>
  BY DEF WriteGroup
<1>3. group[g] \in GroupRow /\ g \in Groups
  BY <1>1 DEF MenuTyped, There
<1>4. edits' \in 0 .. MaxEdits /\ available \in [Groups -> SUBSET Options]
  BY <1>2 DEF MenuTyped
<1> HIDE DEF g, existing
<1>5. ASSUME NEW patch \in passing, EditGroup(g, Merged(group[g], patch)),
             lopsided' = IF SameRule(group[g], existing)
                           THEN lopsided \ {g} ELSE lopsided \union {g}
      PROVE  MenuInv'
  <2>1. Merged(group[g], patch) \in GroupRow
    BY <1>3, MergedFacts
  <2>2. SameRule(group[g], existing) => WellFormed(Merged(group[g], patch))
    BY SameRuleMerged
  <2>3. g \in lopsided' \/ WellFormed(Merged(group[g], patch))
    BY <1>5, <2>2
  <2>4. lopsided' \subseteq lopsided \union {g} /\ lopsided \subseteq lopsided' \union {g}
    BY <1>5
  <2> QED  BY <1>2, <1>3, <1>4, <1>5, <2>1, <2>3, <2>4, MenuEditGroup
<1>6. ASSUME UNCHANGED <<dish, categoryOn, override, group, attached, menuHistory>>
      PROVE  MenuInv'
  <2>1. \A o \in Editors : edit'[o] = edit[o] \/ edit'[o] = NoEdit
    BY <1>2 DEF MenuTyped
  <2>2. MenuTyped'
    BY <1>2, <1>6 DEF MenuTyped, There, Update, Replacement, menuHistory
  <2>3. OthersAreMet'
    BY <1>6, <2>1 DEF OthersAreMet, NoEdit
  <2> QED  BY <1>6, <2>2, <2>3 DEF GroupsAreWellFormed, There, ListsMixNoFurther, menuHistory
<1> QED  BY <1>2, <1>5, <1>6

LEMMA MenuReplaceDelete ==
  ASSUME MenuInv, NEW e \in Editors, ReplaceDelete(e)
  PROVE  MenuInv'
<1> USE DEF MenuInv
<1>1. PICK new \in SUBSET There :
        edit' = [edit EXCEPT ![e] =
                   [what |-> "replace", new |-> new, doomed |-> attached, met |-> {}]]
  BY DEF ReplaceDelete, There
<1> DEFINE own == [what |-> "replace", new |-> new, doomed |-> attached, met |-> {}]
<1>2. /\ UNCHANGED <<dish, categoryOn, override, group, available, attached, menuHistory>>
      /\ edits' \in 0 .. MaxEdits
  BY CatalogueBoundsAssumption DEF ReplaceDelete, Count1, MenuTyped
<1>3. own \in Replacement /\ attached \ own.doomed = {}
  BY DEF Replacement, MenuTyped
<1> HIDE DEF own
<1>4. MenuTyped'
  BY <1>1, <1>2, <1>3 DEF MenuTyped, There, Update, Replacement, menuHistory, own
<1>5. /\ edit'[e] = own
      /\ \A o \in Editors \ {e} : edit'[o] = edit[o]
  BY <1>1 DEF MenuTyped, own
<1>6. OthersAreMet'
  BY <1>2, <1>3, <1>5 DEF OthersAreMet
<1> QED  BY <1>2, <1>4, <1>6 DEF GroupsAreWellFormed, There, ListsMixNoFurther, menuHistory

LEMMA MenuReplaceInsert ==
  ASSUME MenuInv, NEW e \in Editors, ReplaceInsert(e)
  PROVE  MenuInv'
<1> USE DEF MenuInv
<1>1. /\ UNCHANGED <<dish, categoryOn, override, group, available, edits, lopsided>>
      /\ \/ /\ attached' = Kept(e) \union edit[e].new
            /\ written' = edit[e].new /\ beyond' = edit[e].met
            /\ edit' = [o \in Editors |-> IF o = e THEN NoEdit ELSE Outrun(e, o)]
         \/ /\ UNCHANGED <<attached, written, beyond>>
            /\ edit' = [edit EXCEPT ![e] = NoEdit]
  BY DEF ReplaceInsert
<1>2. edit[e] \in Replacement /\ edit[e].what = "replace"
  BY DEF ReplaceInsert, MenuTyped, Update, NoEdit
<1>3. edit[e].new \subseteq There /\ edit[e].doomed \subseteq There
  BY <1>2 DEF Replacement
<1>4. Kept(e) \subseteq edit[e].met
  BY <1>2 DEF OthersAreMet, Kept
<1>5. \A o \in Editors : edit[o] \in Update \union Replacement \union {NoEdit}
  BY DEF MenuTyped
<1>6. CASE UNCHANGED <<attached, written, beyond>> /\ edit' = [edit EXCEPT ![e] = NoEdit]
  <2>1. MenuTyped'
    BY <1>1, <1>6 DEF MenuTyped, There, Update, Replacement
  <2>2. \A o \in Editors : edit'[o] = edit[o] \/ edit'[o] = NoEdit
    BY <1>6 DEF MenuTyped
  <2>3. OthersAreMet'
    BY <1>6, <2>2 DEF OthersAreMet, NoEdit
  <2> QED  BY <1>1, <1>6, <2>1, <2>3 DEF GroupsAreWellFormed, There, ListsMixNoFurther
<1>7. CASE /\ attached' = Kept(e) \union edit[e].new
           /\ written' = edit[e].new /\ beyond' = edit[e].met
           /\ edit' = [o \in Editors |-> IF o = e THEN NoEdit ELSE Outrun(e, o)]
  <2>1. attached' \subseteq There
    BY <1>3, <1>7 DEF MenuTyped, Kept
  <2>2. ASSUME NEW o \in Editors, o # e, edit[o].what = "replace"
        PROVE  /\ Outrun(e, o) \in Replacement /\ Outrun(e, o).what = "replace"
               /\ Outrun(e, o).doomed = edit[o].doomed \ edit[e].doomed
               /\ Outrun(e, o).met = edit[o].met \union edit[e].new
    <3>1. edit[o] \in Replacement
      BY <1>5, <2>2 DEF Update, NoEdit
    <3>2. Outrun(e, o) = [edit[o] EXCEPT !.doomed = @ \ edit[e].doomed, !.met = @ \union edit[e].new]
      BY <2>2 DEF Outrun
    <3> QED  BY <1>3, <2>2, <3>1, <3>2 DEF Replacement
  <2>3. ASSUME NEW o \in Editors, o # e, edit[o].what # "replace" PROVE Outrun(e, o) = edit[o]
    BY <2>3 DEF Outrun
  <2>4. edit' \in [Editors -> Update \union Replacement \union {NoEdit}]
    <3>1. \A o \in Editors : edit'[o] \in Update \union Replacement \union {NoEdit}
      BY <1>5, <1>7, <2>2, <2>3
    <3>2. edit' = [o \in Editors |-> edit'[o]]
      BY <1>7
    <3> QED  BY <3>1, <3>2
  <2>5. MenuTyped'
    BY <1>1, <2>1, <2>4 DEF MenuTyped, There, Update, Replacement
  <2>6. OthersAreMet'
    <3> SUFFICES ASSUME NEW o \in Editors, edit'[o].what = "replace"
                 PROVE  attached' \ edit'[o].doomed \subseteq edit'[o].met
      BY DEF OthersAreMet
    <3>1. o # e /\ edit'[o] = Outrun(e, o)
      BY <1>7 DEF NoEdit
    <3>2. edit[o].what = "replace"
      BY <2>3, <3>1
    <3>3. /\ edit'[o].doomed = edit[o].doomed \ edit[e].doomed
          /\ edit'[o].met = edit[o].met \union edit[e].new
      BY <2>2, <3>1, <3>2
    <3>4. attached \ edit[o].doomed \subseteq edit[o].met
      BY <3>2 DEF OthersAreMet
    <3> QED  BY <1>7, <3>3, <3>4 DEF Kept
  <2>7. ListsMixNoFurther'
    BY <1>4, <1>7 DEF ListsMixNoFurther
  <2> QED  BY <1>1, <2>5, <2>6, <2>7 DEF GroupsAreWellFormed, There
<1> QED  BY <1>1, <1>6, <1>7

LEMMA MenuStep ==
  ASSUME MenuInv, [CatalogueNext]_catalogueVars
  PROVE  MenuInv'
<1>1. CASE UNCHANGED catalogueVars
  BY <1>1 DEF catalogueVars, menuHistory, MenuInv, MenuTyped, There, Update, Replacement,
    GroupsAreWellFormed, WellFormed, OthersAreMet, ListsMixNoFurther
<1> QED
  BY <1>1, MenuEditItem, MenuGroups, MenuOptions, MenuReadGroup, MenuWriteGroup,
    MenuReplaceDelete, MenuReplaceInsert DEF CatalogueNext

\* The two ways of deciding what can be sold without a choice agree.
LEMMA BotAgreesWithCart == MenuInv => OfferedIsAccepted
<1> SUFFICES ASSUME MenuInv PROVE OfferedIsAccepted
  OBVIOUS
<1>1. EffectiveAvailability \in Availability
  BY DEF EffectiveAvailability, MenuInv, MenuTyped
<1>2. ASSUME NEW g \in attached
      PROVE  Valid(g, {}) <=> ~(group[g].required \/ group[g].min > 0)
  <2>1. group[g] \in GroupRow
    BY DEF MenuInv, MenuTyped, There
  <2>2. group[g].min \in Nat /\ group[g].max \in Nat /\ group[g].required \in BOOLEAN
    BY <2>1, GroupRowFacts
  <2>3. Cardinality({}) = 0
    BY FS_EmptySet
  <2> QED  BY <2>2, <2>3 DEF Valid, Minimum
<1> QED
  BY <1>1, <1>2 DEF OfferedIsAccepted, OfferedByBot, AcceptedBare, NeedsAChoice, IsVisible,
    IsOrderable, Availability

\* A finite set has subsets of every size up to its own: a smallest size it has none
\* of would be one more than one it has.
LEMMA SubsetOfSize ==
  ASSUME NEW S, IsFiniteSet(S), NEW n \in 0 .. Cardinality(S)
  PROVE  \E T \in SUBSET S : Cardinality(T) = n
<1>1. Cardinality(S) \in Nat
  BY FS_CardinalityType
<1> DEFINE Missing == {m \in 0 .. Cardinality(S) : \A T \in SUBSET S : Cardinality(T) # m}
<1>2. ASSUME Missing # {} PROVE FALSE
  <2>1. Missing \subseteq Nat
    BY <1>1
  <2>2. PICK m \in Missing : \A k \in Missing : ~(k < m)
    BY <1>2, <2>1, LeastNumber
  <2>3. m # 0
    <3>1. {} \in SUBSET S /\ Cardinality({}) = 0
      BY FS_EmptySet
    <3> QED  BY <3>1
  <2>4. m \in Nat /\ m - 1 \in 0 .. Cardinality(S) /\ m - 1 < Cardinality(S) /\ m - 1 < m
    BY <1>1, <2>3
  <2>5. m - 1 \notin Missing
    BY <2>2, <2>4
  <2>6. PICK T \in SUBSET S : Cardinality(T) = m - 1
    BY <2>4, <2>5
  <2>7. PICK x \in S : x \notin T
    BY <2>4, <2>6
  <2>8. IsFiniteSet(T)
    BY FS_Subset
  <2>9. Cardinality(T \union {x}) = Cardinality(T) + 1
    BY <2>7, <2>8, FS_AddElement
  <2>10. Cardinality(T \union {x}) = m
    BY <2>4, <2>6, <2>9
  <2> QED  BY <2>2, <2>4, <2>6, <2>7, <2>10
<1> QED  BY <1>2

\* As many options as it asks for satisfy a group that obeys the rule.
LEMMA WellFormedIsSatisfiable == MenuInv => GroupsCanBeSatisfied
<1> SUFFICES ASSUME MenuInv, NEW g \in Groups \ lopsided, group[g] # NoGroup, ~Short(g)
             PROVE  \E chosen \in SUBSET Options : Valid(g, chosen)
  BY DEF GroupsCanBeSatisfied
<1>1. group[g] \in GroupRow /\ WellFormed(group[g])
  BY DEF MenuInv, MenuTyped, GroupsAreWellFormed, There
<1>2. /\ group[g].min \in Nat /\ group[g].max \in Nat /\ group[g].max >= 1
      /\ group[g].type \in {"SINGLE", "MULTIPLE"}
  BY <1>1, GroupRowFacts
<1>3. available[g] \subseteq Options
  BY DEF MenuInv, MenuTyped
<1>4. IsFiniteSet(available[g])
  BY <1>3, OptionsAssumption, FS_Subset
<1>5. Cardinality(available[g]) \in Nat
  BY <1>4, FS_CardinalityType
<1>6. /\ Minimum(g) \in Nat /\ Minimum(g) <= group[g].max
      /\ group[g].type = "SINGLE" => Minimum(g) <= 1
  BY <1>1, <1>2 DEF Minimum, WellFormed
<1>7. Minimum(g) \in 0 .. Cardinality(available[g])
  BY <1>5, <1>6 DEF Short
<1>8. PICK chosen \in SUBSET available[g] : Cardinality(chosen) = Minimum(g)
  BY <1>4, <1>7, SubsetOfSize
<1>9. Valid(g, chosen)
  BY <1>6, <1>8 DEF Valid
<1> QED  BY <1>3, <1>9


----------------------------------------------------------------------------
(* The streams of the kitchen's screens. *)

StreamsTyped ==
  /\ at \in [Streams -> {"none", "redeeming", "awaiting", "answered", "live", "over"}]
  /\ closed \in [Streams -> 0 .. 2]
  /\ entry \in [set : Streams \union {Nobody}, listeners : SUBSET Streams]
  /\ commands \in Seq(Streams \union {Unsubscribe})
  /\ subscribed \in BOOLEAN
  /\ overlapped \subseteq Streams
  /\ source \in Mine \union {Nobody}

\* An entry that is there has been made by a stream.
EntryHasMaker == entry.set = Nobody => entry = NoEntry

\* Once Redis has taken what was sent, it is subscribed as the last command says.
LastWord == IF commands = <<>> THEN subscribed ELSE commands[Len(commands)] # Unsubscribe
LastWordIsEntry == LastWord <=> entry # NoEntry

\* Whoever subscribed by a command not yet taken is waiting for it, and for no other.
SubscribersAwait ==
  /\ \A i \in 1 .. Len(commands) :
       commands[i] # Unsubscribe => at[commands[i]] = "awaiting"
  /\ \A i, j \in 1 .. Len(commands) :
       i # j /\ commands[i] = commands[j] => commands[i] = Unsubscribe

\* A stream that waits has made the entry, unless another left in the meantime.
WaitersMadeEntry ==
  \A s \in Streams : at[s] \in Waits => entry.set = s \/ s \in overlapped

ListenersAreLive == \A s \in entry.listeners : at[s] = "live"

StreamsInv ==
  /\ StreamsTyped /\ EntryHasMaker /\ LastWordIsEntry /\ SubscribersAwait
  /\ WaitersMadeEntry /\ ListenersAreLive
  /\ \A s \in Streams : at[s] = "live" /\ closed[s] = 0 => s \in entry.listeners \union overlapped


LEMMA AppendFacts ==
  ASSUME NEW S, NEW c \in Seq(S), NEW x \in S
  PROVE  /\ Append(c, x) \in Seq(S) /\ Append(c, x) # <<>>
         /\ Len(c) \in Nat /\ Len(Append(c, x)) = Len(c) + 1
         /\ Append(c, x)[Len(c) + 1] = x
         /\ \A i \in 1 .. Len(c) : Append(c, x)[i] = c[i]
  OBVIOUS

LEMMA NoLength ==
  ASSUME NEW S, NEW d \in Seq(S)
  PROVE  d = <<>> <=> Len(d) = 0
  OBVIOUS

LEMMA TailFacts ==
  ASSUME NEW S, NEW c \in Seq(S), c # <<>>
  PROVE  /\ Tail(c) \in Seq(S) /\ Head(c) = c[1] /\ Head(c) \in S
         /\ Len(c) \in Nat /\ Len(c) >= 1 /\ Len(Tail(c)) = Len(c) - 1
         /\ \A i \in 1 .. Len(c) - 1 : Tail(c)[i] = c[i + 1]
         /\ (Tail(c) = <<>> <=> Len(c) = 1)
<1>1. /\ Tail(c) \in Seq(S) /\ Head(c) = c[1] /\ Head(c) \in S
      /\ Len(c) \in Nat /\ Len(c) >= 1 /\ Len(Tail(c)) = Len(c) - 1
  OBVIOUS
<1>2. \A i \in 1 .. Len(c) - 1 : Tail(c)[i] = c[i + 1]
  OBVIOUS
<1>3. Tail(c) = <<>> <=> Len(Tail(c)) = 0
  BY <1>1, NoLength
<1> QED  BY <1>1, <1>2, <1>3

LEMMA StreamsInit == KitchenInit => StreamsInv
<1> SUFFICES ASSUME KitchenInit PROVE StreamsInv
  OBVIOUS
<1>1. StreamsTyped
  <2>1. NoEntry \in [set : Streams \union {Nobody}, listeners : SUBSET Streams]
    BY DEF NoEntry
  <2>2. /\ at \in [Streams -> {"none", "redeeming", "awaiting", "answered", "live", "over"}]
        /\ closed \in [Streams -> 0 .. 2]
    BY DEF KitchenInit
  <2>3. commands \in Seq(Streams \union {Unsubscribe})
    BY DEF KitchenInit
  <2> QED  BY <2>1, <2>2, <2>3 DEF KitchenInit, StreamsTyped
<1>2. \A s \in Streams : at[s] = "none"
  BY DEF KitchenInit
<1>3. LastWordIsEntry /\ EntryHasMaker /\ ListenersAreLive
  BY DEF KitchenInit, LastWordIsEntry, LastWord, EntryHasMaker, ListenersAreLive, NoEntry
<1>4. Len(commands) = 0
  BY DEF KitchenInit
<1>5. SubscribersAwait
  BY <1>4 DEF SubscribersAwait
<1>6. WaitersMadeEntry
  BY <1>2 DEF WaitersMadeEntry, Waits
<1> QED  BY <1>1, <1>2, <1>3, <1>5, <1>6 DEF StreamsInv

\* A step between places where nobody listens yet, or any more.
LEMMA StreamMoves ==
  ASSUME StreamsInv, NEW s \in Streams, NEW place \in {"redeeming", "over"},
         at[s] \in {"none", "redeeming"}, at' = [at EXCEPT ![s] = place],
         source' \in Mine \union {Nobody},
         UNCHANGED <<closed, entry, commands, subscribed, overlapped>>
  PROVE  StreamsInv'
<1> USE DEF StreamsInv
<1>1. StreamsTyped'
  BY DEF StreamsTyped
<1>2. \A t \in Streams : at'[t] = IF t = s THEN place ELSE at[t]
  BY DEF StreamsTyped
<1>3. \A i \in 1 .. Len(commands) : commands[i] \in Streams \union {Unsubscribe}
  BY DEF StreamsTyped
<1>4. SubscribersAwait'
  BY <1>2, <1>3 DEF SubscribersAwait
<1>5. WaitersMadeEntry'
  BY <1>2 DEF WaitersMadeEntry, Waits
<1>6. ListenersAreLive'
  BY <1>2 DEF ListenersAreLive, StreamsTyped
<1>7. LastWordIsEntry' /\ EntryHasMaker'
  BY DEF LastWordIsEntry, LastWord, EntryHasMaker
<1> QED  BY <1>1, <1>2, <1>4, <1>5, <1>6, <1>7

\* Steps of the screen that move no stream.
LEMMA StreamsRest ==
  ASSUME StreamsInv, UNCHANGED streamVars, source' \in Mine \union {Nobody}
  PROVE  StreamsInv'
  BY DEF StreamsInv, streamVars, StreamsTyped, EntryHasMaker, LastWordIsEntry, LastWord,
    SubscribersAwait, WaitersMadeEntry, ListenersAreLive

LEMMA StreamAccepted ==
  ASSUME StreamsInv, NEW s \in Streams, Accepted(s)
  PROVE  StreamsInv'
<1> USE DEF StreamsInv
<1>1. /\ at[s] = "redeeming" /\ s # Nobody /\ s # Unsubscribe
      /\ UNCHANGED <<source, closed, subscribed, overlapped>>
  BY StreamsAssumption DEF Accepted, Nobody, Unsubscribe
<1>2. /\ commands \in Seq(Streams \union {Unsubscribe})
      /\ \A i \in 1 .. Len(commands) : commands[i] \in Streams \union {Unsubscribe}
      /\ \A i \in 1 .. Len(commands) : commands[i] # s
  BY <1>1 DEF StreamsTyped, SubscribersAwait
<1>3. CASE entry = NoEntry
  <2>1. /\ entry' = [set |-> s, listeners |-> {}]
        /\ commands' = Append(commands, s)
        /\ at' = [at EXCEPT ![s] = "awaiting"]
    BY <1>3 DEF Accepted, Subscribe
  <2>2. /\ commands' \in Seq(Streams \union {Unsubscribe}) /\ commands' # <<>>
        /\ Len(commands) \in Nat /\ Len(commands') = Len(commands) + 1
        /\ commands'[Len(commands) + 1] = s
        /\ \A i \in 1 .. Len(commands) : commands'[i] = commands[i]
    BY <1>2, <2>1, AppendFacts
  <2>3. \A t \in Streams : at'[t] = IF t = s THEN "awaiting" ELSE at[t]
    BY <2>1 DEF StreamsTyped
  <2>4. StreamsTyped'
    BY <1>1, <2>1, <2>2 DEF StreamsTyped
  <2>5. entry' # NoEntry /\ EntryHasMaker' /\ ListenersAreLive'
    BY <1>1, <2>1 DEF NoEntry, EntryHasMaker, ListenersAreLive
  <2>6. LastWordIsEntry'
    BY <1>1, <2>2, <2>5 DEF LastWordIsEntry, LastWord
  <2>7. SubscribersAwait'
    <3>1. \A i \in 1 .. Len(commands') : i \in 1 .. Len(commands) \/ i = Len(commands) + 1
      BY <2>2
    <3> QED  BY <1>2, <2>2, <2>3, <3>1 DEF SubscribersAwait
  <2>8. WaitersMadeEntry'
    <3>1. entry.set = Nobody /\ \A t \in Streams : t # Nobody
      BY <1>3, StreamsAssumption DEF NoEntry, Nobody
    <3>2. \A t \in Streams : at[t] \in Waits => t \in overlapped
      BY <3>1 DEF WaitersMadeEntry
    <3>3. entry'.set = s
      BY <2>1
    <3> QED  BY <1>1, <2>3, <3>2, <3>3 DEF WaitersMadeEntry
  <2>9. \A t \in Streams : at'[t] = "live" /\ closed'[t] = 0 =>
          t \in entry'.listeners \union overlapped'
    BY <1>1, <1>3, <2>1, <2>3 DEF NoEntry
  <2> QED  BY <2>4, <2>5, <2>6, <2>7, <2>8, <2>9
<1>4. CASE entry # NoEntry
  <2>1. /\ entry' = [entry EXCEPT !.listeners = @ \union {s}]
        /\ at' = [at EXCEPT ![s] = "live"]
        /\ commands' = commands
    BY <1>4 DEF Accepted, Subscribe
  <2>2. /\ entry'.set = entry.set /\ entry'.listeners = entry.listeners \union {s}
        /\ entry' \in [set : Streams \union {Nobody}, listeners : SUBSET Streams]
    BY <2>1 DEF StreamsTyped
  <2>3. \A t \in Streams : at'[t] = IF t = s THEN "live" ELSE at[t]
    BY <2>1 DEF StreamsTyped
  <2>4. StreamsTyped'
    BY <1>1, <2>1, <2>2 DEF StreamsTyped
  <2>5. entry' # NoEntry /\ EntryHasMaker' /\ ListenersAreLive'
    BY <1>4, <2>2, <2>3 DEF NoEntry, EntryHasMaker, ListenersAreLive, StreamsTyped
  <2>6. LastWordIsEntry'
    BY <1>1, <1>4, <2>1, <2>5 DEF LastWordIsEntry, LastWord
  <2>7. SubscribersAwait'
    BY <1>2, <2>1, <2>3 DEF SubscribersAwait
  <2>8. WaitersMadeEntry'
    BY <1>1, <2>2, <2>3 DEF WaitersMadeEntry, Waits
  <2>9. \A t \in Streams : at'[t] = "live" /\ closed'[t] = 0 =>
          t \in entry'.listeners \union overlapped'
    BY <1>1, <2>2, <2>3
  <2> QED  BY <2>4, <2>5, <2>6, <2>7, <2>8, <2>9
<1> QED  BY <1>3, <1>4

LEMMA StreamsObey ==
  ASSUME StreamsInv, Obey
  PROVE  StreamsInv'
<1> USE DEF StreamsInv
<1> DEFINE h == Head(commands)
<1>1. /\ commands \in Seq(Streams \union {Unsubscribe}) /\ commands # <<>>
      /\ subscribed' = (h # Unsubscribe) /\ commands' = Tail(commands)
      /\ at' = IF h = Unsubscribe THEN at ELSE [at EXCEPT ![h] = "answered"]
      /\ UNCHANGED <<source, closed, entry, overlapped>>
  BY DEF Obey, StreamsTyped, screenVars
<1>2. /\ commands' \in Seq(Streams \union {Unsubscribe})
      /\ h = commands[1] /\ h \in Streams \union {Unsubscribe}
      /\ Len(commands) \in Nat /\ Len(commands) >= 1 /\ Len(commands') = Len(commands) - 1
      /\ \A i \in 1 .. Len(commands) - 1 : commands'[i] = commands[i + 1]
      /\ (commands' = <<>> <=> Len(commands) = 1)
  BY <1>1, TailFacts
<1> HIDE DEF h
<1>3. \A t \in Streams : at'[t] = IF t = h /\ h # Unsubscribe THEN "answered" ELSE at[t]
  BY <1>1 DEF StreamsTyped
<1>4. h # Unsubscribe => at[h] = "awaiting" /\ h \in Streams
  BY <1>2 DEF SubscribersAwait
<1>5. StreamsTyped'
  BY <1>1, <1>2 DEF StreamsTyped
<1>6. LastWordIsEntry'
  <2>1. CASE Len(commands) = 1
    BY <1>1, <1>2, <2>1 DEF LastWordIsEntry, LastWord
  <2>2. CASE Len(commands) # 1
    <3>1. commands' # <<>> /\ Len(commands) - 1 \in 1 .. Len(commands) - 1
      BY <1>2, <2>2
    <3>2. commands'[Len(commands')] = commands[Len(commands)]
      BY <1>2, <3>1
    <3> QED  BY <1>1, <3>1, <3>2 DEF LastWordIsEntry, LastWord
  <2> QED  BY <2>1, <2>2
<1>7. SubscribersAwait'
  <2>1. \A i \in 1 .. Len(commands') :
          /\ i + 1 \in 1 .. Len(commands) /\ 1 \in 1 .. Len(commands) /\ i + 1 # 1
          /\ commands'[i] = commands[i + 1] /\ commands'[i] \in Streams \union {Unsubscribe}
    BY <1>1, <1>2
  <2>2. \A i \in 1 .. Len(commands') : commands'[i] # Unsubscribe => commands'[i] # h
    BY <1>2, <2>1 DEF SubscribersAwait
  <2>3. \A i, j \in 1 .. Len(commands') : i # j => i + 1 # j + 1
    BY <1>2
  <2> QED  BY <1>3, <2>1, <2>2, <2>3 DEF SubscribersAwait
<1>8. WaitersMadeEntry'
  BY <1>1, <1>3, <1>4 DEF WaitersMadeEntry, Waits
<1>9. ListenersAreLive'
  BY <1>1, <1>3, <1>4 DEF ListenersAreLive, StreamsTyped
<1>10. EntryHasMaker'
  BY <1>1 DEF EntryHasMaker
<1> QED  BY <1>1, <1>3, <1>5, <1>6, <1>7, <1>8, <1>9, <1>10

LEMMA StreamJoins ==
  ASSUME StreamsInv, NEW s \in Streams, Join(s)
  PROVE  StreamsInv'
<1> USE DEF StreamsInv
<1>1. /\ at[s] = "answered" /\ s # Nobody
      /\ at' = [at EXCEPT ![s] = "live"]
      /\ entry' = IF entry.set = s THEN [entry EXCEPT !.listeners = @ \union {s}] ELSE entry
      /\ UNCHANGED <<source, closed, commands, subscribed, overlapped>>
  BY StreamsAssumption DEF Join, Nobody, screenVars
<1>2. \A t \in Streams : at'[t] = IF t = s THEN "live" ELSE at[t]
  BY <1>1 DEF StreamsTyped
<1>3. /\ entry'.set = entry.set
      /\ entry'.listeners = IF entry.set = s THEN entry.listeners \union {s} ELSE entry.listeners
      /\ entry' \in [set : Streams \union {Nobody}, listeners : SUBSET Streams]
  BY <1>1 DEF StreamsTyped
<1>4. /\ entry' = NoEntry <=> entry = NoEntry
      /\ entry.set = s => entry # NoEntry
  BY <1>1, <1>3 DEF EntryHasMaker, NoEntry
<1>5. StreamsTyped'
  BY <1>1, <1>3 DEF StreamsTyped
<1>6. EntryHasMaker' /\ LastWordIsEntry'
  BY <1>1, <1>3, <1>4 DEF EntryHasMaker, LastWordIsEntry, LastWord
<1>7. SubscribersAwait'
  <2>1. \A i \in 1 .. Len(commands) : commands[i] \in Streams \union {Unsubscribe}
    BY DEF StreamsTyped
  <2> QED  BY <1>1, <1>2, <2>1 DEF SubscribersAwait
<1>8. WaitersMadeEntry'
  BY <1>1, <1>2, <1>3 DEF WaitersMadeEntry, Waits
<1>9. ListenersAreLive'
  BY <1>2, <1>3 DEF ListenersAreLive, StreamsTyped
<1>10. \A t \in Streams : at'[t] = "live" /\ closed'[t] = 0 =>
         t \in entry'.listeners \union overlapped'
  <2>1. entry.set = s \/ s \in overlapped
    BY <1>1 DEF WaitersMadeEntry, Waits
  <2> QED  BY <1>1, <1>2, <1>3, <2>1
<1> QED  BY <1>5, <1>6, <1>7, <1>8, <1>9, <1>10

LEMMA StreamEnds ==
  ASSUME StreamsInv, NEW s \in Streams, Ended(s)
  PROVE  StreamsInv'
<1> USE DEF StreamsInv
<1>1. /\ closed' = [closed EXCEPT ![s] = closed[s] + 1] /\ closed[s] < 2
      /\ UNCHANGED <<source, at, subscribed>>
  BY DEF Ended, screenVars
<1>2. /\ closed' \in [Streams -> 0 .. 2]
      /\ \A t \in Streams : closed'[t] = IF t = s THEN closed[s] + 1 ELSE closed[t]
      /\ closed'[s] # 0
  BY <1>1 DEF StreamsTyped
<1>3. CASE at[s] # "live"
  <2>1. UNCHANGED <<entry, commands, overlapped>>
    BY <1>3 DEF Ended
  <2>2. StreamsTyped'
    BY <1>1, <1>2, <2>1 DEF StreamsTyped
  <2>3. EntryHasMaker' /\ LastWordIsEntry' /\ SubscribersAwait' /\ WaitersMadeEntry' /\ ListenersAreLive'
    BY <1>1, <2>1 DEF EntryHasMaker, LastWordIsEntry, LastWord, SubscribersAwait,
      WaitersMadeEntry, ListenersAreLive
  <2> QED  BY <1>1, <1>2, <2>1, <2>2, <2>3
<1>4. CASE at[s] = "live"
  <2> DEFINE rest == entry.listeners \ {s}
  <2>1. /\ overlapped' = overlapped \union {t \in Streams : at[t] \in Waits}
        /\ Leave(s)
    BY <1>4 DEF Ended
  <2>2. \/ entry = NoEntry /\ UNCHANGED <<entry, commands>>
        \/ /\ entry # NoEntry /\ rest = {}
           /\ entry' = NoEntry /\ commands' = Append(commands, Unsubscribe)
        \/ /\ entry # NoEntry /\ rest # {}
           /\ entry' = [entry EXCEPT !.listeners = rest] /\ UNCHANGED commands
    BY <2>1 DEF Leave
  <2>3. overlapped' \subseteq Streams /\ overlapped \subseteq overlapped'
    BY <2>1 DEF StreamsTyped
  <2>4. WaitersMadeEntry'
    BY <1>1, <2>1 DEF WaitersMadeEntry
  <2>5. \A i \in 1 .. Len(commands) : commands[i] \in Streams \union {Unsubscribe}
    BY DEF StreamsTyped
  <2>6. CASE entry = NoEntry /\ UNCHANGED <<entry, commands>>
    <3>1. StreamsTyped'
      BY <1>1, <1>2, <2>3, <2>6 DEF StreamsTyped
    <3>2. EntryHasMaker' /\ LastWordIsEntry' /\ SubscribersAwait' /\ ListenersAreLive'
      BY <1>1, <2>6 DEF EntryHasMaker, LastWordIsEntry, LastWord, SubscribersAwait, ListenersAreLive
    <3> QED  BY <1>1, <1>2, <2>3, <2>4, <2>6, <3>1, <3>2
  <2>7. CASE entry # NoEntry /\ rest = {} /\ entry' = NoEntry
             /\ commands' = Append(commands, Unsubscribe)
    <3>1. /\ commands' \in Seq(Streams \union {Unsubscribe}) /\ commands' # <<>>
          /\ Len(commands) \in Nat /\ Len(commands') = Len(commands) + 1
          /\ commands'[Len(commands) + 1] = Unsubscribe
          /\ \A i \in 1 .. Len(commands) : commands'[i] = commands[i]
      BY <2>7, AppendFacts DEF StreamsTyped
    <3>2. /\ NoEntry \in [set : Streams \union {Nobody}, listeners : SUBSET Streams]
          /\ NoEntry.listeners = {}
      BY DEF NoEntry
    <3>3. StreamsTyped'
      BY <1>1, <1>2, <2>3, <2>7, <3>1, <3>2 DEF StreamsTyped
    <3>4. EntryHasMaker' /\ ListenersAreLive'
      BY <2>7, <3>2 DEF EntryHasMaker, ListenersAreLive
    <3>5. LastWordIsEntry'
      BY <2>7, <3>1 DEF LastWordIsEntry, LastWord
    <3>6. SubscribersAwait'
      <4>1. \A i \in 1 .. Len(commands') : i \in 1 .. Len(commands) \/ i = Len(commands) + 1
        BY <3>1
      <4> QED  BY <1>1, <3>1, <4>1 DEF SubscribersAwait
    <3>7. \A t \in Streams : at'[t] = "live" /\ closed'[t] = 0 =>
            t \in entry'.listeners \union overlapped'
      BY <1>1, <1>2, <2>3, <2>7
    <3> QED  BY <2>4, <3>3, <3>4, <3>5, <3>6, <3>7
  <2>8. CASE entry # NoEntry /\ rest # {} /\ entry' = [entry EXCEPT !.listeners = rest]
             /\ UNCHANGED commands
    <3>1. /\ entry'.set = entry.set /\ entry'.listeners = rest
          /\ entry' \in [set : Streams \union {Nobody}, listeners : SUBSET Streams]
      BY <2>8 DEF StreamsTyped
    <3>2. entry' # NoEntry
      BY <2>8, <3>1 DEF NoEntry
    <3>3. StreamsTyped'
      BY <1>1, <1>2, <2>3, <2>8, <3>1 DEF StreamsTyped
    <3>4. EntryHasMaker' /\ LastWordIsEntry' /\ SubscribersAwait' /\ ListenersAreLive'
      BY <1>1, <2>8, <3>1, <3>2 DEF EntryHasMaker, LastWordIsEntry, LastWord,
        SubscribersAwait, ListenersAreLive
    <3>5. \A t \in Streams : at'[t] = "live" /\ closed'[t] = 0 =>
            t \in entry'.listeners \union overlapped'
      BY <1>1, <1>2, <2>3, <3>1
    <3> QED  BY <2>4, <3>3, <3>4, <3>5
  <2> QED  BY <2>2, <2>6, <2>7, <2>8
<1> QED  BY <1>3, <1>4

LEMMA StreamsStep ==
  ASSUME StreamsInv, [KitchenNext]_kitchenVars
  PROVE  StreamsInv'
<1>0. source \in Mine \union {Nobody} /\ Mine \subseteq Streams
  BY StreamsAssumption DEF StreamsInv, StreamsTyped
<1>1. CASE \/ UNCHANGED kitchenVars
           \/ Change \/ PublishChange \/ Loading \/ LoadFails \/ Reconcile \/ BreakUp
  <2>1. UNCHANGED streamVars /\ source' \in Mine \union {Nobody}
    BY <1>0, <1>1 DEF kitchenVars, screenVars, streamVars, Change, PublishChange, Loading,
      Snapshot, Show, LoadFails, Reconcile, BreakUp
  <2> QED  BY <2>1, StreamsRest
<1>2. ASSUME NEW s \in Streams, Connect(s) PROVE StreamsInv'
  <2>1. source' \in Mine \union {Nobody}
    BY <1>0, <1>2 DEF Connect
  <2> QED  BY <1>2, <2>1, StreamMoves DEF Connect
<1>3. ASSUME NEW s \in Streams, Refused(s) PROVE StreamsInv'
  <2>1. source' \in Mine \union {Nobody}
    BY <1>0, <1>3 DEF Refused
  <2> QED  BY <1>3, <2>1, StreamMoves DEF Refused
<1> QED
  BY <1>1, <1>2, <1>3, StreamAccepted, StreamsObey, StreamJoins, StreamEnds
  DEF KitchenNext, Streaming



----------------------------------------------------------------------------
(* The sessions of a browser. *)

Early == {"sent", "membership", "chain", "issue", "refused"}   \* before the row exists
Late == {"hash", "rotate", "done"}                             \* after
Attempt == [kind : {"idle", "login", "refresh"}, step : {"idle"} \union Early \union Late,
          old : Nat, new : Nat]

AccessTyped ==
  /\ created \in Nat /\ reasons \in 0 .. MaxSessions
  /\ hashed \subseteq 1 .. created /\ revoked \subseteq 1 .. created /\ rotated \subseteq revoked
  /\ member \in BOOLEAN /\ thrownOut \in BOOLEAN
  /\ cookie \in 0 .. created /\ token \in [Tabs -> 0 .. created]
  /\ call \in [Tabs -> Attempt]
  /\ IsFiniteSet(Calling)

\* What a call has depends on how far it is.
CallsInOrder ==
  \A t \in Calling :
    /\ call[t].kind # "idle" /\ call[t].step # "idle"
    /\ call[t].kind = "login" => call[t].step \notin {"membership", "chain", "rotate"}
    /\ call[t].old <= created
    /\ call[t].kind = "refresh" => call[t].old # None
    /\ call[t].step \in Early => call[t].new = None
    /\ call[t].step \in Late => call[t].new \in 1 .. created

\* A session nobody has heard of yet is known to the call that made it only.
UnheardOf ==
  \A t \in Calling : call[t].new # None =>
    /\ call[t].new # cookie /\ call[t].new \notin rotated
    /\ \A u \in Tabs :
         /\ token[u] # call[t].new /\ call[u].old # call[t].new
         /\ u # t => call[u].new # call[t].new

Unclaimed == Live \ {call[t].new : t \in Tabs}
Owed == Cardinality(Unclaimed) + Cardinality(Calling)

\* A refresh that will take back what it may be giving twice.
Settles(t) ==
  /\ call[t].kind = "refresh"
  /\ \/ call[t].step \in {"sent", "chain", "refused"}
     \/ call[t].step \in {"membership", "issue", "hash", "rotate"} /\ call[t].old \in Unclaimed

SessionsOwed ==
  /\ Owed <= MaxSessions /\ Cardinality(Calling) <= 1 + reasons
  /\ \/ Owed <= 1 + reasons
     \/ Owed <= 2 + reasons /\ \E t \in Calling : Settles(t)

\* A call that met no other one knows all the live sessions.
Alone(t) ==
  /\ call[t].kind = "login" =>
       /\ cookie \notin rotated
       /\ call[t].step \in Early => Live = {}
       /\ call[t].step \in Late => Live \subseteq {call[t].new}
  /\ call[t].kind = "refresh" =>
       /\ call[t].step # "done" => cookie \notin rotated /\ call[t].old \notin rotated
       /\ call[t].step \in {"sent", "membership", "issue"} => Live \subseteq {call[t].old}
       /\ call[t].step = "refused" => Live = {}
       /\ call[t].step \in {"hash", "rotate"} => Live \subseteq {call[t].old, call[t].new}
       /\ call[t].step = "done" => Live \subseteq {call[t].new}
  /\ call[t].step \in Late \union {"issue"} => member = TRUE

NothingHappened ==
  reasons = 0 =>
    /\ thrownOut = FALSE
    /\ Calling = {} => cookie \notin rotated /\ Live \subseteq (IF member THEN {cookie} ELSE {})
    /\ \A t \in Calling : Alone(t)

AccessInv == AccessTyped /\ CallsInOrder /\ UnheardOf /\ SessionsOwed /\ NothingHappened


LEMMA Counting ==
  ASSUME NEW T, IsFiniteSet(T), NEW S, NEW x
  PROVE  /\ Cardinality(T) \in Nat
         /\ S \subseteq T => IsFiniteSet(S) /\ Cardinality(S) \in Nat /\ Cardinality(S) <= Cardinality(T)
         /\ S \subseteq T \union {x} =>
              IsFiniteSet(S) /\ Cardinality(S) \in Nat /\ Cardinality(S) <= Cardinality(T) + 1
         /\ S \subseteq T /\ x \in T /\ x \notin S => Cardinality(S) <= Cardinality(T) - 1
<1>1. Cardinality(T) \in Nat
  BY FS_CardinalityType
<1>2. S \subseteq T => IsFiniteSet(S) /\ Cardinality(S) \in Nat /\ Cardinality(S) <= Cardinality(T)
  BY FS_Subset, FS_CardinalityType
<1>3. /\ IsFiniteSet(T \union {x}) /\ Cardinality(T \union {x}) \in Nat
      /\ Cardinality(T \union {x}) <= Cardinality(T) + 1
  <2>1. IsFiniteSet(T \union {x})
    BY FS_AddElement
  <2>2. Cardinality(T \union {x}) = Cardinality(T) \/ Cardinality(T \union {x}) = Cardinality(T) + 1
    BY FS_AddElement
  <2>3. Cardinality(T \union {x}) \in Nat
    BY <2>1, FS_CardinalityType
  <2> QED  BY <1>1, <2>1, <2>2, <2>3
<1>4. S \subseteq T \union {x} =>
        IsFiniteSet(S) /\ Cardinality(S) \in Nat /\ Cardinality(S) <= Cardinality(T) + 1
  <2> SUFFICES ASSUME S \subseteq T \union {x}
               PROVE  IsFiniteSet(S) /\ Cardinality(S) \in Nat /\ Cardinality(S) <= Cardinality(T) + 1
    OBVIOUS
  <2>1. IsFiniteSet(S) /\ Cardinality(S) \in Nat /\ Cardinality(S) <= Cardinality(T \union {x})
    BY <1>3, FS_Subset, FS_CardinalityType
  <2> QED  BY <1>1, <1>3, <2>1
<1>5. S \subseteq T /\ x \in T /\ x \notin S => Cardinality(S) <= Cardinality(T) - 1
  <2> SUFFICES ASSUME S \subseteq T, x \in T, x \notin S PROVE Cardinality(S) <= Cardinality(T) - 1
    OBVIOUS
  <2>1. IsFiniteSet(T \ {x}) /\ Cardinality(T \ {x}) = Cardinality(T) - 1
    BY FS_RemoveElement
  <2>2. Cardinality(S) <= Cardinality(T \ {x})
    BY <2>1, FS_Subset
  <2> QED  BY <2>1, <2>2
<1> QED  BY <1>1, <1>2, <1>4, <1>5

LEMMA AtMost ==
  ASSUME NEW a \in Int, NEW b \in Int, NEW c \in Int, NEW d \in Int, a <= b, c <= d
  PROVE  /\ b <= 1 + c => a <= 1 + d
         /\ b <= 2 + c => a <= 2 + d
  OBVIOUS

LEMMA SessionsAreFinite ==
  AccessTyped => /\ Live \subseteq 1 .. created /\ IsFiniteSet(Live)
                 /\ IsFiniteSet(Unclaimed) /\ Cardinality(Unclaimed) \in Nat
                 /\ Cardinality(Unclaimed) <= created /\ Cardinality(Calling) \in Nat
<1> SUFFICES ASSUME AccessTyped
             PROVE  /\ Live \subseteq 1 .. created /\ IsFiniteSet(Live)
                    /\ IsFiniteSet(Unclaimed) /\ Cardinality(Unclaimed) \in Nat
                    /\ Cardinality(Unclaimed) <= created /\ Cardinality(Calling) \in Nat
  OBVIOUS
<1>1. Live \subseteq 1 .. created /\ Unclaimed \subseteq 1 .. created /\ created \in Nat
  BY DEF AccessTyped, Live, Unclaimed
<1>2. IsFiniteSet(1 .. created) /\ Cardinality(1 .. created) = created
  <2>1. IsFiniteSet(1 .. created)
    BY <1>1, FS_Interval
  <2>2. Cardinality(1 .. created) = created
    BY <1>1, FS_Interval
  <2> QED  BY <2>1, <2>2
<1>3. IsFiniteSet(Live)
  BY <1>1, <1>2, FS_Subset
<1>4. IsFiniteSet(Unclaimed) /\ Cardinality(Unclaimed) \in Nat /\ Cardinality(Unclaimed) <= created
  BY <1>1, <1>2, Counting
<1>5. Cardinality(Calling) \in Nat
  BY Counting DEF AccessTyped
<1> QED  BY <1>1, <1>3, <1>4, <1>5

LEMMA CountFacts ==
  ASSUME reasons \in 0 .. MaxSessions, NEW n \in Nat, Count(n)
  PROVE  /\ reasons' \in 0 .. MaxSessions /\ reasons' >= reasons
         /\ n = 0 => reasons' = reasons
         /\ n >= 1 => reasons' >= reasons + 1 \/ reasons' = MaxSessions
  BY AccessBoundsAssumption DEF Count

\* A call that goes on keeps what it has.
LEMMA CallGoesOn ==
  ASSUME AccessTyped, NEW t \in Calling, NEW step \in Early \union Late, Goto(t, step)
  PROVE  /\ call' \in [Tabs -> Attempt] /\ Calling' = Calling /\ call'[t].step = step
         /\ \A u \in Tabs : /\ call'[u].kind = call[u].kind /\ call'[u].old = call[u].old
                            /\ call'[u].new = call[u].new
                            /\ u # t => call'[u].step = call[u].step
<1>1. t \in Tabs /\ call[t] \in Attempt /\ step # "idle"
  BY DEF Calling, AccessTyped, Early, Late
<1>2. call' = [call EXCEPT ![t] = [call[t] EXCEPT !.step = step]]
  BY <1>1 DEF Goto, AccessTyped
<1>3. [call[t] EXCEPT !.step = step] \in Attempt
  BY <1>1 DEF Attempt
<1>4. call'[t] = [call[t] EXCEPT !.step = step]
  BY <1>1, <1>2 DEF AccessTyped
<1>5. /\ call'[t].step = step /\ call'[t].kind = call[t].kind /\ call'[t].old = call[t].old
      /\ call'[t].new = call[t].new
  BY <1>1, <1>4 DEF Attempt
<1>6. \A u \in Tabs : u # t => call'[u] = call[u]
  BY <1>2 DEF AccessTyped
<1>7. call' \in [Tabs -> Attempt]
  BY <1>1, <1>2, <1>3 DEF AccessTyped
<1>8. call'[t] # Idle
  BY <1>1, <1>5 DEF Idle
<1>9. Calling' = Calling
  BY <1>6, <1>8 DEF Calling
<1> QED  BY <1>5, <1>6, <1>7, <1>9

LEMMA CallEnds ==
  ASSUME AccessTyped, NEW t \in Calling, call' = [call EXCEPT ![t] = Idle]
  PROVE  /\ call' \in [Tabs -> Attempt] /\ Calling' = Calling \ {t} /\ IsFiniteSet(Calling')
         /\ Cardinality(Calling') = Cardinality(Calling) - 1
         /\ \A u \in Tabs : call'[u] = IF u = t THEN Idle ELSE call[u]
         /\ Idle.old = None /\ Idle.new = None
<1>1. Idle \in Attempt /\ Idle.old = None /\ Idle.new = None
  BY DEF Idle, Attempt, None
<1>2. \A u \in Tabs : call'[u] = IF u = t THEN Idle ELSE call[u]
  BY DEF AccessTyped
<1>3. call' \in [Tabs -> Attempt] /\ Calling' = Calling \ {t}
  BY <1>1, <1>2 DEF AccessTyped, Calling
<1>4. IsFiniteSet(Calling')
  BY <1>3, Counting DEF AccessTyped
<1>5. Cardinality(Calling') = Cardinality(Calling) - 1
  BY <1>3, FS_RemoveElement DEF AccessTyped
<1> QED  BY <1>1, <1>2, <1>3, <1>4, <1>5


LEMMA AccessInitially == AccessInit => AccessInv
<1> SUFFICES ASSUME AccessInit PROVE AccessInv
  OBVIOUS
<1>1. Calling = {} /\ IsFiniteSet(Calling) /\ Cardinality(Calling) = 0
  BY FS_EmptySet DEF AccessInit, Calling
<1>2. call \in [Tabs -> Attempt]
  BY DEF AccessInit, Idle, Attempt, None
<1>3. AccessTyped
  <2>1. token \in [Tabs -> 0 .. created] /\ cookie \in 0 .. created
    BY DEF AccessInit, None
  <2>2. reasons \in 0 .. MaxSessions /\ created \in Nat
    BY AccessBoundsAssumption DEF AccessInit
  <2> QED  BY <1>1, <1>2, <2>1, <2>2 DEF AccessInit, AccessTyped
<1>4. Live = {} /\ Unclaimed = {}
  BY DEF AccessInit, Live, Unclaimed
<1>5. Owed = 0
  BY <1>1, <1>4, FS_EmptySet DEF Owed
<1>6. SessionsOwed
  BY <1>1, <1>5, AccessBoundsAssumption DEF AccessInit, SessionsOwed
<1> QED
  BY <1>1, <1>3, <1>4, <1>6 DEF AccessInit, AccessInv, CallsInOrder, UnheardOf, NothingHappened, None

\* Nothing more is owed when no session becomes unclaimed and no call begins.
LEMMA NoMoreIsOwed ==
  ASSUME AccessTyped, SessionsOwed, Unclaimed' \subseteq Unclaimed, Calling' = Calling,
         reasons' \in 0 .. MaxSessions, reasons' >= reasons,
         NEW x,
         \A u \in Calling : Settles(u) => Settles(u)' \/ (x \in Unclaimed /\ x \notin Unclaimed')
  PROVE  SessionsOwed'
<1>1. /\ Cardinality(Unclaimed) \in Nat /\ Cardinality(Unclaimed') \in Nat
      /\ Cardinality(Unclaimed') <= Cardinality(Unclaimed) /\ Cardinality(Calling) \in Nat
      /\ x \in Unclaimed /\ x \notin Unclaimed' =>
           Cardinality(Unclaimed') <= Cardinality(Unclaimed) - 1
  BY SessionsAreFinite, Counting
<1>2. Owed' = Cardinality(Unclaimed') + Cardinality(Calling)
  BY DEF Owed
<1>3. reasons \in Nat /\ reasons' \in Nat /\ MaxSessions \in Nat
  BY AccessBoundsAssumption DEF AccessTyped
<1>4. Owed' <= MaxSessions /\ Cardinality(Calling') <= 1 + reasons'
  BY <1>1, <1>2, <1>3 DEF SessionsOwed, Owed
<1>5. CASE Owed <= 1 + reasons
  <2>1. Owed' <= 1 + reasons'
    BY <1>1, <1>2, <1>3, <1>5 DEF Owed
  <2> QED  BY <1>4, <2>1 DEF SessionsOwed
<1>6. CASE Owed <= 2 + reasons /\ \E u \in Calling : Settles(u)
  <2>1. PICK u \in Calling : Settles(u)
    BY <1>6
  <2>2. CASE Settles(u)'
    <3>1. Owed' <= 2 + reasons'
      BY <1>1, <1>2, <1>3, <1>6 DEF Owed
    <3>2. \E v \in Calling' : Settles(v)'
      BY <2>1, <2>2
    <3> QED  BY <1>4, <3>1, <3>2 DEF SessionsOwed
  <2>3. CASE x \in Unclaimed /\ x \notin Unclaimed'
    <3>1. Owed' <= 1 + reasons'
      BY <1>1, <1>2, <1>3, <1>6, <2>3 DEF Owed
    <3> QED  BY <1>4, <3>1 DEF SessionsOwed
  <2> QED  BY <2>1, <2>2, <2>3
<1> QED  BY <1>5, <1>6 DEF SessionsOwed

\* Nor when every session is revoked.
LEMMA NothingIsLive ==
  ASSUME AccessTyped, SessionsOwed, Unclaimed' = {}, Calling' = Calling,
         reasons' \in 0 .. MaxSessions, reasons' >= reasons
  PROVE  SessionsOwed'
<1>1. Cardinality(Unclaimed') = 0 /\ Cardinality(Calling) \in Nat /\ Cardinality(Unclaimed) \in Nat
  BY SessionsAreFinite, FS_EmptySet
<1>2. Owed' = Cardinality(Calling)
  BY <1>1 DEF Owed
<1>3. reasons \in Nat /\ reasons' \in Nat /\ MaxSessions \in Nat
  BY AccessBoundsAssumption DEF AccessTyped
<1> QED  BY <1>1, <1>2, <1>3 DEF SessionsOwed, Owed

\* A call that is over owes at most the session it made.
LEMMA CallOwesOne ==
  ASSUME AccessTyped, SessionsOwed, NEW t \in Calling,
         Cardinality(Calling') = Cardinality(Calling) - 1,
         reasons' \in 0 .. MaxSessions, reasons' >= reasons,
         NEW x, Unclaimed' \subseteq Unclaimed \union {x},
         \/ reasons' >= reasons + 1 \/ reasons' = MaxSessions
         \/ Unclaimed' \subseteq Unclaimed
         \/ \A u \in Calling : Settles(u) => u \in Calling' /\ Settles(u)'
  PROVE  SessionsOwed'
<1>1. /\ Cardinality(Unclaimed) \in Nat /\ Cardinality(Unclaimed') \in Nat
      /\ Cardinality(Unclaimed') <= Cardinality(Unclaimed) + 1 /\ Cardinality(Calling) \in Nat
      /\ Unclaimed' \subseteq Unclaimed => Cardinality(Unclaimed') <= Cardinality(Unclaimed)
  BY SessionsAreFinite, Counting
<1>2. Owed' = Cardinality(Unclaimed') + Cardinality(Calling) - 1
  BY <1>1 DEF Owed
<1>3. reasons \in Nat /\ reasons' \in Nat /\ MaxSessions \in Nat
  BY AccessBoundsAssumption DEF AccessTyped
<1>4. Owed' <= Owed /\ Owed <= 2 + reasons
  BY <1>1, <1>2, <1>3 DEF Owed, SessionsOwed
<1>5. Owed' <= MaxSessions /\ Cardinality(Calling') <= 1 + reasons'
  BY <1>1, <1>2, <1>3, <1>4 DEF SessionsOwed, Owed
<1>6. CASE reasons' >= reasons + 1 \/ reasons' = MaxSessions
  BY <1>1, <1>2, <1>3, <1>4, <1>5, <1>6 DEF SessionsOwed, Owed
<1>7. CASE Unclaimed' \subseteq Unclaimed
  <2>1. Owed' <= 1 + reasons'
    BY <1>1, <1>2, <1>3, <1>4, <1>7 DEF Owed
  <2> QED  BY <1>5, <2>1 DEF SessionsOwed
<1>8. CASE \A u \in Calling : Settles(u) => u \in Calling' /\ Settles(u)'
  <2>1. Owed' \in Int /\ Owed \in Int /\ reasons \in Int /\ reasons' \in Int /\ reasons <= reasons'
    BY <1>1, <1>2, <1>3 DEF Owed
  <2>2. CASE Owed <= 1 + reasons
    <3>1. Owed' <= 1 + reasons'
      BY <1>4, <2>1, <2>2, AtMost, Zenon
    <3> QED  BY <1>5, <3>1 DEF SessionsOwed
  <2>3. CASE \E u \in Calling : Settles(u)
    <3>1. Owed' <= 2 + reasons'
      BY <1>4, <2>1, AtMost, Zenon
    <3>2. \E u \in Calling' : Settles(u)'
      BY <1>8, <2>3
    <3> QED  BY <1>5, <3>1, <3>2 DEF SessionsOwed
  <2> QED  BY <2>2, <2>3 DEF SessionsOwed
<1> QED  BY <1>6, <1>7, <1>8


LEMMA CallBegins ==
  ASSUME AccessInv, NEW t \in Tabs, NEW kind \in {"login", "refresh"}, NEW again \in BOOLEAN,
         Start(t, kind, again),
         UNCHANGED <<sessionVars, browserVars, thrownOut>>,
         kind = "refresh" => cookie # None,
         kind = "login" => (again <=> Live # {})
  PROVE  AccessInv'
<1> USE DEF AccessInv
<1> DEFINE begun == [kind |-> kind, step |-> "sent", old |-> cookie, new |-> None]
<1>1. /\ call[t] = Idle /\ created + Cardinality(Calling) < MaxSessions
      /\ call' = [call EXCEPT ![t] = begun]
      /\ Count(IF again \/ Calling # {} THEN 1 ELSE 0)
      /\ UNCHANGED <<hashed, revoked, rotated, created, member, cookie, token, thrownOut>>
  BY DEF Start, sessionVars, browserVars
<1>2. created \in Nat /\ cookie \in 0 .. created /\ reasons \in Nat /\ MaxSessions \in Nat
  BY AccessBoundsAssumption DEF AccessTyped
<1>3. begun \in Attempt /\ begun # Idle
  BY <1>2 DEF Attempt, Early, None, Idle
<1>4. /\ begun.kind = kind /\ begun.step = "sent" /\ begun.old = cookie /\ begun.new = None
      /\ Idle.new = None
  BY DEF Idle
<1> HIDE DEF begun
<1>5. /\ \A u \in Tabs : call'[u] = IF u = t THEN begun ELSE call[u]
      /\ call' \in [Tabs -> Attempt]
  BY <1>1, <1>3 DEF AccessTyped
<1>6. Calling' = Calling \union {t} /\ t \notin Calling
  BY <1>1, <1>3, <1>5 DEF Calling
<1>7. /\ IsFiniteSet(Calling') /\ Cardinality(Calling') = Cardinality(Calling) + 1
      /\ Cardinality(Calling) \in Nat /\ Cardinality(Unclaimed) \in Nat
      /\ Cardinality(Unclaimed) <= created
      /\ Calling = {} <=> Cardinality(Calling) = 0
  <2>1. IsFiniteSet(Calling)
    BY DEF AccessTyped
  <2>2. Cardinality(Calling') = Cardinality(Calling) + 1 /\ IsFiniteSet(Calling')
    BY <1>6, <2>1, FS_AddElement
  <2>3. Calling = {} <=> Cardinality(Calling) = 0
    BY <2>1, FS_EmptySet
  <2> QED  BY <2>2, <2>3, SessionsAreFinite
<1>8. /\ reasons' \in 0 .. MaxSessions /\ reasons' >= reasons
      /\ again \/ Calling # {} => reasons' >= reasons + 1 \/ reasons' = MaxSessions
      /\ ~(again \/ Calling # {}) => reasons' = reasons
  BY <1>1, <1>2, CountFacts DEF AccessTyped
<1>9. AccessTyped'
  BY <1>1, <1>5, <1>7, <1>8 DEF AccessTyped
<1>10. CallsInOrder'
  <2>1. "sent" \in Early /\ "sent" \notin Late
    BY DEF Early, Late
  <2> QED  BY <1>1, <1>2, <1>4, <1>5, <1>6, <2>1 DEF CallsInOrder
<1>11. UnheardOf'
  BY <1>1, <1>4, <1>5, <1>6 DEF UnheardOf
<1>12. Unclaimed' = Unclaimed
  <2>1. \A u \in Tabs : call'[u].new = call[u].new
    BY <1>1, <1>4, <1>5
  <2>2. {call'[u].new : u \in Tabs} = {call[u].new : u \in Tabs}
    BY <2>1
  <2> QED  BY <1>1, <2>2 DEF Unclaimed, Live
<1>13. Owed' = Owed + 1 /\ Owed \in Nat /\ Owed = Cardinality(Unclaimed) + Cardinality(Calling)
  BY <1>7, <1>12 DEF Owed
<1>14. Owed' <= MaxSessions /\ Cardinality(Calling') <= 1 + reasons'
  BY <1>1, <1>2, <1>7, <1>8, <1>13 DEF SessionsOwed
<1>15. SessionsOwed'
  <2>1. CASE reasons' = MaxSessions
    BY <1>2, <1>13, <1>14, <2>1 DEF SessionsOwed
  <2>2. CASE reasons' >= reasons + 1
    <3>1. ASSUME NEW u \in Calling, Settles(u) PROVE Settles(u)' /\ u \in Calling'
      <4>1. u \in Tabs /\ u # t /\ u \in Calling'
        BY <1>6 DEF Calling
      <4>2. call'[u] = call[u]
        BY <1>5, <4>1
      <4> QED  BY <1>12, <3>1, <4>1, <4>2 DEF Settles
    <3>2. CASE Owed <= 1 + reasons
      <4>1. Owed' <= 1 + reasons'
        BY <1>2, <1>8, <1>13, <2>2, <3>2
      <4> QED  BY <1>14, <4>1 DEF SessionsOwed
    <3>3. CASE Owed <= 2 + reasons /\ \E u \in Calling : Settles(u)
      <4>1. Owed' <= 2 + reasons'
        BY <1>2, <1>8, <1>13, <2>2, <3>3
      <4>2. \E u \in Calling' : Settles(u)'
        BY <3>1, <3>3
      <4> QED  BY <1>14, <4>1, <4>2 DEF SessionsOwed
    <3> QED  BY <3>2, <3>3 DEF SessionsOwed
  <2>3. CASE ~again /\ Calling = {}
    <3>1. Owed <= 1 + reasons
      BY <2>3 DEF SessionsOwed
    <3>2. Owed' <= 2 + reasons'
      BY <1>2, <1>8, <1>13, <2>3, <3>1
    <3>3. CASE kind = "refresh"
      <4>1. t \in Calling' /\ Settles(t)'
        BY <1>4, <1>5, <1>6, <3>3 DEF Settles
      <4> QED  BY <1>14, <3>2, <4>1 DEF SessionsOwed
    <3>4. CASE kind = "login"
      <4>1. Unclaimed = {}
        BY <2>3, <3>4 DEF Unclaimed
      <4>2. Owed' = 1
        BY <1>7, <1>13, <2>3, <4>1, FS_EmptySet
      <4>3. Owed' \in Int /\ 0 \in Int /\ reasons' \in Int /\ 0 <= reasons'
            /\ Owed' <= 1 /\ 1 \in Int /\ 1 <= 1 + 0
        BY <1>8, <4>2
      <4>4. Owed' <= 1 + reasons'
        BY <4>3, AtMost, Zenon
      <4> QED  BY <1>14, <4>4 DEF SessionsOwed
    <3> QED  BY <3>3, <3>4
  <2> QED  BY <1>8, <2>1, <2>2, <2>3
<1>16. NothingHappened'
  <2> SUFFICES ASSUME reasons' = 0
               PROVE  thrownOut' = FALSE /\ Calling' # {} /\ \A u \in Calling' : Alone(u)'
    BY DEF NothingHappened
  <2>1. reasons = 0 /\ MaxSessions # 0 /\ ~again /\ Calling = {}
    BY <1>1, <1>2, <1>7, <1>8
  <2>2. thrownOut' = FALSE /\ cookie \notin rotated /\ (kind = "login" => Live = {})
        /\ Live \subseteq {cookie, None}
    BY <1>1, <2>1 DEF NothingHappened
  <2>3. Live \subseteq {cookie} /\ Live' = Live
    <3>1. Live \subseteq (IF member THEN {cookie} ELSE {})
      BY <2>1 DEF NothingHappened
    <3> QED  BY <1>1, <3>1 DEF Live
  <2>4. Calling' = {t}
    BY <1>6, <2>1
  <2>5. Alone(t)'
    <3>1. "sent" \notin Late
      BY DEF Late
    <3> QED  BY <1>1, <1>4, <1>5, <2>2, <2>3, <3>1 DEF Alone
  <2> QED  BY <2>2, <2>4, <2>5
<1> QED  BY <1>9, <1>10, <1>11, <1>15, <1>16


LEMMA OnlyCall ==
  ASSUME AccessTyped, SessionsOwed, NEW t \in Calling
  PROVE  /\ reasons = 0 => \A u \in Calling : u = t
         /\ MaxSessions >= 1
<1>1. /\ IsFiniteSet(Calling) /\ Cardinality(Calling) \in Nat /\ Cardinality(Unclaimed) \in Nat
      /\ IsFiniteSet(Calling \ {t}) /\ Cardinality(Calling \ {t}) = Cardinality(Calling) - 1
      /\ Cardinality(Calling \ {t}) \in Nat
  <2>1. IsFiniteSet(Calling)
    BY DEF AccessTyped
  <2>2. IsFiniteSet(Calling \ {t}) /\ Cardinality(Calling \ {t}) = Cardinality(Calling) - 1
    BY <2>1, FS_RemoveElement
  <2> QED  BY <2>1, <2>2, SessionsAreFinite, FS_CardinalityType
<1>2. reasons = 0 => Cardinality(Calling \ {t}) = 0
  BY <1>1 DEF SessionsOwed
<1>3. reasons = 0 => Calling \ {t} = {}
  BY <1>1, <1>2, FS_EmptySet
<1>4. MaxSessions >= 1
  BY <1>1, AccessBoundsAssumption DEF SessionsOwed, Owed
<1> QED  BY <1>3, <1>4

LEMMA CallIsTyped ==
  ASSUME AccessTyped, CallsInOrder, NEW t \in Tabs, call[t].kind # "idle"
  PROVE  /\ t \in Calling /\ call[t].kind \in {"login", "refresh"} /\ call[t].old \in 0 .. created
         /\ call[t].new \in 0 .. created /\ call[t].step \in Early \union Late
<1>1. t \in Calling /\ call[t] \in Attempt
  BY DEF Calling, AccessTyped, Idle
<1>2. call[t].kind \in {"login", "refresh"} /\ call[t].step \in Early \union Late
  BY <1>1 DEF CallsInOrder, Attempt
<1>3. created \in Nat /\ call[t].old \in 0 .. created
  BY <1>1 DEF CallsInOrder, Attempt, AccessTyped
<1>4. call[t].new \in 0 .. created
  BY <1>1, <1>2, <1>3 DEF CallsInOrder, None
<1> QED  BY <1>1, <1>2, <1>3, <1>4

\* What the API does for a call, short of making a session.
LEMMA CallIsServed ==
  ASSUME AccessInv, NEW t \in Calling, NEW step \in Early \union Late, Goto(t, step),
         UNCHANGED <<created, member, cookie, token, reasons>>, thrownOut' \in BOOLEAN,
         hashed' \subseteq 1 .. created, revoked' \subseteq 1 .. created,
         rotated' \subseteq revoked', rotated' \subseteq rotated \union {call[t].old},
         revoked \subseteq revoked',
         revoked' \subseteq revoked \union {call[t].old} \/ revoked' = 1 .. created,
         step \in Early <=> call[t].step \in Early,
         call[t].kind = "login" => step \notin {"membership", "chain", "rotate"},
         Settles(t) => Settles(t)' \/ (call[t].old \in Unclaimed /\ call[t].old \in revoked'),
         reasons = 0 => thrownOut' = FALSE /\ Alone(t)'
  PROVE  AccessInv'
<1> USE DEF AccessInv
<1>1. /\ call' \in [Tabs -> Attempt] /\ Calling' = Calling /\ call'[t].step = step
      /\ \A u \in Tabs : /\ call'[u].kind = call[u].kind /\ call'[u].old = call[u].old
                         /\ call'[u].new = call[u].new
                         /\ u # t => call'[u].step = call[u].step
  BY CallGoesOn
<1>2. AccessTyped'
  BY <1>1 DEF AccessTyped
<1>3. Calling \subseteq Tabs /\ Early \intersect Late = {} /\ "idle" \notin Early \union Late
  BY DEF Calling, Early, Late
<1>4. CallsInOrder'
  <2>1. \A u \in Calling :
          /\ u \in Tabs /\ call'[u].kind = call[u].kind /\ call'[u].old = call[u].old
          /\ call'[u].new = call[u].new
          /\ u # t => call'[u].step = call[u].step
          /\ call'[u].step \in Early <=> call[u].step \in Early
          /\ call'[t].step \in Early \union Late
    BY <1>1, <1>3
  <2>2. call[t].step \in Early \union Late /\ call[t].kind # "idle"
    BY <1>3, CallIsTyped DEF CallsInOrder
  <2>3. ASSUME NEW u \in Calling PROVE call'[u].step \in Late <=> call[u].step \in Late
    <3>1. CASE u = t
      <4>1. call'[t].step \in Early <=> call[t].step \in Early
        BY <2>1
      <4>2. call'[t].step \in Early \union Late
        BY <2>1
      <4> QED  BY <1>3, <2>2, <3>1, <4>1, <4>2
    <3>2. CASE u # t
      BY <2>1, <3>2
    <3> QED  BY <3>1, <3>2
  <2> QED  BY <1>1, <1>3, <2>1, <2>2, <2>3 DEF CallsInOrder
<1>5. UnheardOf'
  <2> SUFFICES ASSUME NEW v \in Calling, call[v].new # None
               PROVE  /\ call[v].new # cookie /\ call[v].new \notin rotated'
                      /\ \A u \in Tabs :
                           /\ token[u] # call[v].new /\ call[u].old # call[v].new
                           /\ u # v => call[u].new # call[v].new
    BY <1>1, <1>3 DEF UnheardOf
  <2> QED  BY <1>3 DEF UnheardOf
<1>6. Unclaimed' = Unclaimed \ revoked'
  <2>1. {call'[u].new : u \in Tabs} = {call[u].new : u \in Tabs}
    BY <1>1
  <2> QED  BY <2>1 DEF Unclaimed, Live
<1>7. SessionsOwed'
  <2>1. reasons' \in 0 .. MaxSessions /\ reasons' >= reasons
    BY DEF AccessTyped
  <2>2. CASE revoked' = 1 .. created
    <3>1. Unclaimed' = {}
      BY <1>6, <2>2 DEF Unclaimed, Live
    <3> QED  BY <1>1, <2>1, <3>1, NothingIsLive
  <2>3. CASE revoked' \subseteq revoked \union {call[t].old}
    <3> DEFINE x == call[t].old
    <3>1. Unclaimed' \subseteq Unclaimed /\ Unclaimed \intersect revoked = {}
      BY <1>6 DEF Unclaimed, Live
    <3>2. ASSUME NEW u \in Calling, Settles(u)
          PROVE  Settles(u)' \/ (x \in Unclaimed /\ x \notin Unclaimed')
      <4>1. CASE u = t
        BY <1>6, <3>2, <4>1
      <4>2. CASE u # t
        <5>1. u \in Tabs /\ call'[u].kind = call[u].kind /\ call'[u].old = call[u].old
              /\ call'[u].step = call[u].step
          BY <1>1, <1>3, <4>2
        <5>2. call[u].old \in Unclaimed /\ call[u].old \notin Unclaimed' => call[u].old = x
          BY <1>6, <2>3, <3>1
        <5> QED  BY <3>2, <5>1, <5>2 DEF Settles
      <4> QED  BY <4>1, <4>2
    <3> HIDE DEF x
    <3> QED  BY <1>1, <2>1, <3>1, <3>2, NoMoreIsOwed
  <2> QED  BY <2>2, <2>3
<1>8. NothingHappened'
  BY <1>1, OnlyCall DEF NothingHappened
<1> QED  BY <1>2, <1>4, <1>5, <1>7, <1>8

LEMMA AccessVerify ==
  ASSUME AccessInv, NEW t \in Tabs, Verify(t)
  PROVE  AccessInv'
<1> USE DEF AccessInv
<1>1. /\ call[t].kind = "login" /\ call[t].step = "sent"
      /\ Goto(t, IF member THEN "issue" ELSE "refused")
      /\ UNCHANGED <<hashed, revoked, rotated, created, member, cookie, token, reasons, thrownOut>>
  BY DEF Verify, At, sessionVars, browserVars
<1> DEFINE step == IF member THEN "issue" ELSE "refused"
<1>2. t \in Calling /\ step \in Early /\ call[t].step \in Early /\ step \notin Late
  BY <1>1, CallIsTyped DEF Early, Late
<1>3. Goto(t, step) /\ step \in {"issue", "refused"} /\ (step = "issue" => member = TRUE)
  BY <1>1 DEF AccessTyped
<1> HIDE DEF step
<1>4. call'[t].kind = "login" /\ call'[t].step = step /\ call'[t].new = call[t].new
  BY <1>1, <1>2, <1>3, CallGoesOn
<1>5. reasons = 0 => thrownOut' = FALSE /\ Alone(t)'
  BY <1>1, <1>2, <1>3, <1>4 DEF NothingHappened, Alone, Live
<1>6. ~Settles(t)
  BY <1>1 DEF Settles
<1>7. hashed' \subseteq 1 .. created /\ revoked' \subseteq 1 .. created /\ rotated' \subseteq revoked'
      /\ thrownOut' \in BOOLEAN
  BY <1>1 DEF AccessTyped
<1> QED  BY <1>1, <1>2, <1>3, <1>5, <1>6, <1>7, CallIsServed


LEMMA AccessLookUp ==
  ASSUME AccessInv, NEW t \in Tabs, LookUp(t)
  PROVE  AccessInv'
<1> USE DEF AccessInv
<1> DEFINE step == IF call[t].old \in revoked THEN "chain" ELSE "membership"
<1>1. /\ call[t].kind = "refresh" /\ call[t].step = "sent" /\ Goto(t, step)
      /\ thrownOut' = thrownOut \/ thrownOut' = (thrownOut \/ call[t].old \in rotated)
      /\ UNCHANGED <<hashed, revoked, rotated, created, member, cookie, token, reasons>>
  BY DEF LookUp, At, sessionVars, browserVars
<1>2. t \in Calling /\ step \in Early /\ call[t].step \in Early /\ step \notin Late
  BY <1>1, CallIsTyped DEF Early, Late
<1>3. /\ step \in {"chain", "membership"}
      /\ step = "membership" => call[t].old \notin revoked
  OBVIOUS
<1> HIDE DEF step
<1>4. /\ call'[t].kind = "refresh" /\ call'[t].step = step /\ call'[t].old = call[t].old
      /\ \A u \in Tabs : call'[u].new = call[u].new
  BY <1>1, <1>2, CallGoesOn
<1>5. reasons = 0 => call[t].old \notin rotated /\ thrownOut = FALSE /\ Alone(t)
  BY <1>1, <1>2 DEF NothingHappened, Alone
<1>6. reasons = 0 => thrownOut' = FALSE /\ Alone(t)'
  <2>1. reasons = 0 => thrownOut' = FALSE
    BY <1>1, <1>5
  <2>2. reasons = 0 => Alone(t)'
    BY <1>1, <1>2, <1>3, <1>4, <1>5 DEF Alone, Live
  <2> QED  BY <2>1, <2>2
<1>7. Settles(t)'
  <2>1. CASE step = "chain"
    BY <1>4, <2>1 DEF Settles
  <2>2. CASE step = "membership"
    <3>1. call[t].old \in 1 .. created
      BY <1>1, <1>2, CallIsTyped DEF CallsInOrder, None
    <3>2. \A u \in Tabs : call[u].new # call[t].old
      <4> SUFFICES ASSUME NEW u \in Tabs, call[u].new = call[t].old PROVE FALSE
        OBVIOUS
      <4>1. call[u].new # None
        BY <3>1 DEF None
      <4>2. u \in Calling
        BY <4>1 DEF Calling, Idle
      <4> QED  BY <4>1, <4>2 DEF UnheardOf
    <3>3. call'[t].old \in Unclaimed'
      BY <1>1, <1>3, <1>4, <2>2, <3>1, <3>2 DEF Unclaimed, Live
    <3> QED  BY <1>4, <2>2, <3>3 DEF Settles
  <2> QED  BY <1>3, <2>1, <2>2
<1>8. hashed' \subseteq 1 .. created /\ revoked' \subseteq 1 .. created /\ rotated' \subseteq revoked'
  BY <1>1 DEF AccessTyped
<1>9. thrownOut' \in BOOLEAN
  BY <1>1 DEF AccessTyped
<1> QED  BY <1>1, <1>2, <1>3, <1>6, <1>7, <1>8, <1>9, CallIsServed

LEMMA AccessCheckMembership ==
  ASSUME AccessInv, NEW t \in Tabs, CheckMembership(t)
  PROVE  AccessInv'
<1> USE DEF AccessInv
<1> DEFINE step == IF member THEN "issue" ELSE "chain"
<1>1. /\ call[t].kind = "refresh" /\ call[t].step = "membership" /\ Goto(t, step)
      /\ UNCHANGED <<hashed, revoked, rotated, created, member, cookie, token, reasons, thrownOut>>
  BY DEF CheckMembership, At, sessionVars, browserVars
<1>2. t \in Calling /\ step \in Early /\ call[t].step \in Early /\ step \notin Late
  BY <1>1, CallIsTyped DEF Early, Late
<1>3. step \in {"chain", "issue"} /\ (step = "issue" => member = TRUE)
  BY DEF AccessTyped
<1> HIDE DEF step
<1>4. /\ call'[t].kind = "refresh" /\ call'[t].step = step /\ call'[t].old = call[t].old
      /\ \A u \in Tabs : call'[u].new = call[u].new
  BY <1>1, <1>2, CallGoesOn
<1>5. reasons = 0 => thrownOut = FALSE /\ Alone(t)
  BY <1>1, <1>2 DEF NothingHappened
<1>6. reasons = 0 => thrownOut' = FALSE /\ Alone(t)'
  BY <1>1, <1>2, <1>3, <1>4, <1>5 DEF Alone, Live
<1>7. {call'[u].new : u \in Tabs} = {call[u].new : u \in Tabs}
  BY <1>4
<1>8. Settles(t) => Settles(t)'
  BY <1>1, <1>3, <1>4, <1>7 DEF Settles, Unclaimed, Live
<1>9. hashed' \subseteq 1 .. created /\ revoked' \subseteq 1 .. created /\ rotated' \subseteq revoked'
      /\ thrownOut' \in BOOLEAN
  BY <1>1 DEF AccessTyped
<1> QED  BY <1>1, <1>2, <1>3, <1>6, <1>8, <1>9, CallIsServed

LEMMA AccessRevokeChain ==
  ASSUME AccessInv, NEW t \in Tabs, RevokeChain(t)
  PROVE  AccessInv'
<1> USE DEF AccessInv
<1>1. /\ call[t].kind = "refresh" /\ call[t].step = "chain" /\ Goto(t, "refused")
      /\ revoked' = 1 .. created
      /\ UNCHANGED <<hashed, rotated, created, member, cookie, token, reasons, thrownOut>>
  BY DEF RevokeChain, At, browserVars
<1>2. t \in Calling /\ "refused" \in Early /\ call[t].step \in Early /\ "refused" \notin Late
  BY <1>1, CallIsTyped DEF Early, Late
<1>3. call'[t].kind = "refresh" /\ call'[t].step = "refused" /\ call'[t].old = call[t].old
  BY <1>1, <1>2, CallGoesOn
<1>4. reasons = 0 => thrownOut = FALSE /\ Alone(t)
  BY <1>1, <1>2 DEF NothingHappened
<1>5. reasons = 0 => thrownOut' = FALSE /\ Alone(t)'
  BY <1>1, <1>2, <1>3, <1>4 DEF Alone, Live
<1>6. Settles(t)'
  BY <1>3 DEF Settles
<1>7. hashed' \subseteq 1 .. created /\ revoked' \subseteq 1 .. created /\ rotated' \subseteq revoked'
      /\ thrownOut' \in BOOLEAN /\ revoked \subseteq revoked'
  BY <1>1 DEF AccessTyped
<1> QED  BY <1>1, <1>2, <1>5, <1>6, <1>7, CallIsServed

LEMMA AccessSetHash ==
  ASSUME AccessInv, NEW t \in Tabs, SetHash(t)
  PROVE  AccessInv'
<1> USE DEF AccessInv
<1> DEFINE step == IF call[t].kind = "refresh" THEN "rotate" ELSE "done"
<1>1. /\ call[t].kind \in {"login", "refresh"} /\ call[t].step = "hash" /\ Goto(t, step)
      /\ hashed' = hashed \union {call[t].new}
      /\ UNCHANGED <<revoked, rotated, created, member, cookie, token, reasons, thrownOut>>
  BY DEF SetHash, At, browserVars
<1>2. t \in Calling /\ step \in Late /\ call[t].step \in Late /\ step \notin Early
      /\ call[t].step \notin Early
  BY <1>1, CallIsTyped DEF Early, Late
<1>3. /\ \/ step = "rotate" /\ call[t].kind = "refresh"
         \/ step = "done" /\ call[t].kind = "login"
      /\ call[t].kind = "login" => step \notin {"membership", "chain", "rotate"}
  BY <1>1
<1> HIDE DEF step
<1>4. /\ call'[t].kind = call[t].kind /\ call'[t].step = step /\ call'[t].old = call[t].old
      /\ \A u \in Tabs : call'[u].new = call[u].new
  BY <1>1, <1>2, CallGoesOn
<1>5. reasons = 0 => thrownOut = FALSE /\ Alone(t)
  BY <1>1, <1>2 DEF NothingHappened
<1>6. reasons = 0 => thrownOut' = FALSE /\ Alone(t)'
  BY <1>1, <1>2, <1>3, <1>4, <1>5 DEF Alone, Live
<1>7. {call'[u].new : u \in Tabs} = {call[u].new : u \in Tabs}
  BY <1>4
<1>8. Settles(t) => Settles(t)'
  BY <1>1, <1>3, <1>4, <1>7 DEF Settles, Unclaimed, Live
<1>9. call[t].new \in 1 .. created
  BY <1>2 DEF CallsInOrder
<1>10. hashed' \subseteq 1 .. created /\ revoked' \subseteq 1 .. created /\ rotated' \subseteq revoked'
      /\ thrownOut' \in BOOLEAN
  BY <1>1, <1>9 DEF AccessTyped
<1> QED  BY <1>1, <1>2, <1>3, <1>6, <1>8, <1>10, CallIsServed

LEMMA AccessRotate ==
  ASSUME AccessInv, NEW t \in Tabs, Rotate(t)
  PROVE  AccessInv'
<1> USE DEF AccessInv
<1>1. /\ call[t].kind = "refresh" /\ call[t].step = "rotate" /\ Goto(t, "done")
      /\ revoked' = revoked \union {call[t].old} /\ rotated' = rotated \union {call[t].old}
      /\ UNCHANGED <<hashed, created, member, cookie, token, reasons, thrownOut>>
  BY DEF Rotate, At, browserVars
<1>2. t \in Calling /\ "done" \in Late /\ call[t].step \in Late /\ "done" \notin Early
      /\ call[t].step \notin Early
  BY <1>1, CallIsTyped DEF Early, Late
<1>3. /\ call'[t].kind = "refresh" /\ call'[t].step = "done" /\ call'[t].new = call[t].new
  BY <1>1, <1>2, CallGoesOn
<1>4. reasons = 0 => thrownOut = FALSE /\ Alone(t)
  BY <1>1, <1>2 DEF NothingHappened
<1>5. reasons = 0 => thrownOut' = FALSE /\ Alone(t)'
  BY <1>1, <1>2, <1>3, <1>4 DEF Alone, Live
<1>6. Settles(t) => call[t].old \in Unclaimed /\ call[t].old \in revoked'
  BY <1>1 DEF Settles
<1>7. call[t].old \in 1 .. created
  BY <1>1, <1>2, CallIsTyped DEF CallsInOrder, None
<1>8. hashed' \subseteq 1 .. created /\ revoked' \subseteq 1 .. created /\ rotated' \subseteq revoked'
      /\ thrownOut' \in BOOLEAN
  BY <1>1, <1>7 DEF AccessTyped
<1> QED  BY <1>1, <1>2, <1>5, <1>6, <1>8, CallIsServed


LEMMA AccessCreate ==
  ASSUME AccessInv, NEW t \in Tabs, CreateSession(t)
  PROVE  AccessInv'
<1> USE DEF AccessInv
<1> DEFINE made == [call[t] EXCEPT !.step = "hash", !.new = created + 1]
<1>1. /\ call[t].kind \in {"login", "refresh"} /\ call[t].step = "issue"
      /\ created' = created + 1 /\ call' = [call EXCEPT ![t] = made]
      /\ UNCHANGED <<hashed, revoked, rotated, member, cookie, token, reasons, thrownOut>>
  BY DEF CreateSession, At, browserVars
<1>2. t \in Calling /\ call[t] \in Attempt /\ call[t].new = None
  BY <1>1, CallIsTyped DEF AccessTyped, CallsInOrder, Early
<1>3. created \in Nat
  BY DEF AccessTyped
<1>4. /\ made \in Attempt /\ made.step = "hash" /\ made.new = created + 1
      /\ made.kind = call[t].kind /\ made.old = call[t].old
  <2>1. created + 1 \in Nat /\ "hash" \in {"idle"} \union Early \union Late
    BY <1>3 DEF Late
  <2>2. made \in Attempt
    BY <1>2, <2>1 DEF Attempt
  <2>3. /\ made.step = "hash" /\ made.new = created + 1
        /\ made.kind = call[t].kind /\ made.old = call[t].old
    BY <1>2 DEF Attempt
  <2> QED  BY <2>2, <2>3
<1> HIDE DEF made
<1>5. /\ call' \in [Tabs -> Attempt]
      /\ \A u \in Tabs : call'[u] = IF u = t THEN made ELSE call[u]
  BY <1>1, <1>4 DEF AccessTyped
<1>6. Calling' = Calling
  <2>1. made # Idle
    BY <1>4 DEF Idle
  <2> QED  BY <1>2, <1>5, <2>1 DEF Calling
<1>7. AccessTyped'
  <2>1. 1 .. created \subseteq 1 .. created' /\ 0 .. created \subseteq 0 .. created' /\ created' \in Nat
    BY <1>1, <1>3
  <2>2. token' \in [Tabs -> 0 .. created'] /\ cookie' \in 0 .. created'
    BY <1>1, <2>1 DEF AccessTyped
  <2> QED  BY <1>1, <1>5, <1>6, <2>1, <2>2 DEF AccessTyped
<1>8. \A u \in Tabs : call[u].new \in 0 .. created /\ call[u].old \in 0 .. created
  <2> TAKE u \in Tabs
  <2>1. CASE call[u].kind = "idle"
    <3>1. call[u] = Idle
      BY <2>1 DEF CallsInOrder, Calling
    <3> QED  BY <1>3, <3>1 DEF Idle, None
  <2>2. CASE call[u].kind # "idle"
    BY <2>2, CallIsTyped
  <2> QED  BY <2>1, <2>2
<1>9. CallsInOrder'
  <2>1. "hash" \in Late /\ "hash" \notin Early
    BY DEF Early, Late
  <2>2. call[t].kind # "idle" /\ call[t].old <= created /\ call[t].old \in Nat
    BY <1>1, <1>2 DEF CallsInOrder, Attempt
  <2>3. created' \in Nat /\ created' >= created /\ created + 1 \in 1 .. created'
    BY <1>1, <1>3
  <2>4. \A u \in Calling : call[u].old \in 0 .. created
    BY <1>8 DEF Calling
  <2>5. \A u \in Calling : call[u].old <= created'
    BY <1>3, <2>3, <2>4
  <2>6. 1 .. created \subseteq 1 .. created'
    BY <1>1, <1>3
  <2>7. Calling \subseteq Tabs
    BY DEF Calling
  <2> QED  BY <1>1, <1>2, <1>4, <1>5, <1>6, <2>1, <2>2, <2>3, <2>5, <2>6, <2>7 DEF CallsInOrder
<1>10. /\ cookie # created + 1 /\ created + 1 \notin rotated /\ created + 1 \notin revoked
       /\ \A u \in Tabs : token[u] # created + 1 /\ call[u].old # created + 1 /\ call[u].new # created + 1
  BY <1>3, <1>8 DEF AccessTyped
<1>11. UnheardOf'
  <2>1. Calling \subseteq Tabs
    BY DEF Calling
  <2> QED  BY <1>1, <1>4, <1>5, <1>6, <1>10, <2>1 DEF UnheardOf
<1>12. Live' = Live \union {created + 1}
  <2>1. (1 .. created') = (1 .. created) \union {created + 1}
    BY <1>1, <1>3
  <2> QED  BY <1>1, <1>10, <2>1 DEF Live
<1>13. Unclaimed' = Unclaimed
  <2>1. {call'[u].new : u \in Tabs} = ({call[u].new : u \in Tabs \ {t}}) \union {created + 1}
    BY <1>4, <1>5
  <2>2. 0 \notin Live /\ created + 1 \notin Live
    BY <1>3 DEF Live
  <2>3. {call[u].new : u \in Tabs} = ({call[u].new : u \in Tabs \ {t}}) \union {0}
    BY <1>2 DEF None
  <2> QED  BY <1>12, <2>1, <2>2, <2>3 DEF Unclaimed
<1>14. SessionsOwed'
  <2>1. reasons' \in 0 .. MaxSessions /\ reasons' >= reasons
    BY <1>1 DEF AccessTyped
  <2>2. \A u \in Calling : Settles(u) => Settles(u)'
    <3>1. Calling \subseteq Tabs
      BY DEF Calling
    <3> QED  BY <1>1, <1>4, <1>5, <1>13, <3>1 DEF Settles
  <2> QED  BY <1>6, <1>13, <2>1, <2>2, NoMoreIsOwed
<1>15. NothingHappened'
  <2> SUFFICES ASSUME reasons = 0
               PROVE  thrownOut = FALSE /\ Alone(t)'
    BY <1>1, <1>2, <1>6, OnlyCall DEF NothingHappened
  <2>1. thrownOut = FALSE /\ Alone(t)
    BY <1>2 DEF NothingHappened
  <2>2. "hash" \notin Early /\ "issue" \notin Late /\ "issue" \in Early
    BY DEF Early, Late
  <2>3. call'[t] = made
    BY <1>2, <1>5 DEF Calling
  <2>4. member = TRUE
    BY <1>1, <2>1 DEF Alone
  <2>5. CASE call[t].kind = "login"
    BY <1>1, <1>4, <1>12, <2>1, <2>2, <2>3, <2>4, <2>5 DEF Alone
  <2>6. CASE call[t].kind = "refresh"
    BY <1>1, <1>4, <1>12, <2>1, <2>2, <2>3, <2>4, <2>6 DEF Alone
  <2> QED  BY <1>1, <2>1, <2>5, <2>6
<1> QED  BY <1>7, <1>9, <1>11, <1>14, <1>15


\* What is left of a session somebody has heard of when its call is over.
LEMMA CallIsOver ==
  ASSUME AccessInv, NEW t \in Calling, call' = [call EXCEPT ![t] = Idle],
         UNCHANGED <<hashed, revoked, rotated, created, member>>,
         cookie' \in 0 .. created, token' \in [Tabs -> 0 .. created],
         thrownOut' \in BOOLEAN, reasons' \in 0 .. MaxSessions, reasons' >= reasons,
         \A u \in Calling \ {t} : call[u].new # None =>
           call[u].new # cookie' /\ \A v \in Tabs : token'[v] # call[u].new
  PROVE  /\ AccessTyped' /\ CallsInOrder' /\ UnheardOf' /\ Live' = Live
         /\ Unclaimed \subseteq Unclaimed' /\ Unclaimed' \subseteq Unclaimed \union {call[t].new}
         /\ \A u \in Calling \ {t} : Settles(u) => u \in Calling' /\ Settles(u)'
         /\ reasons = 0 => Calling' = {}
<1> USE DEF AccessInv
<1>1. /\ call' \in [Tabs -> Attempt] /\ Calling' = Calling \ {t} /\ IsFiniteSet(Calling')
      /\ \A u \in Tabs : call'[u] = IF u = t THEN Idle ELSE call[u]
      /\ Idle.old = None /\ Idle.new = None
  BY CallEnds
<1>2. AccessTyped'
  BY <1>1 DEF AccessTyped
<1>3. Calling \subseteq Tabs
  BY DEF Calling
<1>4. CallsInOrder'
  BY <1>1, <1>3 DEF CallsInOrder
<1>5. UnheardOf'
  <2>1. \A u \in Calling \ {t} : u \in Tabs /\ call'[u] = call[u]
    BY <1>1, <1>3
  <2> SUFFICES ASSUME NEW u \in Calling \ {t}, call[u].new # None
               PROVE  /\ call[u].new # cookie' /\ call[u].new \notin rotated
                      /\ \A v \in Tabs : /\ token'[v] # call[u].new /\ call'[v].old # call[u].new
                                         /\ v # u => call'[v].new # call[u].new
    BY <1>1, <2>1 DEF UnheardOf
  <2> QED  BY <1>1 DEF UnheardOf
<1>6. Live' = Live
  BY DEF Live
<1>7. 0 \notin Live
  BY DEF Live
<1>8. Unclaimed \subseteq Unclaimed' /\ Unclaimed' \subseteq Unclaimed \union {call[t].new}
  BY <1>1, <1>6, <1>7 DEF Unclaimed, None
<1>9. \A u \in Calling \ {t} : Settles(u) => u \in Calling' /\ Settles(u)'
  BY <1>1, <1>3, <1>8 DEF Settles
<1>10. reasons = 0 => Calling' = {}
  BY <1>1, OnlyCall
<1> QED  BY <1>2, <1>4, <1>5, <1>6, <1>8, <1>9, <1>10

LEMMA AccessAnswered ==
  ASSUME AccessInv, NEW t \in Tabs, Answered(t)
  PROVE  AccessInv'
<1> USE DEF AccessInv
<1>1. /\ call[t].kind \in {"login", "refresh"} /\ call[t].step = "done"
      /\ cookie' = call[t].new /\ token' = [token EXCEPT ![t] = call[t].new]
      /\ call' = [call EXCEPT ![t] = Idle]
      /\ UNCHANGED <<hashed, revoked, rotated, created, member, reasons, thrownOut>>
  BY DEF Answered, At, sessionVars
<1>2. t \in Calling /\ call[t].new \in 0 .. created
  BY <1>1, CallIsTyped
<1>3. /\ token' \in [Tabs -> 0 .. created]
      /\ \A v \in Tabs : token'[v] = IF v = t THEN call[t].new ELSE token[v]
  BY <1>1, <1>2 DEF AccessTyped
<1>4. Calling \subseteq Tabs
  BY DEF Calling
<1>5. reasons' \in 0 .. MaxSessions /\ reasons' >= reasons /\ thrownOut' \in BOOLEAN
  BY <1>1 DEF AccessTyped
<1>6. \A u \in Calling \ {t} : call[u].new # None =>
        call[u].new # cookie' /\ \A v \in Tabs : token'[v] # call[u].new
  BY <1>1, <1>2, <1>3, <1>4 DEF UnheardOf
<1>7. /\ AccessTyped' /\ CallsInOrder' /\ UnheardOf' /\ Live' = Live
      /\ Unclaimed' \subseteq Unclaimed \union {call[t].new}
      /\ \A u \in Calling \ {t} : Settles(u) => u \in Calling' /\ Settles(u)'
      /\ reasons = 0 => Calling' = {}
  BY <1>1, <1>2, <1>3, <1>5, <1>6, CallIsOver
<1>8. Cardinality(Calling') = Cardinality(Calling) - 1
  BY <1>1, <1>2, CallEnds
<1>9. ~Settles(t)
  BY <1>1 DEF Settles
<1>10. SessionsOwed'
  <2>1. \A u \in Calling : Settles(u) => u \in Calling' /\ Settles(u)'
    BY <1>7, <1>9
  <2> QED  BY <1>2, <1>5, <1>7, <1>8, <2>1, CallOwesOne
<1>11. NothingHappened'
  <2> SUFFICES ASSUME reasons = 0
               PROVE  /\ thrownOut = FALSE /\ Calling' = {}
                      /\ call[t].new \notin rotated /\ Live \subseteq (IF member THEN {call[t].new} ELSE {})
    BY <1>1, <1>7 DEF NothingHappened
  <2>1. thrownOut = FALSE /\ Alone(t)
    BY <1>2 DEF NothingHappened
  <2>2. "done" \in Late /\ call[t].new # None
    BY <1>1, <1>2 DEF Late, CallsInOrder, None
  <2>3. member = TRUE /\ Live \subseteq {call[t].new}
    BY <1>1, <2>1, <2>2 DEF Alone
  <2>4. call[t].new \notin rotated
    BY <1>2, <2>2 DEF UnheardOf
  <2> QED  BY <1>7, <2>1, <2>3, <2>4
<1> QED  BY <1>7, <1>10, <1>11

LEMMA AccessRejected ==
  ASSUME AccessInv, NEW t \in Tabs, Rejected(t)
  PROVE  AccessInv'
<1> USE DEF AccessInv
<1>1. /\ call[t].kind \in {"login", "refresh"} /\ call[t].step = "refused"
      /\ token' = [token EXCEPT ![t] = None] /\ call' = [call EXCEPT ![t] = Idle]
      /\ UNCHANGED <<hashed, revoked, rotated, created, member, cookie, reasons, thrownOut>>
  BY DEF Rejected, At, sessionVars
<1>2. t \in Calling /\ "refused" \in Early
  BY <1>1, CallIsTyped DEF Early
<1>3. call[t].new = None
  BY <1>1, <1>2 DEF CallsInOrder
<1>4. /\ token' \in [Tabs -> 0 .. created]
      /\ \A v \in Tabs : token'[v] = IF v = t THEN None ELSE token[v]
  BY <1>1 DEF AccessTyped, None
<1>5. reasons' \in 0 .. MaxSessions /\ reasons' >= reasons /\ thrownOut' \in BOOLEAN
      /\ cookie' \in 0 .. created
  BY <1>1 DEF AccessTyped
<1>6. \A u \in Calling \ {t} : call[u].new # None =>
        call[u].new # cookie' /\ \A v \in Tabs : token'[v] # call[u].new
  BY <1>1, <1>4 DEF UnheardOf
<1>7. /\ AccessTyped' /\ CallsInOrder' /\ UnheardOf' /\ Live' = Live
      /\ Unclaimed' \subseteq Unclaimed \union {call[t].new}
      /\ reasons = 0 => Calling' = {}
  BY <1>1, <1>2, <1>4, <1>5, <1>6, CallIsOver
<1>8. Cardinality(Calling') = Cardinality(Calling) - 1
  BY <1>1, <1>2, CallEnds
<1>9. SessionsOwed'
  <2>1. Unclaimed' \subseteq Unclaimed
    BY <1>3, <1>7 DEF Unclaimed, Live, None
  <2> QED  BY <1>2, <1>5, <1>7, <1>8, <2>1, CallOwesOne
<1>10. NothingHappened'
  <2> SUFFICES ASSUME reasons = 0
               PROVE  thrownOut = FALSE /\ Calling' = {} /\ cookie \notin rotated /\ Live = {}
    BY <1>1, <1>7 DEF NothingHappened
  <2>1. thrownOut = FALSE /\ Alone(t)
    BY <1>2 DEF NothingHappened
  <2> QED  BY <1>1, <1>2, <1>7, <2>1 DEF Alone
<1> QED  BY <1>7, <1>9, <1>10

LEMMA AccessMishap ==
  ASSUME AccessInv, NEW t \in Tabs, Mishap(t)
  PROVE  AccessInv'
<1> USE DEF AccessInv
<1>1. /\ call[t] # Idle /\ Count(1)
      /\ token' = [token EXCEPT ![t] = None] /\ call' = [call EXCEPT ![t] = Idle]
      /\ UNCHANGED <<hashed, revoked, rotated, created, member, cookie, thrownOut>>
  BY DEF Mishap, sessionVars
<1>2. t \in Calling
  BY <1>1 DEF Calling
<1>3. /\ token' \in [Tabs -> 0 .. created]
      /\ \A v \in Tabs : token'[v] = IF v = t THEN None ELSE token[v]
  BY <1>1 DEF AccessTyped, None
<1>4. /\ reasons' \in 0 .. MaxSessions /\ reasons' >= reasons
      /\ reasons' >= reasons + 1 \/ reasons' = MaxSessions
  BY <1>1, CountFacts DEF AccessTyped
<1>5. thrownOut' \in BOOLEAN /\ cookie' \in 0 .. created
  BY <1>1 DEF AccessTyped
<1>6. \A u \in Calling \ {t} : call[u].new # None =>
        call[u].new # cookie' /\ \A v \in Tabs : token'[v] # call[u].new
  BY <1>1, <1>3 DEF UnheardOf
<1>7. /\ AccessTyped' /\ CallsInOrder' /\ UnheardOf'
      /\ Unclaimed' \subseteq Unclaimed \union {call[t].new}
  BY <1>1, <1>2, <1>3, <1>4, <1>5, <1>6, CallIsOver
<1>8. Cardinality(Calling') = Cardinality(Calling) - 1
  BY <1>1, <1>2, CallEnds
<1>9. SessionsOwed'
  BY <1>2, <1>4, <1>7, <1>8, CallOwesOne
<1>10. reasons' # 0
  <2>1. MaxSessions >= 1 /\ reasons \in Nat
    BY <1>2, OnlyCall, AccessBoundsAssumption DEF AccessTyped
  <2> QED  BY <1>4, <2>1
<1>11. NothingHappened'
  BY <1>10 DEF NothingHappened
<1> QED  BY <1>7, <1>9, <1>11


LEMMA AccessSignOut ==
  ASSUME AccessInv, NEW t \in Tabs, SignOut(t)
  PROVE  AccessInv'
<1> USE DEF AccessInv
<1> DEFINE n == IF Calling = {} THEN 0 ELSE 1
           mine == token[t]
<1>1. /\ call[t] = Idle /\ mine \in hashed \ revoked /\ member /\ Count(n) /\ n \in Nat
      /\ revoked' = revoked \union {mine} /\ cookie' = None
      /\ token' = [token EXCEPT ![t] = None]
      /\ UNCHANGED <<hashed, rotated, created, member, call, thrownOut>>
  BY DEF SignOut, Served
<1>2. /\ reasons' \in 0 .. MaxSessions /\ reasons' >= reasons
      /\ n = 0 => reasons' = reasons
      /\ n >= 1 => reasons' >= reasons + 1 \/ reasons' = MaxSessions
  BY <1>1, CountFacts DEF AccessTyped
<1>3. mine \in Live /\ mine \in 1 .. created /\ Live' = Live \ {mine} /\ Calling' = Calling
  BY <1>1 DEF Live, Calling, AccessTyped
<1>4. /\ token' \in [Tabs -> 0 .. created]
      /\ \A v \in Tabs : token'[v] = IF v = t THEN None ELSE token[v]
  BY <1>1 DEF AccessTyped, None
<1>5. AccessTyped'
  BY <1>1, <1>2, <1>3, <1>4 DEF AccessTyped, None
<1>6. CallsInOrder'
  BY <1>1, <1>3 DEF CallsInOrder
<1>7. UnheardOf'
  BY <1>1, <1>3, <1>4 DEF UnheardOf
<1>8. Unclaimed' = Unclaimed \ {mine}
  BY <1>1, <1>3 DEF Unclaimed
<1>9. SessionsOwed'
  <2>1. ASSUME NEW u \in Calling, Settles(u)
        PROVE  Settles(u)' \/ (mine \in Unclaimed /\ mine \notin Unclaimed')
    BY <1>1, <1>8, <2>1 DEF Settles
  <2> HIDE DEF mine, n
  <2> QED  BY <1>2, <1>3, <1>8, <2>1, NoMoreIsOwed
<1>10. NothingHappened'
  <2> SUFFICES ASSUME reasons' = 0
               PROVE  /\ thrownOut = FALSE /\ Calling = {} /\ None \notin rotated /\ Live' = {}
    BY <1>1, <1>3 DEF NothingHappened
  <2>1. reasons = 0 /\ Calling = {}
    <3>1. reasons \in Nat
      BY AccessBoundsAssumption DEF AccessTyped
    <3>2. reasons = 0
      BY <1>2, <3>1
    <3>3. ASSUME NEW u \in Calling PROVE FALSE
      <4>1. MaxSessions >= 1 /\ n = 1
        BY OnlyCall
      <4> QED  BY <1>2, <3>1, <4>1, AccessBoundsAssumption
    <3> QED  BY <3>2, <3>3
  <2>2. thrownOut = FALSE /\ Live \subseteq {cookie}
    BY <1>1, <2>1 DEF NothingHappened
  <2>3. None \notin rotated
    BY DEF AccessTyped, None
  <2> QED  BY <1>3, <2>1, <2>2, <2>3
<1> QED  BY <1>5, <1>6, <1>7, <1>9, <1>10

LEMMA AccessSuspend ==
  ASSUME AccessInv, Suspend
  PROVE  AccessInv'
<1> USE DEF AccessInv
<1> DEFINE n == Cardinality(Calling)
<1>1. /\ member' = FALSE /\ revoked' = 1 .. created /\ Count(n)
      /\ UNCHANGED <<hashed, rotated, created, cookie, token, call, thrownOut>>
  BY DEF Suspend, browserVars
<1>2. n \in Nat /\ (Calling = {} <=> n = 0)
  BY SessionsAreFinite, FS_EmptySet DEF AccessTyped
<1> HIDE DEF n
<1>3. /\ reasons' \in 0 .. MaxSessions /\ reasons' >= reasons
      /\ n = 0 => reasons' = reasons
      /\ n >= 1 => reasons' >= reasons + 1 \/ reasons' = MaxSessions
  BY <1>1, <1>2, CountFacts DEF AccessTyped
<1>4. Live' = {} /\ Unclaimed' = {} /\ Calling' = Calling
  BY <1>1 DEF Live, Unclaimed, Calling
<1>5. AccessTyped' /\ CallsInOrder' /\ UnheardOf'
  BY <1>1, <1>3, <1>4 DEF AccessTyped, CallsInOrder, UnheardOf
<1>6. SessionsOwed'
  BY <1>3, <1>4, NothingIsLive
<1>7. NothingHappened'
  <2> SUFFICES ASSUME reasons' = 0
               PROVE  thrownOut = FALSE /\ Calling = {} /\ cookie \notin rotated
    BY <1>1, <1>4 DEF NothingHappened
  <2>1. reasons \in Nat
    BY AccessBoundsAssumption DEF AccessTyped
  <2>2. reasons = 0
    BY <1>3, <2>1
  <2>3. ASSUME NEW u \in Calling PROVE FALSE
    <3>1. MaxSessions >= 1 /\ n >= 1
      BY <1>2, OnlyCall
    <3> QED  BY <1>3, <2>1, <3>1, AccessBoundsAssumption
  <2> QED  BY <2>2, <2>3 DEF NothingHappened
<1> QED  BY <1>5, <1>6, <1>7

LEMMA AccessReinstate ==
  ASSUME AccessInv, Reinstate
  PROVE  AccessInv'
<1> USE DEF AccessInv
<1>1. /\ ~member /\ member' = TRUE
      /\ UNCHANGED <<hashed, revoked, rotated, created, cookie, token, call, reasons, thrownOut>>
  BY DEF Reinstate, browserVars
<1>2. Live' = Live /\ Unclaimed' = Unclaimed /\ Calling' = Calling /\ Owed' = Owed
  BY <1>1 DEF Live, Unclaimed, Calling, Owed
<1>3. AccessTyped' /\ CallsInOrder' /\ UnheardOf'
  BY <1>1, <1>2 DEF AccessTyped, CallsInOrder, UnheardOf
<1>4. \A u \in Calling : Settles(u) => Settles(u)'
  BY <1>1, <1>2 DEF Settles
<1>5. SessionsOwed'
  BY <1>1, <1>2, <1>4 DEF SessionsOwed
<1>6. NothingHappened'
  BY <1>1, <1>2 DEF NothingHappened, Alone
<1> QED  BY <1>3, <1>5, <1>6

LEMMA AccessStep ==
  ASSUME AccessInv, [AccessNext]_accessVars
  PROVE  AccessInv'
<1>1. CASE UNCHANGED accessVars
  <2>1. UNCHANGED <<hashed, revoked, rotated, created, member, cookie, token, call, reasons, thrownOut>>
    BY <1>1 DEF accessVars, sessionVars, browserVars
  <2>2. Live' = Live /\ Unclaimed' = Unclaimed /\ Calling' = Calling /\ Owed' = Owed
    BY <2>1 DEF Live, Unclaimed, Calling, Owed
  <2>3. \A u \in Calling : Settles(u) => Settles(u)'
    BY <2>1, <2>2 DEF Settles
  <2>4. SessionsOwed'
    BY <2>1, <2>2, <2>3 DEF AccessInv, SessionsOwed
  <2>5. AccessTyped' /\ CallsInOrder' /\ UnheardOf' /\ NothingHappened'
    BY <2>1, <2>2 DEF AccessInv, AccessTyped, CallsInOrder, UnheardOf, NothingHappened, Alone
  <2> QED  BY <2>4, <2>5 DEF AccessInv
<1>2. ASSUME NEW t \in Tabs, SignIn(t) PROVE AccessInv'
  <2>1. (Live # {}) \in BOOLEAN
    OBVIOUS
  <2>2. /\ Start(t, "login", Live # {}) /\ UNCHANGED <<sessionVars, browserVars, thrownOut>>
    BY <1>2 DEF SignIn
  <2> QED  BY <2>1, <2>2, CallBegins
<1>3. ASSUME NEW t \in Tabs, Refresh(t) PROVE AccessInv'
  <2>1. /\ cookie # None /\ Start(t, "refresh", FALSE)
        /\ UNCHANGED <<sessionVars, browserVars, thrownOut>>
    BY <1>3 DEF Refresh
  <2> QED  BY <2>1, CallBegins
<1>4. ASSUME NEW t \in Tabs, Serve(t) PROVE AccessInv'
  BY <1>4, AccessVerify, AccessLookUp, AccessCheckMembership, AccessRevokeChain, AccessCreate,
    AccessSetHash, AccessRotate DEF Serve
<1> QED
  BY <1>1, <1>2, <1>3, <1>4, AccessSignOut, AccessAnswered, AccessRejected, AccessMishap,
    AccessSuspend, AccessReinstate DEF AccessNext

\* The count of sessions the property speaks of.
LEMMA SessionsAreCounted == AccessInv => SessionsAreAccountedFor
<1> SUFFICES ASSUME AccessInv PROVE SessionsAreAccountedFor
  OBVIOUS
<1>1. /\ Cardinality(Unclaimed) \in Nat /\ Cardinality(Calling) \in Nat /\ reasons \in Nat
      /\ AccessTyped /\ SessionsOwed /\ NothingHappened
  BY SessionsAreFinite, AccessBoundsAssumption DEF AccessInv, AccessTyped
<1>2. (\E t \in Calling : Settles(t)) => Cardinality(Calling) >= 1
  BY <1>1, FS_EmptySet DEF AccessTyped
<1>3. Cardinality(Unclaimed) <= 1 + reasons
  BY <1>1, <1>2 DEF SessionsOwed, Owed
<1>4. thrownOut => reasons > 0
  BY <1>1 DEF NothingHappened
<1> QED  BY <1>1, <1>3, <1>4 DEF SessionsAreAccountedFor, Unclaimed, NothingHappened

----------------------------------------------------------------------------
(* The screen itself: how many snapshots it awaits, and which boards they  *)
(* may bring.                                                              *)

BagSumIsSum(B) == BagCardinality(B) = SumOf(B)

LEMMA BagCardinalityIsSum == \A B : BagSumIsSum(B)
  BY DEF BagSumIsSum, BagCardinality, SumOf, SumOver, Adds, Pick

\* A bag of boards.
BoardBag(B, S) == DOMAIN B \subseteq S /\ \A b \in DOMAIN B : B[b] \in Nat \ {0}

LEMMA EmptyBagIsEmpty == \A S : BoardBag(EmptyBag, S) /\ BagCardinality(EmptyBag) = 0
<1>1. DOMAIN EmptyBag = {}
  BY DEF EmptyBag, SetToBag
<1>2. SumOf(EmptyBag) = 0
  <2>1. IsFiniteSet(DOMAIN EmptyBag) /\ {} \in SUBSET DOMAIN EmptyBag
    BY <1>1, FS_EmptySet
  <2> QED  BY <1>1, <2>1, SumSteps DEF SumOf
<1> QED  BY <1>1, <1>2, BagCardinalityIsSum DEF BoardBag, BagSumIsSum

\* One board more, or the first of its kind.
LEMMA BoardArrives ==
  ASSUME NEW S, IsFiniteSet(S), NEW B, BoardBag(B, S), NEW x \in S
  PROVE  /\ BoardBag(B (+) SetToBag({x}), S)
         /\ BagCardinality(B) \in Nat
         /\ BagCardinality(B (+) SetToBag({x})) = BagCardinality(B) + 1
<1>1. PICK C : C = B (+) SetToBag({x})
  OBVIOUS
<1>2. /\ DOMAIN C = DOMAIN B \union {x}
      /\ \A b \in DOMAIN C : C[b] = (IF b \in DOMAIN B THEN B[b] ELSE 0) + (IF b = x THEN 1 ELSE 0)
  BY <1>1 DEF (+), SetToBag
<1>3. BoardBag(C, S)
  BY <1>2 DEF BoardBag
<1>4. IsFiniteSet(DOMAIN B) /\ IsFiniteSet(DOMAIN C)
  BY <1>3, FS_Subset DEF BoardBag
<1>5. /\ \A b \in DOMAIN B : B[b] \in Nat
      /\ \A b \in DOMAIN C : C[b] \in Nat
      /\ \A b \in DOMAIN C \ {x} : C[b] = B[b]
      /\ C[x] = 1 + IF x \in DOMAIN B THEN B[x] ELSE 0
  BY <1>2, <1>3 DEF BoardBag
<1>6. SumOf(B) \in Nat /\ SumOf(C) = SumOf(B) + 1
  BY <1>2, <1>4, <1>5, SumOneMore
<1> QED  BY <1>1, <1>3, <1>6, BagCardinalityIsSum DEF BagSumIsSum

\* One board less, or the last of its kind.
LEMMA BoardLeaves ==
  ASSUME NEW S, IsFiniteSet(S), NEW B, BoardBag(B, S), NEW x, BagIn(x, B)
  PROVE  /\ BoardBag(B (-) SetToBag({x}), S)
         /\ BagCardinality(B (-) SetToBag({x})) \in Nat
         /\ BagCardinality(B) = BagCardinality(B (-) SetToBag({x})) + 1
<1>1. PICK C : C = B (-) SetToBag({x})
  OBVIOUS
<1>2. x \in DOMAIN B /\ B[x] \in Nat \ {0}
  BY DEF BagIn, BagToSet, BoardBag
<1>3. PICK rest : rest = [b \in DOMAIN B |-> IF b \in {x} THEN B[b] - 1 ELSE B[b]]
  OBVIOUS
<1>4. C = [b \in {d \in DOMAIN B : rest[d] > 0} |-> rest[b]]
  BY <1>1, <1>3 DEF (-), SetToBag
<1>5. /\ \A b \in DOMAIN B : b # x => rest[b] = B[b] /\ B[b] \in Nat /\ B[b] > 0
      /\ rest[x] = B[x] - 1
  BY <1>2, <1>3 DEF BoardBag
<1>6. /\ DOMAIN C \subseteq DOMAIN B /\ DOMAIN B = DOMAIN C \union {x}
      /\ \A b \in DOMAIN B \ {x} : B[b] = C[b]
      /\ B[x] = 1 + IF x \in DOMAIN C THEN C[x] ELSE 0
  <2>1. /\ DOMAIN C = {d \in DOMAIN B : rest[d] > 0}
        /\ \A b \in DOMAIN C : C[b] = rest[b]
    BY <1>4
  <2>2. x \in DOMAIN C <=> B[x] # 1
    BY <1>2, <1>5, <2>1
  <2>3. B[x] = 1 + IF x \in DOMAIN C THEN C[x] ELSE 0
    BY <1>2, <1>5, <2>1, <2>2
  <2>4. \A b \in DOMAIN B \ {x} : b \in DOMAIN C /\ B[b] = C[b]
    BY <1>5, <2>1
  <2> QED  BY <1>2, <2>1, <2>3, <2>4
<1>7. BoardBag(C, S)
  BY <1>2, <1>4, <1>5 DEF BoardBag
<1>8. IsFiniteSet(DOMAIN B) /\ IsFiniteSet(DOMAIN C)
  BY <1>7, FS_Subset DEF BoardBag
<1>9. (\A b \in DOMAIN B : B[b] \in Nat) /\ (\A b \in DOMAIN C : C[b] \in Nat)
  BY <1>7 DEF BoardBag
<1>10. SumOf(C) \in Nat /\ SumOf(B) = SumOf(C) + 1
  BY <1>2, <1>6, <1>8, <1>9, SumOneMore
<1> QED  BY <1>1, <1>7, <1>10, BagCardinalityIsSum DEF BagSumIsSum

ScreenTyped ==
  /\ changes \in 0 .. MaxChanges /\ published \in 0 .. changes
  /\ shown \in 0 .. changes + 1
  /\ asked \in Nat
  /\ BoardBag(answers, 1 .. changes + 1)
  /\ BagCardinality(answers) \in Nat /\ asked + BagCardinality(answers) <= MaxLoads

LEMMA ScreenInit == KitchenInit => ScreenTyped
<1> SUFFICES ASSUME KitchenInit PROVE ScreenTyped
  OBVIOUS
<1>1. BoardBag(answers, 1 .. changes + 1) /\ BagCardinality(answers) = 0
  BY EmptyBagIsEmpty DEF KitchenInit
<1> QED  BY <1>1, KitchenBoundsAssumption DEF KitchenInit, ScreenTyped

LEMMA ScreenStep ==
  ASSUME ScreenTyped, [KitchenNext]_kitchenVars
  PROVE  ScreenTyped'
<1>1. /\ changes \in Nat /\ changes <= MaxChanges /\ MaxChanges \in Nat
      /\ IsFiniteSet(1 .. changes + 1) /\ MaxLoads \in Nat
  <2>1. changes \in Nat /\ changes <= MaxChanges /\ MaxChanges \in Nat /\ MaxLoads \in Nat
    BY KitchenBoundsAssumption DEF ScreenTyped
  <2> QED  BY <2>1, FS_Interval
\* Steps that leave the boards alone, and may ask for one that is not too many.
<1>2. ASSUME UNCHANGED <<changes, shown, answers>>, published' \in 0 .. changes,
             asked' \in Nat, asked' <= asked \/ (MayLoad /\ asked' = asked + 1)
      PROVE  ScreenTyped'
  <2>1. asked' + BagCardinality(answers) <= MaxLoads
    BY <1>1, <1>2 DEF MayLoad, ScreenTyped
  <2>2. BagCardinality(answers)' = BagCardinality(answers)
    BY <1>2
  <2> QED  BY <1>2, <2>1, <2>2 DEF ScreenTyped, BoardBag
<1>3. CASE UNCHANGED kitchenVars \/ LoadFails \/ Reconcile \/ Obey \/ BreakUp
  BY <1>2, <1>3 DEF ScreenTyped, kitchenVars, screenVars, LoadFails, Reconcile, Obey, BreakUp
<1>4. ASSUME NEW s \in Streams, Streaming(s) PROVE ScreenTyped'
  BY <1>2, <1>4 DEF ScreenTyped, screenVars, Streaming, Connect, Refused, Accepted, Join, Ended
<1>5. CASE PublishChange
  <2>1. published' \in 0 .. changes
    BY <1>1, <1>5 DEF PublishChange, ScreenTyped
  <2> QED  BY <1>2, <1>5, <2>1 DEF ScreenTyped, PublishChange
<1>6. CASE Change
  <2>1. /\ changes' = changes + 1 /\ changes' \in 0 .. MaxChanges
        /\ UNCHANGED <<published, shown, asked, answers>>
    BY <1>1, <1>6 DEF Change, screenVars
  <2>2. BoardBag(answers, 1 .. changes' + 1) /\ published \in 0 .. changes' /\ shown \in 0 .. changes' + 1
    BY <1>1, <2>1 DEF ScreenTyped, BoardBag
  <2> QED  BY <2>1, <2>2 DEF ScreenTyped, BoardBag
<1>7. CASE Snapshot
  <2>1. /\ asked > 0 /\ asked' = asked - 1 /\ UNCHANGED <<changes, published, shown>>
        /\ answers' = answers (+) SetToBag({changes + 1})
    BY <1>7 DEF Snapshot
  <2>2. /\ BoardBag(answers', 1 .. changes + 1)
        /\ BagCardinality(answers') = BagCardinality(answers) + 1
    <3>1. changes + 1 \in 1 .. changes + 1
      BY <1>1
    <3> QED  BY <1>1, <2>1, <3>1, BoardArrives DEF ScreenTyped
  <2>3. /\ asked' \in Nat /\ BagCardinality(answers') \in Nat
        /\ asked' + BagCardinality(answers') <= MaxLoads
    BY <1>1, <2>1, <2>2 DEF ScreenTyped
  <2> QED  BY <2>1, <2>2, <2>3 DEF ScreenTyped, BoardBag
<1>8. ASSUME NEW board, Show(board) PROVE ScreenTyped'
  <2>1. /\ BagIn(board, answers) /\ shown' = board /\ UNCHANGED <<changes, published, asked>>
        /\ answers' = answers (-) SetToBag({board})
    BY <1>8 DEF Show
  <2>2. /\ BoardBag(answers', 1 .. changes + 1) /\ BagCardinality(answers') \in Nat
        /\ BagCardinality(answers) = BagCardinality(answers') + 1
    BY <1>1, <2>1, BoardLeaves DEF ScreenTyped
  <2>3. board \in 0 .. changes + 1
    BY <1>1, <2>1 DEF ScreenTyped, BoardBag, BagIn, BagToSet
  <2>4. asked + BagCardinality(answers') <= MaxLoads
    BY <1>1, <2>2 DEF ScreenTyped
  <2> QED  BY <2>1, <2>2, <2>3, <2>4 DEF ScreenTyped, BoardBag
<1> QED  BY <1>3, <1>4, <1>5, <1>6, <1>7, <1>8 DEF KitchenNext, Loading

----------------------------------------------------------------------------
(* Tokens.  One that is out, or that a call brings, is of a session whose  *)
(* row has its hash; and every call that has no session yet may make one.  *)

MayMake == {t \in Calling : call[t].new = None}

TokensAreHashed ==
  /\ cookie \in hashed \union {None} /\ token \in [Tabs -> hashed \union {None}]
  /\ \A t \in Calling :
       /\ call[t].old \in hashed \union {None}
       /\ call[t].step \in {"rotate", "done"} => call[t].new \in hashed
  /\ mishaps \in 0 .. MaxMishaps
  /\ created + Cardinality(MayMake) <= MaxSessions

LEMMA TokensInitially == AccessInit => TokensAreHashed
<1> SUFFICES ASSUME AccessInit PROVE TokensAreHashed
  OBVIOUS
<1>1. Calling = {} /\ MayMake = {} /\ Cardinality(MayMake) = 0
  BY FS_EmptySet DEF AccessInit, Calling, MayMake
<1> QED  BY <1>1, AccessBoundsAssumption DEF AccessInit, TokensAreHashed

\* Nobody else may make a session, and tokens are of the sessions they were of or of
\* others that have a hash.
LEMMA TokensStay ==
  ASSUME AccessInv, TokensAreHashed, hashed \subseteq hashed', created' = created,
         cookie' \in hashed' \union {None}, token' \in [Tabs -> hashed' \union {None}],
         mishaps' \in 0 .. MaxMishaps, MayMake' \subseteq MayMake,
         \A t \in Calling' :
           /\ call'[t].old \in hashed' \union {None}
           /\ call'[t].step \in {"rotate", "done"} => call'[t].new \in hashed'
  PROVE  TokensAreHashed'
<1>1. IsFiniteSet(MayMake) /\ Cardinality(MayMake) \in Nat /\ Cardinality(MayMake') \in Nat
      /\ Cardinality(MayMake') <= Cardinality(MayMake)
  <2>1. IsFiniteSet(MayMake)
    BY FS_Subset DEF AccessInv, AccessTyped, MayMake
  <2> QED  BY <2>1, Counting
<1>2. created' + Cardinality(MayMake') <= MaxSessions
  BY <1>1, AccessBoundsAssumption DEF TokensAreHashed, AccessInv, AccessTyped
<1> QED  BY <1>2 DEF TokensAreHashed

LEMMA TokensServed ==
  ASSUME AccessInv, TokensAreHashed, NEW t \in Calling, NEW step \in Early \union Late,
         Goto(t, step), UNCHANGED <<created, cookie, token, mishaps>>, hashed \subseteq hashed',
         step \in {"rotate", "done"} => call[t].new \in hashed'
  PROVE  TokensAreHashed'
<1>1. /\ Calling' = Calling /\ call'[t].step = step
      /\ \A u \in Tabs : /\ call'[u].kind = call[u].kind /\ call'[u].old = call[u].old
                         /\ call'[u].new = call[u].new
                         /\ u # t => call'[u].step = call[u].step
  BY CallGoesOn DEF AccessInv
<1>2. Calling \subseteq Tabs
  BY DEF Calling
<1>3. MayMake' \subseteq MayMake
  BY <1>1, <1>2 DEF MayMake
<1>4. \A u \in Calling' :
        /\ call'[u].old \in hashed' \union {None}
        /\ call'[u].step \in {"rotate", "done"} => call'[u].new \in hashed'
  BY <1>1, <1>2 DEF TokensAreHashed
<1> QED  BY <1>3, <1>4, TokensStay DEF TokensAreHashed

LEMMA TokensStep ==
  ASSUME AccessInv, TokensAreHashed, [AccessNext]_accessVars
  PROVE  TokensAreHashed'
<1>0. /\ cookie \in hashed \union {None} /\ token \in [Tabs -> hashed \union {None}]
      /\ \A t \in Calling :
           /\ call[t].old \in hashed \union {None}
           /\ call[t].step \in {"rotate", "done"} => call[t].new \in hashed
      /\ mishaps \in 0 .. MaxMishaps /\ Calling \subseteq Tabs
  BY DEF TokensAreHashed, Calling
<1>1. CASE UNCHANGED <<hashed, created, cookie, token, call, mishaps>>
  <2>1. Calling' = Calling /\ MayMake' = MayMake
    BY <1>1 DEF Calling, MayMake
  <2> QED  BY <1>0, <1>1, <2>1, TokensStay
<1>2. ASSUME NEW t \in Tabs, NEW kind \in {"login", "refresh"}, NEW again, Start(t, kind, again),
             UNCHANGED <<hashed, created, cookie, token, mishaps>>
      PROVE  TokensAreHashed'
  <2>1. /\ t \notin Calling /\ created + Cardinality(Calling) < MaxSessions
        /\ call' = [call EXCEPT ![t] = [kind |-> kind, step |-> "sent", old |-> cookie, new |-> None]]
    BY <1>2 DEF Start, Calling
  <2>2. \A u \in Tabs : call'[u] = IF u = t THEN [kind |-> kind, step |-> "sent",
                                                 old |-> cookie, new |-> None] ELSE call[u]
    BY <2>1 DEF AccessInv, AccessTyped
  <2>3. Calling' \subseteq Calling \union {t} /\ MayMake' \subseteq Calling \union {t}
    BY <2>2 DEF Calling, MayMake
  <2>4. /\ Cardinality(Calling) \in Nat /\ Cardinality(MayMake') \in Nat
        /\ Cardinality(MayMake') <= Cardinality(Calling) + 1
    BY <2>3, Counting DEF AccessInv, AccessTyped
  <2>5. created' + Cardinality(MayMake') <= MaxSessions
    BY <1>2, <2>1, <2>4, AccessBoundsAssumption DEF AccessInv, AccessTyped
  <2>6. \A u \in Calling' :
          /\ call'[u].old \in hashed' \union {None}
          /\ call'[u].step \in {"rotate", "done"} => call'[u].new \in hashed'
    BY <1>0, <1>2, <2>2, <2>3
  <2> QED  BY <1>0, <1>2, <2>5, <2>6 DEF TokensAreHashed
<1>3. ASSUME NEW t \in Calling, call' = [call EXCEPT ![t] = Idle],
             UNCHANGED <<hashed, created>>, cookie' \in hashed \union {None},
             token' \in [Tabs -> hashed \union {None}], mishaps' \in 0 .. MaxMishaps
      PROVE  TokensAreHashed'
  <2>1. Calling' = Calling \ {t} /\ \A u \in Tabs : call'[u] = IF u = t THEN Idle ELSE call[u]
    BY <1>3, CallEnds DEF AccessInv
  <2>2. MayMake' \subseteq MayMake
    BY <1>0, <2>1 DEF MayMake
  <2>3. \A u \in Calling' :
          /\ call'[u].old \in hashed' \union {None}
          /\ call'[u].step \in {"rotate", "done"} => call'[u].new \in hashed'
    BY <1>0, <1>3, <2>1
  <2> QED  BY <1>3, <2>2, <2>3, TokensStay
<1>4. ASSUME NEW t \in Tabs, NEW kind \in SUBSET {"login", "refresh"}, NEW step, At(t, kind, step)
      PROVE  t \in Calling
  BY <1>4 DEF At, Calling, Idle
<1>5. ASSUME NEW t \in Tabs, SignIn(t) \/ Refresh(t) PROVE TokensAreHashed'
  BY <1>2, <1>5 DEF SignIn, Refresh, sessionVars, browserVars
<1>6. ASSUME NEW t \in Tabs, SignOut(t) PROVE TokensAreHashed'
  <2>1. /\ UNCHANGED <<hashed, created, call, mishaps>> /\ cookie' = None
        /\ token' = [token EXCEPT ![t] = None]
    BY <1>6 DEF SignOut
  <2>2. Calling' = Calling /\ MayMake' = MayMake
    BY <2>1 DEF Calling, MayMake
  <2> QED  BY <1>0, <2>1, <2>2, TokensStay
<1>7. ASSUME NEW t \in Tabs, Verify(t) \/ LookUp(t) \/ CheckMembership(t) \/ RevokeChain(t)
      PROVE  TokensAreHashed'
  <2>1. t \in Calling
    BY <1>4, <1>7 DEF Verify, LookUp, CheckMembership, RevokeChain
  <2>2. /\ \E step \in {"issue", "refused", "chain", "membership"} : Goto(t, step)
        /\ UNCHANGED <<created, cookie, token, mishaps, hashed>>
    BY <1>7 DEF Verify, LookUp, CheckMembership, RevokeChain, sessionVars, browserVars
  <2> QED  BY <2>1, <2>2, TokensServed DEF Early
<1>8. ASSUME NEW t \in Tabs, SetHash(t) PROVE TokensAreHashed'
  <2>1. t \in Calling /\ hashed' = hashed \union {call[t].new}
        /\ UNCHANGED <<created, cookie, token, mishaps>>
    BY <1>4, <1>8 DEF SetHash, browserVars
  <2>2. \E step \in {"rotate", "done"} : Goto(t, step)
    BY <1>8 DEF SetHash
  <2> QED  BY <2>1, <2>2, TokensServed DEF Late
<1>9. ASSUME NEW t \in Tabs, Rotate(t) PROVE TokensAreHashed'
  <2>1. /\ t \in Calling /\ call[t].step = "rotate" /\ Goto(t, "done")
        /\ UNCHANGED <<hashed, created, cookie, token, mishaps>>
    BY <1>4, <1>9 DEF Rotate, browserVars, At
  <2> QED  BY <1>0, <2>1, TokensServed DEF Late
<1>10. ASSUME NEW t \in Tabs, CreateSession(t) PROVE TokensAreHashed'
  <2>1. /\ t \in Calling /\ call[t].step = "issue" /\ created' = created + 1
        /\ call' = [call EXCEPT ![t] = [call[t] EXCEPT !.step = "hash", !.new = created + 1]]
        /\ UNCHANGED <<hashed, cookie, token, mishaps>>
    BY <1>4, <1>10 DEF CreateSession, browserVars, At
  <2>2. call[t] \in Attempt /\ call[t].new = None /\ created \in Nat
    BY <1>0, <2>1 DEF AccessInv, AccessTyped, CallsInOrder, Early
  <2>3. /\ call'[t].new = created + 1 /\ call'[t].old = call[t].old /\ call'[t].step = "hash"
        /\ \A u \in Tabs : u # t => call'[u] = call[u]
    BY <1>0, <2>1, <2>2 DEF AccessInv, AccessTyped, Attempt
  <2>4. MayMake' \subseteq MayMake \ {t} /\ t \in MayMake
    BY <1>0, <2>1, <2>2, <2>3 DEF MayMake, Calling, None
  <2>5. /\ Cardinality(MayMake) \in Nat /\ Cardinality(MayMake') \in Nat
        /\ Cardinality(MayMake') <= Cardinality(MayMake) - 1
    <3>1. IsFiniteSet(MayMake)
      BY FS_Subset DEF AccessInv, AccessTyped, MayMake
    <3>2. MayMake' \subseteq MayMake /\ t \notin MayMake'
      BY <2>4
    <3> QED  BY <2>4, <3>1, <3>2, Counting
  <2>6. created' + Cardinality(MayMake') <= MaxSessions
    BY <2>1, <2>2, <2>5, AccessBoundsAssumption DEF TokensAreHashed
  <2>7. Calling' \subseteq Calling
    BY <1>0, <2>1, <2>3 DEF Calling
  <2>8. \A u \in Calling' :
          /\ call'[u].old \in hashed' \union {None}
          /\ call'[u].step \in {"rotate", "done"} => call'[u].new \in hashed'
    BY <1>0, <2>1, <2>3, <2>7
  <2> QED  BY <1>0, <2>1, <2>6, <2>8 DEF TokensAreHashed
<1>11. ASSUME NEW t \in Tabs, Answered(t) \/ Rejected(t) \/ Mishap(t) PROVE TokensAreHashed'
  <2>1. /\ t \in Calling /\ call' = [call EXCEPT ![t] = Idle] /\ UNCHANGED <<hashed, created>>
    BY <1>4, <1>11 DEF Answered, Rejected, Mishap, sessionVars, Calling
  <2>2. CASE Answered(t)
    <3>1. call[t].new \in hashed /\ cookie' = call[t].new
          /\ token' = [token EXCEPT ![t] = call[t].new] /\ mishaps' = mishaps
      BY <1>0, <2>1, <2>2 DEF Answered, At
    <3> QED  BY <1>0, <1>3, <2>1, <3>1
  <2>3. CASE Rejected(t) \/ Mishap(t)
    <3>1. /\ cookie' = cookie /\ token' = [token EXCEPT ![t] = None]
          /\ mishaps' = mishaps \/ (mishaps < MaxMishaps /\ mishaps' = mishaps + 1)
      BY <2>3 DEF Rejected, Mishap
    <3>2. mishaps' \in 0 .. MaxMishaps
      BY <1>0, <3>1, AccessBoundsAssumption
    <3> QED  BY <1>0, <1>3, <2>1, <3>1, <3>2
  <2> QED  BY <1>11, <2>2, <2>3
<1>12. CASE Suspend \/ Reinstate
  <2>1. /\ UNCHANGED <<hashed, created, cookie, token, call>>
        /\ mishaps' = mishaps \/ (mishaps < MaxMishaps /\ mishaps' = mishaps + 1)
    BY <1>12 DEF Suspend, Reinstate, browserVars
  <2>2. Calling' = Calling /\ MayMake' = MayMake
    BY <2>1 DEF Calling, MayMake
  <2>3. mishaps' \in 0 .. MaxMishaps
    BY <1>0, <2>1, AccessBoundsAssumption
  <2> QED  BY <1>0, <2>1, <2>2, <2>3, TokensStay
<1>13. CASE UNCHANGED accessVars
  BY <1>1, <1>13 DEF accessVars, sessionVars, browserVars
<1> QED  BY <1>5, <1>6, <1>7, <1>8, <1>9, <1>10, <1>11, <1>12, <1>13 DEF AccessNext, Serve

----------------------------------------------------------------------------
(* The back office.  The four components share no state, so each keeps its *)
(* own invariant whichever of them a behaviour is one of.                  *)

BackOfficeInv ==
  StaffInv /\ MenuInv /\ StreamsInv /\ ScreenTyped /\ AccessInv /\ TokensAreHashed

LEMMA BackOfficeStep ==
  ASSUME BackOfficeInv, [Next]_vars
  PROVE  BackOfficeInv'
<1>1. /\ [StaffingNext]_staffingVars /\ [CatalogueNext]_catalogueVars
      /\ [KitchenNext]_kitchenVars /\ [AccessNext]_accessVars
  BY DEF Next, vars
<1> QED  BY <1>1, StaffStep, MenuStep, StreamsStep, ScreenStep, AccessStep, TokensStep
            DEF BackOfficeInv

THEOREM BackOfficeCorrect == Spec => []BackOfficeInv
<1>1. Init => BackOfficeInv
  BY StaffInit, MenuInit, StreamsInit, ScreenInit, AccessInitially, TokensInitially
     DEF Init, BackOfficeInv
<1>2. BackOfficeInv /\ [Next]_vars => BackOfficeInv'
  BY BackOfficeStep
<1> QED  BY <1>1, <1>2, PTL DEF Spec, Steps

(***************************************************************************)
(* Staffing: whatever requests meet, a member has the roles and branches   *)
(* last written and no others but what came meanwhile; nobody is left in   *)
(* charge only by a request that outlived its author's own charge; roles   *)
(* come from one who held what they permit; and who was a member once is   *)
(* let in again by another's change of status only.                        *)
(***************************************************************************)
THEOREM StaffStaysInOrder == Spec => StaffIsInOrder
<1>1. BackOfficeInv => ListsAreAsAsked
  BY DEF BackOfficeInv, StaffInv
<1>2. BackOfficeInv /\ [Next]_vars => [LastOneStays /\ GrantsAreHeld /\ ReturnIsDecided]_staffingVars
  <2>1. [Next]_vars => [StaffingNext]_staffingVars
    BY DEF Next, vars
  <2> QED  BY <2>1, StaffStep DEF BackOfficeInv, StaffBounds
<1>3. Spec => [][Next]_vars
  BY DEF Spec, Steps
<1> QED  BY <1>1, <1>2, <1>3, BackOfficeCorrect, PTL DEF StaffIsInOrder

(***************************************************************************)
(* Catalogue: the bot and the cart agree; a group whose rule nobody wrote  *)
(* over unread has a choice the cart accepts, as long as it has enough     *)
(* options; and lists of groups written at once mix no further than with   *)
(* those that were written meanwhile.                                      *)
(***************************************************************************)
THEOREM MenuStaysCoherent == Spec => []MenuIsCoherent
<1>1. BackOfficeInv => MenuIsCoherent
  BY BotAgreesWithCart, WellFormedIsSatisfiable DEF BackOfficeInv, MenuInv, MenuIsCoherent
<1> QED  BY <1>1, BackOfficeCorrect, PTL

(***************************************************************************)
(* KitchenScreen: Redis is subscribed exactly while the channel has an     *)
(* entry, and a stream nobody overlapped is heard.                         *)
(***************************************************************************)
THEOREM StreamsStayHeard == Spec => []StreamsAreHeard
<1>1. BackOfficeInv => StreamsAreHeard
  BY DEF BackOfficeInv, StreamsInv, StreamsAreHeard, LastWordIsEntry, LastWord
<1> QED  BY <1>1, BackOfficeCorrect, PTL

(***************************************************************************)
(* Access: every live session beyond the one in use is owed to a call that *)
(* met another, was lost or signed in again, for any number of tabs.       *)
(***************************************************************************)
THEOREM SessionsStayAccountedFor == Spec => []SessionsAreAccountedFor
<1>1. BackOfficeInv => SessionsAreAccountedFor
  BY SessionsAreCounted DEF BackOfficeInv
<1> QED  BY <1>1, BackOfficeCorrect, PTL

(***************************************************************************)
(* Type correctness of the four parts: among it that a token that is out   *)
(* is of a session whose row has its hash, that a call never makes more    *)
(* sessions than there may be, that a screen awaits no more snapshots than *)
(* it may, however their answers pile up, and that listeners are live.     *)
(***************************************************************************)
THEOREM TypeCorrect == Spec => []TypeOK
<1>1. StaffInv => StaffingTypeOK
  <2> SUFFICES ASSUME StaffInv PROVE StaffingTypeOK
    OBVIOUS
  <2>1. \A p \in People : request[p] \in Asked \union {NoRequest}
    BY DEF StaffInv, RequestsTyped
  <2>2. \A p \in People :
          request[p].step \in {"none", "find", "create", "add known", "add new", "insert",
                              "readmit", "fill", "load", "write"}
    <3>1. NoRequest.step = "none"
      BY DEF NoRequest
    <3>2. \A a \in Asked : a.step \in {"find", "create", "add known", "add new", "insert",
                                       "readmit", "fill", "load", "write"}
      BY DEF Asked
    <3> QED  BY <2>1, <3>1, <3>2
  <2>3. \A list \in Lists, p \in People :
          ordered[list][p] \union mingled[list][p] \subseteq Roles \union Branches
    BY DEF StaffInv, StaffTyped, Items
  <2> QED  BY <2>2, <2>3 DEF StaffInv, StaffTyped, StaffingTypeOK
<1>2. MenuInv => CatalogueTypeOK
  <2> SUFFICES ASSUME MenuInv PROVE CatalogueTypeOK
    OBVIOUS
  <2>1. \A g \in Groups : group[g] # NoGroup => group[g] \in GroupRow
    BY DEF MenuInv, MenuTyped
  <2>2. /\ \A g \in Groups : group[g] = NoGroup => available[g] = {} /\ g \notin attached
        /\ lopsided \subseteq {g \in Groups : group[g] # NoGroup}
    BY DEF MenuInv, MenuTyped, There
  <2> QED  BY <2>1, <2>2 DEF MenuInv, MenuTyped, GroupRow, CatalogueTypeOK
<1>3. StreamsInv /\ ScreenTyped => KitchenTypeOK
  <2> SUFFICES ASSUME StreamsInv, ScreenTyped PROVE KitchenTypeOK
    OBVIOUS
  <2>1. entry.listeners \subseteq {s \in Streams : at[s] = "live"}
    BY DEF StreamsInv, StreamsTyped, ListenersAreLive
  <2>2. asked + BagCardinality(answers) \in 0 .. MaxLoads
    BY KitchenBoundsAssumption DEF ScreenTyped
  <2>3. BagToSet(answers) \subseteq 1 .. changes + 1
    BY DEF ScreenTyped, BoardBag, BagToSet
  <2> QED  BY <2>1, <2>2, <2>3 DEF StreamsInv, StreamsTyped, ScreenTyped, KitchenTypeOK
<1>4. AccessInv /\ TokensAreHashed => AccessTypeOK
  <2> SUFFICES ASSUME AccessInv, TokensAreHashed PROVE AccessTypeOK
    OBVIOUS
  <2>1. created \in 0 .. MaxSessions
    <3>1. IsFiniteSet(MayMake)
      BY FS_Subset DEF AccessInv, AccessTyped, MayMake
    <3>2. Cardinality(MayMake) \in Nat
      BY <3>1, FS_CardinalityType
    <3> QED  BY <3>2, AccessBoundsAssumption DEF AccessInv, AccessTyped, TokensAreHashed
  <2>2. ASSUME NEW t \in Tabs, call[t] # Idle
        PROVE  /\ call[t].kind \in {"login", "refresh"} /\ call[t].old \in hashed \union {None}
               /\ call[t].new \in 0 .. created
    <3>1. t \in Calling
      BY <2>2 DEF Calling
    <3>2. call[t].kind # "idle"
      BY <3>1 DEF AccessInv, CallsInOrder
    <3> QED  BY <3>1, <3>2, CallIsTyped DEF AccessInv, TokensAreHashed
  <2> QED  BY <2>1, <2>2 DEF AccessInv, AccessTyped, TokensAreHashed, AccessTypeOK
<1>5. BackOfficeInv => TypeOK
  BY <1>1, <1>2, <1>3, <1>4 DEF BackOfficeInv, TypeOK
<1> QED  BY <1>5, BackOfficeCorrect, PTL

----------------------------------------------------------------------------
(* What of BoardCatchesUp is safety.                                       *)

LEMMA ScreenStaysUpToDate ==
  ASSUME ScreenTyped, [KitchenNext]_kitchenVars, changes' = changes, UpToDate
  PROVE  UpToDate'
<1>1. changes \in Nat /\ shown = changes + 1 /\ DOMAIN answers \subseteq {changes + 1}
  BY KitchenBoundsAssumption DEF ScreenTyped, UpToDate, BagToSet
<1>2. ASSUME UNCHANGED <<shown, answers>> PROVE UpToDate'
  BY <1>1, <1>2 DEF UpToDate, BagToSet
<1>3. CASE Snapshot
  <2>1. shown' = shown /\ answers' = answers (+) SetToBag({changes + 1})
    BY <1>3 DEF Snapshot
  <2>2. DOMAIN answers' = DOMAIN answers \union {changes + 1}
    BY <2>1 DEF (+), SetToBag
  <2> QED  BY <1>1, <2>1, <2>2 DEF UpToDate, BagToSet
<1>4. ASSUME NEW board, Show(board) PROVE UpToDate'
  <2>1. /\ BagIn(board, answers) /\ shown' = board
        /\ answers' = answers (-) SetToBag({board})
    BY <1>4 DEF Show
  <2>2. board = changes + 1
    BY <1>1, <2>1 DEF BagIn, BagToSet
  <2>3. DOMAIN answers' \subseteq DOMAIN answers
    BY <2>1 DEF (-)
  <2> QED  BY <1>1, <2>1, <2>2, <2>3 DEF UpToDate, BagToSet
<1>5. CASE UNCHANGED kitchenVars \/ LoadFails \/ Reconcile \/ Obey \/ BreakUp \/ PublishChange
  BY <1>2, <1>5 DEF kitchenVars, screenVars, LoadFails, Reconcile, Obey, BreakUp, PublishChange
<1>6. ASSUME NEW s \in Streams, Streaming(s) PROVE UpToDate'
  BY <1>2, <1>6 DEF screenVars, Streaming, Connect, Refused, Accepted, Join, Ended
<1>7. CASE Change
  BY <1>1, <1>7 DEF Change
<1> QED  BY <1>3, <1>4, <1>5, <1>6, <1>7 DEF KitchenNext, Loading

(***************************************************************************)
(* The safety half of BoardCatchesUp: a board that shows the orders as     *)
(* they are, with no older answer on its way, shows them until they change *)
(* again, whatever becomes of streams, loads and polls.                    *)
(***************************************************************************)
THEOREM BoardStaysUpToDate == Spec => StaysUpToDate
<1>1. BackOfficeInv /\ [Next]_vars =>
        [changes' = changes /\ UpToDate => UpToDate']_kitchenVars
  <2> SUFFICES ASSUME BackOfficeInv, [Next]_vars, changes' = changes, UpToDate
               PROVE  UpToDate'
    OBVIOUS
  <2>1. [KitchenNext]_kitchenVars
    BY DEF Next, vars
  <2> QED  BY <2>1, ScreenStaysUpToDate DEF BackOfficeInv
<1> QED  BY <1>1, BackOfficeCorrect, PTL DEF Spec, Steps, StaysUpToDate
=============================================================================
