------------------------------- MODULE Access -------------------------------
(***************************************************************************)
(* Signing in and staying signed in: AuthService (apps/api/src/auth/), the *)
(* browser that calls it (apps/dashboard/src/lib/api-client.ts) and the    *)
(* manager who suspends a member (apps/api/src/staff/staff.service.ts).    *)
(*                                                                         *)
(* One member of one organization, in one browser: the refresh cookie is   *)
(* the browser's, the access token each tab's own.  A token stands for the *)
(* session it was signed for.  withoutTenant and forTenant commit by       *)
(* themselves, so every statement of login and refresh is a step; the      *)
(* cookie travels with the answer.  Passwords, the count of failed         *)
(* sign-ins and roles are not modelled.                                    *)
(***************************************************************************)
EXTENDS Naturals, FiniteSets

CONSTANTS
  Tabs,
  MaxSessions,    \* bound: rows of the sessions table, named by their order
  MaxMishaps      \* bound: lost answers, deaths of the API, and suspensions

ASSUME AccessBoundsAssumption == MaxSessions \in Nat /\ MaxMishaps \in Nat

None == 0

VARIABLES
  hashed,      \* sessions whose row has the hash of a token that was signed
  revoked,     \* sessions with a revokedAt
  rotated,     \* those whose revokedReason is ROTATED
  created,     \* how many rows there are
  member,      \* memberships.status is ACTIVE
  cookie,      \* the session of the refresh cookie
  token,       \* the session of each tab's access token
  call,        \* what each tab awaits
  reasons,     \* history variable: calls that met another, were lost, or signed in again
  thrownOut,   \* history variable: a member's own token was taken for a stolen one
  mishaps

sessionVars == <<hashed, revoked, rotated, created, member>>
browserVars == <<cookie, token>>
accessVars == <<sessionVars, browserVars, call, reasons, thrownOut, mishaps>>

Idle == [kind |-> "idle", step |-> "idle", old |-> None, new |-> None]

AccessInit ==
  /\ hashed = {}
  /\ revoked = {}
  /\ rotated = {}
  /\ created = 0
  /\ member = TRUE
  /\ cookie = None
  /\ token = [t \in Tabs |-> None]
  /\ call = [t \in Tabs |-> Idle]
  /\ reasons = 0
  /\ thrownOut = FALSE
  /\ mishaps = 0

Live == (1 .. created) \ revoked

\* JwtAuthGuard and resolveAuthContext, which every request goes through.
Served(t) == token[t] \in hashed \ revoked /\ member

----------------------------------------------------------------------------
(* The browser.                                                            *)

Calling == {t \in Tabs : call[t] # Idle}

\* Counting stops at the number of sessions there can be.
Count(n) == reasons' = IF reasons + n < MaxSessions THEN reasons + n ELSE MaxSessions

Start(t, kind, again) ==
  /\ call[t] = Idle
  /\ created + Cardinality(Calling) < MaxSessions
  /\ call' = [call EXCEPT ![t] = [kind |-> kind, step |-> "sent",
                                  old |-> cookie, new |-> None]]
  /\ Count(IF again \/ Calling # {} THEN 1 ELSE 0)

\* login(), perhaps over a session that another tab still has.
SignIn(t) ==
  /\ token[t] = None
  /\ Start(t, "login", Live # {})
  /\ UNCHANGED <<sessionVars, browserVars, thrownOut, mishaps>>

\* refreshSession(): on opening the page, or after a 401, which an access token
\* that ran out also gets.  A tab shares its one refresh among its requests; the
\* other tabs know nothing of it.
Refresh(t) ==
  /\ cookie # None
  /\ Start(t, "refresh", FALSE)
  /\ UNCHANGED <<sessionVars, browserVars, thrownOut, mishaps>>

\* logout() in one step: the guard, updateMany, and the answer that clears the cookie.  A
\* refresh that gets in between is one that took the cookie before and is served after.
SignOut(t) ==
  /\ call[t] = Idle
  /\ Served(t)
  /\ revoked' = revoked \union {token[t]}
  /\ cookie' = None
  /\ token' = [token EXCEPT ![t] = None]
  /\ Count(IF Calling = {} THEN 0 ELSE 1)
  /\ UNCHANGED <<hashed, rotated, created, member, call, thrownOut, mishaps>>

At(t, kind, step) == call[t].kind \in kind /\ call[t].step = step
Goto(t, step) == call' = [call EXCEPT ![t].step = step]

\* The answer to a call that went through: a new cookie and a new access token.
Answered(t) ==
  /\ At(t, {"login", "refresh"}, "done")
  /\ cookie' = call[t].new
  /\ token' = [token EXCEPT ![t] = call[t].new]
  /\ call' = [call EXCEPT ![t] = Idle]
  /\ UNCHANGED <<sessionVars, reasons, thrownOut, mishaps>>

\* An error: the tab has no token and shows the sign-in page.
Rejected(t) ==
  /\ At(t, {"login", "refresh"}, "refused")
  /\ token' = [token EXCEPT ![t] = None]
  /\ call' = [call EXCEPT ![t] = Idle]
  /\ UNCHANGED <<sessionVars, cookie, reasons, thrownOut, mishaps>>

\* The API dies in the middle, or its answer is lost.
Mishap(t) ==
  /\ call[t] # Idle
  /\ mishaps < MaxMishaps
  /\ mishaps' = mishaps + 1
  /\ Count(1)
  /\ token' = [token EXCEPT ![t] = None]
  /\ call' = [call EXCEPT ![t] = Idle]
  /\ UNCHANGED <<sessionVars, cookie, thrownOut>>

----------------------------------------------------------------------------
(* AuthService.                                                            *)

\* login(): the password is right; the memberships decide.
Verify(t) ==
  /\ At(t, {"login"}, "sent")
  /\ Goto(t, IF member THEN "issue" ELSE "refused")
  /\ UNCHANGED <<sessionVars, browserVars, reasons, thrownOut, mishaps>>

\* refresh(): a token whose session is revoked was captured, it is thought.
LookUp(t) ==
  /\ At(t, {"refresh"}, "sent")
  /\ IF call[t].old \in revoked
     THEN Goto(t, "chain") /\ thrownOut' = (thrownOut \/ call[t].old \in rotated)
     ELSE Goto(t, "membership") /\ UNCHANGED thrownOut
  /\ UNCHANGED <<sessionVars, browserVars, reasons, mishaps>>

CheckMembership(t) ==
  /\ At(t, {"refresh"}, "membership")
  /\ Goto(t, IF member THEN "issue" ELSE "chain")
  /\ UNCHANGED <<sessionVars, browserVars, reasons, thrownOut, mishaps>>

\* revokeChain: every session of the member in this organization.
RevokeChain(t) ==
  /\ At(t, {"refresh"}, "chain")
  /\ revoked' = 1 .. created
  /\ Goto(t, "refused")
  /\ UNCHANGED <<hashed, rotated, created, member, browserVars, reasons, thrownOut, mishaps>>

\* issueSession: the row exists before its token is signed, under a hash that
\* no token has.
CreateSession(t) ==
  /\ At(t, {"login", "refresh"}, "issue")
  /\ created' = created + 1
  /\ call' = [call EXCEPT ![t] = [call[t] EXCEPT !.step = "hash", !.new = created + 1]]
  /\ UNCHANGED <<hashed, revoked, rotated, member, browserVars, reasons, thrownOut, mishaps>>

\* Mutant: the row of a first sign-in keeps the hash that no token has.
SetHashOnRefresh(t) ==
  /\ At(t, {"login", "refresh"}, "hash")
  /\ hashed' = IF call[t].kind = "refresh" THEN hashed \union {call[t].new} ELSE hashed
  /\ Goto(t, IF call[t].kind = "refresh" THEN "rotate" ELSE "done")
  /\ UNCHANGED <<revoked, rotated, created, member, browserVars, reasons, thrownOut, mishaps>>

\* The hash is written whatever became of the row in between.
SetHash(t) ==
  /\ At(t, {"login", "refresh"}, "hash")
  /\ hashed' = hashed \union {call[t].new}
  /\ Goto(t, IF call[t].kind = "refresh" THEN "rotate" ELSE "done")
  /\ UNCHANGED <<revoked, rotated, created, member, browserVars, reasons, thrownOut, mishaps>>

\* Mutant: the session that was rotated is left as it is.
RotateNothing(t) ==
  /\ At(t, {"refresh"}, "rotate")
  /\ Goto(t, "done")
  /\ UNCHANGED <<sessionVars, browserVars, reasons, thrownOut, mishaps>>

\* The old session is revoked after the new one was issued, by id alone.
Rotate(t) ==
  /\ At(t, {"refresh"}, "rotate")
  /\ revoked' = revoked \union {call[t].old}
  /\ rotated' = rotated \union {call[t].old}
  /\ Goto(t, "done")
  /\ UNCHANGED <<hashed, created, member, browserVars, reasons, thrownOut, mishaps>>

Serve(t) ==
  \/ Verify(t) \/ LookUp(t) \/ CheckMembership(t) \/ RevokeChain(t)
  \/ CreateSession(t) \/ SetHash(t) \/ Rotate(t)

----------------------------------------------------------------------------
(* StaffService.update.                                                    *)

Suspend ==
  /\ member
  /\ mishaps < MaxMishaps
  /\ mishaps' = mishaps + 1
  /\ member' = FALSE
  /\ revoked' = 1 .. created
  /\ Count(Cardinality(Calling))
  /\ UNCHANGED <<hashed, rotated, created, browserVars, call, thrownOut>>

Reinstate ==
  /\ ~member
  /\ member' = TRUE
  /\ UNCHANGED <<hashed, revoked, rotated, created, browserVars, call, reasons, thrownOut,
                 mishaps>>

AccessNext ==
  \/ \E t \in Tabs :
       \/ SignIn(t) \/ Refresh(t) \/ SignOut(t)
       \/ Serve(t)
       \/ Answered(t) \/ Rejected(t) \/ Mishap(t)
  \/ Suspend \/ Reinstate

----------------------------------------------------------------------------
\* Type correctness.  A token that is out is one of a session whose row has its hash.
AccessTypeOK ==
  /\ created \in 0 .. MaxSessions
  /\ hashed \subseteq 1 .. created
  /\ rotated \subseteq revoked /\ revoked \subseteq 1 .. created
  /\ member \in BOOLEAN
  /\ cookie \in hashed \union {None}
  /\ token \in [Tabs -> hashed \union {None}]
  /\ \A t \in Tabs : call[t] # Idle =>
       /\ call[t].kind \in {"login", "refresh"}
       /\ call[t].old \in hashed \union {None}
       /\ call[t].new \in 0 .. created
  /\ mishaps \in 0 .. MaxMishaps

(***************************************************************************)
(* "Each refresh issues a new session row and revokes the old one":        *)
(* whatever tabs, deaths and suspensions do, every live session beyond the *)
(* one in use is owed to a call that met another one, was lost, or signed  *)
(* in again, and a member whose calls did nothing of the kind has no other *)
(* session than the browser's, none when suspended, and is never thrown    *)
(* out because a token of his own was taken for a stolen one.              *)
(***************************************************************************)
SessionsAreAccountedFor ==
  /\ Cardinality(Live \ {call[t].new : t \in Tabs}) <= 1 + reasons
  /\ reasons = 0 /\ Calling = {} => Live \subseteq (IF member THEN {cookie} ELSE {})
  /\ thrownOut => reasons > 0
=============================================================================
