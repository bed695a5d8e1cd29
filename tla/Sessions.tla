------------------------------ MODULE Sessions ------------------------------
(***************************************************************************)
(* Sessions: AuthService.login, refresh and logout with the repository     *)
(* queries they await, and the table refresh_tokens.  Requests interleave  *)
(* at every await, with each other and with any change the directory may   *)
(* make; time passes and tokens expire meanwhile; a query may reject or    *)
(* the process may die between two steps.                                  *)
(*                                                                         *)
(* A request issues at most one refresh token, so the token is named by    *)
(* the request.  Clients present only tokens they were handed: any other   *)
(* string has no row and is answered as a revoked token is.                *)
(*                                                                         *)
(* stale, reused and lapsed are history variables: no guard reads them.    *)
(***************************************************************************)
EXTENDS Directory, Naturals

CONSTANTS
  Requests,     \* the requests clients send, each handled once
  RefreshTTL    \* lifetime of a refresh token (JWT_REFRESH_TTL_SECONDS)

ASSUME TTLIsPositive == RefreshTTL \in Nat \ {0}
ASSUME NoneIsNoRequest == None \notin Requests

VARIABLES
  token,     \* token[r]: the refresh_tokens row request r created, or None
  pc,        \* where each request is
  call,      \* the request itself
  payload,   \* the claims it is about to sign: user, tenant and role
  reply,     \* what the client was answered
  trace,     \* whether its audit event is in the table or in the error log
  stale,     \* history: a fact it had checked changed before it issued
  reused,    \* history: it presented a token that had been redeemed
  lapsed     \* history: lapsed[o][u], time since u could last enter tenant o

reqVars == <<pc, call, payload, reply, trace, stale, reused>>
vars == <<membership, account, token, reqVars, lapsed>>

Stages == {"idle", "sent", "refuse", "select", "member", "issue", "revoke",
           "audit", "done"}
Replies == {"none", "ok", "unauthorized", "badRequest", "error"}
Refusals == {"unauthorized", "badRequest"}

\* A login names a user and perhaps a tenant; the password is right or wrong.
Login == [op: {"login"}, user: Users, org: Orgs \cup {None}]
Redemption == [op: {"refresh", "logout"}, token: Requests]
Call == Login \cup Redemption

\* JwtPayload.
Claims == [user: Users, org: Orgs, role: Roles]

\* left is expires_at minus now; revoked tells whether revoked_at is set.
Row == [ user: Users, org: Orgs, left: 0..RefreshTTL, revoked: BOOLEAN,
         replacedBy: Requests \cup {None} ]

ASSUME NoneIsNoRecord == None \notin Call \cup Claims \cup Row

TypeOK ==
  /\ DirTypeOK
  /\ token \in [Requests -> Row \cup {None}]
  /\ pc \in [Requests -> Stages]
  /\ call \in [Requests -> Call \cup {None}]
  /\ payload \in [Requests -> Claims \cup {None}]
  /\ reply \in [Requests -> Replies]
  /\ trace \in [Requests -> BOOLEAN]
  /\ stale \in [Requests -> BOOLEAN]
  /\ reused \in [Requests -> BOOLEAN]
  /\ lapsed \in [Orgs -> [Users -> 0..RefreshTTL]]

-----------------------------------------------------------------------------
Is(r, op) == call[r] # None /\ call[r].op = op
Redeems(r) == Is(r, "refresh") \/ Is(r, "logout")

\* Mutant: revoked rows are returned too.
ActiveOrRevoked(t) == token[t] # None /\ token[t].left > 0

\* findActiveByHash returns the row: neither revoked nor expired.
Active(t) == token[t] # None /\ ~token[t].revoked /\ token[t].left > 0

\* The user a request acts for.
Subject(r) == IF Is(r, "login") THEN call[r].user ELSE token[call[r].token].user

\* listForUser.
Tenants(u) == {o \in Orgs : IsMember(o, u)}

\* The tenant a login enters: the one it names, or the only one there is.
Chosen(r, o) ==
  /\ o \in Tenants(call[r].user)
  /\ IF call[r].org # None THEN o = call[r].org ELSE Tenants(call[r].user) = {o}

\* The user could log in to the tenant or refresh a token of it.
Entitled(o, u) == IsMember(o, u) /\ account[u] = "active"

\* The pair has reached the client.
Delivered(t) == token[t] # None /\ reply[t] = "ok"

\* A refresh or logout that presented t has been answered.
Redeemed(t) == \E q \in Requests : Redeems(q) /\ call[q].token = t /\ reply[q] = "ok"

Answer(r, response) ==
  /\ pc' = [pc EXCEPT ![r] = "done"]
  /\ reply' = [reply EXCEPT ![r] = response]
  /\ UNCHANGED <<dirVars, token, call, payload, trace, stale, reused, lapsed>>

Proceed(r, stage) ==
  /\ pc' = [pc EXCEPT ![r] = stage]
  /\ UNCHANGED <<dirVars, call, reply, trace, stale, reused, lapsed>>

-----------------------------------------------------------------------------
Send(r) ==
  /\ pc[r] = "idle"
  /\ \E c \in Call :
       /\ c \in Redemption => Delivered(c.token)
       /\ call' = [call EXCEPT ![r] = c]
       /\ reused' = [reused EXCEPT ![r] = c \in Redemption /\ Redeemed(c.token)]
  /\ pc' = [pc EXCEPT ![r] = "sent"]
  /\ UNCHANGED <<dirVars, token, payload, reply, trace, stale, lapsed>>

\* login: the account is active and the password is right.
LoginVerify(r) ==
  /\ pc[r] = "sent" /\ Is(r, "login")
  /\ account[call[r].user] = "active"
  /\ Proceed(r, "select")
  /\ UNCHANGED <<token, payload>>

\* ... or one of them is not (any password may be wrong), which is audited
\* before the answer.
LoginReject(r) ==
  /\ pc[r] = "sent" /\ Is(r, "login")
  /\ Proceed(r, "refuse")
  /\ UNCHANGED <<token, payload>>

\* LOGIN_FAILED, then 401.
RecordFailure(r) ==
  /\ pc[r] = "refuse"
  /\ trace' = [trace EXCEPT ![r] = TRUE]
  /\ pc' = [pc EXCEPT ![r] = "done"]
  /\ reply' = [reply EXCEPT ![r] = "unauthorized"]
  /\ UNCHANGED <<dirVars, token, call, payload, stale, reused, lapsed>>

\* login: the memberships are read and one of them gives the role to sign.
LoginSelect(r) ==
  /\ pc[r] = "select"
  /\ \E o \in Orgs :
       /\ Chosen(r, o)
       /\ payload' = [payload EXCEPT ![r] =
            [user |-> call[r].user, org |-> o, role |-> membership[o][call[r].user]]]
  /\ Proceed(r, "issue")
  /\ UNCHANGED token

\* No membership at all is 401, none that fits is 400; neither is audited.
LoginNoTenant(r) ==
  /\ pc[r] = "select"
  /\ ~\E o \in Orgs : Chosen(r, o)
  /\ Answer(r, IF Tenants(call[r].user) = {} THEN "unauthorized" ELSE "badRequest")

\* Mutant: is_active is not looked at.
RefreshLookupAnyUser(r) ==
  /\ pc[r] = "sent" /\ Is(r, "refresh")
  /\ Active(call[r].token)
  /\ Proceed(r, "member")
  /\ UNCHANGED <<token, payload>>

\* refresh: the presented token is active and so is its user.
RefreshLookup(r) ==
  /\ pc[r] = "sent" /\ Is(r, "refresh")
  /\ Active(call[r].token) /\ account[Subject(r)] = "active"
  /\ Proceed(r, "member")
  /\ UNCHANGED <<token, payload>>

RefreshReject(r) ==
  /\ pc[r] = "sent" /\ Is(r, "refresh")
  /\ ~(Active(call[r].token) /\ account[Subject(r)] = "active")
  /\ Answer(r, "unauthorized")

\* Mutant: the membership is not required.
RefreshMemberUnchecked(r) ==
  /\ pc[r] = "member"
  /\ LET o == token[call[r].token].org
         u == Subject(r)
     IN  payload' = [payload EXCEPT ![r] =
           [user |-> u, org |-> o, role |-> membership[o][u]]]
  /\ Proceed(r, "issue")
  /\ UNCHANGED token

\* Mutant: the tenant is chosen among the user's memberships, as in login.
RefreshAnyTenant(r) ==
  /\ pc[r] = "member"
  /\ \E o \in Tenants(Subject(r)) :
       payload' = [payload EXCEPT ![r] =
         [user |-> Subject(r), org |-> o, role |-> membership[o][Subject(r)]]]
  /\ Proceed(r, "issue")
  /\ UNCHANGED token

\* refresh: the user is still a member of the token's tenant; the role to sign
\* is the one held now.
RefreshMember(r) ==
  /\ pc[r] = "member"
  /\ LET o == token[call[r].token].org
         u == Subject(r)
     IN  /\ IsMember(o, u)
         /\ payload' = [payload EXCEPT ![r] =
              [user |-> u, org |-> o, role |-> membership[o][u]]]
  /\ Proceed(r, "issue")
  /\ UNCHANGED token

RefreshNoMember(r) ==
  /\ pc[r] = "member"
  /\ ~IsMember(token[call[r].token].org, Subject(r))
  /\ Answer(r, "unauthorized")

\* Mutant: the old token is not revoked.
IssueWithoutRotation(r) ==
  /\ pc[r] = "issue"
  /\ token' = [token EXCEPT ![r] =
       [ user |-> payload[r].user, org |-> payload[r].org, left |-> RefreshTTL,
         revoked |-> FALSE, replacedBy |-> None ]]
  /\ payload' = [payload EXCEPT ![r] = None]
  /\ Proceed(r, "audit")

\* issueTokenPair: the access token is signed and the row inserted.
IssueTokenPair(r) ==
  /\ pc[r] = "issue"
  /\ token' = [token EXCEPT ![r] =
       [ user |-> payload[r].user, org |-> payload[r].org, left |-> RefreshTTL,
         revoked |-> FALSE, replacedBy |-> None ]]
  /\ payload' = [payload EXCEPT ![r] = None]
  /\ Proceed(r, IF Is(r, "refresh") THEN "revoke" ELSE "audit")

LogoutLookup(r) ==
  /\ pc[r] = "sent" /\ Is(r, "logout")
  /\ Active(call[r].token)
  /\ Proceed(r, "revoke")
  /\ UNCHANGED <<token, payload>>

\* Logging out with a dead token succeeds and is not audited.
LogoutNothing(r) ==
  /\ pc[r] = "sent" /\ Is(r, "logout")
  /\ ~Active(call[r].token)
  /\ Answer(r, "ok")

\* Mutant: a logout links the token to itself.
RevokeLinking(r) ==
  /\ pc[r] = "revoke"
  /\ token' = [token EXCEPT ![call[r].token].revoked = TRUE,
                            ![call[r].token].replacedBy =
                               IF Is(r, "refresh") THEN r ELSE call[r].token]
  /\ Proceed(r, "audit")
  /\ UNCHANGED payload

\* Mutant: the two ids of a rotation are swapped.
RevokeNew(r) ==
  /\ pc[r] = "revoke"
  /\ token' = IF Is(r, "refresh")
              THEN [token EXCEPT ![r].revoked = TRUE, ![r].replacedBy = call[r].token]
              ELSE [token EXCEPT ![call[r].token].revoked = TRUE]
  /\ Proceed(r, "audit")
  /\ UNCHANGED payload

\* revoke: an update by id, whatever the row holds by now.  A logout passes no
\* replacement and leaves that column alone.
Revoke(r) ==
  /\ pc[r] = "revoke"
  /\ token' = [token EXCEPT ![call[r].token].revoked = TRUE,
                            ![call[r].token].replacedBy =
                               IF Is(r, "refresh") THEN r ELSE @]
  /\ Proceed(r, "audit")
  /\ UNCHANGED payload

\* Mutant: a failing audit store fails the request.
RecordOrRefuse(r) ==
  /\ pc[r] = "audit"
  /\ \/ /\ trace' = [trace EXCEPT ![r] = TRUE]
        /\ reply' = [reply EXCEPT ![r] = "ok"]
     \/ /\ reply' = [reply EXCEPT ![r] = "unauthorized"]
        /\ UNCHANGED trace
  /\ pc' = [pc EXCEPT ![r] = "done"]
  /\ UNCHANGED <<dirVars, token, call, payload, stale, reused, lapsed>>

\* AuditService.record, then the answer.
Record(r) ==
  /\ pc[r] = "audit"
  /\ trace' = [trace EXCEPT ![r] = TRUE]
  /\ pc' = [pc EXCEPT ![r] = "done"]
  /\ reply' = [reply EXCEPT ![r] = "ok"]
  /\ UNCHANGED <<dirVars, token, call, payload, stale, reused, lapsed>>

\* A query rejects (500), the process dies, or the answer is lost.
Fail(r) ==
  /\ pc[r] \notin {"idle", "done"}
  /\ Answer(r, "error")

-----------------------------------------------------------------------------
\* What r has checked so far no longer holds after this step.
Outdated(r) ==
  \/ /\ pc[r] \in {"select", "member", "issue"}
     /\ account'[Subject(r)] # "active"
  \/ /\ pc[r] = "issue"
     /\ membership'[payload[r].org][payload[r].user] # payload[r].role

\* The directory changes: users register, are added, get roles, leave, are
\* deactivated.
DirectoryStep ==
  /\ TablesNext
  /\ stale' = [r \in Requests |-> stale[r] \/ Outdated(r)]
  /\ lapsed' = [o \in Orgs |-> [u \in Users |->
                  IF Entitled(o, u)' THEN 0 ELSE lapsed[o][u]]]
  /\ UNCHANGED <<token, pc, call, payload, reply, trace, reused>>

\* Time passes.
Tick ==
  /\ token' = [r \in Requests |->
                 IF token[r] # None /\ token[r].left > 0
                 THEN [token[r] EXCEPT !.left = @ - 1] ELSE token[r]]
  /\ lapsed' = [o \in Orgs |-> [u \in Users |->
                  IF Entitled(o, u) \/ lapsed[o][u] = RefreshTTL
                  THEN lapsed[o][u] ELSE lapsed[o][u] + 1]]
  /\ UNCHANGED <<dirVars, reqVars>>

Init ==
  /\ DirInit
  /\ token = [r \in Requests |-> None]
  /\ pc = [r \in Requests |-> "idle"]
  /\ call = [r \in Requests |-> None]
  /\ payload = [r \in Requests |-> None]
  /\ reply = [r \in Requests |-> "none"]
  /\ trace = [r \in Requests |-> FALSE]
  /\ stale = [r \in Requests |-> FALSE]
  /\ reused = [r \in Requests |-> FALSE]
  /\ lapsed = [o \in Orgs |-> [u \in Users |-> 0]]

Handle(r) ==
  \/ LoginVerify(r) \/ LoginReject(r) \/ RecordFailure(r)
  \/ LoginSelect(r) \/ LoginNoTenant(r)
  \/ RefreshLookup(r) \/ RefreshReject(r) \/ RefreshMember(r) \/ RefreshNoMember(r)
  \/ LogoutLookup(r) \/ LogoutNothing(r)
  \/ IssueTokenPair(r) \/ Revoke(r) \/ Record(r)
  \/ Fail(r)

Next ==
  \/ \E r \in Requests : Send(r) \/ Handle(r)
  \/ DirectoryStep
  \/ Tick

Spec == Init /\ [][Next]_vars

-----------------------------------------------------------------------------
(* Properties                                                              *)

\* An answered refresh or logout has put the presented token out of use, for
\* good, whichever of the requests presenting it revoked it and in what order.
AnsweredMeansRetired ==
  \A r \in Requests : Redeems(r) /\ reply[r] = "ok" => ~Active(call[r].token)

\* Reuse is denied: a refresh sent after another refresh, or a logout, with the
\* same token was answered never gets a token pair, not even one it loses.
ReuseIsDenied ==
  \A r \in Requests : reused[r] /\ Is(r, "refresh") => token[r] = None

\* Along a chain of rotations user and tenant never change, although the
\* membership that gives the role is read anew at each of them.
RotationKeepsPrincipal ==
  \A r \in Requests :
    Is(r, "refresh") /\ token[r] # None =>
      /\ token[r].user = token[call[r].token].user
      /\ token[r].org = token[call[r].token].org

\* replaced_by_token_id of a row names a token that exists, that was issued
\* for this very row, and only a row out of use has one.
LinksAreHonest ==
  \A t, c \in Requests :
    token[t] # None /\ token[t].replacedBy = c =>
      /\ token[t].revoked
      /\ c # t /\ token[c] # None
      /\ Is(c, "refresh") /\ call[c].token = t

\* The claims about to be signed are what the directory says, unless it changed
\* after the request had looked.
ClaimsAreCurrent ==
  \A r \in Requests :
    pc[r] = "issue" /\ ~stale[r] =>
      /\ account[payload[r].user] = "active"
      /\ membership[payload[r].org][payload[r].user] = payload[r].role

\* A lost membership or a deactivated account ends every session in the tenant
\* within one token lifetime: rotation cannot prolong them.  Excepted is the
\* token of a request that had looked before the loss and issued after it.
AuthorityLapses ==
  \A t \in Requests :
    Active(t) /\ ~stale[t] => lapsed[token[t].org][token[t].user] < RefreshTTL

\* Answers, tokens and audit events agree across failures: "ok" hands over a
\* pair that is traced, a refused request issued nothing, and a token whose
\* request was not answered, or one revoked without a trace, is the remnant of
\* a request that failed half-way or is still running.
TrailMatchesEffects ==
  \A r \in Requests :
    /\ reply[r] = "ok" /\ ~Is(r, "logout") => token[r] # None /\ trace[r]
    /\ reply[r] \in Refusals => token[r] = None
    /\ token[r] # None => reply[r] \in {"ok", "error"} \/ pc[r] \in {"revoke", "audit"}
    /\ token[r] # None /\ token[r].revoked =>
         \E q \in Requests : /\ Redeems(q) /\ call[q].token = r
                             /\ \/ trace[q] \/ pc[q] = "audit"
                                \/ reply[q] = "error"

\* What the README says of rotation: the old token is revoked and linked to
\* the token that replaces it.
CompletedRotationLinked ==
  \A r \in Requests :
    Is(r, "refresh") /\ reply[r] = "ok" => token[call[r].token].replacedBy = r

\* The table as its promise sees it.  A claim stands from the moment the token
\* is found active until the request fails or has its own token, and then for
\* good.
TokenState(t) ==
  IF token[t] = None THEN "none" ELSE IF Active(t) THEN "active" ELSE "retired"
TokenHolder(t) ==
  IF token[t] = None THEN None ELSE [user |-> token[t].user, org |-> token[t].org]
TokenClaim(t) ==
  IF Is(t, "refresh") /\ (pc[t] \in {"member", "issue"} \/ token[t] # None)
  THEN call[t].token ELSE None

Table == INSTANCE RefreshTokens WITH
  Tokens  <- Requests,
  Holders <- [user: Users, org: Orgs],
  state   <- [t \in Requests |-> TokenState(t)],
  holder  <- [t \in Requests |-> TokenHolder(t)],
  claim   <- [t \in Requests |-> TokenClaim(t)],
  handed  <- [t \in Requests |-> Delivered(t)]

\* Every step of the three handlers, of the directory and of the clock is a
\* step of the table of refresh tokens, or none: a pair is for the holder of the
\* token it was claimed with, and reaches the client after that one is retired.
TokenSpec == Table!Spec
=============================================================================
