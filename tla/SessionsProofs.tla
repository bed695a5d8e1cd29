--------------------------- MODULE SessionsProofs ---------------------------
(***************************************************************************)
(* Theorems about Sessions, for every set of tenants, users and requests   *)
(* and every token lifetime.                                               *)
(*                                                                         *)
(* The inductive invariant IInv says, beside the types, what holds at each *)
(* stage of a request (Stage), of the token it presents (Source) and of    *)
(* what it has checked (Fresh); the other parts are the properties, each   *)
(* in a form that steps preserve and is proved on top of Typed.  Rows are  *)
(* never deleted, never change owner, never come back to life (Evolves):   *)
(* most of the argument is that what was true of a row stays true.         *)
(***************************************************************************)
EXTENDS Sessions, TLAPS

\* What holds of a request at each stage.
Stage(r) ==
  /\ pc[r] = "idle" <=> call[r] = None
  /\ pc[r] \in {"refuse", "select"} => Is(r, "login")
  /\ pc[r] = "member" => Is(r, "refresh")
  /\ pc[r] = "revoke" => Redeems(r)
  /\ pc[r] = "issue" => payload[r] \in Claims /\ ~Is(r, "logout")
  /\ pc[r] = "done" <=> reply[r] # "none"
  /\ token[r] # None => pc[r] \in {"revoke", "audit", "done"} /\ ~Is(r, "logout")
  /\ pc[r] \in {"revoke", "audit"} /\ ~Is(r, "logout") => token[r] # None
  /\ reply[r] = "ok" /\ ~Is(r, "logout") => token[r] # None /\ trace[r]
  /\ reply[r] \in Refusals => token[r] = None

\* A presented token had been handed out before, by another request, and is
\* revoked when the presenting request has passed that step.
Source(r) ==
  Redeems(r) =>
    /\ call[r].token # r
    /\ Delivered(call[r].token)
    /\ pc[r] = "audit" => token[call[r].token].revoked

\* The claims of a refresh, and the row it issues, are the old row's owner.
Principal(r) ==
  Is(r, "refresh") =>
    /\ pc[r] = "issue" =>
         /\ payload[r].user = token[call[r].token].user
         /\ payload[r].org = token[call[r].token].org
    /\ token[r] # None =>
         /\ token[r].user = token[call[r].token].user
         /\ token[r].org = token[call[r].token].org

\* A reused token is dead when it is presented, so the refresh goes nowhere.
Reuse(r) ==
  reused[r] =>
    /\ Redeems(r) /\ Redeemed(call[r].token)
    /\ Is(r, "refresh") => pc[r] \in {"sent", "done"} /\ token[r] = None

\* What a request has checked still holds, unless it is marked stale.
Fresh(r) ==
  ~stale[r] =>
    /\ pc[r] \in {"select", "member", "issue"} => account[Subject(r)] = "active"
    /\ pc[r] = "issue" => /\ payload[r].user = Subject(r)
                          /\ membership[payload[r].org][payload[r].user] = payload[r].role

\* A replacement link is honest.
Link(t) ==
  token[t] # None /\ token[t].replacedBy # None =>
    LET c == token[t].replacedBy
    IN  /\ token[t].revoked
        /\ c # t /\ token[c] # None
        /\ Is(c, "refresh") /\ call[c].token = t

\* A revoked row has somebody who revoked it.
Revoker(q, t) ==
  /\ Redeems(q) /\ call[q].token = t
  /\ trace[q] \/ pc[q] = "audit" \/ reply[q] = "error"
Explained(t) ==
  token[t] # None /\ token[t].revoked => \E q \in Requests : Revoker(q, t)

\* What is left of a token and the time since its owner lost the tenant.
Lapse(t) ==
  token[t] # None /\ ~stale[t] =>
    token[t].left + lapsed[token[t].org][token[t].user] <= RefreshTTL

EntitledNotLapsed ==
  \A o \in Orgs, u \in Users : Entitled(o, u) => lapsed[o][u] = 0

\* The types, stages and sources support every other part.
Typed ==
  /\ TypeOK
  /\ \A r \in Requests : Stage(r) /\ Source(r)

IInv ==
  /\ Typed
  /\ AnsweredMeansRetired
  /\ EntitledNotLapsed
  /\ \A r \in Requests : Principal(r) /\ Reuse(r) /\ Fresh(r)
  /\ \A t \in Requests : Link(t) /\ Explained(t) /\ Lapse(t)

-----------------------------------------------------------------------------
(* Lemmas about calls, rows and the directory.                             *)

\* What a call names.
LEMMA CallFields ==
  ASSUME NEW c \in Call
  PROVE  /\ c.op \in {"login", "refresh", "logout"}
         /\ c.op = "login" => c.user \in Users
         /\ c \in Redemption <=> c.op # "login"
         /\ c \in Redemption => c.token \in Requests
BY DEF Call, Login, Redemption

\* A redeeming request names the request that issued its token.
LEMMA RedeemsFields ==
  ASSUME TypeOK, NEW r \in Requests, Redeems(r)
  PROVE  call[r].token \in Requests
BY CallFields, NoneIsNoRecord DEF TypeOK, Redeems, Is, Call

\* A fresh row of the table.
LEMMA NewRow ==
  ASSUME NEW c \in Claims
  PROVE  [ user |-> c.user, org |-> c.org, left |-> RefreshTTL,
           revoked |-> FALSE, replacedBy |-> None ] \in Row
BY TTLIsPositive DEF Claims, Row

\* A row one unit of time later.
LEMMA TickedRow ==
  ASSUME NEW row \in Row, row.left > 0
  PROVE  /\ [row EXCEPT !.left = @ - 1] \in Row
         /\ [row EXCEPT !.left = @ - 1].left = row.left - 1
<1>1. row.left \in 0..RefreshTTL
  BY DEF Row
<1>2. row.left - 1 \in 0..RefreshTTL
  BY <1>1, TTLIsPositive
<1> QED
  BY <1>2 DEF Row

\* Every step of the directory keeps its types.
LEMMA DirectoryTyped == DirTypeOK /\ TablesNext => DirTypeOK'
BY DEF DirTypeOK, TablesNext, DirNext, Join, ChangeRole, Leave, SetActive,
       CreateAccount, AccountStates

-----------------------------------------------------------------------------
(* Type correctness.                                                       *)

\* The claims a login is about to sign are those of a membership of its user.
LEMMA LoginClaims ==
  ASSUME Typed, NEW r \in Requests, LoginSelect(r)
  PROVE  \E c \in Claims : /\ payload' = [payload EXCEPT ![r] = c]
                           /\ c.user = Subject(r)
                           /\ membership[c.org][c.user] = c.role
<1>1. Is(r, "login") /\ call[r].user \in Users /\ Subject(r) = call[r].user
  BY CallFields DEF LoginSelect, Typed, Stage, Is, Subject, TypeOK
<1>2. PICK o \in Orgs :
        /\ IsMember(o, call[r].user)
        /\ payload' = [payload EXCEPT ![r] =
             [user |-> call[r].user, org |-> o, role |-> membership[o][call[r].user]]]
  BY DEF LoginSelect, Chosen, Tenants
<1>3. membership[o][call[r].user] \in Roles
  BY <1>1, <1>2 DEF Typed, TypeOK, IsMember, DirTypeOK
<1>4. [user |-> call[r].user, org |-> o, role |-> membership[o][call[r].user]] \in Claims
  BY <1>1, <1>3 DEF Claims
<1> QED
  BY <1>1, <1>2, <1>4

\* Those of a refresh are of the membership of the old row's user in its tenant.
LEMMA RefreshClaims ==
  ASSUME Typed, NEW r \in Requests, RefreshMember(r)
  PROVE  \E c \in Claims : /\ payload' = [payload EXCEPT ![r] = c]
                           /\ c.user = Subject(r)
                           /\ c.user = token[call[r].token].user
                           /\ c.org = token[call[r].token].org
                           /\ membership[c.org][c.user] = c.role
<1>1. token[call[r].token] \in Row
  BY RedeemsFields
     DEF RefreshMember, Typed, Stage, Source, Delivered, Redeems, TypeOK
<1>2. Is(r, "refresh") /\ ~Is(r, "login")
  BY DEF RefreshMember, Typed, Stage, Is
<1>3. /\ token[call[r].token].user \in Users /\ token[call[r].token].org \in Orgs
      /\ Subject(r) = token[call[r].token].user
  BY <1>1, <1>2 DEF Row, Subject
<1>4. membership[token[call[r].token].org][Subject(r)] \in Roles
  BY <1>3 DEF RefreshMember, IsMember, Typed, TypeOK, DirTypeOK
<1>5. [ user |-> Subject(r), org |-> token[call[r].token].org,
        role |-> membership[token[call[r].token].org][Subject(r)] ] \in Claims
  BY <1>3, <1>4 DEF Claims
<1> QED
  BY <1>3, <1>5 DEF RefreshMember

\* Every initial state is well typed.
LEMMA InitTyped == Init => TypeOK
BY TTLIsPositive
   DEF Init, TypeOK, DirInit, Stages, Replies

\* The steps keep the types.
LEMMA NextTyped ==
  ASSUME Typed, [Next]_vars
  PROVE  TypeOK'
<1>0. TypeOK /\ DirTypeOK
  BY DEF Typed, TypeOK
<1>1. ASSUME NEW r \in Requests, Send(r) PROVE TypeOK'
  <2>1. PICK c \in Call :
          /\ call' = [call EXCEPT ![r] = c]
          /\ reused' = [reused EXCEPT ![r] = c \in Redemption /\ Redeemed(c.token)]
    BY <1>1 DEF Send
  <2> QED
    BY <1>0, <1>1, <2>1 DEF Send, TypeOK, DirTypeOK, Stages, dirVars
<1>2. ASSUME NEW r \in Requests, NEW response \in Replies, Answer(r, response)
      PROVE  TypeOK'
  BY <1>0, <1>2 DEF Answer, TypeOK, DirTypeOK, Stages, dirVars
<1>3. ASSUME NEW r \in Requests, NEW stage \in Stages, Proceed(r, stage),
             token' \in [Requests -> Row \cup {None}],
             payload' \in [Requests -> Claims \cup {None}]
      PROVE  TypeOK'
  BY <1>0, <1>3 DEF Proceed, TypeOK, DirTypeOK, Stages, dirVars
<1>4. ASSUME NEW r \in Requests,
             LoginNoTenant(r) \/ RefreshReject(r) \/ RefreshNoMember(r)
             \/ LogoutNothing(r) \/ Fail(r)
      PROVE  TypeOK'
  BY <1>2, <1>4 DEF LoginNoTenant, RefreshReject, RefreshNoMember, LogoutNothing,
                    Fail, Replies
<1>5. ASSUME NEW r \in Requests,
             LoginVerify(r) \/ LoginReject(r) \/ RefreshLookup(r) \/ LogoutLookup(r)
      PROVE  TypeOK'
  BY <1>0, <1>3, <1>5
     DEF LoginVerify, LoginReject, RefreshLookup, LogoutLookup, Stages, TypeOK
<1>6. ASSUME NEW r \in Requests, LoginSelect(r) PROVE TypeOK'
  <2>1. payload' \in [Requests -> Claims \cup {None}]
    BY <1>0, <1>6, LoginClaims DEF TypeOK
  <2> QED
    BY <1>0, <1>3, <1>6, <2>1 DEF LoginSelect, Stages, TypeOK
<1>7. ASSUME NEW r \in Requests, RefreshMember(r) PROVE TypeOK'
  <2>1. payload' \in [Requests -> Claims \cup {None}]
    BY <1>0, <1>7, RefreshClaims DEF TypeOK
  <2> QED
    BY <1>0, <1>3, <1>7, <2>1 DEF RefreshMember, Stages, TypeOK
<1>8. ASSUME NEW r \in Requests, IssueTokenPair(r) PROVE TypeOK'
  <2>1. payload[r] \in Claims
    BY <1>8 DEF IssueTokenPair, Typed, Stage
  <2> QED
    BY <1>0, <1>3, <1>8, <2>1, NewRow DEF IssueTokenPair, Stages, TypeOK
<1>9. ASSUME NEW r \in Requests, Revoke(r) PROVE TypeOK'
  <2> DEFINE t == call[r].token
  <2>1. t \in Requests /\ token[t] \in Row
    BY <1>0, <1>9, RedeemsFields DEF Revoke, Typed, Stage, Source, Delivered, TypeOK
  <2>2. token' \in [Requests -> Row \cup {None}]
    BY <1>0, <1>9, <2>1 DEF Revoke, Row, TypeOK
  <2> QED
    BY <1>0, <1>3, <1>9, <2>2 DEF Revoke, Stages, TypeOK
<1>10. ASSUME NEW r \in Requests, Record(r) \/ RecordFailure(r) PROVE TypeOK'
  BY <1>0, <1>10 DEF Record, RecordFailure, TypeOK, DirTypeOK, Stages, Replies, dirVars
<1>11. CASE DirectoryStep
  <2>1. DirTypeOK'
    BY <1>0, <1>11, DirectoryTyped DEF DirectoryStep
  <2>2. stale' \in [Requests -> BOOLEAN]
    BY <1>0, <1>11 DEF DirectoryStep, Outdated, TypeOK
  <2>3. lapsed' \in [Orgs -> [Users -> 0..RefreshTTL]]
    BY <1>0, <1>11, TTLIsPositive DEF DirectoryStep, TypeOK
  <2> QED
    BY <1>0, <1>11, <2>1, <2>2, <2>3 DEF DirectoryStep, TypeOK
<1>12. CASE Tick
  <2>1. token' \in [Requests -> Row \cup {None}]
    <3> SUFFICES ASSUME NEW t \in Requests, token[t] # None, token[t].left > 0
                 PROVE  [token[t] EXCEPT !.left = @ - 1] \in Row
      BY <1>0, <1>12 DEF Tick, TypeOK
    <3> QED
      BY <1>0, TickedRow DEF TypeOK
  <2>2. lapsed' \in [Orgs -> [Users -> 0..RefreshTTL]]
    <3> SUFFICES ASSUME NEW o \in Orgs, NEW u \in Users, lapsed[o][u] # RefreshTTL
                 PROVE  lapsed[o][u] + 1 \in 0..RefreshTTL
      BY <1>0, <1>12 DEF Tick, TypeOK
    <3>1. lapsed[o][u] \in 0..RefreshTTL
      BY <1>0 DEF TypeOK
    <3> QED
      BY <3>1, TTLIsPositive
  <2> QED
    BY <1>0, <1>12, <2>1, <2>2 DEF Tick, TypeOK, DirTypeOK, dirVars, reqVars
<1>13. CASE UNCHANGED vars
  BY <1>0, <1>13 DEF vars, reqVars, TypeOK, DirTypeOK
<1> QED
  BY <1>1, <1>4, <1>5, <1>6, <1>7, <1>8, <1>9, <1>10, <1>11, <1>12, <1>13
     DEF Next, Handle
-----------------------------------------------------------------------------
(* What a step cannot undo.                                                *)

\* Calls, answers and events are final; rows stay, keep their owner, their
\* revocation, and only ever have less time left.
Evolves(t) ==
  /\ pc[t] # "idle" => call'[t] = call[t]
  /\ reply[t] # "none" => reply'[t] = reply[t] /\ pc'[t] = pc[t]
  /\ trace[t] => trace'[t]
  /\ token[t] # None =>
       /\ token'[t] # None
       /\ token'[t].user = token[t].user
       /\ token'[t].org = token[t].org
       /\ token'[t].left \in Nat /\ token'[t].left <= token[t].left
       /\ token[t].revoked => token'[t].revoked

\* A step of another request, of the directory or of the clock leaves q's own
\* record alone and gives it no token.
Kept(q) ==
  /\ pc'[q] = pc[q] /\ call'[q] = call[q] /\ payload'[q] = payload[q]
  /\ reply'[q] = reply[q] /\ trace'[q] = trace[q] /\ reused'[q] = reused[q]
  /\ token[q] = None <=> token'[q] = None

LEMMA StepsOfOthers ==
  ASSUME Typed, NEW r \in Requests, Send(r) \/ Handle(r),
         NEW q \in Requests, q # r
  PROVE  Kept(q) /\ stale'[q] = stale[q]
<1>1. CASE Revoke(r)
  <2>1. call[r].token \in Requests /\ token[call[r].token] \in Row
    BY <1>1, RedeemsFields DEF Revoke, Typed, Stage, Source, Delivered, TypeOK
  <2>2. [token[call[r].token] EXCEPT !.revoked = TRUE,
                                     !.replacedBy = IF Is(r, "refresh") THEN r ELSE @] \in Row
    BY <2>1 DEF Row
  <2>3. token[q] = None <=> token'[q] = None
    BY <1>1, <2>1, <2>2, NoneIsNoRecord DEF Revoke, Typed, TypeOK, Row
  <2> QED
    BY <1>1, <2>3 DEF Revoke, Proceed, Kept, Typed, TypeOK
<1>2. CASE ~Revoke(r)
  BY <1>2 DEF Typed, TypeOK, Kept, Handle, Send, Answer, Proceed, LoginVerify,
     LoginReject, RecordFailure, LoginSelect, LoginNoTenant, RefreshLookup,
     RefreshReject, RefreshMember, RefreshNoMember, LogoutLookup, LogoutNothing,
     IssueTokenPair, Record, Fail
<1> QED
  BY <1>1, <1>2

LEMMA StepsOfTheWorld ==
  ASSUME TypeOK, DirectoryStep \/ Tick \/ UNCHANGED vars, NEW q \in Requests
  PROVE  Kept(q) /\ (stale[q] => stale'[q])
<1>1. CASE Tick
  <2>1. token[q] = None <=> token'[q] = None
    <3>1. token[q] # None /\ token[q].left > 0 => [token[q] EXCEPT !.left = @ - 1] # None
      BY TickedRow, NoneIsNoRecord DEF TypeOK
    <3> QED
      BY <1>1, <3>1 DEF Tick
  <2> QED
    BY <1>1, <2>1 DEF Tick, Kept, reqVars
<1>2. CASE DirectoryStep \/ UNCHANGED vars
  BY <1>2 DEF DirectoryStep, Kept, vars, reqVars
<1> QED
  BY <1>1, <1>2
\* Every step evolves every request and its row.
LEMMA StepsEvolve ==
  ASSUME Typed, [Next]_vars, NEW t \in Requests
  PROVE  Evolves(t)
<1>0. /\ TypeOK /\ Stage(t)
      /\ token[t] # None => token[t] \in Row /\ token[t].left \in 0..RefreshTTL
  BY DEF Typed, TypeOK, Row
<1>1. CASE DirectoryStep \/ UNCHANGED vars
  BY <1>0, <1>1, TTLIsPositive DEF DirectoryStep, vars, reqVars, Evolves
<1>2. CASE Tick
  <2>1. CASE token[t] # None /\ token[t].left > 0
    <3>1. token'[t] = [token[t] EXCEPT !.left = @ - 1]
      BY <1>2, <2>1 DEF Tick
    <3>2. token'[t] \in Row /\ token'[t].left = token[t].left - 1
      BY <1>0, <2>1, <3>1, TickedRow
    <3>3. /\ token'[t].user = token[t].user /\ token'[t].org = token[t].org
          /\ token'[t].revoked = token[t].revoked
      BY <1>0, <2>1, <3>1 DEF Row
    <3>4. token'[t].left \in Nat /\ token'[t].left <= token[t].left
      BY <1>0, <2>1, <3>2, TTLIsPositive
    <3> QED
      BY <1>2, <3>2, <3>3, <3>4, NoneIsNoRecord DEF Tick, reqVars, Evolves
  <2>2. CASE ~(token[t] # None /\ token[t].left > 0)
    BY <1>0, <1>2, <2>2, TTLIsPositive DEF Tick, reqVars, Evolves
  <2> QED
    BY <2>1, <2>2
<1>3. ASSUME NEW r \in Requests, Revoke(r) PROVE Evolves(t)
  <2>1. /\ call[r].token \in Requests /\ token[call[r].token] \in Row
        /\ pc[r] = "revoke" /\ reply[r] = "none"
    BY <1>3, RedeemsFields DEF Revoke, Typed, Stage, Source, Delivered, TypeOK
  <2>2. UNCHANGED <<call, reply, trace>> /\ (pc[t] = "done" => pc'[t] = pc[t])
    BY <1>0, <1>3, <2>1 DEF Revoke, Proceed, TypeOK
  <2>3. CASE t # call[r].token
    <3>1. token'[t] = token[t]
      BY <1>0, <1>3, <2>3 DEF Revoke, TypeOK
    <3> QED
      BY <1>0, <2>2, <3>1, TTLIsPositive DEF Evolves, Stage
  <2>4. CASE t = call[r].token
    <3>1. token'[t] = [token[t] EXCEPT !.revoked = TRUE,
                                       !.replacedBy = IF Is(r, "refresh") THEN r ELSE @]
      BY <1>0, <1>3, <2>1, <2>4 DEF Revoke, TypeOK
    <3>2. /\ token'[t] \in Row /\ token'[t].user = token[t].user
          /\ token'[t].org = token[t].org /\ token'[t].left = token[t].left
          /\ token'[t].revoked
      BY <2>1, <2>4, <3>1 DEF Row
    <3> QED
      BY <1>0, <2>2, <3>2, NoneIsNoRecord, TTLIsPositive DEF Evolves, Stage
  <2> QED
    BY <2>3, <2>4
<1>4. ASSUME NEW r \in Requests, Send(r) \/ Handle(r), ~Revoke(r) PROVE Evolves(t)
  <2>1. token[t] # None => token'[t] = token[t]
    BY <1>0, <1>4
       DEF TypeOK, Stage, Handle, Send, Answer, Proceed, LoginVerify, LoginReject,
           RecordFailure, LoginSelect, LoginNoTenant, RefreshLookup, RefreshReject,
           RefreshMember, RefreshNoMember, LogoutLookup, LogoutNothing,
           IssueTokenPair, Record, Fail
  <2>2. /\ pc[t] # "idle" => call'[t] = call[t]
        /\ pc[t] = "done" => reply'[t] = reply[t] /\ pc'[t] = pc[t]
        /\ trace[t] => trace'[t]
    BY <1>0, <1>4
       DEF TypeOK, Handle, Send, Answer, Proceed, LoginVerify, LoginReject,
           RecordFailure, LoginSelect, LoginNoTenant, RefreshLookup, RefreshReject,
           RefreshMember, RefreshNoMember, LogoutLookup, LogoutNothing,
           IssueTokenPair, Record, Fail
  <2> QED
    BY <1>0, <2>1, <2>2, TTLIsPositive DEF Evolves, Stage
<1> QED
  BY <1>1, <1>2, <1>3, <1>4 DEF Next

-----------------------------------------------------------------------------
(* Stages and the presented token.                                         *)

\* What holds at a stage of q is kept while q's record is.
LEMMA StageKept ==
  ASSUME NEW q \in Requests, Stage(q), Kept(q)
  PROVE  Stage(q)'
BY DEF Stage, Kept, Is, Redeems

\* A step of r leads it to a stage of which the same holds.
LEMMA StageReached ==
  ASSUME Typed, NEW r \in Requests, Send(r) \/ Handle(r)
  PROVE  Stage(r)'
<1>0. TypeOK /\ Stage(r) /\ Source(r)
  BY DEF Typed
<1>1. CASE Send(r)
  <2>1. PICK c \in Call : call' = [call EXCEPT ![r] = c]
    BY <1>1 DEF Send
  <2>2. call'[r] = c /\ c # None /\ pc'[r] = "sent" /\ token'[r] = None /\ reply'[r] = "none"
    BY <1>0, <1>1, <2>1, NoneIsNoRecord DEF Send, TypeOK, Stage
  <2> QED
    BY <2>2 DEF Stage, Is, Redeems, Refusals
<1>2. CASE Revoke(r)
  <2>1. token'[r] = token[r]
    BY <1>0, <1>2, RedeemsFields DEF Revoke, Source, Stage, TypeOK
  <2> QED
    BY <1>0, <1>2, <2>1 DEF Revoke, Proceed, Stage, Is, Redeems, Refusals, TypeOK
<1>3. CASE LoginSelect(r) \/ RefreshMember(r)
  <2>1. payload'[r] \in Claims
    BY <1>0, <1>3, LoginClaims, RefreshClaims DEF TypeOK
  <2> QED
    BY <1>0, <1>3, <2>1
       DEF LoginSelect, RefreshMember, Proceed, Stage, Is, Redeems, Refusals, TypeOK
<1>4. CASE IssueTokenPair(r)
  <2>1. token'[r] # None
    BY <1>0, <1>4, NewRow, NoneIsNoRecord DEF IssueTokenPair, Stage, TypeOK
  <2>2. Is(r, "login") \/ Is(r, "refresh")
    BY <1>0, <1>4, CallFields DEF IssueTokenPair, Stage, Is, TypeOK
  <2> QED
    BY <1>0, <1>4, <2>1, <2>2
       DEF IssueTokenPair, Proceed, Stage, Is, Redeems, Refusals, TypeOK
<1>5. CASE \/ LoginVerify(r) \/ LoginReject(r) \/ RefreshLookup(r) \/ LogoutLookup(r)
  BY <1>0, <1>5
     DEF LoginVerify, LoginReject, RefreshLookup, LogoutLookup, Proceed, Stage, Is,
         Redeems, Refusals, TypeOK
<1>6. CASE \/ LoginNoTenant(r) \/ RefreshReject(r) \/ RefreshNoMember(r)
           \/ LogoutNothing(r) \/ Fail(r)
  BY <1>0, <1>6
     DEF LoginNoTenant, RefreshReject, RefreshNoMember, LogoutNothing, Fail, Answer,
         Stage, Is, Redeems, Refusals, TypeOK
<1>7. CASE Record(r) \/ RecordFailure(r)
  BY <1>0, <1>7 DEF Record, RecordFailure, Stage, Is, Redeems, Refusals, TypeOK
<1> QED
  BY <1>1, <1>2, <1>3, <1>4, <1>5, <1>6, <1>7 DEF Handle

\* Every step keeps the stages' facts and the sources'.
LEMMA NextKeepsStages ==
  ASSUME Typed, [Next]_vars, NEW q \in Requests
  PROVE  Stage(q)' /\ Source(q)'
<1>0. TypeOK /\ Stage(q) /\ Source(q)
  BY DEF Typed
<1>1. Stage(q)'
  <2>1. ASSUME NEW r \in Requests, Send(r) \/ Handle(r) PROVE Stage(q)'
    BY <1>0, <2>1, StageKept, StageReached, StepsOfOthers
  <2>2. CASE DirectoryStep \/ Tick \/ UNCHANGED vars
    BY <1>0, <2>2, StageKept, StepsOfTheWorld
  <2> QED
    BY <2>1, <2>2 DEF Next
<1>2. ASSUME pc[q] # "idle" PROVE Source(q)'
  <2>1. call'[q] = call[q] /\ (Redeems(q)' => Redeems(q))
    BY <1>2, StepsEvolve DEF Evolves, Redeems, Is
  <2>2. CASE ~Redeems(q)
    BY <2>1, <2>2 DEF Source
  <2>3. CASE Redeems(q)
   <3>1. PICK t \in Requests : t = call[q].token
     BY <1>0, <2>3, RedeemsFields
   <3>2. t # q /\ Delivered(t) /\ Evolves(t)
     BY <1>0, <2>3, <3>1, StepsEvolve DEF Source
   <3>3. Delivered(t)'
     BY <3>2 DEF Evolves, Delivered
   <3>4. ASSUME pc'[q] = "audit", pc[q] # "audit" PROVE token'[t].revoked
     <4>1. Revoke(q) \/ (IssueTokenPair(q) /\ ~Is(q, "refresh"))
       <5>1. Send(q) \/ Handle(q)
         BY <1>0, <3>4, StepsOfOthers, StepsOfTheWorld DEF Next, Kept
       <5> QED
         BY <1>0, <3>4, <5>1
            DEF Handle, Send, Answer, Proceed, LoginVerify, LoginReject,
                RecordFailure, LoginSelect, LoginNoTenant, RefreshLookup,
                RefreshReject, RefreshMember, RefreshNoMember, LogoutLookup,
                LogoutNothing, IssueTokenPair, Record, Fail, TypeOK
     <4>2. Revoke(q)
       BY <1>0, <2>3, <4>1 DEF IssueTokenPair, Stage, Redeems
     <4>3. token[t] \in Row
       BY <1>0, <3>2 DEF Delivered, TypeOK
     <4> QED
       BY <1>0, <3>1, <4>2, <4>3 DEF Revoke, TypeOK, Row
   <3>5. pc[q] = "audit" => token'[t].revoked
     BY <1>0, <2>3, <3>1, <3>2 DEF Source, Evolves, Delivered
   <3> QED
     BY <2>1, <3>1, <3>2, <3>3, <3>4, <3>5 DEF Source
  <2> QED
    BY <2>2, <2>3
<1>3. ASSUME pc[q] = "idle" PROVE Source(q)'
  <2>1. SUFFICES ASSUME Redeems(q)' PROVE Source(q)'
    BY DEF Source
  <2>2. Send(q)
    BY <1>0, <1>3, <2>1, StepsOfOthers, StepsOfTheWorld
       DEF Next, Kept, Stage, Redeems, Is, Handle, Answer, Proceed, LoginVerify,
           LoginReject, RecordFailure, LoginSelect, LoginNoTenant, RefreshLookup,
           RefreshReject, RefreshMember, RefreshNoMember, LogoutLookup,
           LogoutNothing, IssueTokenPair, Revoke, Record, Fail
  <2>3. PICK c \in Call : /\ c \in Redemption => Delivered(c.token)
                          /\ call' = [call EXCEPT ![q] = c]
    BY <2>2 DEF Send
  <2>4. call'[q] = c /\ c \in Redemption /\ Delivered(c.token)
    BY <1>0, <2>1, <2>3, CallFields DEF Redeems, Is, TypeOK
  <2>5. reply[q] = "none" /\ pc'[q] = "sent" /\ UNCHANGED <<token, reply>>
    BY <1>0, <1>3, <2>2 DEF Send, Stage, TypeOK
  <2> QED
    BY <2>4, <2>5 DEF Source, Delivered
<1> QED
  BY <1>1, <1>2, <1>3

-----------------------------------------------------------------------------
(* Retired tokens and reuse.                                               *)

\* A row that is out of use stays so.
LEMMA DeadStaysDead ==
  ASSUME Typed, NEW t \in Requests, Evolves(t), token[t] # None, ~Active(t)
  PROVE  ~Active(t)'
<1>1. token[t] \in Row /\ token[t].left \in Nat
  BY TTLIsPositive DEF Typed, TypeOK, Row
<1> QED
  BY <1>1 DEF Evolves, Active

\* An answer is given by a step of its request.
LEMMA AnswerIsOwn ==
  ASSUME Typed, [Next]_vars, NEW q \in Requests, reply'[q] # reply[q]
  PROVE  /\ Handle(q) /\ call'[q] = call[q] /\ Redeems(q)' = Redeems(q)
         /\ reply'[q] = "ok" /\ Redeems(q) => Record(q) \/ LogoutNothing(q)
<1>1. Send(q) \/ Handle(q)
  BY StepsOfOthers, StepsOfTheWorld DEF Next, Kept, Typed
<1>2. Handle(q)
  BY <1>1 DEF Send
<1>3. call' = call
  BY <1>2
     DEF Handle, Answer, Proceed, LoginVerify, LoginReject, RecordFailure,
         LoginSelect, LoginNoTenant, RefreshLookup, RefreshReject, RefreshMember,
         RefreshNoMember, LogoutLookup, LogoutNothing, IssueTokenPair, Revoke,
         Record, Fail
<1>4. reply'[q] = "ok" => Record(q) \/ LogoutNothing(q)
  BY <1>2
     DEF Handle, Answer, Proceed, LoginVerify, LoginReject, RecordFailure,
         LoginSelect, LoginNoTenant, RefreshLookup, RefreshReject, RefreshMember,
         RefreshNoMember, LogoutLookup, IssueTokenPair, Revoke, Fail, Typed, TypeOK
<1> QED
  BY <1>2, <1>3, <1>4 DEF Redeems, Is

\* AnsweredMeansRetired is preserved: a token answered for was revoked or dead
\* when the answer was given, and stays so.
LEMMA NextKeepsRetired ==
  ASSUME Typed, AnsweredMeansRetired, [Next]_vars
  PROVE  AnsweredMeansRetired'
<1> SUFFICES ASSUME NEW r \in Requests, Redeems(r)', reply'[r] = "ok"
             PROVE  ~Active(call[r].token)'
  BY DEF AnsweredMeansRetired
<1>1. CASE reply[r] = "ok"
  <2>1. call'[r] = call[r] /\ Redeems(r)
    BY <1>1, StepsEvolve DEF Typed, Stage, Evolves, Redeems, Is
  <2>2. PICK t \in Requests : t = call[r].token
    BY <2>1, RedeemsFields DEF Typed
  <2>3. token[t] # None /\ ~Active(t)
    BY <1>1, <2>1, <2>2 DEF Typed, Source, Delivered, AnsweredMeansRetired
  <2>4. ~Active(t)'
    BY <2>3, StepsEvolve, DeadStaysDead
  <2> QED
    BY <2>1, <2>2, <2>4
<1>2. CASE reply[r] # "ok"
  <2>1. call'[r] = call[r] /\ Redeems(r) /\ (Record(r) \/ LogoutNothing(r))
    BY <1>2, AnswerIsOwn
  <2>2. PICK t \in Requests : t = call[r].token
    BY <2>1, RedeemsFields DEF Typed
  <2>3. token[t] # None /\ ~Active(t)
    BY <2>1, <2>2 DEF Typed, Source, Delivered, Active, Record, LogoutNothing
  <2>4. ~Active(t)'
    BY <2>3, StepsEvolve, DeadStaysDead
  <2> QED
    BY <2>1, <2>2, <2>4
<1> QED
  BY <1>1, <1>2

\* A redeemed token stays redeemed.
LEMMA RedeemedStays ==
  ASSUME Typed, [Next]_vars, NEW t \in Requests, Redeemed(t)
  PROVE  Redeemed(t)'
<1>1. PICK q \in Requests : Redeems(q) /\ call[q].token = t /\ reply[q] = "ok"
  BY DEF Redeemed
<1>2. call'[q] = call[q] /\ reply'[q] = "ok"
  BY <1>1, StepsEvolve DEF Evolves, Typed, Stage, Redeems, Is
<1> QED
  BY <1>1, <1>2 DEF Redeemed, Redeems, Is

\* A request that reuses a token gets no further than its lookup.
LEMMA NextKeepsReuse ==
  ASSUME Typed, AnsweredMeansRetired, [Next]_vars, NEW q \in Requests, Reuse(q)
  PROVE  Reuse(q)'
<1>0. TypeOK /\ Stage(q) /\ Source(q)
  BY DEF Typed
<1>1. CASE Send(q)
  <2>1. PICK c \in Call :
          /\ call' = [call EXCEPT ![q] = c]
          /\ reused' = [reused EXCEPT ![q] = c \in Redemption /\ Redeemed(c.token)]
    BY <1>1 DEF Send
  <2>2. call'[q] = c /\ reused'[q] = (c \in Redemption /\ Redeemed(c.token))
    BY <1>0, <2>1 DEF TypeOK
  <2>3. pc'[q] = "sent" /\ token'[q] = None
    BY <1>0, <1>1 DEF Send, TypeOK, Stage
  <2>4. CASE reused'[q]
    <3>1. PICK t \in Requests : t = c.token /\ Redeemed(t)
      BY <2>2, <2>4, CallFields
    <3>2. Redeemed(t)'
      BY <3>1, RedeemedStays
    <3>3. Redeems(q)'
      BY <2>2, <2>4, CallFields, NoneIsNoRecord DEF Redeems, Is
    <3> QED
      BY <2>2, <2>3, <3>1, <3>2, <3>3 DEF Reuse
  <2> QED
    BY <2>4 DEF Reuse
<1>2. CASE ~Send(q) /\ reused'[q]
  <2>1. reused[q] /\ call'[q] = call[q]
    <3>1. CASE Kept(q)
      BY <1>2, <3>1 DEF Kept
    <3>2. CASE Handle(q)
      BY <1>2, <3>2
         DEF Handle, Answer, Proceed, LoginVerify, LoginReject, RecordFailure,
             LoginSelect, LoginNoTenant, RefreshLookup, RefreshReject, RefreshMember,
             RefreshNoMember, LogoutLookup, LogoutNothing, IssueTokenPair, Revoke,
             Record, Fail
    <3> QED
      BY <1>0, <1>2, <3>1, <3>2, StepsOfOthers, StepsOfTheWorld DEF Next
  <2>2. Redeems(q) /\ Redeemed(call[q].token)
    BY <2>1 DEF Reuse
  <2>3. PICK t \in Requests : t = call[q].token
    BY <1>0, <2>2, RedeemsFields
  <2>4. Redeemed(t)' /\ ~Active(t)
    BY <2>2, <2>3, RedeemedStays DEF Redeemed, AnsweredMeansRetired
  <2>5. ASSUME Is(q, "refresh") PROVE pc'[q] \in {"sent", "done"} /\ token'[q] = None
    <3>1. pc[q] \in {"sent", "done"} /\ token[q] = None
      BY <2>1, <2>5 DEF Reuse
    <3>2. CASE Kept(q)
      BY <3>1, <3>2 DEF Kept
    <3>3. CASE Handle(q)
      <4>1. RefreshReject(q) \/ Fail(q)
        BY <2>3, <2>4, <2>5, <3>1, <3>3
           DEF Is, Handle, LoginVerify, LoginReject, RecordFailure, LoginSelect,
               LoginNoTenant, RefreshLookup, RefreshMember, RefreshNoMember,
               LogoutLookup, LogoutNothing, IssueTokenPair, Revoke, Record
      <4> QED
        BY <1>0, <3>1, <4>1 DEF RefreshReject, Fail, Answer, TypeOK
    <3> QED
      BY <1>0, <1>2, <3>2, <3>3, StepsOfOthers, StepsOfTheWorld DEF Next
  <2> QED
    BY <2>1, <2>2, <2>3, <2>4, <2>5 DEF Reuse, Redeems, Is
<1> QED
  BY <1>1, <1>2 DEF Reuse

-----------------------------------------------------------------------------
(* The principal of a chain of rotations.                                  *)

\* A refresh keeps the user and the tenant of the token it presents.
LEMMA NextKeepsPrincipal ==
  ASSUME Typed, [Next]_vars, NEW q \in Requests, Principal(q)
  PROVE  Principal(q)'
<1>0. TypeOK /\ Stage(q) /\ Source(q)
  BY DEF Typed
<1>1. CASE ~Is(q, "refresh")'
  BY <1>1 DEF Principal
<1>2. CASE Is(q, "refresh")' /\ pc[q] = "idle"
  <2>1. pc'[q] \in {"idle", "sent"} /\ token'[q] = None
    <3>1. CASE Kept(q)
      BY <1>0, <1>2, <3>1 DEF Kept, Stage
    <3>2. CASE Send(q)
      BY <1>0, <3>2 DEF Send, Stage, TypeOK
    <3>3. CASE Handle(q)
      BY <1>0, <1>2, <3>3
         DEF Handle, LoginVerify, LoginReject, RecordFailure, LoginSelect,
             LoginNoTenant, RefreshLookup, RefreshReject, RefreshMember,
             RefreshNoMember, LogoutLookup, LogoutNothing, IssueTokenPair, Revoke,
             Record, Fail
    <3> QED
      BY <1>0, <3>1, <3>2, <3>3, StepsOfOthers, StepsOfTheWorld DEF Next
  <2> QED
    BY <2>1 DEF Principal
<1>3. CASE Is(q, "refresh")' /\ pc[q] # "idle"
  <2>1. call'[q] = call[q] /\ Is(q, "refresh") /\ Redeems(q)
    BY <1>3, StepsEvolve DEF Evolves, Is, Redeems
  <2>2. PICK t \in Requests : t = call[q].token
    BY <1>0, <2>1, RedeemsFields
  <2>3. /\ token[t] # None /\ t # q
        /\ token'[t].user = token[t].user /\ token'[t].org = token[t].org
    BY <1>0, <2>1, <2>2, StepsEvolve DEF Source, Delivered, Evolves
  <2>4. ASSUME pc'[q] = "issue"
        PROVE  payload'[q].user = token[t].user /\ payload'[q].org = token[t].org
    <3>1. CASE Kept(q)
      BY <2>1, <2>2, <2>4, <3>1 DEF Kept, Principal
    <3>2. CASE Send(q)
      BY <1>3, <3>2 DEF Send
    <3>3. CASE Handle(q)
      <4>1. LoginSelect(q) \/ RefreshMember(q)
        BY <1>0, <2>4, <3>3
           DEF Handle, Answer, Proceed, LoginVerify, LoginReject, RecordFailure,
               LoginNoTenant, RefreshLookup, RefreshReject, RefreshNoMember,
               LogoutLookup, LogoutNothing, IssueTokenPair, Revoke, Record, Fail,
               TypeOK
      <4>2. RefreshMember(q)
        BY <1>0, <2>1, <4>1 DEF LoginSelect, Stage, Is
      <4> QED
        BY <1>0, <2>2, <4>2, RefreshClaims DEF TypeOK
    <3> QED
      BY <1>0, <3>1, <3>2, <3>3, StepsOfOthers, StepsOfTheWorld DEF Next
  <2>5. ASSUME token'[q] # None
        PROVE  token'[q].user = token[t].user /\ token'[q].org = token[t].org
    <3>1. CASE token[q] # None
      BY <2>1, <2>2, <3>1, StepsEvolve DEF Evolves, Principal
    <3>2. CASE token[q] = None
      <4>1. Send(q) \/ Handle(q)
        BY <1>0, <2>5, <3>2, StepsOfOthers, StepsOfTheWorld DEF Next, Kept
      <4>2. IssueTokenPair(q)
        BY <1>0, <2>2, <2>3, <2>5, <3>2, <4>1
           DEF Handle, Send, Answer, Proceed, LoginVerify, LoginReject,
               RecordFailure, LoginSelect, LoginNoTenant, RefreshLookup,
               RefreshReject, RefreshMember, RefreshNoMember, LogoutLookup,
               LogoutNothing, Revoke, Record, Fail, TypeOK
      <4> QED
        BY <1>0, <2>1, <2>2, <4>2 DEF IssueTokenPair, Principal, TypeOK
    <3> QED
      BY <3>1, <3>2
  <2> QED
    BY <2>1, <2>2, <2>3, <2>4, <2>5 DEF Principal
<1> QED
  BY <1>1, <1>2, <1>3

-----------------------------------------------------------------------------
(* Replacement links.                                                      *)

\* Only the revoking step of a refresh writes a link, and it writes its own.
LEMMA NextKeepsLinks ==
  ASSUME Typed, [Next]_vars, NEW t \in Requests, Link(t)
  PROVE  Link(t)'
<1>0. /\ TypeOK /\ Stage(t)
      /\ token[t] # None => token[t] \in Row
  BY DEF Typed, TypeOK
<1> SUFFICES ASSUME token'[t] # None, token'[t].replacedBy # None
             PROVE  Link(t)'
  BY DEF Link
<1>1. CASE token[t] # None /\ token'[t].replacedBy = token[t].replacedBy
  <2>1. PICK c \in Requests : c = token[t].replacedBy
    BY <1>0, <1>1 DEF Row
  <2>2. /\ token[t].revoked /\ c # t /\ token[c] # None
        /\ Is(c, "refresh") /\ call[c].token = t /\ pc[c] # "idle"
    BY <1>1, <2>1 DEF Link, Typed, Stage
  <2>3. token'[t].revoked /\ token'[c] # None /\ call'[c] = call[c]
    BY <1>1, <2>2, StepsEvolve DEF Evolves
  <2> QED
    BY <1>1, <2>1, <2>2, <2>3 DEF Link, Is
<1>2. CASE ~(token[t] # None /\ token'[t].replacedBy = token[t].replacedBy)
  <2>1. ASSUME NEW r \in Requests, IssueTokenPair(r) PROVE FALSE
    BY <1>0, <1>2, <2>1 DEF IssueTokenPair, TypeOK
  <2>2. PICK r \in Requests : Revoke(r) /\ t = call[r].token /\ token'[t].replacedBy = r
                              /\ Is(r, "refresh")
    <3>1. CASE Tick
      <4>1. token[t] # None /\ token'[t].replacedBy = token[t].replacedBy
        BY <1>0, <3>1, StepsOfTheWorld DEF Tick, Row, Kept
      <4> QED
        BY <1>2, <4>1
    <3>2. ASSUME UNCHANGED token PROVE FALSE
      BY <1>2, <3>2
    <3>3. ASSUME NEW r \in Requests, Revoke(r)
          PROVE  t = call[r].token /\ token'[t].replacedBy = r /\ Is(r, "refresh")
      <4>1. call[r].token \in Requests /\ token[call[r].token] \in Row
        BY <3>3, RedeemsFields DEF Revoke, Typed, Stage, Source, Delivered, TypeOK
      <4>2. t = call[r].token
        BY <1>0, <1>2, <3>3, <4>1 DEF Revoke, TypeOK
      <4>3. token'[t].replacedBy = (IF Is(r, "refresh") THEN r ELSE token[t].replacedBy)
        BY <1>0, <3>3, <4>1, <4>2 DEF Revoke, TypeOK, Row
      <4>4. token[t] # None
        BY <4>1, <4>2, NoneIsNoRecord
      <4> QED
        BY <1>2, <4>2, <4>3, <4>4
    <3> QED
      BY <2>1, <3>1, <3>2, <3>3
         DEF Next, vars, DirectoryStep, Handle, Send, Answer, Proceed, LoginVerify,
             LoginReject, RecordFailure, LoginSelect, LoginNoTenant, RefreshLookup,
             RefreshReject, RefreshMember, RefreshNoMember, LogoutLookup,
             LogoutNothing, Record, Fail
  <2>3. /\ token[t] \in Row /\ token[r] # None /\ r # t
    BY <1>0, <2>2 DEF Revoke, Typed, Stage, Source, Redeems, Delivered, TypeOK, Is
  <2>4. token'[t].revoked
    BY <1>0, <2>2, <2>3 DEF Revoke, TypeOK, Row
  <2>5. token'[r] # None /\ call'[r] = call[r]
    BY <2>2, <2>3, StepsEvolve DEF Evolves, Revoke
  <2> QED
    BY <2>2, <2>3, <2>4, <2>5 DEF Link, Is
<1> QED
  BY <1>1, <1>2

-----------------------------------------------------------------------------
(* Claims and the end of authority.                                        *)

\* A request acts for the same user until it is done.
LEMMA SubjectStays ==
  ASSUME Typed, [Next]_vars, NEW q \in Requests, pc[q] # "idle"
  PROVE  Subject(q)' = Subject(q)
<1>1. call'[q] = call[q]
  BY StepsEvolve DEF Evolves
<1>2. CASE Is(q, "login")
  BY <1>1, <1>2 DEF Subject, Is
<1>3. CASE Redeems(q)
  <2>1. PICK t \in Requests : t = call[q].token
    BY <1>3, RedeemsFields DEF Typed
  <2>2. token'[t].user = token[t].user
    BY <1>3, <2>1, StepsEvolve DEF Typed, Source, Delivered, Evolves
  <2> QED
    BY <1>1, <1>3, <2>1, <2>2 DEF Subject, Is, Redeems
<1> QED
  BY <1>2, <1>3, CallFields DEF Typed, Stage, Redeems, Is, TypeOK

\* The users of a directory are those of its calls and rows.
LEMMA SubjectIsUser ==
  ASSUME Typed, NEW q \in Requests, pc[q] # "idle"
  PROVE  Subject(q) \in Users
<1>1. call[q] \in Call /\ call[q] # None
  BY DEF Typed, Stage, TypeOK
<1>2. CASE Is(q, "login")
  BY <1>1, <1>2, CallFields DEF Subject, Is
<1>3. CASE Redeems(q)
  BY <1>3, RedeemsFields DEF Typed, Source, Delivered, Subject, Redeems, Is, TypeOK, Row
<1> QED
  BY <1>1, <1>2, <1>3, CallFields DEF Redeems, Is

\* What a request has checked holds on, unless the directory changes it and so
\* marks the request stale.
LEMMA NextKeepsFresh ==
  ASSUME Typed, [Next]_vars, NEW q \in Requests, Fresh(q)
  PROVE  Fresh(q)'
<1>0. TypeOK /\ Stage(q)
  BY DEF Typed
<1>1. CASE pc'[q] \notin {"select", "member", "issue"}
  BY <1>1 DEF Fresh
<1>2. CASE UNCHANGED dirVars /\ Kept(q) /\ stale'[q] = stale[q]
  BY <1>2, SubjectStays DEF Kept, Fresh, dirVars
<1>3. CASE Send(q)
  BY <1>0, <1>1, <1>3 DEF Send, TypeOK
<1>4. CASE Handle(q) /\ pc'[q] \in {"select", "member", "issue"}
  <2>1. LoginVerify(q) \/ RefreshLookup(q) \/ LoginSelect(q) \/ RefreshMember(q)
    BY <1>0, <1>4
       DEF Handle, Answer, Proceed, LoginReject, RecordFailure, LoginNoTenant,
           RefreshReject, RefreshNoMember, LogoutLookup, LogoutNothing,
           IssueTokenPair, Revoke, Record, Fail, TypeOK
  <2>2. pc[q] # "idle" /\ UNCHANGED <<dirVars, stale>>
    BY <2>1 DEF LoginVerify, RefreshLookup, LoginSelect, RefreshMember, Proceed
  <2>3. Subject(q)' = Subject(q)
    BY <2>2, SubjectStays
  <2>4. CASE LoginVerify(q) \/ RefreshLookup(q)
    <3>1. account[Subject(q)] = "active" /\ pc'[q] # "issue"
      BY <1>0, <2>4
         DEF LoginVerify, RefreshLookup, Proceed, Subject, Is, TypeOK
    <3> QED
      BY <2>2, <2>3, <3>1 DEF Fresh, dirVars
  <2>5. CASE LoginSelect(q) \/ RefreshMember(q)
    <3>1. PICK c \in Claims : /\ payload' = [payload EXCEPT ![q] = c]
                              /\ c.user = Subject(q)
                              /\ membership[c.org][c.user] = c.role
      BY <2>5, LoginClaims, RefreshClaims
    <3>2. payload'[q] = c
      BY <1>0, <3>1 DEF TypeOK
    <3>3. ~stale[q] => account[Subject(q)] = "active"
      BY <2>5 DEF Fresh, LoginSelect, RefreshMember
    <3> QED
      BY <2>2, <2>3, <3>1, <3>2, <3>3 DEF Fresh, dirVars
  <2> QED
    BY <2>1, <2>4, <2>5
<1>5. CASE DirectoryStep
  <2>1. /\ pc'[q] = pc[q] /\ payload'[q] = payload[q]
        /\ stale'[q] = (stale[q] \/ Outdated(q))
    BY <1>5 DEF DirectoryStep
  <2> QED
    BY <2>1, SubjectStays DEF Fresh, Outdated
<1>6. \/ UNCHANGED dirVars /\ Kept(q) /\ stale'[q] = stale[q]
      \/ Send(q) \/ Handle(q) \/ DirectoryStep
  <2>1. CASE Tick \/ UNCHANGED vars
    BY <1>0, <2>1, StepsOfTheWorld DEF Tick, vars, reqVars, dirVars
  <2>2. ASSUME NEW r \in Requests, Send(r) \/ Handle(r), r # q
        PROVE  UNCHANGED dirVars /\ Kept(q) /\ stale'[q] = stale[q]
    <3>1. UNCHANGED dirVars
      BY <2>2
         DEF Handle, Send, Answer, Proceed, LoginVerify, LoginReject, RecordFailure,
             LoginSelect, LoginNoTenant, RefreshLookup, RefreshReject,
             RefreshMember, RefreshNoMember, LogoutLookup, LogoutNothing,
             IssueTokenPair, Revoke, Record, Fail
    <3> QED
      BY <2>2, <3>1, StepsOfOthers
  <2> QED
    BY <2>1, <2>2 DEF Next
<1> QED
  BY <1>1, <1>2, <1>3, <1>4, <1>5, <1>6

\* Whoever can enter a tenant now has lost nothing.
LEMMA NextKeepsEntitled ==
  ASSUME Typed, EntitledNotLapsed, [Next]_vars
  PROVE  EntitledNotLapsed'
<1> SUFFICES ASSUME NEW o \in Orgs, NEW u \in Users, Entitled(o, u)'
             PROVE  lapsed'[o][u] = 0
  BY DEF EntitledNotLapsed
<1>1. CASE DirectoryStep
  BY <1>1 DEF DirectoryStep
<1>2. CASE Tick
  <2>1. Entitled(o, u)
    BY <1>2 DEF Tick, Entitled, IsMember, dirVars
  <2> QED
    BY <1>2, <2>1 DEF Tick, EntitledNotLapsed
<1>3. CASE UNCHANGED <<dirVars, lapsed>>
  BY <1>3 DEF EntitledNotLapsed, Entitled, IsMember, dirVars
<1>4. ASSUME NEW r \in Requests, Send(r) \/ Handle(r) PROVE UNCHANGED <<dirVars, lapsed>>
  BY <1>4
     DEF Handle, Send, Answer, Proceed, LoginVerify, LoginReject, RecordFailure,
         LoginSelect, LoginNoTenant, RefreshLookup, RefreshReject, RefreshMember,
         RefreshNoMember, LogoutLookup, LogoutNothing, IssueTokenPair, Revoke,
         Record, Fail
<1> QED
  BY <1>1, <1>2, <1>3, <1>4 DEF Next, vars, dirVars

\* A row's remaining time and its owner's lapse never add up to more than one
\* lifetime: the clock moves one to the other, and a fresh row starts at zero.
LEMMA NextKeepsLapse ==
  ASSUME Typed, EntitledNotLapsed, [Next]_vars, NEW t \in Requests,
         Fresh(t), Lapse(t)
  PROVE  Lapse(t)'
<1> SUFFICES ASSUME token'[t] # None, ~stale'[t]
             PROVE  token'[t].left + lapsed'[token'[t].org][token'[t].user] <= RefreshTTL
  BY DEF Lapse
<1>0. /\ TypeOK /\ Stage(t)
      /\ token[t] # None => /\ token[t] \in Row /\ token[t].left \in 0..RefreshTTL
                            /\ token[t].org \in Orgs /\ token[t].user \in Users
  BY DEF Typed, TypeOK, Row
<1>a. stale[t] => stale'[t]
  BY <1>0, StepsOfTheWorld
     DEF Next, Handle, Send, Answer, Proceed, LoginVerify, LoginReject,
         RecordFailure, LoginSelect, LoginNoTenant, RefreshLookup, RefreshReject,
         RefreshMember, RefreshNoMember, LogoutLookup, LogoutNothing,
         IssueTokenPair, Revoke, Record, Fail
<1>b. ASSUME NEW r \in Requests, Send(r) \/ Handle(r) PROVE UNCHANGED <<dirVars, lapsed>>
  BY <1>b
     DEF Handle, Send, Answer, Proceed, LoginVerify, LoginReject, RecordFailure,
         LoginSelect, LoginNoTenant, RefreshLookup, RefreshReject, RefreshMember,
         RefreshNoMember, LogoutLookup, LogoutNothing, IssueTokenPair, Revoke,
         Record, Fail
<1>1. CASE token[t] # None
  <2> DEFINE o == token[t].org
             u == token[t].user
  <2>1. /\ token'[t].org = o /\ token'[t].user = u
        /\ token'[t].left \in Nat /\ token'[t].left <= token[t].left
    BY <1>1, StepsEvolve DEF Evolves
  <2>2. token[t].left + lapsed[o][u] <= RefreshTTL /\ lapsed[o][u] \in 0..RefreshTTL
    BY <1>0, <1>1, <1>a DEF Lapse, TypeOK
  <2>3. CASE Tick
    <3>1. lapsed'[o][u] \in {lapsed[o][u], lapsed[o][u] + 1} /\ lapsed'[o][u] <= RefreshTTL
      <4>1. lapsed'[o][u] = IF Entitled(o, u) \/ lapsed[o][u] = RefreshTTL
                            THEN lapsed[o][u] ELSE lapsed[o][u] + 1
        BY <1>0, <1>1, <2>3 DEF Tick
      <4> QED
        BY <2>2, <4>1, TTLIsPositive
    <3>2. CASE token[t].left > 0
      <4>1. token'[t].left = token[t].left - 1
        BY <1>0, <1>1, <2>3, <3>2, TickedRow DEF Tick
      <4> QED
        BY <1>0, <1>1, <2>1, <2>2, <3>1, <4>1, TTLIsPositive
    <3>3. CASE ~(token[t].left > 0)
      <4>1. token'[t].left = 0
        BY <1>0, <1>1, <2>1, <3>3, TTLIsPositive
      <4> QED
        BY <2>1, <2>2, <3>1, <4>1, TTLIsPositive
    <3> QED
      BY <3>2, <3>3
  <2>4. CASE ~Tick
    <3>1. lapsed'[o][u] \in {0, lapsed[o][u]}
      BY <1>0, <1>1, <1>b, <2>4 DEF Next, DirectoryStep, vars
    <3> QED
      BY <1>0, <1>1, <2>1, <2>2, <3>1, TTLIsPositive
  <2> QED
    BY <2>3, <2>4
<1>2. CASE token[t] = None
  <2>1. Send(t) \/ Handle(t)
    BY <1>0, <1>2, StepsOfOthers, StepsOfTheWorld DEF Next, Kept
  <2>2. Revoke(t) => token'[t] = token[t]
    BY <1>0, RedeemsFields DEF Revoke, Typed, Source, Stage, TypeOK
  <2>3. IssueTokenPair(t)
    BY <1>2, <2>1, <2>2
       DEF Handle, Send, Answer, Proceed, LoginVerify, LoginReject, RecordFailure,
           LoginSelect, LoginNoTenant, RefreshLookup, RefreshReject, RefreshMember,
           RefreshNoMember, LogoutLookup, LogoutNothing, Record, Fail
  <2> DEFINE c == payload[t]
  <2>4. /\ c \in Claims /\ pc[t] = "issue" /\ ~stale[t]
        /\ lapsed' = lapsed
    BY <1>0, <1>a, <2>1, <2>3, <1>b DEF IssueTokenPair, Stage
  <2>5. Entitled(c.org, c.user)
    <3>1. account[c.user] = "active" /\ membership[c.org][c.user] = c.role
      BY <2>4 DEF Fresh
    <3>2. c.role # None
      BY <2>4, NoneIsNoRole DEF Claims
    <3> QED
      BY <3>1, <3>2 DEF Entitled, IsMember
  <2>6. lapsed[c.org][c.user] = 0
    BY <2>4, <2>5 DEF EntitledNotLapsed, Claims
  <2>7. token'[t].left = RefreshTTL /\ token'[t].org = c.org /\ token'[t].user = c.user
    BY <1>0, <2>3 DEF IssueTokenPair, TypeOK
  <2> QED
    BY <2>4, <2>6, <2>7, TTLIsPositive
<1> QED
  BY <1>1, <1>2

-----------------------------------------------------------------------------
(* Answers, tokens and events.                                             *)

\* Who has revoked a row goes on to be traced, or fails.
LEMMA RevokerStays ==
  ASSUME Typed, [Next]_vars, NEW q \in Requests, NEW t, Revoker(q, t)
  PROVE  Revoker(q, t)'
<1>1. TypeOK /\ Stage(q) /\ Redeems(q) /\ call[q].token = t
  BY DEF Typed, Revoker
<1>2. Redeems(q)' /\ call'[q].token = t
  BY <1>1, StepsEvolve DEF Evolves, Stage, Redeems, Is
<1>3. CASE trace[q] \/ reply[q] = "error"
  BY <1>2, <1>3, StepsEvolve DEF Evolves, Revoker
<1>4. CASE pc[q] = "audit"
  <2>1. CASE Kept(q)
    BY <1>2, <1>4, <2>1 DEF Kept, Revoker
  <2>2. CASE Send(q) \/ Handle(q)
    <3>1. Record(q) \/ Fail(q)
      BY <1>4, <2>2
         DEF Handle, Send, LoginVerify, LoginReject, RecordFailure, LoginSelect,
             LoginNoTenant, RefreshLookup, RefreshReject, RefreshMember,
             RefreshNoMember, LogoutLookup, LogoutNothing, IssueTokenPair, Revoke
    <3> QED
      BY <1>1, <1>2, <3>1 DEF Record, Fail, Answer, Revoker, TypeOK
  <2> QED
    BY <1>1, <2>1, <2>2, StepsOfOthers, StepsOfTheWorld DEF Next
<1> QED
  BY <1>3, <1>4 DEF Revoker

\* Every revocation goes back to a request that is traced, about to be, or
\* has failed.
LEMMA NextKeepsExplained ==
  ASSUME Typed, [Next]_vars, NEW t \in Requests, Explained(t)
  PROVE  Explained(t)'
<1> SUFFICES ASSUME token'[t] # None, token'[t].revoked
             PROVE  \E q \in Requests : Revoker(q, t)'
  BY DEF Explained
<1>0. TypeOK /\ (token[t] # None => token[t] \in Row)
  BY DEF Typed, TypeOK
<1>1. CASE token[t] # None /\ token[t].revoked
  BY <1>1, RevokerStays DEF Explained
<1>2. CASE ~(token[t] # None /\ token[t].revoked)
  <2>1. ASSUME NEW r \in Requests, IssueTokenPair(r) PROVE FALSE
    BY <1>0, <1>2, <2>1 DEF IssueTokenPair, TypeOK
  <2>2. CASE Tick
    <3>1. token[t] # None
      BY <1>0, <2>2, StepsOfTheWorld DEF Kept
    <3>2. token'[t].revoked = token[t].revoked
      BY <1>0, <2>2, <3>1 DEF Tick, Row
    <3> QED
      BY <1>2, <3>1, <3>2
  <2>3. ASSUME NEW r \in Requests, Revoke(r) PROVE Revoker(r, t)'
    <3>1. call[r].token \in Requests /\ token[call[r].token] \in Row
      BY <2>3, RedeemsFields DEF Revoke, Typed, Stage, Source, Delivered, TypeOK
    <3>2. t = call[r].token
      BY <1>0, <1>2, <2>3, <3>1 DEF Revoke, TypeOK
    <3>3. Redeems(r) /\ call' = call /\ pc'[r] = "audit"
      BY <1>0, <2>3 DEF Revoke, Proceed, Typed, Stage, TypeOK
    <3> QED
      BY <3>2, <3>3 DEF Revoker, Redeems, Is
  <2>4. ASSUME UNCHANGED token PROVE FALSE
    BY <1>2, <2>4
  <2> QED
    BY <2>1, <2>2, <2>3, <2>4
       DEF Next, vars, DirectoryStep, Handle, Send, Answer, Proceed, LoginVerify,
           LoginReject, RecordFailure, LoginSelect, LoginNoTenant, RefreshLookup,
           RefreshReject, RefreshMember, RefreshNoMember, LogoutLookup,
           LogoutNothing, Record, Fail
<1> QED
  BY <1>1, <1>2

-----------------------------------------------------------------------------
(* The invariant and what follows from it.                                 *)

\* IInv holds in every reachable state.
THEOREM Invariance == Spec => []IInv
<1>1. Init => IInv
  <2> SUFFICES ASSUME Init PROVE IInv
    OBVIOUS
  <2>1. Typed
    BY InitTyped DEF Typed, Init, Stage, Source, Redeems, Is, Refusals
  <2>2. AnsweredMeansRetired /\ EntitledNotLapsed
    BY DEF Init, AnsweredMeansRetired, Redeems, Is, EntitledNotLapsed
  <2>3. \A r \in Requests : Principal(r) /\ Reuse(r) /\ Fresh(r)
    BY DEF Init, Principal, Reuse, Fresh, Is
  <2>4. \A t \in Requests : Link(t) /\ Explained(t) /\ Lapse(t)
    BY DEF Init, Link, Explained, Lapse
  <2> QED
    BY <2>1, <2>2, <2>3, <2>4 DEF IInv
<1>2. IInv /\ [Next]_vars => IInv'
  <2> SUFFICES ASSUME IInv, [Next]_vars PROVE IInv'
    OBVIOUS
  <2> USE DEF IInv
  <2>1. Typed'
    BY NextTyped, NextKeepsStages DEF Typed
  <2>2. AnsweredMeansRetired' /\ EntitledNotLapsed'
    BY NextKeepsRetired, NextKeepsEntitled
  <2>3. \A r \in Requests : Principal(r)' /\ Reuse(r)' /\ Fresh(r)'
    BY NextKeepsPrincipal, NextKeepsReuse, NextKeepsFresh
  <2>4. \A t \in Requests : Link(t)' /\ Explained(t)' /\ Lapse(t)'
    BY NextKeepsLinks, NextKeepsExplained, NextKeepsLapse
  <2> QED
    BY <2>1, <2>2, <2>3, <2>4
<1> QED
  BY <1>1, <1>2, PTL DEF Spec

\* The state of every reachable state is well typed, for every set of tenants,
\* users and requests and every token lifetime.
THEOREM TypeCorrect == Spec => []TypeOK
<1>1. IInv => TypeOK
  BY DEF IInv, Typed
<1> QED
  BY <1>1, Invariance, PTL

\* An answered refresh or logout has put its token out of use for good.
THEOREM Retirement == Spec => []AnsweredMeansRetired
<1>1. IInv => AnsweredMeansRetired
  BY DEF IInv, AnsweredMeansRetired
<1> QED
  BY <1>1, Invariance, PTL

\* A refresh with a token redeemed before it was sent never gets a pair.
THEOREM ReuseDenied == Spec => []ReuseIsDenied
<1>1. IInv => ReuseIsDenied
  BY DEF IInv, Reuse, ReuseIsDenied
<1> QED
  BY <1>1, Invariance, PTL

\* Rotation never moves a session to another user or tenant.
THEOREM PrincipalKept == Spec => []RotationKeepsPrincipal
<1>1. IInv => RotationKeepsPrincipal
  BY DEF IInv, Principal, RotationKeepsPrincipal
<1> QED
  BY <1>1, Invariance, PTL

\* A replacement link names the token a refresh of this very row was given.
THEOREM LinksHonest == Spec => []LinksAreHonest
<1>1. IInv => LinksAreHonest
  <2> SUFFICES ASSUME IInv, NEW t \in Requests, NEW c \in Requests,
                      token[t] # None, token[t].replacedBy = c
               PROVE  /\ token[t].revoked /\ c # t /\ token[c] # None
                      /\ Is(c, "refresh") /\ call[c].token = t
    BY DEF LinksAreHonest
  <2>1. c # None
    BY NoneIsNoRequest
  <2> QED
    BY <2>1 DEF IInv, Link
<1> QED
  BY <1>1, Invariance, PTL

\* The claims about to be signed are those of the directory now, unless it has
\* changed since the request looked.
THEOREM ClaimsCurrent == Spec => []ClaimsAreCurrent
<1>1. IInv => ClaimsAreCurrent
  BY DEF IInv, Fresh, ClaimsAreCurrent
<1> QED
  BY <1>1, Invariance, PTL

\* A lost membership or a deactivated account ends every session in the tenant
\* within one token lifetime, save those of requests that were under way.
THEOREM AuthorityEnds == Spec => []AuthorityLapses
<1>1. IInv => AuthorityLapses
  <2> SUFFICES ASSUME IInv, NEW t \in Requests, Active(t), ~stale[t]
               PROVE  lapsed[token[t].org][token[t].user] < RefreshTTL
    BY DEF AuthorityLapses
  <2>1. token[t] \in Row /\ token[t].left > 0
    BY DEF Active, IInv, Typed, TypeOK
  <2>2. token[t].left \in 0..RefreshTTL
        /\ lapsed[token[t].org][token[t].user] \in 0..RefreshTTL
    BY <2>1 DEF Row, IInv, Typed, TypeOK
  <2>3. token[t].left + lapsed[token[t].org][token[t].user] <= RefreshTTL
    BY DEF IInv, Lapse, Active
  <2> QED
    BY <2>1, <2>2, <2>3, TTLIsPositive
<1> QED
  BY <1>1, Invariance, PTL

\* "ok" hands over a traced pair, a refusal issued nothing, and an untraced
\* revocation is the remnant of a request that failed or still runs.
THEOREM TrailTruthful == Spec => []TrailMatchesEffects
<1>1. IInv => TrailMatchesEffects
  <2> SUFFICES ASSUME IInv, NEW r \in Requests
               PROVE  /\ reply[r] = "ok" /\ ~Is(r, "logout") => token[r] # None /\ trace[r]
                      /\ reply[r] \in Refusals => token[r] = None
                      /\ token[r] # None =>
                           reply[r] \in {"ok", "error"} \/ pc[r] \in {"revoke", "audit"}
                      /\ token[r] # None /\ token[r].revoked =>
                           \E q \in Requests :
                             /\ Redeems(q) /\ call[q].token = r
                             /\ trace[q] \/ pc[q] = "audit" \/ reply[q] = "error"
    BY DEF TrailMatchesEffects
  <2>1. Stage(r) /\ reply[r] \in Replies
    BY DEF IInv, Typed, TypeOK
  <2> QED
    BY <2>1 DEF IInv, Stage, Explained, Revoker, Replies, Refusals
<1> QED
  BY <1>1, Invariance, PTL

-----------------------------------------------------------------------------
(* Links of completed rotations.                                           *)

\* What CompletedRotationLinked is true of: the old token of an answered refresh
\* is linked to the token of that refresh or of one that overlapped it, neither
\* of the two having been sent after the other, or any third, was answered.
RotationsAreLinked ==
  \A r \in Requests :
    Is(r, "refresh") /\ reply[r] = "ok" =>
      \E q \in Requests :
        /\ token[call[r].token].replacedBy = q
        /\ Is(q, "refresh") /\ call[q].token = call[r].token /\ token[q] # None
        /\ ~reused[q] /\ ~reused[r]

\* A refresh that has revoked its token has left a link, and there stays one.
Linked(r) ==
  Is(r, "refresh") /\ (pc[r] = "audit" \/ reply[r] = "ok") =>
    token[call[r].token].replacedBy # None

\* A later revocation puts its own link or leaves the one that is there.
LEMMA LinkStays ==
  ASSUME Typed, [Next]_vars, NEW t \in Requests,
         token[t] # None, token[t].replacedBy # None
  PROVE  token'[t].replacedBy # None
<1>0. TypeOK /\ Stage(t) /\ token[t] \in Row
  BY DEF Typed, TypeOK
<1>1. ASSUME NEW r \in Requests, Revoke(r) PROVE token'[t].replacedBy # None
  <2>1. call[r].token \in Requests
    BY <1>0, <1>1, RedeemsFields DEF Revoke, Typed, Stage
  <2>2. CASE t = call[r].token
    <3>1. token'[t] = [token[t] EXCEPT !.revoked = TRUE,
                                       !.replacedBy = IF Is(r, "refresh") THEN r ELSE @]
      BY <1>0, <1>1, <2>1, <2>2 DEF Revoke, TypeOK
    <3>2. token'[t].replacedBy = IF Is(r, "refresh") THEN r ELSE token[t].replacedBy
      BY <1>0, <3>1 DEF Row
    <3> QED
      BY <3>2, NoneIsNoRequest
  <2>3. CASE t # call[r].token
    BY <1>0, <1>1, <2>3 DEF Revoke, TypeOK
  <2> QED
    BY <2>2, <2>3
<1>2. CASE Tick
  <2>1. token'[t] = token[t] \/ token'[t] = [token[t] EXCEPT !.left = @ - 1]
    BY <1>2 DEF Tick
  <2> QED
    BY <1>0, <2>1 DEF Row
<1>3. ASSUME NEW r \in Requests, Send(r) \/ Handle(r), ~Revoke(r)
      PROVE  token'[t].replacedBy # None
  <2>1. token'[t] = token[t]
    BY <1>0, <1>3
       DEF TypeOK, Stage, Handle, Send, Answer, Proceed, LoginVerify, LoginReject,
           RecordFailure, LoginSelect, LoginNoTenant, RefreshLookup, RefreshReject,
           RefreshMember, RefreshNoMember, LogoutLookup, LogoutNothing,
           IssueTokenPair, Record, Fail
  <2> QED
    BY <2>1
<1>4. CASE DirectoryStep \/ UNCHANGED vars
  BY <1>4 DEF DirectoryStep, vars
<1> QED
  BY <1>1, <1>2, <1>3, <1>4 DEF Next

\* A refresh leaves its link in the step that leads it to its audit event.
LEMMA NextKeepsLinked ==
  ASSUME Typed, [Next]_vars, NEW q \in Requests, Linked(q)
  PROVE  Linked(q)'
<1> SUFFICES ASSUME Is(q, "refresh")', pc'[q] = "audit" \/ reply'[q] = "ok"
             PROVE  token'[call'[q].token].replacedBy # None
  BY DEF Linked
<1>0. TypeOK /\ Stage(q) /\ Source(q) /\ Stage(q)'
  BY NextKeepsStages DEF Typed
<1>1. CASE Kept(q) \/ pc[q] = "audit" \/ reply[q] = "ok"
  <2>1. /\ call'[q] = call[q] /\ Is(q, "refresh")
        /\ pc[q] = "audit" \/ reply[q] = "ok"
    BY <1>0, <1>1, StepsEvolve DEF Kept, Evolves, Stage, Is
  <2>2. PICK t \in Requests : t = call[q].token
    BY <1>0, <2>1, RedeemsFields DEF Redeems
  <2>3. token[t] # None /\ token[t].replacedBy # None
    BY <1>0, <2>1, <2>2 DEF Source, Redeems, Delivered, Linked
  <2> QED
    BY <2>1, <2>2, <2>3, LinkStays
<1>2. CASE ~(Kept(q) \/ pc[q] = "audit" \/ reply[q] = "ok")
  <2>1. Send(q) \/ Handle(q)
    BY <1>0, <1>2, StepsOfOthers, StepsOfTheWorld DEF Next
  <2>2. Revoke(q)
    BY <1>0, <1>2, <2>1
       DEF Handle, Send, Answer, Proceed, LoginVerify, LoginReject, RecordFailure,
           LoginSelect, LoginNoTenant, RefreshLookup, RefreshReject, RefreshMember,
           RefreshNoMember, LogoutLookup, LogoutNothing, IssueTokenPair, Record, Fail,
           Stage, Is, TypeOK
  <2>3. call'[q] = call[q] /\ Is(q, "refresh") /\ Redeems(q)
    BY <2>2 DEF Revoke, Proceed, Is, Redeems
  <2>4. PICK t \in Requests : t = call[q].token /\ token[t] \in Row
    BY <1>0, <2>3, RedeemsFields DEF Source, Delivered, TypeOK
  <2>5. token'[t] = [token[t] EXCEPT !.revoked = TRUE, !.replacedBy = q]
    BY <1>0, <2>2, <2>3, <2>4 DEF Revoke, TypeOK
  <2> QED
    BY <2>3, <2>4, <2>5, NoneIsNoRequest DEF Row
<1> QED
  BY <1>1, <1>2

\* Every completed rotation is linked, if not to the pair it handed over then to
\* that of a refresh it raced with.
THEOREM RotationLinked == Spec => []RotationsAreLinked
<1> DEFINE AllLinked == \A r \in Requests : Linked(r)
<1>1. Init => AllLinked
  BY DEF Init, Linked, Is
<1>2. IInv /\ AllLinked /\ [Next]_vars => AllLinked'
  BY NextKeepsLinked DEF IInv
<1>3. IInv /\ AllLinked => RotationsAreLinked
  <2> SUFFICES ASSUME IInv, AllLinked, NEW r \in Requests,
                      Is(r, "refresh"), reply[r] = "ok"
               PROVE  \E q \in Requests :
                        /\ token[call[r].token].replacedBy = q
                        /\ Is(q, "refresh") /\ call[q].token = call[r].token
                        /\ token[q] # None /\ ~reused[q] /\ ~reused[r]
    BY DEF RotationsAreLinked
  <2>1. PICK t \in Requests : t = call[r].token /\ token[t] \in Row
    BY RedeemsFields DEF IInv, Typed, Source, Delivered, Redeems, TypeOK
  <2>2. token[t].replacedBy \in Requests /\ token[t] # None
    BY <2>1, NoneIsNoRecord DEF Linked, Row
  <2>3. PICK q \in Requests : q = token[t].replacedBy
    BY <2>2
  <2>4. Is(q, "refresh") /\ call[q].token = t /\ token[q] # None
    BY <2>2, <2>3, NoneIsNoRequest DEF IInv, Link
  <2>5. token[r] # None
    BY DEF IInv, Typed, Stage, Is
  <2> QED
    BY <2>1, <2>3, <2>4, <2>5 DEF IInv, Reuse
<1> QED
  BY <1>1, <1>2, <1>3, Invariance, PTL DEF Spec

-----------------------------------------------------------------------------
(* The table of refresh tokens keeps its promise.                          *)

\* The promise sees nothing of a step at t.
SameView(t) ==
  /\ TokenState(t)' = TokenState(t)
  /\ TokenHolder(t)' = TokenHolder(t)
  /\ TokenClaim(t)' = TokenClaim(t)
  /\ Delivered(t)' = Delivered(t)

\* All it may see is that the token at t goes out of use.
SameOrRetired(t) ==
  /\ Active(t)' => Active(t)
  /\ token[t] = None <=> token'[t] = None
  /\ TokenHolder(t)' = TokenHolder(t)
  /\ TokenClaim(t)' = TokenClaim(t)
  /\ Delivered(t)' = Delivered(t)

\* A step the promise sees nothing of, anywhere, is a stutter of the table.
LEMMA ViewStutters ==
  ASSUME \A t \in Requests : SameView(t)
  PROVE  UNCHANGED Table!vars
BY DEF Table!vars, SameView

\* Claiming, withdrawing, issuing, retiring and handing over, each said of one
\* token's view at a time.
LEMMA ViewClaims ==
  ASSUME NEW r \in Requests, NEW s \in Requests,
         \A t \in Requests : /\ TokenState(t)' = TokenState(t)
                             /\ TokenHolder(t)' = TokenHolder(t)
                             /\ Delivered(t)' = Delivered(t)
                             /\ t # r => TokenClaim(t)' = TokenClaim(t),
         TokenState(r) = "none", TokenClaim(r) = None, TokenClaim(r)' = s,
         TokenState(s) = "active", Delivered(s)
  PROVE  Table!Claim(r, s)
BY DEF Table!Claim

LEMMA ViewWithdraws ==
  ASSUME NEW r \in Requests,
         \A t \in Requests : /\ TokenState(t)' = TokenState(t)
                             /\ TokenHolder(t)' = TokenHolder(t)
                             /\ Delivered(t)' = Delivered(t)
                             /\ t # r => TokenClaim(t)' = TokenClaim(t),
         TokenState(r) = "none", TokenClaim(r) # None, TokenClaim(r)' = None
  PROVE  Table!Withdraw(r)
BY DEF Table!Withdraw

LEMMA ViewIssues ==
  ASSUME NEW r \in Requests, NEW h,
         \A t \in Requests : /\ TokenClaim(t)' = TokenClaim(t)
                             /\ Delivered(t)' = Delivered(t)
                             /\ t # r => /\ TokenState(t)' = TokenState(t)
                                         /\ TokenHolder(t)' = TokenHolder(t),
         TokenState(r) = "none", TokenState(r)' = "active", TokenHolder(r)' = h,
         TokenClaim(r) # None =>
           /\ TokenClaim(r) \in Requests
           /\ h = TokenHolder(TokenClaim(r))
  PROVE  Table!Issue(r, h)
BY DEF Table!Issue

LEMMA ViewHandsOver ==
  ASSUME NEW r \in Requests,
         \A t \in Requests : /\ TokenState(t)' = TokenState(t)
                             /\ TokenHolder(t)' = TokenHolder(t)
                             /\ TokenClaim(t)' = TokenClaim(t)
                             /\ t # r => Delivered(t)' = Delivered(t),
         TokenState(r) # "none", ~Delivered(r), Delivered(r)',
         TokenClaim(r) # None =>
           /\ TokenClaim(r) \in Requests
           /\ TokenState(TokenClaim(r)) = "retired"
  PROVE  Table!HandOver(r)
BY DEF Table!HandOver

\* Tokens that go out of use, however many, are retired together.
LEMMA ViewRetires ==
  ASSUME \A t \in Requests : SameOrRetired(t)
  PROVE  Table!Next
<1> DEFINE gone == {t \in Requests : Active(t) /\ ~Active(t)'}
<1>1. gone \in SUBSET {t \in Requests : TokenState(t) = "active"}
  BY DEF TokenState, Active
<1>2. \A t \in Requests :
        TokenState(t)' = IF t \in gone THEN "retired" ELSE TokenState(t)
  BY DEF TokenState, SameOrRetired, Active
<1>3. Table!Retire(gone)
  BY <1>2 DEF Table!Retire, SameOrRetired
<1> QED
  BY <1>1, <1>3 DEF Table!Next

\* A request whose record and row are left alone looks the same.
LEMMA LeftAlone ==
  ASSUME NEW q \in Requests, Kept(q), token'[q] = token[q]
  PROVE  SameView(q)
BY DEF SameView, Kept, TokenState, TokenHolder, TokenClaim, Delivered, Active, Is

\* The claim of a refresh is the token it presents.
LEMMA ClaimFields ==
  ASSUME Typed, NEW r \in Requests, TokenClaim(r) # None
  PROVE  /\ Is(r, "refresh") /\ TokenClaim(r) = call[r].token
         /\ call[r].token \in Requests /\ token[call[r].token] \in Row
         /\ Delivered(call[r].token)
<1>1. Is(r, "refresh") /\ TokenClaim(r) = call[r].token
  BY DEF TokenClaim
<1> QED
  BY <1>1, RedeemsFields DEF Typed, Source, Delivered, Redeems, TypeOK

\* A request that is not revoking shows nothing at any other token.
LEMMA OthersView ==
  ASSUME Typed, NEW r \in Requests, Send(r) \/ Handle(r), ~Revoke(r),
         NEW q \in Requests, q # r
  PROVE  SameView(q)
<1>1. Kept(q)
  BY StepsOfOthers
<1>2. token'[q] = token[q]
  BY DEF Typed, TypeOK, Handle, Send, Answer, Proceed, LoginVerify, LoginReject,
     RecordFailure, LoginSelect, LoginNoTenant, RefreshLookup, RefreshReject,
     RefreshMember, RefreshNoMember, LogoutLookup, LogoutNothing, IssueTokenPair,
     Record, Fail
<1> QED
  BY <1>1, <1>2, LeftAlone

\* While there is no token only its claim can show.
LEMMA NoTokenView ==
  ASSUME NEW r \in Requests, token[r] = None, token'[r] = None
  PROVE  /\ TokenState(r) = "none" /\ TokenState(r)' = TokenState(r)
         /\ TokenHolder(r)' = TokenHolder(r)
         /\ ~Delivered(r) /\ ~Delivered(r)' /\ Delivered(r)' = Delivered(r)
BY DEF TokenState, TokenHolder, Delivered

\* The step itself shows nowhere unless it finds the token active, drops the
\* claim, or issues, revokes or answers with a token.
LEMMA UnseenSteps ==
  ASSUME Typed, NEW r \in Requests,
         \/ Send(r) \/ LoginVerify(r) \/ LoginReject(r) \/ RecordFailure(r)
         \/ LoginSelect(r) \/ LoginNoTenant(r) \/ RefreshReject(r)
         \/ RefreshMember(r) \/ LogoutLookup(r) \/ LogoutNothing(r)
  PROVE  UNCHANGED Table!vars
<1>0. TypeOK /\ Stage(r)
  BY DEF Typed
<1>1. (Send(r) \/ Handle(r)) /\ ~Revoke(r)
  BY DEF Handle, Revoke, Send, LoginVerify, LoginReject, RecordFailure, LoginSelect,
     LoginNoTenant, RefreshReject, RefreshMember, LogoutLookup, LogoutNothing
<1>2. token' = token /\ token[r] = None
  BY <1>0
     DEF Stage, Send, Answer, LoginVerify, LoginReject, RecordFailure, LoginSelect,
         LoginNoTenant, RefreshReject, RefreshMember, LogoutLookup, LogoutNothing
<1>3. TokenClaim(r)' = TokenClaim(r)
  <2>1. CASE Send(r)
    <3>1. pc[r] = "idle" /\ pc'[r] = "sent"
      BY <1>0, <2>1 DEF Send, TypeOK
    <3> QED
      BY <1>0, <1>2, <3>1 DEF TokenClaim, Stage, Is
  <2>2. CASE RefreshReject(r)
    <3>1. pc[r] = "sent" /\ pc'[r] = "done"
      BY <1>0, <2>2 DEF RefreshReject, Answer, TypeOK
    <3> QED
      BY <1>2, <3>1 DEF TokenClaim
  <2>3. CASE RefreshMember(r)
    <3>1. pc[r] = "member" /\ pc'[r] = "issue" /\ call' = call
      BY <1>0, <2>3 DEF RefreshMember, Proceed, TypeOK
    <3> QED
      BY <1>2, <3>1 DEF TokenClaim, Is
  <2>4. CASE ~(Send(r) \/ RefreshReject(r) \/ RefreshMember(r))
    <3>1. ~Is(r, "refresh") /\ call' = call
      BY <1>0, <2>4
         DEF Stage, Is, Answer, Proceed, LoginVerify, LoginReject, RecordFailure,
             LoginSelect, LoginNoTenant, LogoutLookup, LogoutNothing
    <3> QED
      BY <3>1 DEF TokenClaim, Is
  <2> QED
    BY <2>1, <2>2, <2>3, <2>4
<1>4. SameView(r)
  BY <1>2, <1>3, NoTokenView DEF SameView
<1> QED
  BY <1>1, <1>4, OthersView, ViewStutters

\* A presented token found active is claimed.
LEMMA LookupClaims ==
  ASSUME Typed, NEW r \in Requests, RefreshLookup(r)
  PROVE  \E s \in Requests : Table!Claim(r, s)
<1>0. TypeOK /\ Stage(r) /\ Source(r) /\ Is(r, "refresh") /\ Handle(r) /\ ~Revoke(r)
  BY DEF Typed, RefreshLookup, Handle, Revoke
<1>1. PICK s \in Requests : s = call[r].token
  BY <1>0, RedeemsFields DEF Redeems
<1>2. /\ pc[r] = "sent" /\ pc'[r] = "member"
      /\ call' = call /\ token' = token /\ token[r] = None
  BY <1>0 DEF RefreshLookup, Proceed, TypeOK, Stage
<1>3. TokenState(s) = "active" /\ Delivered(s)
  BY <1>0, <1>1 DEF RefreshLookup, TokenState, Active, Source, Redeems
<1>4. TokenClaim(r) = None /\ TokenClaim(r)' = s
  BY <1>0, <1>1, <1>2 DEF TokenClaim, Is
<1>5. \A t \in Requests : /\ TokenState(t)' = TokenState(t)
                          /\ TokenHolder(t)' = TokenHolder(t)
                          /\ Delivered(t)' = Delivered(t)
                          /\ t # r => TokenClaim(t)' = TokenClaim(t)
  BY <1>0, <1>2, NoTokenView, OthersView DEF SameView
<1> QED
  BY <1>2, <1>3, <1>4, <1>5, NoTokenView, ViewClaims

\* A refresh that ends before it has issued withdraws its claim; any other
\* request that fails leaves what it issued as it is, never handed over.
LEMMA EndsWithdraw ==
  ASSUME Typed, NEW r \in Requests, RefreshNoMember(r) \/ Fail(r)
  PROVE  Table!Withdraw(r) \/ UNCHANGED Table!vars
<1>0. TypeOK /\ Stage(r) /\ Handle(r) /\ ~Revoke(r)
  BY DEF Typed, TypeOK, RefreshNoMember, Fail, Handle, Revoke, Answer, Proceed
<1>1. /\ pc[r] \notin {"idle", "done"} /\ pc'[r] = "done"
      /\ call' = call /\ token' = token /\ reply[r] # "ok" /\ reply'[r] # "ok"
  BY <1>0 DEF RefreshNoMember, Fail, Answer, TypeOK, Stage
<1>2. Delivered(r)' = Delivered(r)
  BY <1>1 DEF Delivered
<1>3. TokenState(r)' = TokenState(r) /\ TokenHolder(r)' = TokenHolder(r)
  BY <1>1 DEF TokenState, TokenHolder, Active
<1>4. CASE Is(r, "refresh") /\ pc[r] \in {"member", "issue"}
  <2>1. token[r] = None /\ TokenState(r) = "none"
    BY <1>0, <1>4 DEF Stage, TokenState
  <2>2. TokenClaim(r) = call[r].token /\ call[r].token \in Requests
    BY <1>0, <1>4, RedeemsFields DEF TokenClaim, Redeems
  <2>3. TokenClaim(r)' = None
    BY <1>1, <2>1 DEF TokenClaim
  <2>4. \A t \in Requests : /\ TokenState(t)' = TokenState(t)
                            /\ TokenHolder(t)' = TokenHolder(t)
                            /\ Delivered(t)' = Delivered(t)
                            /\ t # r => TokenClaim(t)' = TokenClaim(t)
    <3> SUFFICES ASSUME NEW t \in Requests, t # r PROVE SameView(t)
      BY <1>2, <1>3 DEF SameView
    <3> QED
      BY <1>0, OthersView
  <2> QED
    BY <2>1, <2>2, <2>3, <2>4, NoneIsNoRequest, ViewWithdraws
<1>5. CASE ~(Is(r, "refresh") /\ pc[r] \in {"member", "issue"})
  <2>1. TokenClaim(r)' = TokenClaim(r)
    BY <1>1, <1>5 DEF TokenClaim, Is
  <2>2. SameView(r)
    BY <1>2, <1>3, <2>1 DEF SameView
  <2> QED
    BY <1>0, <2>2, OthersView, ViewStutters
<1> QED
  BY <1>4, <1>5

\* The row of a refresh is for the owner of the token that was presented.
LEMMA IssueIssues ==
  ASSUME Typed, NEW r \in Requests, Principal(r), IssueTokenPair(r)
  PROVE  \E h \in [user: Users, org: Orgs] : Table!Issue(r, h)
<1>0. TypeOK /\ Stage(r) /\ Source(r) /\ Handle(r) /\ ~Revoke(r)
  BY DEF Typed, IssueTokenPair, Revoke, Handle
<1>1. /\ pc[r] = "issue" /\ pc'[r] \in {"revoke", "audit"} /\ payload[r] \in Claims
      /\ call' = call /\ reply' = reply /\ token[r] = None /\ reply[r] = "none"
  BY <1>0 DEF IssueTokenPair, Proceed, TypeOK, Stage
<1>2. PICK row \in Row :
        /\ token'[r] = row /\ ~row.revoked /\ row.left = RefreshTTL
        /\ row.user = payload[r].user /\ row.org = payload[r].org
  BY <1>0, <1>1, NewRow DEF IssueTokenPair, TypeOK
<1>3. token'[r] # None /\ token'[r].left > 0
  BY <1>2, TTLIsPositive, NoneIsNoRecord
<1> DEFINE h == [user |-> payload[r].user, org |-> payload[r].org]
<1>4. TokenState(r) = "none" /\ TokenState(r)' = "active" /\ TokenHolder(r)' = h
  BY <1>1, <1>2, <1>3 DEF TokenState, TokenHolder, Active
<1>5. TokenClaim(r)' = TokenClaim(r)
  BY <1>1, <1>3 DEF TokenClaim, Is
<1>6. Delivered(r)' = Delivered(r)
  BY <1>1 DEF Delivered
<1>7. ASSUME TokenClaim(r) # None
      PROVE  TokenClaim(r) \in Requests /\ h = TokenHolder(TokenClaim(r))
  <2>1. PICK s \in Requests : s = call[r].token /\ s = TokenClaim(r)
    BY <1>7, ClaimFields
  <2>2. token[s] # None /\ Is(r, "refresh")
    BY <1>7, <2>1, ClaimFields DEF Delivered
  <2>3. payload[r].user = token[s].user /\ payload[r].org = token[s].org
    BY <1>1, <2>1, <2>2 DEF Principal
  <2> QED
    BY <2>1, <2>2, <2>3 DEF TokenHolder
<1>8. h \in [user: Users, org: Orgs]
  BY <1>1 DEF Claims
<1>9. ASSUME NEW t \in Requests, t # r PROVE SameView(t)
  BY <1>0, <1>9, OthersView
<1> HIDE DEF h
<1>10. \A t \in Requests : /\ TokenClaim(t)' = TokenClaim(t)
                           /\ Delivered(t)' = Delivered(t)
                           /\ t # r => /\ TokenState(t)' = TokenState(t)
                                       /\ TokenHolder(t)' = TokenHolder(t)
  BY <1>5, <1>6, <1>9 DEF SameView
<1> QED
  BY <1>4, <1>7, <1>8, <1>10, ViewIssues

\* A pair is handed over when the token presented for it is out of use; the
\* answer to a logout hands over nothing.
LEMMA AnswerHandsOver ==
  ASSUME Typed, NEW r \in Requests, Record(r)
  PROVE  Table!HandOver(r) \/ UNCHANGED Table!vars
<1>0. TypeOK /\ Stage(r) /\ Source(r) /\ Handle(r) /\ ~Revoke(r)
  BY DEF Typed, Record, Revoke, Handle
<1>1. /\ pc[r] = "audit" /\ reply[r] = "none" /\ reply'[r] = "ok"
      /\ pc'[r] = "done" /\ call' = call /\ token' = token
  BY <1>0 DEF Record, TypeOK, Stage
<1>2. /\ TokenState(r)' = TokenState(r) /\ TokenHolder(r)' = TokenHolder(r)
      /\ TokenClaim(r)' = TokenClaim(r)
  BY <1>1 DEF TokenState, TokenHolder, TokenClaim, Active, Is
<1>3. ASSUME NEW t \in Requests, t # r PROVE SameView(t)
  BY <1>0, <1>3, OthersView
<1>4. CASE token[r] # None
  <2>1. TokenState(r) # "none" /\ ~Delivered(r) /\ Delivered(r)'
    BY <1>1, <1>4 DEF TokenState, Delivered
  <2>2. ASSUME TokenClaim(r) # None
        PROVE  TokenClaim(r) \in Requests /\ TokenState(TokenClaim(r)) = "retired"
    <3>1. PICK s \in Requests : s = call[r].token /\ s = TokenClaim(r)
      BY <2>2, ClaimFields
    <3>2. token[s] # None /\ Redeems(r)
      BY <2>2, <3>1, ClaimFields DEF Delivered, Redeems
    <3>3. token[s].revoked
      BY <1>0, <1>1, <3>1, <3>2 DEF Source
    <3> QED
      BY <3>1, <3>2, <3>3 DEF TokenState, Active
  <2>3. \A t \in Requests : /\ TokenState(t)' = TokenState(t)
                            /\ TokenHolder(t)' = TokenHolder(t)
                            /\ TokenClaim(t)' = TokenClaim(t)
                            /\ t # r => Delivered(t)' = Delivered(t)
    BY <1>2, <1>3 DEF SameView
  <2> QED
    BY <2>1, <2>2, <2>3, ViewHandsOver
<1>5. CASE token[r] = None
  <2>1. SameView(r)
    BY <1>1, <1>2, <1>5, NoTokenView DEF SameView
  <2> QED
    BY <1>3, <2>1, ViewStutters
<1> QED
  BY <1>4, <1>5

\* A revocation puts the presented token out of use, or finds it so: another
\* request may have revoked it, or time.
LEMMA RevokeRetires ==
  ASSUME Typed, NEW r \in Requests, Revoke(r)
  PROVE  Table!Next
<1>0. TypeOK /\ Stage(r) /\ Source(r) /\ Handle(r) /\ Redeems(r)
  BY DEF Typed, Revoke, Handle, Stage
<1>1. PICK s \in Requests : s = call[r].token /\ s # r /\ token[s] \in Row
  BY <1>0, RedeemsFields DEF Source, Delivered, TypeOK
<1>2. \A t \in Requests : t # s => token'[t] = token[t]
  BY <1>0, <1>1 DEF Revoke, TypeOK
<1>3. SameView(r)
  <2>1. /\ pc[r] = "revoke" /\ pc'[r] = "audit"
        /\ call' = call /\ reply' = reply /\ token'[r] = token[r]
    BY <1>0, <1>1, <1>2 DEF Revoke, Proceed, TypeOK
  <2>2. TokenClaim(r)' = TokenClaim(r)
    BY <2>1 DEF TokenClaim, Is
  <2>3. Delivered(r)' = Delivered(r)
    BY <2>1 DEF Delivered
  <2> QED
    BY <2>1, <2>2, <2>3 DEF SameView, TokenState, TokenHolder, Active
<1>4. ASSUME NEW t \in Requests, t # r, t # s PROVE SameView(t)
  BY <1>0, <1>2, <1>4, StepsOfOthers, LeftAlone
<1>5. SameOrRetired(s)
  <2>1. Kept(s)
    BY <1>0, <1>1, StepsOfOthers
  <2>2. token'[s] = [token[s] EXCEPT !.revoked = TRUE,
                                     !.replacedBy = IF Is(r, "refresh") THEN r ELSE @]
    BY <1>0, <1>1 DEF Revoke, TypeOK
  <2>3. token'[s].revoked /\ token'[s].user = token[s].user
        /\ token'[s].org = token[s].org
    BY <1>1, <2>2 DEF Row
  <2>4. token[s] # None /\ token'[s] # None
    BY <1>1, <2>1, NoneIsNoRecord DEF Kept
  <2>5. TokenHolder(s)' = TokenHolder(s)
    BY <2>3, <2>4 DEF TokenHolder
  <2>6. TokenClaim(s)' = TokenClaim(s)
    BY <2>1 DEF Kept, TokenClaim, Is
  <2>7. Delivered(s)' = Delivered(s)
    BY <2>1 DEF Kept, Delivered
  <2> QED
    BY <2>3, <2>4, <2>5, <2>6, <2>7 DEF SameOrRetired, Active
<1>6. ASSUME NEW t \in Requests, SameView(t), token'[t] = token[t]
      PROVE  SameOrRetired(t)
  BY <1>6 DEF SameView, SameOrRetired, Active
<1> QED
  BY <1>1, <1>2, <1>3, <1>4, <1>5, <1>6, ViewRetires

\* The clock puts tokens out of use, several at once, and does nothing else.
LEMMA TickRetires ==
  ASSUME Typed, Tick
  PROVE  Table!Next
<1> SUFFICES ASSUME NEW t \in Requests PROVE SameOrRetired(t)
  BY ViewRetires
<1>1. Kept(t) /\ Evolves(t)
  BY StepsOfTheWorld, StepsEvolve DEF Typed, Next
<1>2. Active(t)' => Active(t)
  BY <1>1, DeadStaysDead DEF Kept, Active
<1>3. TokenHolder(t)' = TokenHolder(t)
  BY <1>1 DEF Kept, Evolves, TokenHolder
<1>4. TokenClaim(t)' = TokenClaim(t)
  BY <1>1 DEF Kept, TokenClaim, Is
<1>5. Delivered(t)' = Delivered(t)
  BY <1>1 DEF Kept, Delivered
<1> QED
  BY <1>1, <1>2, <1>3, <1>4, <1>5 DEF SameOrRetired, Kept

\* The table of refresh tokens keeps its promise under all interleavings: each
\* step is one the promise allows, or shows nothing.  The invariant is needed
\* twice: Principal where a pair is issued (the tenant and user signed are those
\* of the token that was presented some steps before), Source where it is handed
\* over (the token presented is revoked by then, whoever did it).
THEOREM ImplementsTokens == Spec => TokenSpec
<1>1. Init => Table!Init
  BY DEF Init, Table!Init, TokenState, TokenHolder, TokenClaim, Delivered, Is
<1>2. ASSUME IInv, [Next]_vars
      PROVE  [Table!Next]_(Table!vars)
  <2>0. Typed
    BY <1>2 DEF IInv
  <2>1. ASSUME NEW r \in Requests, Send(r) \/ Handle(r)
        PROVE  [Table!Next]_(Table!vars)
    <3>1. CASE RefreshLookup(r)
      BY <2>0, <3>1, LookupClaims DEF Table!Next
    <3>2. CASE RefreshNoMember(r) \/ Fail(r)
      BY <2>0, <3>2, EndsWithdraw DEF Table!Next
    <3>3. CASE IssueTokenPair(r)
      BY <1>2, <2>0, <3>3, IssueIssues DEF Table!Next, IInv
    <3>4. CASE Record(r)
      BY <2>0, <3>4, AnswerHandsOver DEF Table!Next
    <3>5. CASE Revoke(r)
      BY <2>0, <3>5, RevokeRetires
    <3>6. CASE \/ Send(r) \/ LoginVerify(r) \/ LoginReject(r) \/ RecordFailure(r)
               \/ LoginSelect(r) \/ LoginNoTenant(r) \/ RefreshReject(r)
               \/ RefreshMember(r) \/ LogoutLookup(r) \/ LogoutNothing(r)
      BY <2>0, <3>6, UnseenSteps
    <3> QED
      BY <2>1, <3>1, <3>2, <3>3, <3>4, <3>5, <3>6 DEF Handle
  <2>2. CASE Tick
    BY <2>0, <2>2, TickRetires
  <2>3. CASE DirectoryStep \/ UNCHANGED vars
    <3>1. ASSUME NEW t \in Requests PROVE SameView(t)
      <4>1. Kept(t)
        BY <2>0, <2>3, StepsOfTheWorld DEF Typed
      <4>2. token' = token
        BY <2>3 DEF DirectoryStep, vars
      <4> QED
        BY <4>1, <4>2, LeftAlone
    <3> QED
      BY <3>1, ViewStutters
  <2> QED
    BY <1>2, <2>1, <2>2, <2>3 DEF Next
<1> QED
  BY <1>1, <1>2, Invariance, PTL DEF Spec, TokenSpec, Table!Spec
=============================================================================
