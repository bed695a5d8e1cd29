------------------------------ MODULE UserAdmin ------------------------------
(***************************************************************************)
(* Administration of a tenant's members: UsersService.addUserToOrg,        *)
(* updateMemberRole and removeMember with the repository queries they      *)
(* await.  Any number of requests run at once, and other requests may take *)
(* steps at every await: nothing locks the rows a request has read.        *)
(*                                                                         *)
(* A request carries the role its access token was signed with, read from  *)
(* the directory when the token was issued (Send) and never again.         *)
(*                                                                         *)
(* effect and overtaken are history variables: no action's guard reads them*)
(***************************************************************************)
EXTENDS Directory, Naturals, FiniteSets

CONSTANT Requests    \* the requests clients send, each handled once

ASSUME UsersAreFinite == IsFiniteSet(Users)
ASSUME RequestsAreFinite == IsFiniteSet(Requests)

VARIABLES
  roleRef,    \* roleRef[o][u]: key of the role row the membership's roleId names,
              \* None also for a membership whose roleId is null
  pc,         \* where each request is
  call,       \* the request itself
  seen,       \* what its first query returned
  reply,      \* what the client was answered
  trace,      \* its audit event: not written, in the table, in the error log
  effect,     \* history: what its write changed in the directory
  overtaken   \* history: its tenant changed since its first query

reqVars == <<pc, call, seen, reply, trace, effect, overtaken>>
vars == <<membership, account, roleRef, reqVars>>

Stages == {"idle", "sent", "count", "write", "audit", "done"}
Replies == {"none", "ok", "badRequest", "forbidden", "notFound", "error"}
Refusals == {"badRequest", "forbidden", "notFound"}
RoleOrNone == Roles \cup {None}

\* actorRole is the role claim of the access token; a removal names no role.
Call ==
  [ op: {"add", "update"}, org: Orgs, actor: Users, actorRole: Roles,
    target: Users, role: Roles ]
  \cup
  [ op: {"remove"}, org: Orgs, actor: Users, actorRole: Roles,
    target: Users, role: {None} ]

Change == [before: RoleOrNone, after: RoleOrNone]

\* "null" is neither a request nor a change.
ASSUME NoneIsNoChange == None \notin Change

TypeOK ==
  /\ DirTypeOK
  /\ roleRef \in [Orgs -> [Users -> RoleOrNone]]
  /\ pc \in [Requests -> Stages]
  /\ call \in [Requests -> Call \cup {None}]
  /\ \A r \in Requests : pc[r] # "idle" => call[r] \in Call
  /\ seen \in [Requests -> RoleOrNone \cup AccountStates]
  /\ reply \in [Requests -> Replies]
  /\ trace \in [Requests -> {"none", "stored", "logged"}]
  /\ effect \in [Requests -> Change \cup {None}]
  /\ overtaken \in [Requests -> BOOLEAN]

-----------------------------------------------------------------------------
(* The queries of UsersRepository.                                         *)

\* findMembership: the role a request's target has in the caller's tenant.
TargetRole(r) == membership[call[r].org][call[r].target]

\* countAdmins.
AdminCount(o) == Cardinality(Admins(o))

\* createOrAttachUserToOrg fails on a unique index: users.email when the
\* account it did not find exists by now, else (organization_id, user_id).
AttachConflict(r) ==
  IF seen[r] = "absent" THEN account[call[r].target] # "absent"
                        ELSE TargetRole(r) # None

-----------------------------------------------------------------------------
\* The role checks at the top of the three methods, behind the route's guard.
MayManage(r) ==
  /\ PermissionsGuard(call[r].actorRole, {"users:manage"})
  /\ call[r].actorRole = "ORG_ADMIN"

\* The change asked for takes the role ORG_ADMIN away from a member who has it.
TakesAdmin(r, role) == role = "ORG_ADMIN" /\ call[r].role # "ORG_ADMIN"

\* r has read the directory and not yet written to it.
InWindow(r) == pc[r] \in {"count", "write"}

Answer(r, response) ==
  /\ pc' = [pc EXCEPT ![r] = "done"]
  /\ reply' = [reply EXCEPT ![r] = response]
  /\ UNCHANGED <<call, seen, trace, effect, overtaken>>

Proceed(r, stage) ==
  /\ pc' = [pc EXCEPT ![r] = stage]
  /\ UNCHANGED <<call, reply, trace, effect>>

\* The write of r is committed and the audit event comes next; every other
\* request of the tenant that is between its read and its write is overtaken.
Commit(r, after) ==
  /\ effect' = [effect EXCEPT ![r] = [before |-> TargetRole(r), after |-> after]]
  /\ overtaken' = [q \in Requests |->
                     overtaken[q] \/ ( /\ q # r
                                       /\ InWindow(q)
                                       /\ call[q].org = call[r].org )]
  /\ pc' = [pc EXCEPT ![r] = "audit"]
  /\ UNCHANGED <<call, seen, reply, trace>>

-----------------------------------------------------------------------------
\* A member sends a request with an access token that names the role the
\* member has now; the directory may change before the handler runs.
Send(r) ==
  /\ pc[r] = "idle"
  /\ \E c \in Call :
       /\ membership[c.org][c.actor] = c.actorRole
       /\ account[c.actor] = "active"
       /\ call' = [call EXCEPT ![r] = c]
  /\ pc' = [pc EXCEPT ![r] = "sent"]
  /\ UNCHANGED <<dirVars, roleRef, seen, reply, trace, effect, overtaken>>

\* Not an administrator by the token: 403, and no query is made.
Deny(r) ==
  /\ pc[r] = "sent"
  /\ ~MayManage(r)
  /\ Answer(r, "forbidden")
  /\ UNCHANGED <<dirVars, roleRef>>

\* addUserToOrg looks the e-mail up, outside the transaction that follows.
FindAccount(r) ==
  /\ pc[r] = "sent" /\ call[r].op = "add" /\ MayManage(r)
  /\ account[call[r].target] # "inactive"
  /\ seen' = [seen EXCEPT ![r] = account[call[r].target]]
  /\ overtaken' = [overtaken EXCEPT ![r] = FALSE]
  /\ Proceed(r, "write")
  /\ UNCHANGED <<dirVars, roleRef>>

\* An inactive account raises P2001, which no handler translates.
RejectInactive(r) ==
  /\ pc[r] = "sent" /\ call[r].op = "add" /\ MayManage(r)
  /\ account[call[r].target] = "inactive"
  /\ Answer(r, "error")
  /\ UNCHANGED <<dirVars, roleRef>>

\* Mutant: every new member is given the row of ORG_USER.
AttachDefaultRole(r) ==
  /\ pc[r] = "write" /\ call[r].op = "add"
  /\ ~AttachConflict(r)
  /\ Join(call[r].org, call[r].target, call[r].role)
  /\ roleRef' = [roleRef EXCEPT ![call[r].org][call[r].target] = "ORG_USER"]
  /\ Commit(r, call[r].role)

\* The transaction: user row if none was found, membership row, or neither.
Attach(r) ==
  /\ pc[r] = "write" /\ call[r].op = "add"
  /\ ~AttachConflict(r)
  /\ Join(call[r].org, call[r].target, call[r].role)
  /\ roleRef' = [roleRef EXCEPT ![call[r].org][call[r].target] = call[r].role]
  /\ Commit(r, call[r].role)

\* P2002 rolls the transaction back and is answered 400.
RejectDuplicate(r) ==
  /\ pc[r] = "write" /\ call[r].op = "add"
  /\ AttachConflict(r)
  /\ Answer(r, "badRequest")
  /\ UNCHANGED <<dirVars, roleRef>>

\* Mutant: the administrators are not counted.
FindMembershipUncounted(r) ==
  /\ pc[r] = "sent" /\ call[r].op # "add" /\ MayManage(r)
  /\ TargetRole(r) # None
  /\ seen' = [seen EXCEPT ![r] = TargetRole(r)]
  /\ overtaken' = [overtaken EXCEPT ![r] = FALSE]
  /\ Proceed(r, "write")
  /\ UNCHANGED <<dirVars, roleRef>>

\* updateMemberRole and removeMember read the target's membership; only a
\* change that takes an administrator away goes on to count them.
FindMembership(r) ==
  /\ pc[r] = "sent" /\ call[r].op # "add" /\ MayManage(r)
  /\ TargetRole(r) # None
  /\ seen' = [seen EXCEPT ![r] = TargetRole(r)]
  /\ overtaken' = [overtaken EXCEPT ![r] = FALSE]
  /\ Proceed(r, IF TakesAdmin(r, TargetRole(r)) THEN "count" ELSE "write")
  /\ UNCHANGED <<dirVars, roleRef>>

\* No membership at the first query, or none left for the write to match.
NotFound(r) ==
  /\ call[r] # None /\ call[r].op # "add"
  /\ \/ pc[r] = "sent" /\ MayManage(r)
     \/ pc[r] = "write"
  /\ TargetRole(r) = None
  /\ Answer(r, "notFound")
  /\ UNCHANGED <<dirVars, roleRef>>

\* Mutant: the target alone is enough.
CountAdminsOffByOne(r) ==
  /\ pc[r] = "count"
  /\ AdminCount(call[r].org) >= 1
  /\ Proceed(r, "write")
  /\ UNCHANGED <<dirVars, roleRef, seen, overtaken>>

\* Another administrator is counted beside the target.
CountAdmins(r) ==
  /\ pc[r] = "count"
  /\ AdminCount(call[r].org) > 1
  /\ Proceed(r, "write")
  /\ UNCHANGED <<dirVars, roleRef, seen, overtaken>>

\* Mutant: an answer the routes do not have.
KeepLastAdminConflict(r) ==
  /\ pc[r] = "count"
  /\ AdminCount(call[r].org) <= 1
  /\ Answer(r, "conflict")
  /\ UNCHANGED <<dirVars, roleRef>>

\* "Cannot demote (remove) the last ORG_ADMIN of the organization."
KeepLastAdmin(r) ==
  /\ pc[r] = "count"
  /\ AdminCount(call[r].org) <= 1
  /\ Answer(r, "badRequest")
  /\ UNCHANGED <<dirVars, roleRef>>

\* Mutant: the count of updated rows is ignored and the event written anyway.
UpdateRoleUnchecked(r) ==
  /\ pc[r] = "write" /\ call[r].op = "update"
  /\ IF TargetRole(r) = None
     THEN /\ pc' = [pc EXCEPT ![r] = "audit"]
          /\ UNCHANGED <<dirVars, call, seen, reply, trace, effect, overtaken>>
     ELSE /\ ChangeRole(call[r].org, call[r].target, call[r].role)
          /\ Commit(r, call[r].role)
  /\ UNCHANGED roleRef

\* updateMany sets role and leaves roleId as it is.
UpdateRole(r) ==
  /\ pc[r] = "write" /\ call[r].op = "update"
  /\ ChangeRole(call[r].org, call[r].target, call[r].role)
  /\ Commit(r, call[r].role)
  /\ UNCHANGED roleRef

\* Mutant: the count of deleted rows is ignored.
RemoveUnchecked(r) ==
  /\ pc[r] = "write" /\ call[r].op = "remove"
  /\ membership' = [membership EXCEPT ![call[r].org][call[r].target] = None]
  /\ roleRef' = [roleRef EXCEPT ![call[r].org][call[r].target] = None]
  /\ Commit(r, None)
  /\ UNCHANGED account

\* deleteMany removes the row of the target in the caller's tenant.
RemoveMembership(r) ==
  /\ pc[r] = "write" /\ call[r].op = "remove"
  /\ Leave(call[r].org, call[r].target)
  /\ roleRef' = [roleRef EXCEPT ![call[r].org][call[r].target] = None]
  /\ Commit(r, None)

\* Mutant: a failing audit store fails the request.
RecordOrRefuse(r) ==
  /\ pc[r] = "audit"
  /\ \/ /\ trace' = [trace EXCEPT ![r] = "stored"]
        /\ reply' = [reply EXCEPT ![r] = "ok"]
     \/ /\ reply' = [reply EXCEPT ![r] = "badRequest"]
        /\ UNCHANGED trace
  /\ pc' = [pc EXCEPT ![r] = "done"]
  /\ UNCHANGED <<dirVars, roleRef, call, seen, effect, overtaken>>

\* AuditService.record: stored, or the failure is logged and swallowed.
Record(r) ==
  /\ pc[r] = "audit"
  /\ \E where \in {"stored", "logged"} : trace' = [trace EXCEPT ![r] = where]
  /\ pc' = [pc EXCEPT ![r] = "done"]
  /\ reply' = [reply EXCEPT ![r] = "ok"]
  /\ UNCHANGED <<dirVars, roleRef, call, seen, effect, overtaken>>

\* A query rejects (the exception filter answers 500) or the process dies.
Fail(r) ==
  /\ pc[r] \notin {"idle", "done"}
  /\ Answer(r, "error")
  /\ UNCHANGED <<dirVars, roleRef>>

\* is_active changes outside the program.
Operator == (\E u \in Users : SetActive(u)) /\ UNCHANGED <<roleRef, reqVars>>

-----------------------------------------------------------------------------
\* The tenants' creations are over.  A membership names the row of its role, or
\* none: a createForUser that failed before setAdminRoleId leaves null
\* (Onboarding).  Whatever updateMemberRole has done counts as a request.
Init ==
  /\ DirInit
  /\ roleRef \in [Orgs -> [Users -> RoleOrNone]]
  /\ \A o \in Orgs, u \in Users : roleRef[o][u] \in {membership[o][u], None}
  /\ pc = [r \in Requests |-> "idle"]
  /\ call = [r \in Requests |-> None]
  /\ seen = [r \in Requests |-> None]
  /\ reply = [r \in Requests |-> "none"]
  /\ trace = [r \in Requests |-> "none"]
  /\ effect = [r \in Requests |-> None]
  /\ overtaken = [r \in Requests |-> FALSE]

Handle(r) ==
  \/ Deny(r)
  \/ FindAccount(r) \/ RejectInactive(r) \/ Attach(r) \/ RejectDuplicate(r)
  \/ FindMembership(r) \/ NotFound(r) \/ CountAdmins(r) \/ KeepLastAdmin(r)
  \/ UpdateRole(r) \/ RemoveMembership(r)
  \/ Record(r)
  \/ Fail(r)

Next ==
  \/ \E r \in Requests : Send(r) \/ Handle(r)
  \/ Operator

Spec == Init /\ [][Next]_vars

-----------------------------------------------------------------------------
(* Properties                                                              *)

\* The last-administrator rule as the code can keep it.  A step that leaves a
\* tenant without administrator is the write of a request that was overtaken:
\* another request changed the same tenant between this one's read and its
\* write.  A request nobody overtakes never takes the last one away
\* (users.service.ts, the checks before updateRole and removeMembership).
LastAdminLostOnlyByOvertaking ==
  [][ \A o \in Orgs :
        Admins(o) # {} /\ Admins(o)' = {} =>
          \E r \in Requests : /\ pc[r] = "write" /\ pc'[r] = "audit"
                              /\ call[r].org = o
                              /\ overtaken[r] ]_vars

\* What a request read is still so when it writes, unless it was overtaken:
\* the target's role, and for a change that takes an administrator away also
\* that another administrator exists.
ViewIsCurrent ==
  \A r \in Requests :
    InWindow(r) /\ call[r].op # "add" /\ ~overtaken[r] =>
      /\ seen[r] = TargetRole(r)
      /\ TakesAdmin(r, seen[r]) /\ pc[r] = "write" => AdminCount(call[r].org) > 1

\* The audit trail is truthful.  An event, stored or logged, is written only
\* for a change that was committed, names the role that was set, and its
\* previousRole is the role replaced unless the request was overtaken.
AuditIsTruthful ==
  \A r \in Requests :
    trace[r] # "none" =>
      /\ effect[r] # None
      /\ effect[r].after = call[r].role
      /\ call[r].op = "update" /\ ~overtaken[r] => effect[r].before = seen[r]

\* Answers match what happened, across conflicts, failing queries and a
\* failing audit store: "ok" means changed and traced, a refusal means nothing
\* was changed, and only a request that failed can leave a change untraced.
AnswersMatchEffects ==
  \A r \in Requests :
    /\ reply[r] = "ok" => effect[r] # None /\ trace[r] # "none"
    /\ reply[r] \in Refusals => effect[r] = None
    /\ effect[r] # None /\ trace[r] = "none" => pc[r] = "audit" \/ reply[r] = "error"

\* Requests r of kind op that took effect on (o, u).
Effective(op, o, u) ==
  {r \in Requests : /\ effect[r] # None
                    /\ call[r].op = op /\ call[r].org = o /\ call[r].target = u}

\* u joins and leaves tenant o by turns.
Alternate(o, u) ==
  LET joins == Cardinality(Effective("add", o, u))
      removals == Cardinality(Effective("remove", o, u))
  IN  IF IsMember(o, u) THEN joins - removals \in {0, 1}
                        ELSE removals - joins \in {0, 1}

\* Joins and removals of one user in one tenant alternate, however requests
\* interleave: of several removals racing for one membership exactly one
\* takes effect, and no join is accepted while the user is a member.
JoinsAndRemovalsAlternate == \A o \in Orgs, u \in Users : Alternate(o, u)

\* A membership names another role's row only behind updateMemberRole, which
\* sets role and leaves role_id: the role it has then is the one such a request
\* has set.  No row is named by a membership that is gone.
LagsBehindUpdate(o, u) ==
  /\ ~IsMember(o, u) => roleRef[o][u] = None
  /\ roleRef[o][u] \notin {membership[o][u], None} =>
       \E r \in Effective("update", o, u) : effect[r].after = membership[o][u]

RoleIdLagsOnlyBehindUpdates == \A o \in Orgs, u \in Users : LagsBehindUpdate(o, u)

\* What the service's messages promise: a tenant always has an ORG_ADMIN.
EveryTenantHasAdmin == \A o \in Orgs : Admins(o) # {}

\* The role row a membership references, if any, is the row of its role.
RoleIdNamesTheRole ==
  \A o \in Orgs, u \in Users : roleRef[o][u] \in {membership[o][u], None}
=============================================================================
