----------------------------- MODULE Onboarding -----------------------------
(***************************************************************************)
(* How tenants come to be: AuthService.register, OrganizationsService.     *)
(* createForUser and RolesRepository.ensureTenantDefaults, which both call *)
(* and which GET /roles repeats.  Every statement is a step; requests and  *)
(* member administration interleave at every await, and any query may      *)
(* fail.  register opens a transaction, but its callback uses the plain    *)
(* client, so its four writes commit one by one.                           *)
(*                                                                         *)
(* The upserts of permissions and of roles are single statements (INSERT   *)
(* ... ON CONFLICT DO UPDATE); that of a grant has nothing to update, for  *)
(* which Prisma looks the row up and creates it if there was none, so that *)
(* two requests may both create it and one of them gets P2002.             *)
(*                                                                         *)
(* A request creates at most one tenant, so the tenant is named by its     *)
(* request.                                                                *)
(***************************************************************************)
EXTENDS Authorization, Naturals, Sequences

CONSTANTS
  Requests,     \* the requests clients send, each handled once
  Users,        \* the identities, one for each e-mail address
  Residents,    \* the users who have an account from the start
  Names,        \* organization names
  MaxChanges,   \* bound: changes member administration makes in one tenant
  None          \* "no row" or "null"

ASSUME ResidentsAreUsers == Residents \subseteq Users
ASSUME MaxChangesIsNat == MaxChanges \in Nat
ASSUME NoneIsNothing == None \notin Roles \cup Permissions \cup Names

VARIABLES
  membership,   \* membership[t][u]: u's role in tenant t, None without a row
  account,      \* account[u]: no row, or the is_active flag of the row
  roleRef,      \* roleRef[t][u]: key of the role row the membership names
  tenant,       \* tenant[r]: name of the organization r created, or None
  catalog,      \* rows of permissions
  defaults,     \* defaults[t]: t's rows of roles and of role_permissions
  pc,           \* where each request is
  call,         \* the request itself
  written,      \* how many upserts of ensureTenantDefaults it has made
  reply,        \* what the client was answered
  trace,        \* whether its audit event is in the table or in the error log
  changes       \* changes[t]: how often member administration changed t

Dir == INSTANCE Directory WITH Orgs <- Requests

tableVars == <<membership, account, roleRef, tenant>>
roleVars == <<catalog, defaults>>
vars == <<tableVars, roleVars, pc, call, written, reply, trace, changes>>

Stages == {"idle", "sent", "tenant", "defaults", "grant", "user", "member",
           "link", "issue", "list", "audit", "done"}
Replies == {"none", "ok", "badRequest", "error"}

Creation == [op: {"register", "create"}, user: Users, name: Names]
Listing == [op: {"roles"}, tenant: Requests]
Call == Creation \cup Listing

ASSUME NoneIsNoCall == None \notin Call

-----------------------------------------------------------------------------
(* ensureTenantDefaults: the upserts it makes, in order.  A row of         *)
(* permissions has no role, a row of roles has no permission.              *)

Upsert == [role: Roles \cup {None}, permission: Permissions \cup {None}]

CatalogUpserts ==
  [i \in DOMAIN PermissionKeys |-> [role |-> None, permission |-> PermissionKeys[i]]]

\* The role's row, then its grants.
RoleUpserts(role) ==
  <<[role |-> role, permission |-> None]>>
    \o [i \in DOMAIN RolePermissions[role] |->
          [role |-> role, permission |-> RolePermissions[role][i]]]

\* Mutant: the catalog is written last.
UpsertsCatalogLast ==
  RoleUpserts("ORG_ADMIN") \o RoleUpserts("ORG_USER") \o RoleUpserts("READ_ONLY")
    \o CatalogUpserts

Upserts ==
  CatalogUpserts \o RoleUpserts("ORG_ADMIN") \o RoleUpserts("ORG_USER")
                 \o RoleUpserts("READ_ONLY")

\* The tenant's own rows of the whole role table.
FullDefaults ==
  {w \in Upsert : w.role # None /\ w.permission \in PermissionsOf(w.role) \cup {None}}

IsGrant(w) == w.role # None /\ w.permission # None

\* Nothing is missing from the role tables of t.
Equipped(t) == catalog = Permissions /\ defaults[t] = FullDefaults

-----------------------------------------------------------------------------
Is(r, op) == call[r] # None /\ call[r].op = op
Creates(r) == Is(r, "register") \/ Is(r, "create")

\* The tenant whose defaults r ensures.
TenantOf(r) == IF Is(r, "roles") THEN call[r].tenant ELSE r

\* The row r ensures next.
Due(r) == Upserts[written[r] + 1]

NameTaken(n) == \E t \in Requests : tenant[t] = n

TypeOK ==
  /\ Dir!DirTypeOK
  /\ roleRef \in [Requests -> [Users -> Roles \cup {None}]]
  /\ tenant \in [Requests -> Names \cup {None}]
  /\ catalog \subseteq Permissions
  /\ defaults \in [Requests -> SUBSET FullDefaults]
  /\ pc \in [Requests -> Stages]
  /\ call \in [Requests -> Call \cup {None}]
  /\ written \in [Requests -> 0..Len(Upserts)]
  /\ reply \in [Requests -> Replies]
  /\ trace \in [Requests -> BOOLEAN]
  /\ changes \in [Requests -> 0..MaxChanges]
  /\ \A r \in Requests : pc[r] \in {"defaults", "grant"} => written[r] < Len(Upserts)

Answer(r, response) ==
  /\ pc' = [pc EXCEPT ![r] = "done"]
  /\ reply' = [reply EXCEPT ![r] = response]
  /\ UNCHANGED <<tableVars, roleVars, call, written, trace, changes>>

Proceed(r, stage) ==
  /\ pc' = [pc EXCEPT ![r] = stage]
  /\ UNCHANGED <<call, reply, trace, changes>>

-----------------------------------------------------------------------------
\* Anybody may register, a user with an account may create a tenant, and a
\* member of a tenant may list its roles.
Send(r) ==
  /\ pc[r] = "idle"
  /\ \E c \in Call :
       /\ c.op = "create" => account[c.user] # "absent"
       /\ c.op = "roles" => \E u \in Users : Dir!IsMember(c.tenant, u)
       /\ call' = [call EXCEPT ![r] = c]
       /\ pc' = [pc EXCEPT ![r] = IF c.op = "roles" THEN "defaults" ELSE "sent"]
  /\ UNCHANGED <<tableVars, roleVars, written, reply, trace, changes>>

\* register: the e-mail is not in use.
LookupAccount(r) ==
  /\ pc[r] = "sent" /\ Is(r, "register")
  /\ account[call[r].user] = "absent"
  /\ Proceed(r, "tenant")
  /\ UNCHANGED <<tableVars, roleVars, written>>

\* "Email is already registered."
RejectAccount(r) ==
  /\ pc[r] = "sent" /\ Is(r, "register")
  /\ account[call[r].user] # "absent"
  /\ Answer(r, "badRequest")

\* register: the organization alone.
CreateTenant(r) ==
  /\ pc[r] = "tenant"
  /\ ~NameTaken(call[r].name)
  /\ tenant' = [tenant EXCEPT ![r] = call[r].name]
  /\ Proceed(r, "defaults")
  /\ UNCHANGED <<membership, account, roleRef, roleVars, written>>

\* createForUser: organization and membership in one transaction that does use
\* its client; role_id stays null.
CreateTenantWithAdmin(r) ==
  /\ pc[r] = "sent" /\ Is(r, "create")
  /\ ~NameTaken(call[r].name)
  /\ tenant' = [tenant EXCEPT ![r] = call[r].name]
  /\ Dir!Join(r, call[r].user, "ORG_ADMIN")
  /\ Proceed(r, "defaults")
  /\ UNCHANGED <<roleRef, roleVars, written>>

\* organizations.name is unique: createForUser translates P2002 to 400,
\* register does not.
RejectName(r) ==
  /\ \/ pc[r] = "tenant"
     \/ pc[r] = "sent" /\ Is(r, "create")
  /\ NameTaken(call[r].name)
  /\ Answer(r, IF Is(r, "create") THEN "badRequest" ELSE "error")

\* What follows ensureTenantDefaults in each of its callers.
AfterDefaults(r) ==
  CASE Is(r, "register") -> "user"
    [] Is(r, "create")   -> "link"
    [] Is(r, "roles")    -> "list"

\* Mutant: one upsert too many.
AdvancePastEnd(r) ==
  /\ written' = [written EXCEPT ![r] = @ + 1]
  /\ Proceed(r, IF written[r] < Len(Upserts) THEN "defaults" ELSE AfterDefaults(r))

\* The row is there: on to the next, or out of ensureTenantDefaults.
Advance(r) ==
  /\ written' = [written EXCEPT ![r] = @ + 1]
  /\ Proceed(r, IF written[r] + 1 < Len(Upserts) THEN "defaults" ELSE AfterDefaults(r))

\* Mutant: a tenant that has its first role is taken to have everything.
EnsureRowOnce(r) ==
  /\ pc[r] = "defaults" /\ ~IsGrant(Due(r))
  /\ IF Due(r).role = None
     THEN catalog' = catalog \cup {Due(r).permission} /\ UNCHANGED defaults
     ELSE defaults' = [defaults EXCEPT ![TenantOf(r)] = @ \cup {Due(r)}] /\ UNCHANGED catalog
  /\ IF Due(r) \in defaults[TenantOf(r)]
     THEN /\ written' = [written EXCEPT ![r] = Len(Upserts)]
          /\ Proceed(r, AfterDefaults(r))
     ELSE Advance(r)
  /\ UNCHANGED tableVars

\* permission.upsert or role.upsert, each one statement.
EnsureRow(r) ==
  /\ pc[r] = "defaults" /\ ~IsGrant(Due(r))
  /\ IF Due(r).role = None
     THEN catalog' = catalog \cup {Due(r).permission} /\ UNCHANGED defaults
     ELSE defaults' = [defaults EXCEPT ![TenantOf(r)] = @ \cup {Due(r)}] /\ UNCHANGED catalog
  /\ Advance(r)
  /\ UNCHANGED tableVars

\* A grant: its permission (findUniqueOrThrow), and whether it is there.
LookupGrant(r) ==
  /\ pc[r] = "defaults" /\ IsGrant(Due(r))
  /\ Due(r).permission \in catalog
  /\ \/ Due(r) \in defaults[TenantOf(r)] /\ Advance(r)
     \/ Due(r) \notin defaults[TenantOf(r)] /\ Proceed(r, "grant") /\ UNCHANGED written
  /\ UNCHANGED <<tableVars, roleVars>>

\* It was not there: rolePermission.upsert creates it.
CreateGrant(r) ==
  /\ pc[r] = "grant"
  /\ Due(r) \notin defaults[TenantOf(r)]
  /\ defaults' = [defaults EXCEPT ![TenantOf(r)] = @ \cup {Due(r)}]
  /\ Advance(r)
  /\ UNCHANGED <<tableVars, catalog>>

\* Another request has created it since the look-up: P2002, which
\* createForUser's catch takes for a name that is taken.
RejectGrant(r) ==
  /\ pc[r] = "grant"
  /\ Due(r) \in defaults[TenantOf(r)]
  /\ Answer(r, IF Is(r, "create") THEN "badRequest" ELSE "error")

\* Mutant: an account that appeared meanwhile is taken over.
CreateOrTakeUser(r) ==
  /\ pc[r] = "user"
  /\ account' = [account EXCEPT ![call[r].user] = "active"]
  /\ Proceed(r, "member")
  /\ UNCHANGED <<membership, roleRef, tenant, roleVars, written>>

\* register: the account, without a membership yet.
CreateUser(r) ==
  /\ pc[r] = "user"
  /\ Dir!CreateAccount(call[r].user)
  /\ Proceed(r, "member")
  /\ UNCHANGED <<roleRef, tenant, roleVars, written>>

\* Mutant: P2002 is translated, as createForUser does.
RejectUserTranslated(r) ==
  /\ pc[r] = "user"
  /\ account[call[r].user] # "absent"
  /\ Answer(r, "badRequest")

\* users.email is unique, and the account exists by now: P2002 is not
\* translated and the tenant stays.
RejectUser(r) ==
  /\ pc[r] = "user"
  /\ account[call[r].user] # "absent"
  /\ Answer(r, "error")

\* register: the first membership, with its role row.
CreateMembership(r) ==
  /\ pc[r] = "member"
  /\ Dir!Join(r, call[r].user, "ORG_ADMIN")
  /\ roleRef' = [roleRef EXCEPT ![r][call[r].user] = "ORG_ADMIN"]
  /\ Proceed(r, "issue")
  /\ UNCHANGED <<tenant, roleVars, written>>

\* register: issueTokenPair writes no table modelled here.
IssueTokenPair(r) ==
  /\ pc[r] = "issue"
  /\ Proceed(r, "audit")
  /\ UNCHANGED <<tableVars, roleVars, written>>

\* Mutant: the link is left to the next listing of roles.
LinkLater(r) ==
  /\ pc[r] = "link"
  /\ Proceed(r, "audit")
  /\ UNCHANGED <<tableVars, roleVars, written>>

\* createForUser: setAdminRoleId, whatever role the member has by now.
SetAdminRoleId(r) ==
  /\ pc[r] = "link"
  /\ Dir!IsMember(r, call[r].user)
  /\ roleRef' = [roleRef EXCEPT ![r][call[r].user] = "ORG_ADMIN"]
  /\ Proceed(r, "audit")
  /\ UNCHANGED <<membership, account, tenant, roleVars, written>>

\* The creator has been removed meanwhile: the update finds no row.
LinkNothing(r) ==
  /\ pc[r] = "link"
  /\ ~Dir!IsMember(r, call[r].user)
  /\ Answer(r, "error")

\* GET /roles reads the rows and answers.
ListRoles(r) ==
  /\ pc[r] = "list"
  /\ Answer(r, "ok")

\* AuditService.record, then the answer.
Record(r) ==
  /\ pc[r] = "audit"
  /\ trace' = [trace EXCEPT ![r] = TRUE]
  /\ pc' = [pc EXCEPT ![r] = "done"]
  /\ reply' = [reply EXCEPT ![r] = "ok"]
  /\ UNCHANGED <<tableVars, roleVars, call, written, changes>>

\* Mutant: createForUser's catch does not look at the error's code.
FailTranslated(r) ==
  /\ pc[r] \notin {"idle", "done"}
  /\ Answer(r, IF Is(r, "create") THEN "badRequest" ELSE "error")

\* A query rejects (500), register's transaction times out, or the process
\* dies: nothing that was written is taken back.
Fail(r) ==
  /\ pc[r] \notin {"idle", "done"}
  /\ Answer(r, "error")

-----------------------------------------------------------------------------
\* Member administration of tenant t (UserAdmin), at most MaxChanges times.
\* addUserToOrg names a role row it has ensured; its upserts are those of a
\* listing by the same member, and a conflict in them fails the request.
Administer(t) ==
  /\ changes[t] < MaxChanges
  /\ \E u \in Users : Dir!IsMember(t, u)
  /\ \E u \in Users, role \in Roles :
       \/ /\ Equipped(t)
          /\ Dir!Join(t, u, role)
          /\ roleRef' = [roleRef EXCEPT ![t][u] = role]
       \/ /\ Dir!ChangeRole(t, u, role)
          /\ UNCHANGED roleRef
       \/ /\ Dir!Leave(t, u)
          /\ roleRef' = [roleRef EXCEPT ![t][u] = None]
  /\ changes' = [changes EXCEPT ![t] = @ + 1]
  /\ UNCHANGED <<tenant, roleVars, pc, call, written, reply, trace>>

Init ==
  /\ membership = [t \in Requests |-> [u \in Users |-> None]]
  /\ account = [u \in Users |-> IF u \in Residents THEN "active" ELSE "absent"]
  /\ roleRef = membership
  /\ tenant = [r \in Requests |-> None]
  /\ catalog = {}
  /\ defaults = [t \in Requests |-> {}]
  /\ pc = [r \in Requests |-> "idle"]
  /\ call = [r \in Requests |-> None]
  /\ written = [r \in Requests |-> 0]
  /\ reply = [r \in Requests |-> "none"]
  /\ trace = [r \in Requests |-> FALSE]
  /\ changes = [t \in Requests |-> 0]

Handle(r) ==
  \/ LookupAccount(r) \/ RejectAccount(r) \/ CreateTenant(r)
  \/ CreateTenantWithAdmin(r) \/ RejectName(r)
  \/ EnsureRow(r) \/ LookupGrant(r) \/ CreateGrant(r) \/ RejectGrant(r)
  \/ CreateUser(r) \/ RejectUser(r) \/ CreateMembership(r) \/ IssueTokenPair(r)
  \/ SetAdminRoleId(r) \/ LinkNothing(r) \/ ListRoles(r)
  \/ Record(r)
  \/ Fail(r)

Next ==
  \/ \E r \in Requests : Send(r) \/ Handle(r)
  \/ \E t \in Requests : Administer(t)

Spec == Init /\ [][Next]_vars

-----------------------------------------------------------------------------
(* Properties                                                              *)

\* A request that has been through ensureTenantDefaults leaves the tenant with
\* every role and every grant, whichever requests were writing the same rows
\* or failed half-way.
EnsuredMeansEquipped ==
  \A r \in Requests : written[r] = Len(Upserts) => Equipped(TenantOf(r))

RoleRow(role) == [role |-> role, permission |-> None]

\* References lead to rows: a grant has its role and its permission, also the
\* grant about to be written (findUniqueOrThrow never throws), and the role row
\* a membership names exists in its tenant.
ReferencesExist ==
  \A t \in Requests :
    /\ \A w \in defaults[t] \cup {Due(r) : r \in
            {q \in Requests : pc[q] \in {"defaults", "grant"} /\ TenantOf(q) = t}} :
         IsGrant(w) =>
           RoleRow(w.role) \in defaults[t] /\ w.permission \in catalog
    /\ \A u \in Users :
         roleRef[t][u] # None => RoleRow(roleRef[t][u]) \in defaults[t]

\* A registration or creation answered "ok" is whole: a tenant of that name
\* with its roles and grants, an audit event, and, until members are
\* administered, its creator as administrator with the administrator's row.
SuccessIsWhole ==
  \A r \in Requests :
    Creates(r) /\ reply[r] = "ok" =>
      /\ tenant[r] = call[r].name /\ Equipped(r) /\ trace[r]
      /\ changes[r] = 0 => /\ membership[r][call[r].user] = "ORG_ADMIN"
                           /\ roleRef[r][call[r].user] = "ORG_ADMIN"

\* Nothing takes a half-made tenant back, but each has a cause.  A tenant
\* nobody ever belonged to, or an account that never belonged to a tenant,
\* comes from a registration that failed (500) or still runs; a member without
\* role row is the creator of a tenant whose creation failed, still runs, or
\* was refused (400) after the tenant had been made.
RemnantsHaveACause ==
  LET unfinished(r, op) == Is(r, op) /\ (pc[r] # "done" \/ reply[r] = "error")
  IN  /\ \A t \in Requests :
           tenant[t] # None /\ changes[t] = 0 /\ (\A u \in Users : ~Dir!IsMember(t, u)) =>
             unfinished(t, "register")
      /\ \A u \in Users \ Residents :
           /\ account[u] # "absent"
           /\ \A t \in Requests : changes[t] = 0 /\ ~Dir!IsMember(t, u)
           => \E r \in Requests : unfinished(r, "register") /\ call[r].user = u
      /\ \A t \in Requests, u \in Users :
           Dir!IsMember(t, u) /\ roleRef[t][u] = None =>
             /\ unfinished(t, "create") \/ (Is(t, "create") /\ reply[t] = "badRequest")
             /\ call[t].user = u

\* A creation answered 400 ("Organization name is already taken.") made
\* nothing, because another request's tenant has the name; or it made the
\* tenant, and a listing of that tenant's roles, which ensures the same rows,
\* overtook it (roles.repository.ts, rolePermission.upsert).
RefusalHasACause ==
  \A r \in Requests :
    Is(r, "create") /\ reply[r] = "badRequest" =>
      \/ /\ tenant[r] = None
         /\ \E t \in Requests \ {r} : tenant[t] = call[r].name
      \/ /\ tenant[r] = call[r].name
         /\ \E q \in Requests \ {r} : Is(q, "roles") /\ call[q].tenant = r

\* Of the registrations of one e-mail address at most one succeeds, and none
\* if the address has had an account from the start.
OneRegistrationPerEmail ==
  \A r, q \in Requests :
    /\ Is(r, "register") /\ reply[r] = "ok"
    /\ Is(q, "register") /\ reply[q] = "ok"
    /\ call[r].user = call[q].user
    => r = q /\ call[r].user \notin Residents
=============================================================================
