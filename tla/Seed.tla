-------------------------------- MODULE Seed --------------------------------
(***************************************************************************)
(* The seed script: a list of upserts, one statement each and not in a     *)
(* transaction, that an operator runs beside the server.  A run may fail   *)
(* after any statement and is then repeated from the start; meanwhile the  *)
(* server changes what it likes of the same rows.  The script has its own  *)
(* copy of the access table.                                               *)
(*                                                                         *)
(* undone is a history variable: no guard reads it.                        *)
(***************************************************************************)
EXTENDS Authorization, Naturals, Sequences

CONSTANTS
  MaxRuns,      \* bound: how often the script is run; the last does not fail
  MaxChanges,   \* bound: changes the server makes meanwhile
  None          \* "no row" or "null"

ASSUME MaxRunsIsPositive == MaxRuns \in Nat \ {0}
ASSUME MaxChangesIsNat == MaxChanges \in Nat
ASSUME NoneIsNoRole == None \notin Roles

-----------------------------------------------------------------------------
(* The script's tables.                                                    *)

permissions ==
  << "tenant:read", "users:read", "users:manage", "roles:read",
     "permissions:read", "projects:read", "projects:write",
     "projects:delete", "audit:read" >>

rolePermissions ==
  [ ORG_ADMIN |-> permissions,
    ORG_USER  |-> << "tenant:read", "users:read", "roles:read",
                     "permissions:read", "projects:read", "projects:write" >>,
    READ_ONLY |-> << "tenant:read", "roles:read", "permissions:read",
                     "projects:read" >> ]

Orgs == {"acme", "globex"}
Users == {"admin@acme", "member@acme", "viewer@acme", "admin@globex", "viewer@globex"}

User(u, role) == [user |-> u, role |-> role]

users ==
  [ acme   |-> << User("admin@acme", "ORG_ADMIN"), User("member@acme", "ORG_USER"),
                  User("viewer@acme", "READ_ONLY") >>,
    globex |-> << User("admin@globex", "ORG_ADMIN"), User("viewer@globex", "READ_ONLY") >> ]

\* Each tenant has one project, created by its first user.
createdBy == [o \in Orgs |-> users[o][1].user]

-----------------------------------------------------------------------------
(* The statements, in order.                                               *)

RoleUpserts(o, role) ==
  << [op |-> "role", org |-> o, role |-> role] >>
    \o [i \in DOMAIN rolePermissions[role] |->
          [op |-> "grant", org |-> o, role |-> role, permission |-> rolePermissions[role][i]]]

\* Two for each user: the account at odd places, then the membership.
UserUpserts(o) ==
  [i \in 1..(2 * Len(users[o])) |->
     LET u == users[o][(i + 1) \div 2]
     IN  IF i % 2 = 1 THEN [op |-> "user", user |-> u.user]
         ELSE [op |-> "membership", org |-> o, user |-> u.user, role |-> u.role]]

seedTenant(o) ==
  << [op |-> "organization", org |-> o] >>
    \o RoleUpserts(o, "ORG_ADMIN") \o RoleUpserts(o, "ORG_USER") \o RoleUpserts(o, "READ_ONLY")
    \o UserUpserts(o)
    \o << [op |-> "project", org |-> o] >>

CatalogUpserts ==
  [i \in DOMAIN permissions |-> [op |-> "permission", permission |-> permissions[i]]]

\* Mutant: the catalog is written with the tenants there.
mainCatalogLast == seedTenant("acme") \o seedTenant("globex") \o CatalogUpserts

main == CatalogUpserts \o seedTenant("acme") \o seedTenant("globex")

-----------------------------------------------------------------------------
VARIABLES
  organizations,   \* the tenants whose row there is
  catalog,         \* rows of permissions
  roles,           \* roles[o]: keys of o's rows of roles
  grants,          \* grants[o]: o's rows of role_permissions
  membership,      \* membership[o][u]: u's role in tenant o, None without a row
  account,         \* account[u]: no row, or the is_active flag of the row
  roleRef,         \* roleRef[o][u]: key of the role row the membership names
  projects,        \* the tenants whose seeded project is there
  status,          \* the script: not running, running or completed
  next,            \* the statement it is at
  runs,            \* how often it has been started
  changes,         \* how often the server has changed something
  undone           \* history: statements whose effect the server has undone

Dir == INSTANCE Directory

tableVars ==
  <<organizations, catalog, roles, grants, membership, account, roleRef, projects>>
vars == <<tableVars, status, next, runs, changes, undone>>

Grant == [role: Roles, permission: Permissions]

TypeOK ==
  /\ Dir!DirTypeOK
  /\ organizations \subseteq Orgs
  /\ catalog \subseteq Permissions
  /\ roles \in [Orgs -> SUBSET Roles]
  /\ grants \in [Orgs -> SUBSET Grant]
  /\ roleRef \in [Orgs -> [Users -> Roles \cup {None}]]
  /\ projects \subseteq organizations
  /\ status \in {"idle", "running", "done"}
  /\ next \in 1..(Len(main) + 1)
  /\ runs \in 0..MaxRuns
  /\ changes \in 0..MaxChanges
  /\ undone \subseteq DOMAIN main

GrantsOf(role) == {[role |-> role, permission |-> p] : p \in PermissionsOf(role)}

\* What the server takes for a full set of roles.
FullGrants == UNION {GrantsOf(role) : role \in Roles}

\* What statement s is for is so.
Holds(s) ==
  CASE s.op = "permission"   -> s.permission \in catalog
    [] s.op = "organization" -> s.org \in organizations
    [] s.op = "role"         -> s.role \in roles[s.org]
    [] s.op = "grant"        -> [role |-> s.role, permission |-> s.permission] \in grants[s.org]
    [] s.op = "user"         -> account[s.user] = "active"
    [] s.op = "membership"   -> /\ membership[s.org][s.user] = s.role
                                /\ roleRef[s.org][s.user] = s.role
    [] s.op = "project"      -> s.org \in projects

-----------------------------------------------------------------------------
\* An operator runs the script, for the first time or again.
Start ==
  /\ status # "running" /\ runs < MaxRuns
  /\ status' = "running" /\ next' = 1 /\ runs' = runs + 1
  /\ UNCHANGED <<tableVars, changes, undone>>

\* The script's next statement is one of these.
At(op) == status = "running" /\ next <= Len(main) /\ main[next].op = op

Advance ==
  /\ next' = next + 1
  /\ undone' = undone \ {next}
  /\ UNCHANGED <<status, runs, changes>>

UpsertPermission ==
  /\ At("permission")
  /\ catalog' = catalog \cup {main[next].permission}
  /\ Advance
  /\ UNCHANGED <<organizations, roles, grants, membership, account, roleRef, projects>>

UpsertOrganization ==
  /\ At("organization")
  /\ organizations' = organizations \cup {main[next].org}
  /\ Advance
  /\ UNCHANGED <<catalog, roles, grants, membership, account, roleRef, projects>>

UpsertRole ==
  /\ At("role")
  /\ roles' = [roles EXCEPT ![main[next].org] = @ \cup {main[next].role}]
  /\ Advance
  /\ UNCHANGED <<organizations, catalog, grants, membership, account, roleRef, projects>>

\* findUniqueOrThrow finds the permission; else the run can only fail.  A grant
\* that the server creates at the same time raises P2002: the run ends (Fail).
UpsertGrant ==
  /\ At("grant")
  /\ LET s == main[next]
     IN  /\ s.permission \in catalog
         /\ grants' = [grants EXCEPT ![s.org] =
                         @ \cup {[role |-> s.role, permission |-> s.permission]}]
  /\ Advance
  /\ UNCHANGED <<organizations, catalog, roles, membership, account, roleRef, projects>>

\* A new account is active, an old one becomes so and keeps its password.
UpsertUser ==
  /\ At("user")
  /\ account' = [account EXCEPT ![main[next].user] = "active"]
  /\ Advance
  /\ UNCHANGED <<organizations, catalog, roles, grants, membership, roleRef, projects>>

\* Mutant: a membership that is there is left alone.
CreateMembership ==
  /\ At("membership")
  /\ LET s == main[next]
     IN  IF membership[s.org][s.user] = None
         THEN /\ membership' = [membership EXCEPT ![s.org][s.user] = s.role]
              /\ roleRef' = [roleRef EXCEPT ![s.org][s.user] = s.role]
         ELSE UNCHANGED <<membership, roleRef>>
  /\ Advance
  /\ UNCHANGED <<organizations, catalog, roles, grants, account, projects>>

\* Role and role_id are written whatever they were.
UpsertMembership ==
  /\ At("membership")
  /\ LET s == main[next]
     IN  /\ membership' = [membership EXCEPT ![s.org][s.user] = s.role]
         /\ roleRef' = [roleRef EXCEPT ![s.org][s.user] = s.role]
  /\ Advance
  /\ UNCHANGED <<organizations, catalog, roles, grants, account, projects>>

\* findUniqueOrThrow finds the creator; else the run can only fail.
UpsertProject ==
  /\ At("project")
  /\ account[createdBy[main[next].org]] # "absent"
  /\ projects' = projects \cup {main[next].org}
  /\ Advance
  /\ UNCHANGED <<organizations, catalog, roles, grants, membership, account, roleRef>>

Complete ==
  /\ status = "running" /\ next = Len(main) + 1
  /\ status' = "done"
  /\ UNCHANGED <<tableVars, next, runs, changes, undone>>

\* A statement rejects (exit code 1) or the process dies.
Fail ==
  /\ status = "running" /\ runs < MaxRuns
  /\ status' = "idle"
  /\ UNCHANGED <<tableVars, next, runs, changes, undone>>

Statement ==
  \/ UpsertPermission \/ UpsertOrganization \/ UpsertRole \/ UpsertGrant
  \/ UpsertUser \/ UpsertMembership \/ UpsertProject

-----------------------------------------------------------------------------
(* The server: onboarding, member administration and projects.             *)

\* ensureTenantDefaults.
WriteDefaults(o) ==
  /\ catalog' = Permissions
  /\ roles' = [roles EXCEPT ![o] = Roles]
  /\ grants' = [grants EXCEPT ![o] = FullGrants]

\* A tenant of the same name, with its defaults or left half-made (Onboarding).
CreateTenant(o, u) ==
  /\ o \notin organizations
  /\ organizations' = organizations \cup {o}
  /\ Dir!Join(o, u, "ORG_ADMIN")
  /\ \/ UNCHANGED <<catalog, roles, grants, roleRef>>
     \/ /\ WriteDefaults(o)
        /\ roleRef' = [roleRef EXCEPT ![o][u] = "ORG_ADMIN"]
  /\ UNCHANGED projects

\* addUserToOrg, which ensures the defaults first.
AddMember(o, u, role) ==
  /\ o \in organizations
  /\ Dir!Join(o, u, role)
  /\ WriteDefaults(o)
  /\ roleRef' = [roleRef EXCEPT ![o][u] = role]
  /\ UNCHANGED <<organizations, projects>>

\* A role changes and role_id stays, a member leaves, an account is made or its
\* flag flipped.
ChangeDirectory ==
  /\ \/ \E o \in Orgs, u \in Users, role \in Roles : Dir!ChangeRole(o, u, role)
     \/ \E o \in Orgs, u \in Users : Dir!Leave(o, u)
     \/ \E u \in Users : Dir!SetActive(u) \/ Dir!CreateAccount(u)
  /\ roleRef' = [o \in Orgs |-> [u \in Users |->
                   IF membership'[o][u] = None THEN None ELSE roleRef[o][u]]]
  /\ UNCHANGED <<organizations, catalog, roles, grants, projects>>

\* A member with the permission deletes the project.
DeleteProject(o) ==
  /\ o \in projects
  /\ projects' = projects \ {o}
  /\ UNCHANGED <<organizations, catalog, roles, grants, membership, account, roleRef>>

Server ==
  /\ changes < MaxChanges
  /\ changes' = changes + 1
  /\ \/ \E o \in Orgs, u \in Users :
          CreateTenant(o, u) \/ \E role \in Roles : AddMember(o, u, role)
     \/ ChangeDirectory
     \/ \E o \in Orgs : DeleteProject(o)
  /\ undone' = undone \cup {i \in DOMAIN main : Holds(main[i]) /\ ~Holds(main[i])'}
  /\ UNCHANGED <<status, next, runs>>

\* An empty, migrated database.
Init ==
  /\ organizations = {} /\ catalog = {} /\ projects = {}
  /\ roles = [o \in Orgs |-> {}]
  /\ grants = [o \in Orgs |-> {}]
  /\ membership = [o \in Orgs |-> [u \in Users |-> None]]
  /\ account = [u \in Users |-> "absent"]
  /\ roleRef = [o \in Orgs |-> [u \in Users |-> None]]
  /\ status = "idle" /\ next = 1 /\ runs = 0 /\ changes = 0 /\ undone = {}

Next == Start \/ Statement \/ Complete \/ Fail \/ Server

\* The script does not hang, and an operator repeats a run that failed.
Fairness == WF_vars(Statement \/ Complete) /\ WF_vars(Start)

Spec == Init /\ [][Next]_vars /\ Fairness

-----------------------------------------------------------------------------
(* Properties                                                              *)

\* At every moment of a run, also of one that repeats a failed one, all that
\* the statements before have written is there, but for what the server has
\* undone since; and at its end the server finds nothing to add to the roles.
SeededIsWhole ==
  status # "idle" =>
    /\ \A i \in 1..(next - 1) : Holds(main[i]) \/ i \in undone
    /\ status = "done" => /\ catalog = Permissions
                          /\ \A o \in Orgs : roles[o] = Roles /\ grants[o] = FullGrants

\* Whatever the server does and wherever a run fails, a repeated one gets
\* through: no lookup finds its row missing.
SeedCompletes == runs > 0 ~> status = "done"
=============================================================================
