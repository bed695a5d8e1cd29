------------------------------ MODULE Projects ------------------------------
(***************************************************************************)
(* ProjectsController, ProjectsService and ProjectsRepository: requests    *)
(* that create, list, read, update and delete the projects of a tenant,    *)
(* interleaving at every await.  A request acts with the tenant and role   *)
(* its access token was signed with, whatever the directory says by now    *)
(* (AccessControl); no handler here looks at the directory.                *)
(*                                                                         *)
(* A request creates at most one project, so the project is named by the   *)
(* request.  Ids are not secret: a request may name any project there is or *)
(* was, of any tenant; an id nobody was given is answered as a deleted one. *)
(*                                                                         *)
(* home is a history variable: no guard reads it.                          *)
(***************************************************************************)
EXTENDS Authorization

CONSTANTS
  Orgs,       \* the tenants
  Names,      \* project names
  Existing,   \* the projects there from the start
  Requests,   \* the requests clients send, each handled once
  None        \* "no row" or "null"

Ids == Existing \cup Requests

ASSUME NoneIsNothing == None \notin Orgs \cup Names \cup Ids
ASSUME ExistingIsNoRequest == Existing \cap Requests = {}

VARIABLES
  project,     \* project[p]: the row of projects, or None
  pc,          \* where each request is
  call,        \* the request itself
  principal,   \* request.user: tenant and role of its access token
  shown,       \* the projects in the answer
  event,       \* the audit event it has recorded (or logged as lost)
  reply,       \* what the client was answered
  home         \* history: the tenant p was created in

vars == <<project, pc, call, principal, shown, event, reply, home>>

Stages == {"idle", "query", "readback", "audit", "done"}
Replies == {"none", "ok", "forbidden", "badRequest", "notFound", "error"}
Events == {"PROJECT_CREATED", "PROJECT_UPDATED", "PROJECT_DELETED"}

\* An update may leave the name alone (None).
Call ==
  [op: {"create"}, name: Names] \cup [op: {"list"}]
    \cup [op: {"get", "delete"}, id: Ids]
    \cup [op: {"update"}, id: Ids, name: Names \cup {None}]
Principal == [org: Orgs, role: Roles]
Row == [org: Orgs, name: Names]

ASSUME NoneIsNoRecord == None \notin Call \cup Principal \cup Row \cup Events

TypeOK ==
  /\ project \in [Ids -> Row \cup {None}]
  /\ pc \in [Requests -> Stages]
  /\ call \in [Requests -> Call \cup {None}]
  /\ principal \in [Requests -> Principal \cup {None}]
  /\ shown \in [Requests -> SUBSET Ids]
  /\ event \in [Requests -> Events \cup {None}]
  /\ reply \in [Requests -> Replies]
  /\ home \in [Ids -> Orgs \cup {None}]
  /\ \A r \in Requests : call[r] = None <=> pc[r] = "idle"

-----------------------------------------------------------------------------
Is(r, op) == call[r] # None /\ call[r].op = op

\* What @RequirePermissions asks of each route.
Required ==
  [ create |-> {"projects:write"}, list |-> {"projects:read"},
    get |-> {"projects:read"}, update |-> {"projects:write"},
    delete |-> {"projects:delete"} ]

Org(r) == principal[r].org

\* Mutant: the route's id is trusted alone.
InAnyTenant(r, p) == project[p] # None

\* where: { id, organizationId }: the row is there and the caller's tenant's.
InTenant(r, p) == project[p] # None /\ project[p].org = Org(r)

\* projects_org_name_unique: another row of the tenant has the name.
NameTaken(r, name, p) ==
  \E q \in Ids \ {p} : project[q] = [org |-> Org(r), name |-> name]

Answer(r, response, ids) ==
  /\ pc' = [pc EXCEPT ![r] = "done"]
  /\ reply' = [reply EXCEPT ![r] = response]
  /\ shown' = [shown EXCEPT ![r] = ids]
  /\ UNCHANGED <<project, call, principal, event, home>>

Proceed(r, stage) ==
  /\ pc' = [pc EXCEPT ![r] = stage]
  /\ UNCHANGED <<call, principal, reply, event>>

-----------------------------------------------------------------------------
\* The guards: a token of some tenant and role, and the role permits it.
Arrive(r) ==
  /\ pc[r] = "idle"
  /\ \E c \in Call, u \in Principal :
       /\ "id" \in DOMAIN c => home[c.id] # None
       /\ call' = [call EXCEPT ![r] = c]
       /\ principal' = [principal EXCEPT ![r] = u]
       /\ IF PermissionsGuard(u.role, Required[c.op])
          THEN /\ pc' = [pc EXCEPT ![r] = "query"]
               /\ UNCHANGED reply
          ELSE /\ pc' = [pc EXCEPT ![r] = "done"]
               /\ reply' = [reply EXCEPT ![r] = "forbidden"]
  /\ UNCHANGED <<project, shown, event, home>>

CreateProject(r) ==
  /\ pc[r] = "query" /\ Is(r, "create")
  /\ ~NameTaken(r, call[r].name, r)
  /\ project' = [project EXCEPT ![r] = [org |-> Org(r), name |-> call[r].name]]
  /\ home' = [home EXCEPT ![r] = Org(r)]
  /\ Proceed(r, "audit")
  /\ UNCHANGED shown

\* P2002: create answers "Project name is already taken.".
RejectCreate(r) ==
  /\ pc[r] = "query" /\ Is(r, "create")
  /\ NameTaken(r, call[r].name, r)
  /\ Answer(r, "badRequest", {})

ListProjects(r) ==
  /\ pc[r] = "query" /\ Is(r, "list")
  /\ Answer(r, "ok", {p \in Ids : InTenant(r, p)})

\* getById: the row is found, and recorded as PROJECT_UPDATED before it is
\* returned.
FindProject(r) ==
  /\ pc[r] = "query" /\ Is(r, "get")
  /\ InTenant(r, call[r].id)
  /\ shown' = [shown EXCEPT ![r] = {call[r].id}]
  /\ Proceed(r, "audit")
  /\ UNCHANGED <<project, home>>

\* Mutant: an update without a name sets it to null.
UpdateClearing(r) ==
  /\ pc[r] = "query" /\ Is(r, "update")
  /\ InTenant(r, call[r].id)
  /\ ~NameTaken(r, call[r].name, call[r].id)
  /\ project' = [project EXCEPT ![call[r].id].name = call[r].name]
  /\ Proceed(r, "readback")
  /\ UNCHANGED <<shown, home>>

\* updateMany: the row gets its new values, read back in a later statement.
UpdateProject(r) ==
  /\ pc[r] = "query" /\ Is(r, "update")
  /\ LET p == call[r].id
         name == IF call[r].name = None THEN project[p].name ELSE call[r].name
     IN  /\ InTenant(r, p)
         /\ ~NameTaken(r, name, p)
         /\ project' = [project EXCEPT ![p].name = name]
  /\ Proceed(r, "readback")
  /\ UNCHANGED <<shown, home>>

\* Mutant: a name that is taken is answered like a row that is not there.
ConflictNotFound(r) ==
  /\ pc[r] = "query" /\ Is(r, "update")
  /\ InTenant(r, call[r].id)
  /\ call[r].name # None /\ NameTaken(r, call[r].name, call[r].id)
  /\ Answer(r, "notFound", {})

\* P2002: update does not translate it.
FailUpdate(r) ==
  /\ pc[r] = "query" /\ Is(r, "update")
  /\ InTenant(r, call[r].id)
  /\ call[r].name # None /\ NameTaken(r, call[r].name, call[r].id)
  /\ Answer(r, "error", {})

\* findById after the update.
ReadBack(r) ==
  /\ pc[r] = "readback"
  /\ InTenant(r, call[r].id)
  /\ Answer(r, "ok", {call[r].id})

\* Mutant: the number of rows deleted is not looked at.
DeleteUnchecked(r) ==
  /\ pc[r] = "query" /\ Is(r, "delete")
  /\ project' = IF InTenant(r, call[r].id) THEN [project EXCEPT ![call[r].id] = None]
                ELSE project
  /\ Proceed(r, "audit")
  /\ UNCHANGED <<shown, home>>

\* Mutant: the row of any tenant is deleted.
DeleteAnywhere(r) ==
  /\ pc[r] = "query" /\ Is(r, "delete")
  /\ project[call[r].id] # None
  /\ project' = [project EXCEPT ![call[r].id] = None]
  /\ Proceed(r, "audit")
  /\ UNCHANGED <<shown, home>>

\* deleteMany, by id and tenant.
DeleteProject(r) ==
  /\ pc[r] = "query" /\ Is(r, "delete")
  /\ InTenant(r, call[r].id)
  /\ project' = [project EXCEPT ![call[r].id] = None]
  /\ Proceed(r, "audit")
  /\ UNCHANGED <<shown, home>>

\* No such row in the tenant, or no longer: "Project not found.".
NotFound(r) ==
  /\ \/ pc[r] = "query" /\ (Is(r, "get") \/ Is(r, "update") \/ Is(r, "delete"))
     \/ pc[r] = "readback"
  /\ ~InTenant(r, call[r].id)
  /\ Answer(r, "notFound", {})

\* The event each handler records.
EventOf(r) ==
  CASE Is(r, "create") -> "PROJECT_CREATED"
    [] Is(r, "get")    -> "PROJECT_UPDATED"
    [] Is(r, "delete") -> "PROJECT_DELETED"

\* Mutant: what was read is not recorded, what was deleted neither.
RecordCreationsOnly(r) ==
  /\ pc[r] = "audit"
  /\ event' = [event EXCEPT ![r] = IF Is(r, "create") THEN EventOf(r) ELSE @]
  /\ pc' = [pc EXCEPT ![r] = "done"]
  /\ reply' = [reply EXCEPT ![r] = "ok"]
  /\ UNCHANGED <<project, call, principal, shown, home>>

\* AuditService.record, then the answer.
Record(r) ==
  /\ pc[r] = "audit"
  /\ event' = [event EXCEPT ![r] = EventOf(r)]
  /\ pc' = [pc EXCEPT ![r] = "done"]
  /\ reply' = [reply EXCEPT ![r] = "ok"]
  /\ UNCHANGED <<project, call, principal, shown, home>>

\* A query rejects (500) or the process dies.
Fail(r) ==
  /\ pc[r] \in {"query", "readback", "audit"}
  /\ Answer(r, "error", {})

Init ==
  /\ project \in [Ids -> Row \cup {None}]
  /\ \A r \in Requests : project[r] = None
  /\ \A p \in Existing : project[p] # None
  /\ \A p, q \in Existing : project[p] = project[q] => p = q
  /\ pc = [r \in Requests |-> "idle"]
  /\ call = [r \in Requests |-> None]
  /\ principal = [r \in Requests |-> None]
  /\ shown = [r \in Requests |-> {}]
  /\ event = [r \in Requests |-> None]
  /\ reply = [r \in Requests |-> "none"]
  /\ home = [p \in Ids |-> IF p \in Existing THEN project[p].org ELSE None]

Handle(r) ==
  \/ CreateProject(r) \/ RejectCreate(r) \/ ListProjects(r) \/ FindProject(r)
  \/ UpdateProject(r) \/ FailUpdate(r) \/ ReadBack(r) \/ DeleteProject(r)
  \/ NotFound(r) \/ Record(r) \/ Fail(r)

Next == \E r \in Requests : Arrive(r) \/ Handle(r)

Spec == Init /\ [][Next]_vars

-----------------------------------------------------------------------------
(* Properties                                                              *)

\* Tenant A neither mutates nor reads what tenant B owns: a row changes, comes
\* or goes only in a step of a request whose token is of the row's tenant and
\* whose role permits that operation.
TenantOwnsItsProjects ==
  [][\A p \in Ids : project'[p] # project[p] =>
       \E r \in Requests :
         /\ pc[r] = "query" /\ pc'[r] # "query"
         /\ \A row \in {project[p], project'[p]} \ {None} : row.org = Org(r)
         /\ \/ project[p] = None /\ Is(r, "create")
            \/ project'[p] = None /\ "projects:delete" \in PermissionsOf(principal[r].role)
            \/ "projects:write" \in PermissionsOf(principal[r].role)]_vars

\* ... and no answer shows a project of another tenant than the token's, also
\* not one that was read back after it was written, or deleted since.
AnswersStayInTenant ==
  \A r \in Requests : \A p \in shown[r] : home[p] = Org(r)

\* Of racing deletions one succeeds, and what is deleted stays deleted although
\* an update may be writing it and reading it back.
DeletionIsOnceAndFinal ==
  \A r \in Requests : Is(r, "delete") /\ (reply[r] = "ok" \/ event[r] # None) =>
    /\ project[call[r].id] = None
    /\ \A q \in Requests \ {r} : Is(q, "delete") /\ call[q].id = call[r].id =>
         reply[q] # "ok" /\ event[q] = None

\* Answers are true for good.  "Not found" is said only of what the tenant does
\* not have, and never will; a refused creation left no row; a row that was
\* created without an "ok" comes from a request that failed half-way or runs.
AnswersAreTrue ==
  \A r \in Requests :
    /\ reply[r] = "notFound" => ~InTenant(r, call[r].id) /\ event[r] = None
    /\ reply[r] \in {"forbidden", "badRequest"} => home[r] = None /\ event[r] = None
    /\ Is(r, "create") /\ reply[r] = "ok" => home[r] = Org(r)
    /\ home[r] # None => Is(r, "create") /\ (pc[r] = "audit" \/ reply[r] \in {"ok", "error"})

\* What the trail says of creations and deletions.  Every row that came or
\* went has its event, unless the request that did it failed half-way or still
\* runs; PROJECT_CREATED and PROJECT_DELETED tell of a row that came, or is
\* gone for good, in the request's tenant.  PROJECT_UPDATED tells nothing of
\* the kind: findById writes it, and an update writes no event at all.
CreationsAndDeletionsAreTraced ==
  LET unrecorded(r) == pc[r] = "audit" \/ reply[r] = "error"
  IN  /\ \A r \in Requests : home[r] # None =>
           event[r] = "PROJECT_CREATED" \/ unrecorded(r)
      /\ \A p \in Ids : home[p] # None /\ project[p] = None =>
           \E r \in Requests : /\ Is(r, "delete") /\ call[r].id = p
                               /\ event[r] = "PROJECT_DELETED" \/ unrecorded(r)
      /\ \A r \in Requests :
           /\ event[r] = "PROJECT_CREATED" => Is(r, "create") /\ home[r] = Org(r)
           /\ event[r] = "PROJECT_DELETED" =>
                Is(r, "delete") /\ home[call[r].id] = Org(r) /\ project[call[r].id] = None
=============================================================================
