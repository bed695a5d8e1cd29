# Verification of the multi-tenant IAM backend

This directory holds a TLA+ model of the NestJS backend in `src/`, the TLC runs
that check it on small instances and TLAPS proofs of its main properties for all
values of the constants. Paths below are relative to `src/src/modules/` unless
they start with `src/`.

## 1. Inventory of the system

All state is in PostgreSQL except the rate limiter's map and the cached server.
The process is a Node server: a handler runs alone between two `await`s and every
repository call is an `await`, so handlers interleave at exactly the queries.
Nothing holds a lock or a transaction across two queries of a handler, except
`UsersRepository.createOrAttachUserToOrg` and
`OrganizationsRepository.createOrganizationWithAdminMembership`.

| Component | State | Operations | Hard behaviour | Correct when |
|---|---|---|---|---|
| Access table and guard (`src/src/common`) | none (static table) | `PermissionsGuard.canActivate`, `JwtStrategy.validate` | the role is the token's, not the directory's | a route runs only for a role that grants its permissions |
| Directory (`schema.prisma`) | `users`, `organization_memberships` | rows written by the services below | unique and foreign keys are the only synchronisation | a member has an account, one membership per user and tenant |
| Member administration (`users/`) | writes the directory and `audit_events` | `addUserToOrg`, `updateMemberRole`, `removeMember` | read, count, write and audit are separate statements; conflicts; a swallowed audit failure | a tenant keeps an administrator, events and answers tell what happened, role and role row agree |
| Sessions (`auth/`) | `refresh_tokens` | `login`, `refresh`, `logout` | overlapping refreshes, crash between issue and revoke, expiry, directory changes between check and issue | rotation retires the old token, reuse is denied, authority ends with the membership |
| Onboarding (`auth/`, `organizations/`, `roles/`) | `organizations`, `users`, `organization_memberships`, `roles`, `role_permissions` | `register`, `createForUser`, `ensureTenantDefaults` | `register`'s transaction callback does not use the transaction; three separate writes; concurrent upserts | a tenant has an administrator with a role row, or does not exist |
| Access to the tenant-scoped routes (`auth/strategies/`, `src/src/common/guards/`) | the access tokens clients hold | issue of an access token, `JwtStrategy.validate`, `canActivate` | a token is believed until it expires, and its role was read some awaits before it was signed | a role that was taken stops working within a token's lifetime |
| Projects (`projects/`) | `projects` | `create`, `listForTenant`, `getById`, `update`, `delete` | update writes and reads back in two statements; races for names and deletions | isolation by tenant, deletion once, events match operations |
| Audit (`audit/`) | `audit_events` | `record`, `listForTenant` | store failure is swallowed; cursor paging over a growing table | a walk through the pages shows each earlier event once |
| Rate limit (`auth/guards/`) | a map of buckets in the process | `AuthRateLimitGuard.canActivate` | window boundary, map that only grows | bursts are bounded, nobody is refused early or locked out for ever |
| Entry point (`src/src/serverless.ts`) | `cachedServer` | `getServer` | test before and set after two `await`s, which may reject | requests meet ready servers only |
| Seed script (`src/prisma/seed.ts`) | every table but events and tokens | `main`, `seedTenant` | no transaction, repeated after a failure, beside a live server | what it has written is there, a repeated run gets through |
| Read-only controllers, health, OpenAPI, configuration, error filter | none | reads and formatting | none | - |

Interactions. A controller runs the guards and calls one service; services call
their repository, `RolesService.ensureTenantDefaults` and, last,
`AuditService.record`, which never fails its caller. Member administration and
sessions meet only in the directory tables: a session checks account and
membership when it is opened or renewed, and an access token carries the role
found then to every later request. The entry point and the rate limiter share the
process: invocations that build servers of their own count in one map.

## 2. Modules and how they correspond to the code

    Authorization <- Directory <- UserAdmin     <- MCUserAdmin, UserAdminProofs
         |              |      <- Sessions      <- MCSessions, SessionsProofs
         |              |            \ (refines RefreshTokens)
         |              |      <- AccessControl <- MCAccessControl, AccessControlProofs
         |              \  (instance)
         |                     <- Onboarding    <- MCOnboarding, OnboardingProofs
         |                     <- Seed          <- MCSeed, SeedProofs
         \ <- Projects <- MCProjects, ProjectsProofs

    RateLimit, ServerBoot <- Gateway <- MCGateway, GatewayProofs
    AuditPaging <- MCAuditPaging, AuditPagingProofs

`Authorization` holds the roles, the role-permission table, in the order in which
`ensureTenantDefaults` writes it, and the guard's test.

`Directory` holds the tables `users` and `organization_memberships` and the writes made
to them: `membership[o][u]` is the role or `None`, `account[u]` is `absent`, `active` or
`inactive`. Its steps are `Join`, `ChangeRole`, `Leave`, `CreateAccount` and `SetActive`,
one row (or one account with its first membership) at a time. The writing actions of
`UserAdmin` and `Onboarding` are built from them, so that each write is said once;
`TablesNext`, any of them, is the environment of `Sessions` and `AccessControl`: what
is proved of sessions and access tokens holds with member administration and onboarding
beside them. That the writers keep to these steps is how they are written, not a result.
A user stands for an e-mail address; nothing in the code deletes a user or changes
an e-mail. `is_active` is read by three handlers and written by none: `SetActive`
is the operator's write.

`UserAdmin` models `UsersService`. A request `r` has a stage `pc[r]`, the request
itself in `call[r]` (with the role its access token was signed with), what its
first query returned in `seen[r]`, the answer in `reply[r]` and the fate of its
audit event in `trace[r]`. Each action is one statement between two awaits:

| Stage | Actions | Code |
|---|---|---|
| `sent` | `Deny` | the role checks at the top of the methods, and the guard |
| `sent` | `FindAccount`, `RejectInactive` | the lookup of `createOrAttachUserToOrg`, outside its transaction |
| `sent` | `FindMembership`, `NotFound` | `findMembership` and the 404 |
| `count` | `CountAdmins`, `KeepLastAdmin` | `countAdmins` and the two "last ORG_ADMIN" refusals |
| `write` | `Attach`, `RejectDuplicate` | the transaction, and P2002 answered 400 |
| `write` | `UpdateRole`, `RemoveMembership`, `NotFound` | `updateMany`, `deleteMany` and their count tested |
| `audit` | `Record` | `AuditService.record` and the answer |
| any | `Fail` | a query rejects (500) or the process dies |

`roleRef[o][u]` is the key of the role row `role_id` names, `None` for null, which
`Init` allows because a creation that failed before `setAdminRoleId` leaves it. Two variables are
history only and no guard reads them: `effect[r]`, what the request's write
changed, and `overtaken[r]`, whether the tenant changed between its first query
and its write.

`Sessions` models `AuthService.login`, `refresh` and `logout`. A request issues at
most one refresh token, so `token[r]` is the row request `r` inserted: user,
tenant, `left` (time to expiry), `revoked`, `replacedBy`. The hash of a token
identifies its row; a string that is no issued token finds no row and is answered
as a revoked one, so clients present only tokens they were handed. The stages
follow the awaits: lookup (`sent`), memberships (`select` in a login, `member` in a
refresh), `issue`, `revoke`, `audit`, and `refuse` for the audit event of a failed login.
`Tick` lets a unit of time pass; with `RefreshTTL` units to a lifetime a token may expire between any
two steps. History: `stale[r]` (a fact the request had checked changed before it
issued), `reused[r]` (it was sent with a token already redeemed) and
`lapsed[o][u]` (time since `u` could last enter `o`, capped at `RefreshTTL`).

`RefreshTokens` is the abstract specification of the table `refresh_tokens`, which knows
neither stages nor audit nor directory: a token is `none`, `active` or `retired`, has a
holder (user and tenant), the token that was claimed for it, and has been handed to its
client or not. `Claim`, `Withdraw`, `Issue`, `Retire` and `HandOver` say what may happen
to it. What it promises is the order of a rotation: only tokens that clients have are
claimed, the new token is for the holder of the claimed one, and it is handed over only
when that one is out of use. Several tokens may be claimed with one and the same token,
and each be handed over: the code lets overlapping refreshes do that (section 4).
`Sessions` implements it; the mapping is at the end of that module, with `TokenSpec`. A
claim is taken when `findActiveByHash` returns the row and `is_active` is true, not when the request
comes in; expiry and revocation are both `Retire`.

`Onboarding` models `AuthService.register`, `OrganizationsService.createForUser` and
`RolesRepository.ensureTenantDefaults`, which both call and `GET /roles` repeats.
A request creates at most one tenant, so the tenant is named by its request and
`tenant[r]` is the organization's name. The stages of `pc[r]`:

| Stage | Actions | Code |
|---|---|---|
| `sent` (register) | `LookupAccount`, `RejectAccount` | the e-mail is looked up, 400 |
| `tenant` | `CreateTenant`, `RejectName` | `organization.create`; P2002 on the name ends in 500 |
| `sent` (create) | `CreateTenantWithAdmin`, `RejectName` | organization and membership in one transaction; P2002 is answered 400 |
| `defaults` | `EnsureRow` | one upsert of permissions or roles (`Upserts` is their order), an `INSERT ... ON CONFLICT DO UPDATE` |
| `defaults` | `LookupGrant` | the `findUniqueOrThrow` before a grant, and the look-up of the grant itself |
| `grant` | `CreateGrant`, `RejectGrant` | the grant is created; or another request created it since, and P2002 is answered 400 in a creation and 500 else |
| `user` | `CreateUser`, `RejectUser` | `user.create`; P2002 on the e-mail ends in 500 |
| `member` | `CreateMembership` | the membership with its role row |
| `issue` | `IssueTokenPair` | tokens, which `Sessions` models as a login's |
| `link` | `SetAdminRoleId`, `LinkNothing` | `role_id` of the creator's membership |
| `list` | `ListRoles` | `GET /roles` after the upserts |
| `audit` | `Record` | `AuditService.record` and the answer |
| any | `Fail` | a query rejects, the transaction of `register` times out or the process dies |

`register` opens a transaction, but its callback calls services that use the plain
client: its statements commit one by one, and a failure takes nothing back.
The upsert of a grant has an empty `update` (`roles.repository.ts:55`), which Prisma does
by looking the row up and creating it if there was none; two requests that ensure one
tenant's rows can therefore both try to create one. The `catch` of `createForUser` spans
`ensureTenantDefaults` and takes any P2002 for a name that is taken.
`Administer(t)` is member administration beside it, at most `MaxChanges` times in a
tenant; `changes[t]` counts it. `Residents` are the users with an account from the
start. The role table is the real one: 9 permissions and 22 rows of a tenant.
`UserAdmin` has no tenants that appear later; its tenants exist from the start with
an administrator, which is what `SuccessIsWhole` says of a finished creation.

`AccessControl` composes what `Sessions` and `UserAdmin` have in parts: an access
token `t` is issued by a login or refresh in three steps (`CheckAccount`,
`ReadMembership`, `Sign`, each after an await), then `JwtStrategy` and the guard look
at nothing but `claims[t]` and `left[t]`, while `DirectoryStep` is any `TablesNext` step. A
member of `Tokens` is used again once its token has expired. History: `lapse[t]`, the time since the
account was active and the role the membership's, and `delay[t]`, the time the
issue took.

`Projects` models the five routes of `ProjectsController`. A request draws its tenant
and role from its token (`Principal`), so demoted, removed and foreign callers are
among them, and may name any project that ever existed. Stages of `pc[r]`: `query`
(the first statement: `CreateProject`, `ListProjects`, `FindProject`,
`UpdateProject`, `DeleteProject` and their refusals `RejectCreate`, `FailUpdate`,
`NotFound`), `readback` (`ReadBack` or `NotFound`), `audit` (`Record`), with `Fail`
anywhere. `home[p]` is history: the tenant `p` was created in.

`AuditPaging` models `AuditController.list` and `AuditRepository.listForTenant` with the
insertions beside them. `BeginInsert` gives an event its `created_at`, `EndInsert`
makes it visible or loses it, so events appear out of order. `List` fetches
`limit + 1` rows behind the cursor, shows the first `limit` and makes the last one shown the
next cursor; `Newest` and `AfterCursor` leave open what `order by created_at` leaves
open among rows of one time. `began`, `before` and `got` are history.

`RateLimit` and `ServerBoot` are the parts of one process, composed in `Gateway`:
an invocation finds the cached server (`Reuse`) or builds one (`ColdStart`, `Create`,
`InitApp`, or `BootFails`), which then answers (`Serve`), passing the guard
(`Open`, `Count`, `Refuse`) on an authentication route. `bucket[k].left` is `resetAt` minus
now. The map is a variable of the module, not of a server, so all servers of a
process share it; `Recycle` ends the process and with it map, servers and running invocations.
`log[k]` is history: the ages of the latest admissions, counted anew in each process.

`Seed` has the script's own tables and turns them into its list of upserts, `main`;
one action for each kind of upsert, `next` is the statement it is at, `Fail` and `Start` end
and repeat a run. `Server` lets the backend change the same rows: a tenant made
with or without defaults, a member added, a role changed (the reference stays, as in
section 4), a member or a project removed, an account made or its flag flipped.
`undone` is history: the statements whose effect the server has taken back.

Left out everywhere: the wording of answers, password hashing (a password is right
or wrong), e-mail formats and everything validation pipes reject before a handler
runs; in `UserAdmin`, `ensureTenantDefaults` inside `addUserToOrg`, which writes only
role tables (its failure is a `Fail`; what it does is in `Onboarding`); in
`Projects`, descriptions, which are set like names but are in no key; in
`Seed`, passwords and descriptions.

Definitions in these modules commented `Mutant:` are plausible faults
of the action defined next; no specification uses them. They are there to show
that each property can fail.

## 3. What the runs check

| Run | Question | Instance | Size |
|---|---|---|---|
| `user_admin` | do interleaved administration requests keep events, answers, the last-administrator rule as far as the code can, and `role_id` in step but for role changes? | 1 tenant, 2 users, 2 requests | 603,458 states |
| `sessions` | does rotation retire tokens, deny reuse, link honestly, and does authority lapse? | 1 tenant, 1 user, 3 requests, lifetime 2 | 1.65 million states |
| `tenants` | do rotations keep their tenant and sign current claims, and does the table keep its promise? | 2 tenants, 1 user, 2 requests, lifetime 1 | 303,464 states |
| `onboarding` | what does a finished registration or creation guarantee, what can a failed or refused one leave behind, is the role table complete? | 2 requests, 2 users (one with an account), 2 names, 1 change | 232,675 states |
| `gateway` | do window boundaries, overlapping cold starts and recycling keep the limit fair and servers ready? | 2 keys, 2 invocations, limit 2, window 2 | 111,141 states |
| `access_control` | how long does a taken role keep working? | 2 tenants, 1 user, 2 tokens, lifetime 2, delay 1 | 396,042 states |
| `projects` | do tenants stay apart, do answers match the rows, do creations and deletions have their event? | 2 tenants, 2 names, 1 project, 3 requests | 688,890 states |
| `audit_paging` | does a walk show each earlier event once, and end? | 3 events, 2 tenants, page sizes 1 and 2, times 0 to 2 | 189,338 states |
| `seed` | is what the script wrote there, does a repeated run get through? | the real tables, 2 runs, 1 change by the server | 75,279 states |
| `last_admin` | is there always an administrator? (violated) | 1 tenant, 2 users, 2 requests | |
| `role_id` | does `role_id` name the role? (violated) | 1 tenant, 2 users, 2 requests | |
| `rotation` | is every completed rotation linked? (violated) | 1 tenant, 1 user, 3 requests, lifetime 1 | |

The bounds are the sizes of the constant sets and the named constants `RefreshTTL`,
`AccessTTL`, `MaxDelay`, `MaxAttempts`, `Window`, `MaxTime`, `MaxChanges` and `MaxRuns`. Two users and
two requests are what every race of member administration needs: one actor and one
target, two requests for one membership or two for two administrators, and each
request of any kind. The rule about one tenant involves rows of that tenant only,
and the proofs cover any number. Three session requests allow a login and two
overlapping redemptions of its token, or a chain of two rotations; a lifetime of two
lets a token be renewed in the middle of another's lifetime, without which
`AuthorityLapses` could not be violated. `tenants` has two tenants because a login
or refresh can only confuse tenants if there are two; a lifetime of one is enough, since
a token can be issued, presented and expire at any stage of the request that presents it.
Two requests are one redemption of each token, and every step of the mapping `TokenSpec`
is taken in it; two claims on one token are in `sessions` and in the
proof of `ImplementsTokens`, for any number of requests (in `sessions`, where `TokenSpec`
holds too, evaluating the mapping at each step makes the run too long to repeat often). `onboarding` has two requests for the races of two
registrations (one address, one name), of a creation and a registration, and of a
listing that repeats the upserts of a tenant still being made or left half-made;
one change is enough for member administration to remove or demote the creator
before `SetAdminRoleId`.

In `gateway` a limit and a window of two are the smallest for which an attempt can be the first, a
middle one and one too many, and a window can be half over; two keys show that
they do not disturb each other, two invocations overlap in every order of their
two awaits. In `access_control` one user of two tenants holds two tokens, of which one can be
issued while the other is used; with lifetime two and delay one a token can be
signed with a role that was taken before. `projects` needs three requests: two that
race and one that made the row; a fourth would repeat a pair. Three events in
`audit_paging` make two pages with a cursor between them and one event that appears
behind it. `seed` runs the whole list of statements of the script and repeats it
once. Where a model has no bound in the code (times, runs, changes), the larger
instances are covered by the proofs or would repeat the smaller.

Users, tenants, requests and names are symmetric in the runs of `user_admin`,
`sessions`, `tenants`, `onboarding` (not its users) and `projects`: no constant is named in a definition,
and only safety is checked under symmetry. The runs with liveness use no symmetry.
Deadlock is checked in `gateway`, where time always goes on; elsewhere the system
rests when every request is done (or, in `access_control`, may stay in a state nobody changes).

The properties and the code they speak of:

- `ViewIsCurrent`, `LastAdminLostOnlyByOvertaking`: between the first query and
  the write the code relies on what it read. The rule "never the last ORG_ADMIN"
  holds for a request whose tenant does not change in between, and only then.
- `AuditIsTruthful`, `AnswersMatchEffects`: no event without a committed change,
  no "ok" without change and event, no refusal after a change; a change without
  event is the mark of a request that failed between the two.
- `JoinsAndRemovalsAlternate`: of racing removals exactly one takes effect, of
  racing additions too.
- `RoleIdLagsOnlyBehindUpdates`: what remains of "`role_id` names the role" (section 4).
  A membership names another role's row only behind an update request that set the
  role it has; joins and removals write both columns, whatever races with them.
- `AnsweredMeansRetired`, `ReuseIsDenied`, `LinksAreHonest`,
  `RotationKeepsPrincipal`: the life of a refresh token.
- `ClaimsAreCurrent`, `AuthorityLapses`: sessions and directory. A user who loses
  the membership or is deactivated has no active refresh token one lifetime later,
  the token excepted that was being issued at that very moment.
- `TokenSpec`: the table of refresh tokens keeps its promise at every step.
- `TrailMatchesEffects`: tokens, answers and audit events agree; an orphaned
  token or an untraced revocation is the remnant of a request that failed half-way.

- `EnsuredMeansEquipped`, `ReferencesExist`: whoever has been through
  `ensureTenantDefaults` leaves all roles and grants, though other requests write
  the same rows or fail half-way; no grant or `role_id` dangles at any moment.
- `SuccessIsWhole`, `RemnantsHaveACause`: an "ok" means a whole tenant with its
  administrator linked to the role row. A failed registration can leave a tenant
  that nobody belongs to (its name is taken for good) and an account without a
  tenant (its owner can neither log in nor register again until an administrator
  adds it to a tenant); these are the only remnants, with a member without role row from a creation that failed, or was
  refused after its tenant had been made, and each has such a request as its cause.
- `RefusalHasACause`: a creation answered "Organization name is already taken." either
  made nothing, because another tenant has the name, or made its tenant and was
  overtaken by a listing of that tenant's roles (section 4). Nothing else, no other
  failure among them, ends in that answer.
- `OneRegistrationPerEmail`: of racing registrations of an address one succeeds.

- `BurstIsBounded`, `RefusalIsDeserved`, `NoLockout`: the limiter's fixed window
  admits up to twice the limit across a boundary and never more, refuses nobody who has not
  used up the limit within the last window, and an exhausted key that keeps trying
  is not kept out, because counting on does not prolong the window.
- `OnlyReadyServersServe`, `InvocationsEnd`: overlapping or failing cold starts
  neither hand out a half-made server nor leave an invocation hanging.
- `AuthorityIsBounded`, `TakenRolesRunOut`: a role, or an active account, that was
  taken keeps passing the guard for less than a token's lifetime plus the time of an
  issue that was under way, and is gone for good in the end.
- `TenantOwnsItsProjects`, `AnswersStayInTenant`: no step of a request touches or
  shows a row of another tenant, also in the read-back.
- `DeletionIsOnceAndFinal`, `AnswersAreTrue`: racing deletions, updates that are
  deleted before they are read back, refusals after which nothing remains.
- `CreationsAndDeletionsAreTraced`: a project that came or went has its event unless the
  request failed in between, and the two events tell only of such projects. Of updates
  it says nothing: they leave no event, and `PROJECT_UPDATED` is recorded for a read
  (section 4).
- `WalkShowsEachOnce`, `WalkShowsThePast`, `WalkEnds`: a walk over a trail that
  grows, also behind the cursor. Two events of one tenant with the same
  `created_at` are the exception: the order does not tell them apart, a page
  boundary between them may skip or repeat one, or even lead the walk back.
- `SeededIsWhole`, `SeedCompletes`: a run that repeats a failed one restores what
  the script stands for, and its lookups always find their rows.

Fairness. Safety needs none. `Gateway`: weak fairness of the clock's `Tick`, of
building a server (`NestFactory.create` and `app.init` resolve or reject, they do not
hang; `BootFails` is never required) and of `Serve` (a handler has no loop and no
wait without a timeout). `Attempt` has no fairness: clients need not come back.
`AccessControl`: weak fairness of the clock and of a step of an issue under way;
logins and directory steps are not required. `AuditPaging`: a client that has begun a walk
asks for the next page; events and time are free, so `WalkEnds` holds against a
flood of insertions (which `Events` bounds). `Seed`: a running script goes on, an
operator repeats a run that failed, and only the last of `MaxRuns` runs is assumed
not to fail. The handlers of `UserAdmin`, `Sessions`, `Onboarding` and `Projects` have
no loop and no wait of their own, and a process may die at any step (`Fail`), so what
they owe is an answer or an error, which `AnswersMatchEffects`, `TrailMatchesEffects` and
`AnswersAreTrue` relate to their effects.

Assumptions of the models. The clock does not go back (`Date.now()` is taken to be
monotone, and so is `created_at`, which the database's default or the client sets when an insertion
begins). Statements of the database are atomic and see all committed rows. An issue
of an access token takes at most `MaxDelay`, which stands for the platform's limit
on an invocation's duration.

## 4. Disagreements found

- **`last_admin`**: with two administrators, two demotions (or removals, or one of
  each) both count two before either writes. The tenant is left without ORG_ADMIN,
  which `users/users.service.ts:89` and `:132` refuse and
  `users/users.service.spec.ts:74` and `:85` name as prevented.
- **`role_id`**: `UsersRepository.updateRole` sets `role` alone; the foreign key
  `role_id` keeps naming the old role's row. `src/README.md:203` says foreign keys
  keep membership relationships consistent, and the seed (`src/prisma/seed.ts:110`)
  updates both columns.
- **`rotation`**: a refresh issues the new pair before it revokes the old token and
  revokes by id, so two overlapping refreshes both succeed and the old row links to
  one pair only. `src/README.md:121` says rotation links the old token to its
  replacement. What does hold is `ReuseIsDenied`: a refresh *sent* after another was
  *answered* gets nothing.

Four more have no run of their own; the last three can be read off the code in a line:

- `roles/roles.repository.ts:55` creates a grant it did not find; a `GET /roles` (or an
  addition of a member) by the creator of a tenant that is still being created can
  create it first. The P2002 is then answered 400 "Organization name is already taken."
  (`organizations/organizations.service.ts:44`) although the tenant was made, with a
  member without role row. `RefusalHasACause` in `onboarding` allows exactly this case.
- `projects/projects.service.ts:55` records `PROJECT_UPDATED` when a project is
  *read*; `update` records nothing. `src/README.md:222` lists permission-sensitive
  project mutations among what is audited.
- `auth/auth.service.ts:103` refuses a login without a usable membership with no
  audit event; `src/README.md:111` says that login success and failure both write
  one.
- A name conflict answers 400 when a project is created and 500 when it is updated
  (`FailUpdate`): only `create` translates the database's P2002.

## 5. What is proved

The modules `...Proofs` are checked by TLAPS without assumptions
beyond the named `ASSUME`s of the modules (users, requests and events are finite sets where
they are counted, lifetimes, limit, window and page sizes are positive numbers,
residents are users, the reader is a tenant, `None` is none of the values it stands beside), which TLC
evaluates on its runs. They cover every number of tenants, users, requests, tokens,
events, keys and invocations, every lifetime, limit and window.

Member administration. `TypeOK /\ ViewIsCurrent` is inductive: a commit of another
request on the same tenant sets `overtaken`, a request that is not overtaken sees an
unchanged tenant. `LastAdminSafe` follows: a write that is not overtaken leaves the
second administrator counted (`AnotherAdmin`, from the cardinality of the set of
administrators). `IInv` adds `Bookkeeping`, which ties `effect`, `trace` and `reply` to the
stage a request is in; `AuditTruthful` and `AnswersTruthful` are read off it.
`Alternation` adds the counting of effective joins
and removals and needs that an effect is set once. `RoleIdLags` says what is true of
`role_id` (section 4): a membership names its own role's row or none, and another
role's only when an update request took effect that set the role it has now.
The memberships at the start may have a null `role_id`.

Sessions. `IInv` conjoins the types, what holds at each stage of a request
(`Stage`), of the token it presents (`Source`) and of what it has checked
(`Fresh`), and each property in a form that steps preserve: `Principal`, `Reuse`,
`Link`, `Explained` and `Lapse`. Most of the argument is that a row is never
deleted, never changes its owner and never comes back to life although another
refresh may still write it (`StepsEvolve`, `DeadStaysDead`). `Lapse` is the
inductive form of `AuthorityLapses`: the time left of a token and the time since
its owner lost the tenant never add up to more than a lifetime. `ReuseIsDenied`
needs that a redeemed token is dead before the reusing request looks it up. Each
`NextKeeps...` lemma has one case for each action that can disturb its conjunct;
`StepsOfOthers` and `StepsOfTheWorld` say once what the other actions leave alone.

`RotationLinked` says what is true of the claim that section 4 refutes: a completed
rotation is always linked, if not to its own pair then to that of a refresh it
overlapped. A refresh leaves a link in its revocation (`Linked`), a later revocation
overwrites it or, in a logout, leaves it (`LinkStays`), and `Link` and `Reuse` of the invariant say whose it is.
`RotationsAreLinked` is in no run's configuration; TLC checked it on the instance of `sessions`.

`ImplementsTokens` is the refinement of `RefreshTokens`. The `View...` lemmas say each
abstract step of one token's view at a time; then one lemma for each kind of step of the code shows
which abstract step it is. `RevokeRetires` is where interleaving bites: the update
is by id, so the token may have been retired by another request or by time, and is
retired once all the same. The invariant is needed twice: `Principal` where a pair
is issued, because user and tenant were read two awaits earlier, and `Source` where
it is handed over, because the presented token is known to be revoked only by the
stage the request is in.

Onboarding. Half of the argument is about data: `UpsertsTyped` shows that the list of
upserts is made of exactly the rows the tables should have (`ElementsOfConcat`) and
that each grant comes after its role and its permission (`OrderedAppend`, the property
`Ordered` is kept when a role's part is appended to a list that holds the catalog).
`Progress`, "what a request has upserted is there", then gives `EnsuredMeansEquipped` and
that `findUniqueOrThrow` finds its row; rows are never deleted (`RowsStay`), which
is what makes concurrent upserts harmless. `Stage` ties the kind of a request and
its number of upserts to where it is, `Founded` follows a tenant from its creation to
the answer, `Caused` and `OneOwner` are the remaining properties in a form that steps
preserve. For `RefusalCaused`, `Overtaken` says that a grant which is there, though its
request is about to create it, has a listing of that tenant's roles behind it: only
`EnsureRow` and `CreateGrant` write rows of a tenant (`EnsureEffects`), and a tenant is
ensured by its creation and by listings alone. A name that is taken stays taken (`NamesStay`). `RequestsApart` and `AdministrationApart` say once what a step leaves alone.

Access control. `Age` is inductive: the lapse of an issue under way is at most its
delay, and `lapse + left <= AccessTTL + delay` for a usable token. Only `Tick` makes the
lapse longer, and it takes as much from what is left of the token, or adds as much to the
delay. A directory step can only reset the lapse.

Projects. `Story` says of one request what its stage, answer and event tell about the
tables, in terms that later steps of others cannot make false, because a project
keeps the tenant it was created in and what is gone stays gone (`Evolves`). Its
parts follow a request through its awaits (`Course`), tie it to rows (`Effect`) and keep
that it passed the guard (`Permitted`). `Caused` names a deletion for every row that is gone,
`OneDeletes` that only one can have taken it. `OwnStory` has one case for each action,
`StoryOfOthers` says once that the others' stories stay true; `AnswerFacts` is what all
refusals and answers have in common.

Gateway. `Sound` says of one key what its bucket tells about its log: the window that is
open began `Window - left` ago with the first of the admissions it has counted, and
the admission as many places before that as the limit allows is a window old or more. A new
window, a further admission and the clock keep it, in each case by arithmetic on the places
of a sorted log (`AdmitFacts`, `AdmitSorted`). `BurstIsBounded` and `RefusalIsDeserved` are read
off it. For servers: what is cached, or was handed out, is ready. `WearsOff` is the safety
half of `NoLockout`: attempts do not prolong an exhausted key's window, the clock shortens
it; that time passes is the fairness left to TLC.

Audit paging. The cursor divides the events (`Divided`): what was there when the walk
began and is not older than the cursor has been shown once, what is older has not
been shown. A page keeps this because it takes the newest rows behind the cursor
(`PageIsComplete`, which needs that the one row fetched too many tells the truth
about a next page) and shows none of them again (`PageIsNew`). Insertions keep it
because a stored event does not change and events told apart by their times stay so
only if they were before (`TiedStays`). `WalkDescends` is the safety half of `WalkEnds`: from
page to page the cursor only goes back.

Seed script. The statements are the real list, so half of the argument is about data: what
statements a tenant and the whole script have (`MainFacts`), and that each comes
after those whose rows it refers to (`ConcatOrder`, kept by concatenation; a project needs
its tenant and its author, a grant its permission). `Written` is the invariant: the
effect of every statement a run has passed is in the tables, unless the server
has taken it back, which `undone` remembers and `OnlySoMuchUndone` limits to the rows a server can take. An upsert never
takes back what another one wrote (`StatementWrites`), in the first run or in a repeated one.
`SeededWhole` reads the whole list off it when the script is done; `LookupsSucceed` (no
`findUniqueOrThrow` misses its row) follows from the order of the list, since what it
looks up, permissions and accounts, the server never deletes. It is
the safety half of `SeedCompletes`: no run is stopped by its own statements.

`IInv` of each module was checked by TLC before it was proved. `TypeOK` of
`Sessions`, `AccessControl`, `Gateway`, `AuditPaging` and `Seed` is a theorem and not in a run.

Only model-checked: everything
about liveness (`NoLockout`, `InvocationsEnd`, `TakenRolesRunOut`, `WalkEnds`,
`SeedCompletes`), which is beyond this prover, as is induction over data.

## 6. Not modelled, and the plan

Not modelled because there is no state or only input and output: read-only
controllers, health, OpenAPI, configuration and process entry, migrations (DDL run
once before the start; its keys and unique indexes are in the modelled statements).
Of the error filter only the class of an answer is modelled.

Left for later: the composition of `Sessions` with `UserAdmin` and `Onboarding` in one
module, for which `TablesNext` stands in now, and the safety halves of
`TakenRolesRunOut` and `InvocationsEnd`.
