----------------------------- MODULE SeedProofs -----------------------------
(***************************************************************************)
(* Theorems about Seed, for every number of runs and of changes the server *)
(* makes meanwhile, over the script's own list of statements.              *)
(***************************************************************************)
EXTENDS Seed, SequenceTheorems, TLAPS

-----------------------------------------------------------------------------
(* The statements.                                                         *)

PermissionStmt(p) == [op |-> "permission", permission |-> p]
OrganizationStmt(o) == [op |-> "organization", org |-> o]
RoleStmt(o, role) == [op |-> "role", org |-> o, role |-> role]
GrantStmt(o, role, p) == [op |-> "grant", org |-> o, role |-> role, permission |-> p]
UserStmt(u) == [op |-> "user", user |-> u]
MembershipStmt(o, i) ==
  [op |-> "membership", org |-> o, user |-> users[o][i].user, role |-> users[o][i].role]
ProjectStmt(o) == [op |-> "project", org |-> o]

CatalogStmts == {PermissionStmt(p) : p \in Permissions}
RoleStmts(o, role) ==
  {RoleStmt(o, role)} \cup {GrantStmt(o, role, p) : p \in PermissionsOf(role)}
UserStmts(o) ==
  UNION {{UserStmt(users[o][i].user), MembershipStmt(o, i)} : i \in DOMAIN users[o]}

TenantStmts(o) ==
  {OrganizationStmt(o), ProjectStmt(o)} \cup UserStmts(o)
    \cup (UNION {RoleStmts(o, role) : role \in Roles})

Stmts == CatalogStmts \cup TenantStmts("acme") \cup TenantStmts("globex")

\* The statements whose rows this one refers to.
Needs(s) ==
  CASE s.op = "grant"   -> {PermissionStmt(s.permission)}
    [] s.op = "project" -> {OrganizationStmt(s.org), UserStmt(createdBy[s.org])}
    [] OTHER            -> {}

-----------------------------------------------------------------------------
(* The inductive invariant.                                                *)

\* What is before the statement the script is at has been written, but for what
\* the server has undone.
Written ==
  status # "idle" => \A i \in 1..(next - 1) : Holds(main[i]) \/ i \in undone

\* The server takes away memberships, projects and flags of accounts, nothing
\* else, and no account at all.
OnlySoMuchUndone ==
  \A i \in undone :
    /\ main[i].op \in {"user", "membership", "project"}
    /\ main[i].op = "user" => account[main[i].user] # "absent"

GrantsAreDefaults == \A o \in Orgs : grants[o] \subseteq FullGrants

DoneAtTheEnd == status = "done" => next = Len(main) + 1

IInv == TypeOK /\ Written /\ OnlySoMuchUndone /\ GrantsAreDefaults /\ DoneAtTheEnd

\* The two lookups of the script that throw find their row.
LookupsFind ==
  status = "running" /\ next <= Len(main) =>
    /\ main[next].op = "grant" => main[next].permission \in catalog
    /\ main[next].op = "project" => account[createdBy[main[next].org]] # "absent"

-----------------------------------------------------------------------------
(* The list of statements.                                                 *)

Elements(s) == {s[i] : i \in 1..Len(s)}

\* Every statement of s comes after those it needs, which are in s or in E.
InOrderAfter(E, s) ==
  \A i \in 1..Len(s) : \A d \in Needs(s[i]) : d \in E \/ \E j \in 1..(i - 1) : s[j] = d

\* The places of a list put together from two.
LEMMA ConcatPlaces ==
  ASSUME NEW S, NEW s \in Seq(S), NEW t \in Seq(S)
  PROVE  /\ s \o t \in Seq(S)
         /\ Len(s) \in Nat /\ Len(t) \in Nat
         /\ \A i \in 1..Len(s) : i \in 1..Len(s \o t) /\ (s \o t)[i] = s[i]
         /\ \A i \in 1..Len(t) : i + Len(s) \in 1..Len(s \o t) /\ (s \o t)[i + Len(s)] = t[i]
         /\ \A i \in 1..Len(s \o t) : i \in 1..Len(s) \/ i - Len(s) \in 1..Len(t)
         /\ \A i \in 1..Len(s \o t) :
              i - Len(s) \in 1..Len(t) => (s \o t)[i] = t[i - Len(s)]
<1> DEFINE st == s \o t
<1>1. /\ st \in Seq(S)
      /\ Len(st) = Len(s) + Len(t)
      /\ \A i \in 1..Len(s) + Len(t) :
           st[i] = IF i <= Len(s) THEN s[i] ELSE t[i - Len(s)]
  BY ConcatProperties
<1>2. Len(s) \in Nat /\ Len(t) \in Nat
  BY LenProperties
<1> HIDE DEF st
<1>3. \A i \in 1..Len(s) : i \in 1..Len(st) /\ st[i] = s[i]
  BY <1>1, <1>2
<1>4. \A i \in 1..Len(t) : i + Len(s) \in 1..Len(st) /\ st[i + Len(s)] = t[i]
  <2>1. SUFFICES ASSUME NEW i \in 1..Len(t)
                 PROVE  i + Len(s) \in 1..Len(st) /\ st[i + Len(s)] = t[i]
    OBVIOUS
  <2>2. /\ i + Len(s) \in 1..Len(s) + Len(t)
        /\ ~(i + Len(s) <= Len(s))
        /\ (i + Len(s)) - Len(s) = i
    BY <1>2
  <2> QED
    BY <1>1, <2>2
<1>5. \A i \in 1..Len(st) : i \in 1..Len(s) \/ i - Len(s) \in 1..Len(t)
  BY <1>1, <1>2
<1>6. \A i \in 1..Len(st) : i - Len(s) \in 1..Len(t) => st[i] = t[i - Len(s)]
  BY <1>1, <1>2
<1> QED
  BY <1>1, <1>2, <1>3, <1>4, <1>5, <1>6 DEF st

\* What is in it.
LEMMA ConcatFacts ==
  ASSUME NEW S, NEW s \in Seq(S), NEW t \in Seq(S)
  PROVE  /\ s \o t \in Seq(S)
         /\ Elements(s \o t) = Elements(s) \cup Elements(t)
<1> DEFINE st == s \o t
<1>1. /\ st \in Seq(S)
      /\ \A i \in 1..Len(s) : i \in 1..Len(st) /\ st[i] = s[i]
      /\ \A i \in 1..Len(t) : i + Len(s) \in 1..Len(st) /\ st[i + Len(s)] = t[i]
      /\ \A i \in 1..Len(st) : i \in 1..Len(s) \/ i - Len(s) \in 1..Len(t)
      /\ \A i \in 1..Len(st) : i - Len(s) \in 1..Len(t) => st[i] = t[i - Len(s)]
  BY ConcatPlaces
<1> HIDE DEF st
<1>2. Elements(st) \subseteq Elements(s) \cup Elements(t)
  BY <1>1 DEF Elements
<1>3. Elements(s) \subseteq Elements(st)
  BY <1>1 DEF Elements
<1>4. Elements(t) \subseteq Elements(st)
  <2>1. \A i \in 1..Len(t) : t[i] \in Elements(st)
    BY <1>1 DEF Elements
  <2> QED
    BY <2>1 DEF Elements
<1> QED
  BY <1>1, <1>2, <1>3, <1>4 DEF st

\* Its order is kept.
LEMMA ConcatOrder ==
  ASSUME NEW S, NEW s \in Seq(S), NEW t \in Seq(S), NEW E,
         InOrderAfter(E, s), InOrderAfter(E \cup Elements(s), t)
  PROVE  InOrderAfter(E, s \o t)
<1> DEFINE st == s \o t
<1>1. Len(s) \in Nat /\ Len(t) \in Nat
  BY ConcatPlaces
<1>2. /\ \A i \in 1..Len(s) : i \in 1..Len(st) /\ st[i] = s[i]
      /\ \A i \in 1..Len(t) : i + Len(s) \in 1..Len(st) /\ st[i + Len(s)] = t[i]
      /\ \A i \in 1..Len(st) : i \in 1..Len(s) \/ i - Len(s) \in 1..Len(t)
      /\ \A i \in 1..Len(st) : i - Len(s) \in 1..Len(t) => st[i] = t[i - Len(s)]
  BY ConcatPlaces
<1> HIDE DEF st
<1>3. InOrderAfter(E, st)
  <2>1. SUFFICES ASSUME NEW i \in 1..Len(st), NEW d \in Needs(st[i]), d \notin E
                 PROVE  \E j \in 1..(i - 1) : st[j] = d
    BY DEF InOrderAfter
  <2>2. CASE i \in 1..Len(s)
    <3>1. PICK j \in 1..(i - 1) : s[j] = d
      BY <1>2, <2>1, <2>2 DEF InOrderAfter
    <3>2. j \in 1..Len(s)
      BY <1>1, <2>2, <3>1
    <3> QED
      BY <1>2, <3>1, <3>2
  <2>3. CASE i - Len(s) \in 1..Len(t)
    <3>1. st[i] = t[i - Len(s)]
      BY <1>2, <2>1, <2>3
    <3>2. CASE d \in Elements(s)
      <4>1. PICK j \in 1..Len(s) : s[j] = d
        BY <3>2 DEF Elements
      <4>2. j \in 1..(i - 1)
        BY <1>1, <2>3, <4>1
      <4> QED
        BY <1>2, <4>1, <4>2
    <3>3. CASE d \notin Elements(s)
      <4>1. PICK j \in 1..((i - Len(s)) - 1) : t[j] = d
        BY <2>1, <2>3, <3>1, <3>3 DEF InOrderAfter
      <4>2. j \in 1..Len(t) /\ j + Len(s) \in 1..(i - 1)
        BY <1>1, <2>3, <4>1
      <4> QED
        BY <1>2, <4>1, <4>2
    <3> QED
      BY <3>2, <3>3
  <2> QED
    BY <1>2, <2>1, <2>2, <2>3
<1> QED
  BY <1>3 DEF st

\* A list whose statements need nothing but what is there is in order.
LEMMA InOrderIfThere ==
  ASSUME NEW s, NEW E, \A d \in Elements(s) : Needs(d) \subseteq E
  PROVE  InOrderAfter(E, s)
BY DEF InOrderAfter, Elements

\* What the statements need.
LEMMA NeedsFacts ==
  /\ \A p : Needs(PermissionStmt(p)) = {}
  /\ \A o : Needs(OrganizationStmt(o)) = {}
  /\ \A o, role : Needs(RoleStmt(o, role)) = {}
  /\ \A o, role, p : Needs(GrantStmt(o, role, p)) = {PermissionStmt(p)}
  /\ \A u : Needs(UserStmt(u)) = {}
  /\ \A o, i : Needs(MembershipStmt(o, i)) = {}
  /\ \A o : Needs(ProjectStmt(o)) = {OrganizationStmt(o), UserStmt(createdBy[o])}
BY DEF Needs, PermissionStmt, OrganizationStmt, RoleStmt, GrantStmt, UserStmt,
       MembershipStmt, ProjectStmt

\* The script's copy of the access table is the server's.
LEMMA SameTable ==
  /\ permissions = PermissionKeys
  /\ DOMAIN PermissionKeys = 1..9
  /\ \A role \in Roles :
       /\ rolePermissions[role] = RolePermissions[role]
       /\ \E n \in Nat : DOMAIN RolePermissions[role] = 1..n
       /\ PermissionsOf(role) \subseteq Permissions
  /\ PermissionsOf("ORG_ADMIN") = Permissions
<1> DEFINE keys == {"tenant:read", "users:read", "users:manage", "roles:read",
                    "permissions:read", "projects:read", "projects:write",
                    "projects:delete", "audit:read"}
<1>1. permissions = PermissionKeys
  BY DEF permissions, PermissionKeys
<1>2. DOMAIN PermissionKeys = 1..9
  BY DEF PermissionKeys
<1>3. \A p \in keys : p \in Permissions
  BY DEF Permissions, PermissionKeys
<1>4. PermissionsOf("ORG_ADMIN") = Permissions
  BY DEF PermissionsOf, RolePermissions, Permissions
<1>5. ASSUME NEW role \in Roles
      PROVE  /\ rolePermissions[role] = RolePermissions[role]
             /\ \E n \in Nat : DOMAIN RolePermissions[role] = 1..n
             /\ PermissionsOf(role) \subseteq Permissions
  <2>1. CASE role = "ORG_ADMIN"
    <3>1. RolePermissions[role] = PermissionKeys /\ rolePermissions[role] = permissions
      BY <2>1 DEF RolePermissions, rolePermissions
    <3> QED
      BY <1>1, <1>2, <1>4, <2>1, <3>1
  <2>2. CASE role = "ORG_USER"
    <3>1. rolePermissions[role] = RolePermissions[role]
      BY <2>2 DEF RolePermissions, rolePermissions
    <3>2. DOMAIN RolePermissions[role] = 1..6
      BY <2>2 DEF RolePermissions
    <3>3. \A i \in 1..6 : RolePermissions[role][i] \in keys
      BY <2>2 DEF RolePermissions
    <3> QED
      BY <1>3, <3>1, <3>2, <3>3 DEF PermissionsOf
  <2>3. CASE role = "READ_ONLY"
    <3>1. rolePermissions[role] = RolePermissions[role]
      BY <2>3 DEF RolePermissions, rolePermissions
    <3>2. DOMAIN RolePermissions[role] = 1..4
      BY <2>3 DEF RolePermissions
    <3>3. \A i \in 1..4 : RolePermissions[role][i] \in keys
      BY <2>3 DEF RolePermissions
    <3> QED
      BY <1>3, <3>1, <3>2, <3>3 DEF PermissionsOf
  <2> QED
    BY <2>1, <2>2, <2>3 DEF Roles
<1> QED
  BY <1>1, <1>2, <1>4, <1>5

\* The catalog is written first, a statement for each permission.
LEMMA CatalogFacts ==
  /\ CatalogUpserts \in Seq(Stmts)
  /\ Elements(CatalogUpserts) = CatalogStmts
<1>1. CatalogUpserts = [i \in 1..9 |-> PermissionStmt(PermissionKeys[i])]
  BY SameTable DEF CatalogUpserts, PermissionStmt
<1>2. Permissions = {PermissionKeys[i] : i \in 1..9}
  BY SameTable DEF Permissions
<1>3. \A i \in 1..9 : PermissionStmt(PermissionKeys[i]) \in Stmts
  BY <1>2 DEF Stmts, CatalogStmts
<1>4. CatalogUpserts \in Seq(Stmts) /\ Len(CatalogUpserts) = 9
  BY <1>1, <1>3
<1> QED
  BY <1>1, <1>2, <1>4 DEF Elements, CatalogStmts

\* Each role's part is its row and its grants.
LEMMA RoleFacts ==
  ASSUME NEW o \in Orgs, NEW role \in Roles
  PROVE  /\ RoleUpserts(o, role) \in Seq(Stmts)
         /\ Elements(RoleUpserts(o, role)) = RoleStmts(o, role)
<1> DEFINE row == <<RoleStmt(o, role)>>
           rows == [i \in DOMAIN RolePermissions[role] |->
                      GrantStmt(o, role, RolePermissions[role][i])]
<1>1. RoleUpserts(o, role) = row \o rows
  BY SameTable DEF RoleUpserts, RoleStmt, GrantStmt
<1>2. PICK n \in Nat : DOMAIN RolePermissions[role] = 1..n
  BY SameTable
<1>3. PermissionsOf(role) = {RolePermissions[role][i] : i \in 1..n}
  BY <1>2 DEF PermissionsOf
<1>4. RoleStmts(o, role) \subseteq Stmts
  BY DEF Stmts, TenantStmts, Orgs
<1>5. rows \in Seq(Stmts) /\ Len(rows) = n
  BY <1>2, <1>3, <1>4 DEF RoleStmts
<1>6. Elements(rows) = {GrantStmt(o, role, p) : p \in PermissionsOf(role)}
  BY <1>2, <1>3, <1>5 DEF Elements
<1>7. row \in Seq(Stmts) /\ Elements(row) = {RoleStmt(o, role)}
  BY <1>4 DEF RoleStmts, Elements
<1> HIDE DEF row, rows
<1>8. row \o rows \in Seq(Stmts) /\ Elements(row \o rows) = Elements(row) \cup Elements(rows)
  BY <1>5, <1>7, ConcatFacts
<1> QED
  BY <1>1, <1>6, <1>7, <1>8 DEF RoleStmts

\* For each user the account, then the membership.
LEMMA UserFacts ==
  ASSUME NEW o \in Orgs
  PROVE  /\ UserUpserts(o) \in Seq(Stmts)
         /\ Elements(UserUpserts(o)) = UserStmts(o)
<1>1. \E n \in Nat : n = Len(users[o]) /\ DOMAIN users[o] = 1..n
  <2>1. CASE o = "acme"
    BY <2>1 DEF users
  <2>2. CASE o = "globex"
    BY <2>2 DEF users
  <2> QED
    BY <2>1, <2>2 DEF Orgs
<1>2. PICK n \in Nat : n = Len(users[o]) /\ DOMAIN users[o] = 1..n
  BY <1>1
<1> DEFINE part == UserUpserts(o)
           place(i) == (i + 1) \div 2
<1>3. part = [i \in 1..(2 * n) |-> IF i % 2 = 1 THEN UserStmt(users[o][place(i)].user)
                                   ELSE MembershipStmt(o, place(i))]
  BY <1>2 DEF UserUpserts, UserStmt, MembershipStmt
<1>4. \A i \in 1..(2 * n) : place(i) \in 1..n
  OBVIOUS
<1>5. \A k \in 1..n : /\ 2 * k - 1 \in 1..(2 * n) /\ 2 * k \in 1..(2 * n)
                      /\ place(2 * k - 1) = k /\ place(2 * k) = k
                      /\ (2 * k - 1) % 2 = 1 /\ (2 * k) % 2 = 0
  OBVIOUS
<1>6. UserStmts(o) \subseteq Stmts
  BY DEF Stmts, TenantStmts, Orgs
<1> HIDE DEF place
<1>7. \A i \in 1..(2 * n) : part[i] \in UserStmts(o)
  BY <1>2, <1>3, <1>4 DEF UserStmts
<1>8. part \in Seq(Stmts) /\ Len(part) = 2 * n
  <2>1. part \in [1..(2 * n) -> Stmts] /\ 2 * n \in Nat
    BY <1>3, <1>6, <1>7
  <2> HIDE DEF part
  <2> QED
    BY <2>1
<1>9. \A k \in 1..n : /\ part[2 * k - 1] = UserStmt(users[o][k].user)
                      /\ part[2 * k] = MembershipStmt(o, k)
  BY <1>3, <1>5
<1> HIDE DEF part
<1>10. \A k \in 1..n : /\ UserStmt(users[o][k].user) \in Elements(part)
                       /\ MembershipStmt(o, k) \in Elements(part)
  BY <1>5, <1>8, <1>9 DEF Elements
<1>11. UserStmts(o) \subseteq Elements(part)
  BY <1>2, <1>10 DEF UserStmts
<1>12. Elements(part) \subseteq UserStmts(o)
  BY <1>7, <1>8 DEF Elements
<1> QED
  BY <1>8, <1>11, <1>12 DEF part

\* A tenant's statements need the catalog and those before them.
LEMMA TenantFacts ==
  ASSUME NEW o \in Orgs
  PROVE  /\ seedTenant(o) \in Seq(Stmts)
         /\ Elements(seedTenant(o)) = TenantStmts(o)
         /\ InOrderAfter(CatalogStmts, seedTenant(o))
<1> DEFINE head == <<OrganizationStmt(o)>>
           part(role) == RoleUpserts(o, role)
           last == <<ProjectStmt(o)>>
           init == head \o part("ORG_ADMIN") \o part("ORG_USER") \o part("READ_ONLY")
                     \o UserUpserts(o)
           Before == {OrganizationStmt(o)} \cup UserStmts(o)
                       \cup (UNION {RoleStmts(o, role) : role \in Roles})
<1>1. seedTenant(o) = init \o last
  BY DEF seedTenant, OrganizationStmt, ProjectStmt
<1>2. {OrganizationStmt(o), ProjectStmt(o)} \subseteq Stmts
  BY DEF Stmts, TenantStmts, Orgs
<1>3. /\ head \in Seq(Stmts) /\ Elements(head) = {OrganizationStmt(o)}
      /\ last \in Seq(Stmts) /\ Elements(last) = {ProjectStmt(o)}
  BY <1>2 DEF Elements
<1>4. \A role \in Roles :
        part(role) \in Seq(Stmts) /\ Elements(part(role)) = RoleStmts(o, role)
  BY RoleFacts
<1>5. UserUpserts(o) \in Seq(Stmts) /\ Elements(UserUpserts(o)) = UserStmts(o)
  BY UserFacts
<1>6. "ORG_ADMIN" \in Roles /\ "ORG_USER" \in Roles /\ "READ_ONLY" \in Roles
  BY DEF Roles
<1> HIDE DEF head, part, last
<1>7. init \in Seq(Stmts) /\ Elements(init) = Before
  <2> DEFINE one == head \o part("ORG_ADMIN")
             two == one \o part("ORG_USER")
             three == two \o part("READ_ONLY")
  <2>1. one \in Seq(Stmts)
        /\ Elements(one) = {OrganizationStmt(o)} \cup RoleStmts(o, "ORG_ADMIN")
    BY <1>3, <1>4, <1>6, ConcatFacts
  <2> HIDE DEF one
  <2>2. two \in Seq(Stmts) /\ Elements(two) = Elements(one) \cup RoleStmts(o, "ORG_USER")
    BY <2>1, <1>4, <1>6, ConcatFacts
  <2> HIDE DEF two
  <2>3. /\ three \in Seq(Stmts)
        /\ Elements(three) = Elements(two) \cup RoleStmts(o, "READ_ONLY")
    BY <2>2, <1>4, <1>6, ConcatFacts
  <2> HIDE DEF three
  <2>4. three \o UserUpserts(o) \in Seq(Stmts)
        /\ Elements(three \o UserUpserts(o)) = Elements(three) \cup UserStmts(o)
    BY <2>3, <1>5, ConcatFacts
  <2>5. UNION {RoleStmts(o, role) : role \in Roles} =
          RoleStmts(o, "ORG_ADMIN") \cup RoleStmts(o, "ORG_USER") \cup RoleStmts(o, "READ_ONLY")
    BY DEF Roles
  <2>6. Before = Elements(three) \cup UserStmts(o)
    BY <2>1, <2>2, <2>3, <2>5
  <2> QED
    BY <2>4, <2>6 DEF three, two, one
<1> HIDE DEF init
<1>8. InOrderAfter(CatalogStmts, init)
  <2>1. ASSUME NEW role \in Roles, NEW d \in RoleStmts(o, role)
        PROVE  Needs(d) \subseteq CatalogStmts
    BY NeedsFacts, SameTable DEF RoleStmts, CatalogStmts
  <2>2. \A d \in UserStmts(o) : Needs(d) = {}
    BY NeedsFacts DEF UserStmts
  <2>3. \A d \in Before : Needs(d) \subseteq CatalogStmts
    BY <2>1, <2>2, NeedsFacts
  <2> QED
    BY <1>7, <2>3, InOrderIfThere
<1>9. InOrderAfter(CatalogStmts \cup Elements(init), last)
  <2>1. 1 \in DOMAIN users[o]
    BY DEF users, Orgs
  <2>2. UserStmt(createdBy[o]) \in UserStmts(o)
    BY <2>1 DEF createdBy, UserStmts
  <2>3. Needs(ProjectStmt(o)) \subseteq Elements(init)
    BY <1>7, <2>2, NeedsFacts
  <2> QED
    BY <1>3, <2>3, InOrderIfThere
<1>10. /\ init \o last \in Seq(Stmts)
       /\ Elements(init \o last) = Elements(init) \cup Elements(last)
       /\ InOrderAfter(CatalogStmts, init \o last)
  BY <1>3, <1>7, <1>8, <1>9, ConcatFacts, ConcatOrder
<1> QED
  BY <1>1, <1>3, <1>7, <1>10 DEF TenantStmts

\* The script's list holds all its statements, each after those it needs.
LEMMA MainFacts ==
  /\ Len(main) \in Nat /\ DOMAIN main = 1..Len(main)
  /\ \A i \in 1..Len(main) : main[i] \in Stmts
  /\ \A s \in Stmts : \E i \in 1..Len(main) : main[i] = s
  /\ \A i \in 1..Len(main) : \A d \in Needs(main[i]) : \E j \in 1..(i - 1) : main[j] = d
<1> DEFINE acme == seedTenant("acme")
           globex == seedTenant("globex")
           first == CatalogUpserts \o acme
<1>1. "acme" \in Orgs /\ "globex" \in Orgs
  BY DEF Orgs
<1>2. /\ acme \in Seq(Stmts) /\ Elements(acme) = TenantStmts("acme")
      /\ InOrderAfter(CatalogStmts, acme)
  BY <1>1, TenantFacts
<1>3. /\ globex \in Seq(Stmts) /\ Elements(globex) = TenantStmts("globex")
      /\ InOrderAfter(CatalogStmts, globex)
  BY <1>1, TenantFacts
<1> HIDE DEF acme, globex
<1>4. \A d \in CatalogStmts : Needs(d) = {}
  BY NeedsFacts DEF CatalogStmts
<1>5. InOrderAfter({}, CatalogUpserts)
  BY <1>4, CatalogFacts, InOrderIfThere
<1>6. {} \cup CatalogStmts = CatalogStmts
  OBVIOUS
<1>7. /\ first \in Seq(Stmts)
      /\ Elements(first) = CatalogStmts \cup TenantStmts("acme")
  BY <1>2, CatalogFacts, ConcatFacts
<1>8. InOrderAfter({}, first)
  BY <1>2, <1>5, <1>6, CatalogFacts, ConcatOrder
<1> HIDE DEF first
<1>9. InOrderAfter({} \cup Elements(first), globex)
  BY <1>3, <1>7 DEF InOrderAfter
<1>10. /\ first \o globex \in Seq(Stmts)
       /\ Elements(first \o globex) = Elements(first) \cup Elements(globex)
       /\ InOrderAfter({}, first \o globex)
  BY <1>3, <1>7, <1>8, <1>9, ConcatFacts, ConcatOrder
<1>11. main = first \o globex
  BY DEF main, first, acme, globex
<1>12. /\ main \in Seq(Stmts)
       /\ Elements(main) = Stmts
       /\ InOrderAfter({}, main)
  BY <1>3, <1>7, <1>10, <1>11 DEF Stmts
<1>13. /\ Len(main) \in Nat /\ DOMAIN main = 1..Len(main)
       /\ \A i \in 1..Len(main) : main[i] \in Stmts
  BY <1>12, LenProperties, ElementOfSeq
<1> QED
  BY <1>12, <1>13 DEF Elements, InOrderAfter

\* The fields of a statement, by its operation.
LEMMA StmtFields ==
  ASSUME NEW s \in Stmts
  PROVE  /\ s.op \in {"permission", "organization", "role", "grant", "user",
                      "membership", "project"}
         /\ s.op = "permission" => s.permission \in Permissions
         /\ s.op \notin {"permission", "user"} => s.org \in Orgs
         /\ s.op = "role" => s.role \in Roles
         /\ s.op = "grant" => /\ s.role \in Roles
                              /\ s.permission \in PermissionsOf(s.role)
         /\ s.op = "user" => s.user \in Users
         /\ s.op = "membership" =>
              \E i \in DOMAIN users[s.org] : s = MembershipStmt(s.org, i)
<1>1. CASE s \in CatalogStmts
  BY <1>1 DEF CatalogStmts, PermissionStmt
<1>2. ASSUME NEW o \in Orgs, s \in {OrganizationStmt(o), ProjectStmt(o)}
      PROVE  s.op \in {"organization", "project"} /\ s.org \in Orgs
  BY <1>2 DEF OrganizationStmt, ProjectStmt
<1>3. ASSUME NEW o \in Orgs, NEW role \in Roles, s \in RoleStmts(o, role)
      PROVE  /\ s.op \in {"role", "grant"} /\ s.org \in Orgs /\ s.role \in Roles
             /\ s.op = "grant" => s.permission \in PermissionsOf(s.role)
  BY <1>3 DEF RoleStmts, RoleStmt, GrantStmt
<1>4. ASSUME NEW o \in Orgs, s \in UserStmts(o)
      PROVE  /\ s.op \in {"user", "membership"}
             /\ s.op = "user" => s.user \in Users
             /\ s.op = "membership" =>
                  s.org \in Orgs /\ \E i \in DOMAIN users[s.org] : s = MembershipStmt(s.org, i)
  <2>1. PICK i \in DOMAIN users[o] : s \in {UserStmt(users[o][i].user), MembershipStmt(o, i)}
    BY <1>4 DEF UserStmts
  <2>2. users[o][i].user \in Users
    <3>1. CASE o = "acme"
      BY <3>1, <2>1 DEF users, User, Users
    <3>2. CASE o = "globex"
      BY <3>2, <2>1 DEF users, User, Users
    <3> QED
      BY <3>1, <3>2 DEF Orgs
  <2> QED
    BY <2>1, <2>2 DEF UserStmt, MembershipStmt
<1>5. ASSUME NEW o \in Orgs, s \in TenantStmts(o)
      PROVE  \/ s \in {OrganizationStmt(o), ProjectStmt(o)}
             \/ \E role \in Roles : s \in RoleStmts(o, role)
             \/ s \in UserStmts(o)
  BY <1>5 DEF TenantStmts
<1>6. s \in CatalogStmts \/ \E o \in Orgs : s \in TenantStmts(o)
  BY DEF Stmts, Orgs
<1>7. CASE \E o \in Orgs : s \in TenantStmts(o)
  <2>1. PICK o \in Orgs : s \in TenantStmts(o)
    BY <1>7
  <2>2. CASE s \in {OrganizationStmt(o), ProjectStmt(o)}
    BY <1>2, <2>2
  <2>3. CASE \E role \in Roles : s \in RoleStmts(o, role)
    BY <1>3, <2>3
  <2>4. CASE s \in UserStmts(o)
    BY <1>4, <2>4
  <2> QED
    BY <1>5, <2>1, <2>2, <2>3, <2>4
<1> QED
  BY <1>1, <1>6, <1>7

\* The script gives a user one role in a tenant.
LEMMA OneRoleEach ==
  ASSUME NEW s \in Stmts, NEW t \in Stmts, s.op = "membership", t.op = "membership",
         s.org = t.org, s.user = t.user
  PROVE  s.role = t.role
<1>1. /\ s.org \in Orgs
      /\ \E i \in DOMAIN users[s.org] : s = MembershipStmt(s.org, i)
      /\ \E i \in DOMAIN users[s.org] : t = MembershipStmt(s.org, i)
  BY StmtFields
<1>2. PICK i \in DOMAIN users[s.org] : s = MembershipStmt(s.org, i)
  BY <1>1
<1>3. PICK j \in DOMAIN users[s.org] : t = MembershipStmt(s.org, j)
  BY <1>1
<1>4. /\ s.user = users[s.org][i].user /\ s.role = users[s.org][i].role
      /\ t.user = users[s.org][j].user /\ t.role = users[s.org][j].role
  BY <1>2, <1>3 DEF MembershipStmt
<1>5. CASE s.org = "acme"
  <2>1. /\ DOMAIN users[s.org] = 1..3
        /\ users[s.org][1].user = "admin@acme"
        /\ users[s.org][2].user = "member@acme"
        /\ users[s.org][3].user = "viewer@acme"
    BY <1>5 DEF users, User
  <2>2. i \in {1, 2, 3} /\ j \in {1, 2, 3}
    BY <2>1
  <2> DEFINE name(k) == users[s.org][k].user
  <2>3. name(i) = name(j)
    BY <1>4
  <2>4. i = j
    BY <2>1, <2>2, <2>3
  <2> QED
    BY <1>4, <2>4
<1>6. CASE s.org = "globex"
  <2>1. /\ DOMAIN users[s.org] = 1..2
        /\ users[s.org][1].user = "admin@globex"
        /\ users[s.org][2].user = "viewer@globex"
    BY <1>6 DEF users, User
  <2>2. i \in {1, 2} /\ j \in {1, 2}
    BY <2>1
  <2> DEFINE name(k) == users[s.org][k].user
  <2>3. name(i) = name(j)
    BY <1>4
  <2>4. i = j
    BY <2>1, <2>2, <2>3
  <2> QED
    BY <1>4, <2>4
<1> QED
  BY <1>1, <1>5, <1>6 DEF Orgs

-----------------------------------------------------------------------------
(* The steps.                                                              *)

\* What a statement is for, by its operation, now and after a step.
LEMMA HoldsFacts ==
  ASSUME NEW s
  PROVE  /\ s.op = "permission" =>
              /\ Holds(s) <=> s.permission \in catalog
              /\ Holds(s)' <=> s.permission \in catalog'
         /\ s.op = "organization" =>
              /\ Holds(s) <=> s.org \in organizations
              /\ Holds(s)' <=> s.org \in organizations'
         /\ s.op = "role" =>
              /\ Holds(s) <=> s.role \in roles[s.org]
              /\ Holds(s)' <=> s.role \in roles'[s.org]
         /\ s.op = "grant" =>
              /\ Holds(s) <=> [role |-> s.role, permission |-> s.permission] \in grants[s.org]
              /\ Holds(s)' <=> [role |-> s.role, permission |-> s.permission] \in grants'[s.org]
         /\ s.op = "user" =>
              /\ Holds(s) <=> account[s.user] = "active"
              /\ Holds(s)' <=> account'[s.user] = "active"
         /\ s.op = "membership" =>
              /\ Holds(s) <=> membership[s.org][s.user] = s.role /\ roleRef[s.org][s.user] = s.role
              /\ Holds(s)' <=> membership'[s.org][s.user] = s.role /\ roleRef'[s.org][s.user] = s.role
         /\ s.op = "project" =>
              /\ Holds(s) <=> s.org \in projects
              /\ Holds(s)' <=> s.org \in projects'
BY DEF Holds

\* The statement the script is at is one of the list.
LEMMA AtStmt ==
  ASSUME TypeOK, status = "running", next <= Len(main)
  PROVE  next \in 1..Len(main) /\ main[next] \in Stmts
<1>1. next \in 1..(Len(main) + 1)
  BY DEF TypeOK
<1>2. next \in 1..Len(main)
  BY <1>1, MainFacts
<1> QED
  BY <1>2, MainFacts

\* A statement writes its own table and moves the script on.
LEMMA StatementEffect ==
  ASSUME Statement, NEW s, s = main[next]
  PROVE  /\ status = "running" /\ next <= Len(main)
         /\ next' = next + 1 /\ undone' = undone \ {next}
         /\ UNCHANGED <<status, runs, changes>>
         /\ catalog' = IF s.op = "permission" THEN catalog \cup {s.permission} ELSE catalog
         /\ organizations' =
              IF s.op = "organization" THEN organizations \cup {s.org} ELSE organizations
         /\ roles' = IF s.op = "role" THEN [roles EXCEPT ![s.org] = @ \cup {s.role}] ELSE roles
         /\ grants' =
              IF s.op = "grant"
              THEN [grants EXCEPT ![s.org] =
                      @ \cup {[role |-> s.role, permission |-> s.permission]}]
              ELSE grants
         /\ account' = IF s.op = "user" THEN [account EXCEPT ![s.user] = "active"] ELSE account
         /\ membership' =
              IF s.op = "membership" THEN [membership EXCEPT ![s.org][s.user] = s.role]
              ELSE membership
         /\ roleRef' =
              IF s.op = "membership" THEN [roleRef EXCEPT ![s.org][s.user] = s.role]
              ELSE roleRef
         /\ projects' = IF s.op = "project" THEN projects \cup {s.org} ELSE projects
<1>1. CASE UpsertPermission
  BY <1>1 DEF UpsertPermission, At, Advance
<1>2. CASE UpsertOrganization
  BY <1>2 DEF UpsertOrganization, At, Advance
<1>3. CASE UpsertRole
  BY <1>3 DEF UpsertRole, At, Advance
<1>4. CASE UpsertGrant
  BY <1>4 DEF UpsertGrant, At, Advance
<1>5. CASE UpsertUser
  BY <1>5 DEF UpsertUser, At, Advance
<1>6. CASE UpsertMembership
  BY <1>6 DEF UpsertMembership, At, Advance
<1>7. CASE UpsertProject
  BY <1>7 DEF UpsertProject, At, Advance
<1> QED
  BY <1>1, <1>2, <1>3, <1>4, <1>5, <1>6, <1>7 DEF Statement

\* The user and the role of a membership's statement.
LEMMA MembershipFields ==
  ASSUME NEW s \in Stmts, s.op = "membership"
  PROVE  s.org \in Orgs /\ s.user \in Users /\ s.role \in Roles
<1>1. s.org \in Orgs /\ \E i \in DOMAIN users[s.org] : s = MembershipStmt(s.org, i)
  BY StmtFields
<1>2. PICK i \in DOMAIN users[s.org] : s = MembershipStmt(s.org, i)
  BY <1>1
<1>3. s.user = users[s.org][i].user /\ s.role = users[s.org][i].role
  BY <1>2 DEF MembershipStmt
<1>4. CASE s.org = "acme"
  <2>1. /\ DOMAIN users[s.org] = 1..3
        /\ \A k \in 1..3 : users[s.org][k].user \in Users /\ users[s.org][k].role \in Roles
    BY <1>4 DEF users, User, Users, Roles
  <2> QED
    BY <1>1, <1>3, <2>1
<1>5. CASE s.org = "globex"
  <2>1. /\ DOMAIN users[s.org] = 1..2
        /\ \A k \in 1..2 : users[s.org][k].user \in Users /\ users[s.org][k].role \in Roles
    BY <1>5 DEF users, User, Users, Roles
  <2> QED
    BY <1>1, <1>3, <2>1
<1> QED
  BY <1>1, <1>4, <1>5 DEF Orgs

\* After it what the statement is for is so, and so is what was so before.
LEMMA StatementWrites ==
  ASSUME TypeOK, Statement, NEW s \in Stmts, s = main[next], NEW t \in Stmts,
         Holds(t) \/ t = s
  PROVE  Holds(t)'
<1>1. CASE t.op = "permission"
  BY <1>1, StatementEffect, HoldsFacts
<1>2. CASE t.op = "organization"
  BY <1>2, StatementEffect, HoldsFacts
<1>3. CASE t.op = "role"
  <2>1. t.org \in Orgs
    BY <1>3, StmtFields
  <2>2. roles[t.org] \subseteq roles'[t.org]
    <3>1. roles' = roles \/ roles' = [roles EXCEPT ![s.org] = @ \cup {s.role}]
      BY StatementEffect
    <3> QED
      BY <2>1, <3>1 DEF TypeOK
  <2>3. t = s => t.role \in roles'[t.org]
    BY <1>3, <2>1, StatementEffect DEF TypeOK
  <2> QED
    BY <1>3, <2>2, <2>3, HoldsFacts
<1>4. CASE t.op = "grant"
  <2>1. t.org \in Orgs
    BY <1>4, StmtFields
  <2>2. grants[t.org] \subseteq grants'[t.org]
    <3> DEFINE grant == [role |-> s.role, permission |-> s.permission]
    <3>1. grants' = grants \/ grants' = [grants EXCEPT ![s.org] = @ \cup {grant}]
      BY StatementEffect
    <3> HIDE DEF grant
    <3> QED
      BY <2>1, <3>1 DEF TypeOK
  <2>3. t = s => [role |-> t.role, permission |-> t.permission] \in grants'[t.org]
    BY <1>4, <2>1, StatementEffect DEF TypeOK
  <2> QED
    BY <1>4, <2>2, <2>3, HoldsFacts
<1>5. CASE t.op = "user"
  <2>1. t.user \in Users
    BY <1>5, StmtFields
  <2>2. account[t.user] = "active" => account'[t.user] = "active"
    BY <2>1, StatementEffect DEF TypeOK, Dir!DirTypeOK
  <2>3. t = s => account'[t.user] = "active"
    BY <1>5, <2>1, StatementEffect DEF TypeOK, Dir!DirTypeOK
  <2> QED
    BY <1>5, <2>2, <2>3, HoldsFacts
<1>6. CASE t.op = "membership"
  <2>1. t.org \in Orgs /\ t.user \in Users
    BY <1>6, MembershipFields
  <2>2. CASE s.op = "membership" /\ s.org = t.org /\ s.user = t.user
    <3>1. s.role = t.role
      BY <1>6, <2>2, OneRoleEach
    <3>2. /\ membership' = [membership EXCEPT ![s.org][s.user] = s.role]
          /\ roleRef' = [roleRef EXCEPT ![s.org][s.user] = s.role]
      BY <2>2, StatementEffect
    <3>3. membership'[t.org][t.user] = t.role /\ roleRef'[t.org][t.user] = t.role
      BY <2>1, <2>2, <3>1, <3>2 DEF TypeOK, Dir!DirTypeOK
    <3> QED
      BY <1>6, <3>3, HoldsFacts
  <2>3. CASE ~(s.op = "membership" /\ s.org = t.org /\ s.user = t.user)
    <3>1. /\ membership'[t.org][t.user] = membership[t.org][t.user]
          /\ roleRef'[t.org][t.user] = roleRef[t.org][t.user]
      <4>1. CASE s.op = "membership"
        <5>1. /\ membership' = [membership EXCEPT ![s.org][s.user] = s.role]
              /\ roleRef' = [roleRef EXCEPT ![s.org][s.user] = s.role]
          BY <4>1, StatementEffect
        <5>2. s.org \in Orgs /\ s.user \in Users
          BY <4>1, MembershipFields
        <5> QED
          BY <2>1, <2>3, <4>1, <5>1, <5>2 DEF TypeOK, Dir!DirTypeOK
      <4>2. CASE s.op # "membership"
        BY <4>2, StatementEffect
      <4> QED
        BY <4>1, <4>2
    <3>2. Holds(t)
      BY <1>6, <2>3
    <3> QED
      BY <1>6, <3>1, <3>2, HoldsFacts
  <2> QED
    BY <2>2, <2>3
<1>7. CASE t.op = "project"
  BY <1>7, StatementEffect, HoldsFacts
<1> QED
  BY <1>1, <1>2, <1>3, <1>4, <1>5, <1>6, <1>7, StmtFields

\* What the statement at hand needs has been written before it, and only an
\* account among it may have changed since.
LEMMA NeedsThere ==
  ASSUME TypeOK, Written, OnlySoMuchUndone, status = "running", next <= Len(main),
         NEW d \in Needs(main[next])
  PROVE  /\ d.op \in {"permission", "organization"} => Holds(d)
         /\ d.op = "user" => account[d.user] # "absent"
<1>1. next \in 1..Len(main)
  BY AtStmt
<1>2. PICK j \in 1..(next - 1) : main[j] = d
  BY <1>1, MainFacts
<1>3. Holds(d) \/ j \in undone
  BY <1>2 DEF Written
<1>4. Holds(d) => (d.op = "user" => account[d.user] # "absent")
  BY HoldsFacts
<1>5. j \in undone => /\ d.op \in {"user", "membership", "project"}
                      /\ d.op = "user" => account[d.user] # "absent"
  BY <1>2 DEF OnlySoMuchUndone
<1> QED
  BY <1>3, <1>4, <1>5

\* A grant finds its permission; a project its tenant and its creator.
LEMMA RowsThere ==
  ASSUME TypeOK, Written, OnlySoMuchUndone, status = "running", next <= Len(main),
         NEW s, s = main[next]
  PROVE  /\ s.op = "grant" => s.permission \in catalog
         /\ s.op = "project" => /\ s.org \in organizations
                                /\ account[createdBy[s.org]] # "absent"
<1>1. ASSUME s.op = "grant"
      PROVE  s.permission \in catalog
  <2>1. PermissionStmt(s.permission) \in Needs(main[next])
    BY <1>1 DEF Needs
  <2>2. PICK d : d = PermissionStmt(s.permission)
    OBVIOUS
  <2>3. d.op = "permission" /\ d.permission = s.permission
    BY <2>2 DEF PermissionStmt
  <2>4. Holds(d)
    BY <2>1, <2>2, <2>3, NeedsThere
  <2> QED
    BY <2>3, <2>4, HoldsFacts
<1>2. ASSUME s.op = "project"
      PROVE  s.org \in organizations /\ account[createdBy[s.org]] # "absent"
  <2>1. /\ OrganizationStmt(s.org) \in Needs(main[next])
        /\ UserStmt(createdBy[s.org]) \in Needs(main[next])
    BY <1>2 DEF Needs
  <2>2. PICK d : d = OrganizationStmt(s.org)
    OBVIOUS
  <2>3. d.op = "organization" /\ d.org = s.org
    BY <2>2 DEF OrganizationStmt
  <2>4. Holds(d)
    BY <2>1, <2>2, <2>3, NeedsThere
  <2>5. account[createdBy[s.org]] # "absent"
    BY <2>1, NeedsThere DEF UserStmt
  <2> QED
    BY <2>3, <2>4, <2>5, HoldsFacts
<1> QED
  BY <1>1, <1>2

\* The lookups find: what keeps a run from hanging at a throw.
LEMMA LookupsAlwaysFind == IInv => LookupsFind
BY RowsThere DEF IInv, LookupsFind

LEMMA StatementTyped ==
  ASSUME TypeOK, Written, OnlySoMuchUndone, Statement
  PROVE  TypeOK'
<1>1. status = "running" /\ next <= Len(main)
  BY StatementEffect
<1>2. PICK s \in Stmts : s = main[next]
  BY <1>1, AtStmt
<1>3. next \in 1..Len(main) /\ Len(main) \in Nat
  BY <1>1, AtStmt, MainFacts
<1>4. next' \in 1..(Len(main) + 1) /\ undone' \subseteq DOMAIN main
  <2>1. next' = next + 1 /\ undone' = undone \ {next}
    BY StatementEffect
  <2> QED
    BY <1>3, <2>1 DEF TypeOK
<1>5. status' = status /\ runs' = runs /\ changes' = changes
  BY StatementEffect
<1>6. catalog' \subseteq Permissions
  <2>1. \/ catalog' = catalog
        \/ s.op = "permission" /\ catalog' = catalog \cup {s.permission}
    BY <1>2, StatementEffect
  <2>2. s.op = "permission" => s.permission \in Permissions
    BY <1>2, StmtFields
  <2> QED
    BY <2>1, <2>2 DEF TypeOK
<1>7. organizations' \subseteq Orgs /\ projects' \subseteq organizations'
  <2>1. s.op = "organization" => s.org \in Orgs
    BY <1>2, StmtFields
  <2>2. s.op = "project" => s.org \in organizations
    BY <1>1, <1>2, RowsThere
  <2>3. organizations' = organizations \/ (s.op = "organization" /\ organizations' = organizations \cup {s.org})
    BY <1>2, StatementEffect
  <2>4. projects' = projects \/ (s.op = "project" /\ projects' = projects \cup {s.org})
    BY <1>2, StatementEffect
  <2> QED
    BY <2>1, <2>2, <2>3, <2>4 DEF TypeOK
<1>8. roles' \in [Orgs -> SUBSET Roles]
  <2>1. \/ roles' = roles
        \/ s.op = "role" /\ roles' = [roles EXCEPT ![s.org] = @ \cup {s.role}]
    BY <1>2, StatementEffect
  <2>2. s.op = "role" => s.org \in Orgs /\ s.role \in Roles
    BY <1>2, StmtFields
  <2> QED
    BY <2>1, <2>2 DEF TypeOK
<1>9. grants' \in [Orgs -> SUBSET Grant]
  <2> DEFINE grant == [role |-> s.role, permission |-> s.permission]
  <2>1. \/ grants' = grants
        \/ s.op = "grant" /\ grants' = [grants EXCEPT ![s.org] = @ \cup {grant}]
    BY <1>2, StatementEffect
  <2>2. s.op = "grant" => s.org \in Orgs /\ grant \in Grant
    BY <1>2, StmtFields, SameTable DEF Grant
  <2> HIDE DEF grant
  <2> QED
    BY <2>1, <2>2 DEF TypeOK
<1>10. account' \in [Users -> Dir!AccountStates]
  <2>1. account' = account \/ account' = [account EXCEPT ![s.user] = "active"]
    BY <1>2, StatementEffect
  <2> QED
    BY <2>1 DEF TypeOK, Dir!DirTypeOK, Dir!AccountStates
<1>11. /\ membership' \in [Orgs -> [Users -> Dir!Roles \cup {None}]]
       /\ roleRef' \in [Orgs -> [Users -> Roles \cup {None}]]
  <2>1. \/ membership' = membership /\ roleRef' = roleRef
        \/ /\ s.op = "membership"
           /\ membership' = [membership EXCEPT ![s.org][s.user] = s.role]
           /\ roleRef' = [roleRef EXCEPT ![s.org][s.user] = s.role]
    BY <1>2, StatementEffect
  <2>2. s.op = "membership" => s.org \in Orgs /\ s.user \in Users /\ s.role \in Roles
    BY <1>2, MembershipFields
  <2>3. /\ membership \in [Orgs -> [Users -> Roles \cup {None}]]
        /\ roleRef \in [Orgs -> [Users -> Roles \cup {None}]]
        /\ Dir!Roles = Roles
    BY DEF Dir!Roles, Roles, TypeOK, Dir!DirTypeOK
  <2>4. ASSUME NEW f \in [Orgs -> [Users -> Roles \cup {None}]], s.op = "membership"
        PROVE  [f EXCEPT ![s.org][s.user] = s.role] \in [Orgs -> [Users -> Roles \cup {None}]]
    BY <2>2, <2>4
  <2> QED
    BY <2>1, <2>3, <2>4
<1> QED
  BY <1>4, <1>5, <1>6, <1>7, <1>8, <1>9, <1>10, <1>11 DEF TypeOK, Dir!DirTypeOK

\* The script grants what the server grants.
LEMMA StatementGrants ==
  ASSUME TypeOK, GrantsAreDefaults, Statement
  PROVE  GrantsAreDefaults'
<1>1. PICK s \in Stmts : s = main[next]
  BY StatementEffect, AtStmt
<1> DEFINE grant == [role |-> s.role, permission |-> s.permission]
<1>2. \/ grants' = grants
      \/ s.op = "grant" /\ grants' = [grants EXCEPT ![s.org] = @ \cup {grant}]
  BY <1>1, StatementEffect
<1>3. s.op = "grant" => s.org \in Orgs /\ grant \in FullGrants
  BY <1>1, StmtFields DEF FullGrants, GrantsOf
<1> HIDE DEF grant
<1> QED
  BY <1>2, <1>3 DEF GrantsAreDefaults, TypeOK

\* Whatever changes the directory keeps its types and every account.
LEMMA DirectoryEffect ==
  ASSUME Dir!DirTypeOK, Dir!TablesNext
  PROVE  /\ Dir!DirTypeOK'
         /\ \A u \in Users : account[u] # "absent" => account'[u] # "absent"
<1> USE DEF Dir!DirTypeOK, Dir!AccountStates
<1>1. CASE \E o \in Orgs, u \in Users, role \in Dir!Roles : Dir!Join(o, u, role)
  <2>1. PICK o \in Orgs, u \in Users, role \in Dir!Roles : Dir!Join(o, u, role)
    BY <1>1
  <2>2. membership' \in [Orgs -> [Users -> Dir!Roles \cup {None}]]
    BY <2>1 DEF Dir!Join
  <2>3. account' = [account EXCEPT ![u] = IF @ = "absent" THEN "active" ELSE @]
    BY <2>1 DEF Dir!Join
  <2> QED
    BY <2>2, <2>3
<1>2. CASE \E o \in Orgs, u \in Users, role \in Dir!Roles : Dir!ChangeRole(o, u, role)
  <2>1. PICK o \in Orgs, u \in Users, role \in Dir!Roles : Dir!ChangeRole(o, u, role)
    BY <1>2
  <2> QED
    BY <2>1 DEF Dir!ChangeRole
<1>3. CASE \E o \in Orgs, u \in Users : Dir!Leave(o, u)
  <2>1. PICK o \in Orgs, u \in Users : Dir!Leave(o, u)
    BY <1>3
  <2> QED
    BY <2>1 DEF Dir!Leave
<1>4. CASE \E u \in Users : Dir!SetActive(u)
  <2>1. PICK u \in Users : Dir!SetActive(u)
    BY <1>4
  <2>2. PICK flag \in {"active", "inactive"} : account' = [account EXCEPT ![u] = flag]
    BY <2>1 DEF Dir!SetActive
  <2>3. membership' = membership
    BY <2>1 DEF Dir!SetActive
  <2> QED
    BY <2>2, <2>3
<1>5. CASE \E u \in Users : Dir!CreateAccount(u)
  <2>1. PICK u \in Users : Dir!CreateAccount(u)
    BY <1>5
  <2> QED
    BY <2>1 DEF Dir!CreateAccount
<1> QED
  BY <1>1, <1>2, <1>3, <1>4, <1>5 DEF Dir!TablesNext, Dir!DirNext

\* The tables other than accounts and memberships after a change of the server.
ServerGrows ==
  /\ organizations \subseteq organizations' /\ organizations' \subseteq Orgs
  /\ catalog \subseteq catalog' /\ catalog' \subseteq Permissions
  /\ roles' \in [Orgs -> SUBSET Roles]
  /\ grants' \in [Orgs -> SUBSET Grant]
  /\ \A o \in Orgs : /\ roles[o] \subseteq roles'[o]
                     /\ grants[o] \subseteq grants'[o]
                     /\ grants'[o] \subseteq FullGrants
  /\ roleRef' \in [Orgs -> [Users -> Roles \cup {None}]]
  /\ projects' \subseteq projects

LEMMA DefaultsGrow ==
  ASSUME TypeOK, GrantsAreDefaults, NEW o \in Orgs,
         WriteDefaults(o) \/ UNCHANGED <<catalog, roles, grants>>
  PROVE  /\ catalog \subseteq catalog' /\ catalog' \subseteq Permissions
         /\ roles' \in [Orgs -> SUBSET Roles]
         /\ grants' \in [Orgs -> SUBSET Grant]
         /\ \A p \in Orgs : /\ roles[p] \subseteq roles'[p]
                            /\ grants[p] \subseteq grants'[p]
                            /\ grants'[p] \subseteq FullGrants
<1>1. FullGrants \subseteq Grant
  BY SameTable DEF FullGrants, GrantsOf, Grant
<1>2. CASE WriteDefaults(o)
  <2>1. /\ catalog' = Permissions
        /\ roles' = [roles EXCEPT ![o] = Roles]
        /\ grants' = [grants EXCEPT ![o] = FullGrants]
    BY <1>2 DEF WriteDefaults
  <2>2. catalog \subseteq catalog' /\ catalog' \subseteq Permissions
    BY <2>1 DEF TypeOK
  <2>3. roles' \in [Orgs -> SUBSET Roles] /\ \A p \in Orgs : roles[p] \subseteq roles'[p]
    BY <2>1 DEF TypeOK
  <2>4. grants' \in [Orgs -> SUBSET Grant]
    BY <1>1, <2>1 DEF TypeOK
  <2>5. \A p \in Orgs : grants[p] \subseteq grants'[p] /\ grants'[p] \subseteq FullGrants
    BY <2>1 DEF TypeOK, GrantsAreDefaults
  <2> QED
    BY <2>2, <2>3, <2>4, <2>5
<1>3. CASE UNCHANGED <<catalog, roles, grants>>
  BY <1>3 DEF TypeOK, GrantsAreDefaults
<1> QED
  BY <1>2, <1>3

LEMMA ServerEffect ==
  ASSUME TypeOK, GrantsAreDefaults, Server
  PROVE  ServerGrows /\ (Dir!TablesNext \/ UNCHANGED Dir!dirVars)
<1>1. roleRef \in [Orgs -> [Users -> Roles \cup {None}]] /\ Dir!Roles = Roles
  BY DEF TypeOK, Dir!Roles, Roles
<1>2. "ORG_ADMIN" \in Roles
  BY DEF Roles
<1>3. ASSUME NEW o \in Orgs, NEW u \in Users, NEW role \in Roles
      PROVE  [roleRef EXCEPT ![o][u] = role] \in [Orgs -> [Users -> Roles \cup {None}]]
  BY <1>1
<1>4. ASSUME NEW o \in Orgs, NEW u \in Users, CreateTenant(o, u)
      PROVE  ServerGrows /\ Dir!TablesNext
  <2>1. Dir!TablesNext
    BY <1>1, <1>2, <1>4 DEF CreateTenant, Dir!TablesNext, Dir!DirNext
  <2>2. roleRef' \in [Orgs -> [Users -> Roles \cup {None}]]
    BY <1>1, <1>2, <1>3, <1>4 DEF CreateTenant
  <2>3. WriteDefaults(o) \/ UNCHANGED <<catalog, roles, grants>>
    BY <1>4 DEF CreateTenant
  <2>4. /\ organizations \subseteq organizations' /\ organizations' \subseteq Orgs
        /\ projects' \subseteq projects
    BY <1>4 DEF CreateTenant, TypeOK
  <2> QED
    BY <2>1, <2>2, <2>3, <2>4, DefaultsGrow DEF ServerGrows
<1>5. ASSUME NEW o \in Orgs, NEW u \in Users, NEW role \in Roles, AddMember(o, u, role)
      PROVE  ServerGrows /\ Dir!TablesNext
  <2>1. Dir!TablesNext
    BY <1>1, <1>5 DEF AddMember, Dir!TablesNext, Dir!DirNext
  <2>2. roleRef' \in [Orgs -> [Users -> Roles \cup {None}]]
    BY <1>3, <1>5 DEF AddMember
  <2>3. WriteDefaults(o) /\ organizations' = organizations /\ projects' = projects
    BY <1>5 DEF AddMember
  <2> QED
    BY <2>1, <2>2, <2>3, DefaultsGrow DEF ServerGrows, TypeOK
<1>6. ASSUME ChangeDirectory
      PROVE  ServerGrows /\ Dir!TablesNext
  <2>1. Dir!TablesNext
    BY <1>1, <1>6 DEF ChangeDirectory, Dir!TablesNext, Dir!DirNext
  <2>2. roleRef' \in [Orgs -> [Users -> Roles \cup {None}]]
    BY <1>1, <1>6 DEF ChangeDirectory
  <2>3. UNCHANGED <<organizations, catalog, roles, grants, projects>>
    BY <1>6 DEF ChangeDirectory
  <2> QED
    BY <2>1, <2>2, <2>3 DEF ServerGrows, TypeOK, GrantsAreDefaults
<1>7. ASSUME NEW o \in Orgs, DeleteProject(o)
      PROVE  ServerGrows /\ UNCHANGED Dir!dirVars
  BY <1>7 DEF DeleteProject, ServerGrows, TypeOK, GrantsAreDefaults, Dir!dirVars
<1> QED
  BY <1>4, <1>5, <1>6, <1>7 DEF Server

\* What the server undoes is a membership, a project or the flag of an account.
LEMMA ServerSpares ==
  ASSUME ServerGrows, NEW s \in Stmts, Holds(s), ~Holds(s)'
  PROVE  s.op \in {"user", "membership", "project"}
<1>1. s.op = "permission" => Holds(s)'
  BY HoldsFacts DEF ServerGrows
<1>2. s.op = "organization" => Holds(s)'
  BY HoldsFacts DEF ServerGrows
<1>3. s.op = "role" => Holds(s)'
  BY HoldsFacts, StmtFields DEF ServerGrows
<1>4. s.op = "grant" => Holds(s)'
  BY HoldsFacts, StmtFields DEF ServerGrows
<1> QED
  BY <1>1, <1>2, <1>3, <1>4, StmtFields

-----------------------------------------------------------------------------
(* The invariant.                                                          *)

LEMMA InitInv == Init => IInv
<1> SUFFICES ASSUME Init
             PROVE  IInv
  OBVIOUS
<1> USE DEF Init
<1>1. TypeOK
  <2>1. Dir!DirTypeOK
    BY DEF Dir!DirTypeOK, Dir!AccountStates
  <2>2. 1 \in 1..(Len(main) + 1)
    BY MainFacts
  <2> QED
    BY <2>1, <2>2, MaxRunsIsPositive, MaxChangesIsNat DEF TypeOK
<1> QED
  BY <1>1 DEF IInv, Written, OnlySoMuchUndone, GrantsAreDefaults, DoneAtTheEnd

\* A statement.
LEMMA StatementInv ==
  ASSUME IInv, Statement
  PROVE  IInv'
<1> USE DEF IInv
<1>1. PICK s \in Stmts : s = main[next]
  BY StatementEffect, AtStmt
<1>2. /\ status = "running" /\ status' = status
      /\ next' = next + 1 /\ undone' = undone \ {next}
  BY <1>1, StatementEffect
<1>3. next \in Nat
  <2>1. next \in 1..(Len(main) + 1) /\ Len(main) \in Nat
    BY MainFacts DEF TypeOK
  <2> QED
    BY <2>1
<1>4. TypeOK' /\ GrantsAreDefaults'
  BY StatementTyped, StatementGrants
<1>5. Written'
  <2>1. SUFFICES ASSUME NEW i \in 1..(next' - 1)
                 PROVE  Holds(main[i])' \/ i \in undone'
    BY DEF Written
  <2>2. i = next \/ i \in 1..(next - 1)
    BY <1>2, <1>3
  <2>3. CASE i = next
    BY <1>1, <2>3, StatementWrites
  <2>4. CASE i \in 1..(next - 1)
    <3>1. main[i] \in Stmts
      BY <1>3, <2>4, MainFacts DEF TypeOK
    <3>2. i # next /\ (Holds(main[i]) \/ i \in undone)
      BY <1>2, <1>3, <2>4 DEF Written
    <3>3. PICK t \in Stmts : t = main[i]
      BY <3>1
    <3>4. Holds(t) => Holds(t)'
      BY <1>1, StatementWrites
    <3> QED
      BY <1>2, <3>2, <3>3, <3>4
  <2> QED
    BY <2>2, <2>3, <2>4
<1>6. OnlySoMuchUndone'
  <2>1. SUFFICES ASSUME NEW i \in undone'
                 PROVE  /\ main[i].op \in {"user", "membership", "project"}
                        /\ main[i].op = "user" => account'[main[i].user] # "absent"
    BY DEF OnlySoMuchUndone
  <2>2. /\ main[i].op \in {"user", "membership", "project"}
        /\ main[i].op = "user" => account[main[i].user] # "absent"
    BY <1>2, <2>1 DEF OnlySoMuchUndone
  <2>3. ASSUME main[i].op = "user"
        PROVE  account'[main[i].user] # "absent"
    <3>1. main[i] \in Stmts
      BY <1>2, <2>1, MainFacts DEF TypeOK
    <3>2. main[i].user \in Users /\ account[main[i].user] # "absent"
      BY <2>2, <2>3, <3>1, StmtFields
    <3>3. account' = account \/ account' = [account EXCEPT ![s.user] = "active"]
      BY <1>1, StatementEffect
    <3> QED
      BY <3>2, <3>3 DEF TypeOK, Dir!DirTypeOK
  <2> QED
    BY <2>2, <2>3
<1>7. DoneAtTheEnd'
  BY <1>2 DEF DoneAtTheEnd
<1> QED
  BY <1>4, <1>5, <1>6, <1>7

\* A change of the server.
LEMMA ServerInv ==
  ASSUME IInv, Server
  PROVE  IInv'
<1> USE DEF IInv
<1>1. ServerGrows /\ (Dir!TablesNext \/ UNCHANGED Dir!dirVars)
  BY ServerEffect
<1>2. /\ UNCHANGED <<status, next, runs>>
      /\ changes < MaxChanges /\ changes' = changes + 1
      /\ undone' = undone \cup {i \in DOMAIN main : Holds(main[i]) /\ ~Holds(main[i])'}
  BY DEF Server
<1>3. /\ Dir!DirTypeOK'
      /\ \A u \in Users : account[u] # "absent" => account'[u] # "absent"
  <2>1. CASE Dir!TablesNext
    BY <2>1, DirectoryEffect DEF TypeOK
  <2>2. CASE UNCHANGED Dir!dirVars
    BY <2>2 DEF TypeOK, Dir!DirTypeOK, Dir!dirVars
  <2> QED
    BY <1>1, <2>1, <2>2
<1>4. TypeOK'
  <2>1. changes' \in 0..MaxChanges
    BY <1>2, MaxChangesIsNat DEF TypeOK
  <2>2. undone' \subseteq DOMAIN main
    BY <1>2 DEF TypeOK
  <2> QED
    BY <1>1, <1>2, <1>3, <2>1, <2>2 DEF TypeOK, ServerGrows
<1>5. Written'
  <2>1. SUFFICES ASSUME status # "idle", NEW i \in 1..(next - 1)
                 PROVE  Holds(main[i])' \/ i \in undone'
    BY <1>2 DEF Written
  <2>2. i \in DOMAIN main
    BY <2>1, MainFacts DEF TypeOK
  <2>3. Holds(main[i]) \/ i \in undone
    BY <2>1 DEF Written
  <2> QED
    BY <1>2, <2>2, <2>3
<1>6. OnlySoMuchUndone'
  <2>1. SUFFICES ASSUME NEW i \in undone'
                 PROVE  /\ main[i].op \in {"user", "membership", "project"}
                        /\ main[i].op = "user" => account'[main[i].user] # "absent"
    BY DEF OnlySoMuchUndone
  <2>2. i \in DOMAIN main /\ main[i] \in Stmts
    BY <1>4, <2>1, MainFacts DEF TypeOK
  <2>3. PICK t \in Stmts : t = main[i]
    BY <2>2
  <2>4. CASE i \in undone
    BY <1>3, <2>3, <2>4, StmtFields DEF OnlySoMuchUndone
  <2>5. CASE i \notin undone
    <3>1. Holds(t) /\ ~Holds(t)'
      BY <1>2, <2>1, <2>3, <2>5
    <3>2. t.op \in {"user", "membership", "project"}
      BY <1>1, <3>1, ServerSpares
    <3>3. t.op = "user" => t.user \in Users /\ account[t.user] = "active"
      BY <3>1, HoldsFacts, StmtFields
    <3> QED
      BY <1>3, <2>3, <3>2, <3>3
  <2> QED
    BY <2>4, <2>5
<1>7. GrantsAreDefaults' /\ DoneAtTheEnd'
  BY <1>1, <1>2 DEF GrantsAreDefaults, DoneAtTheEnd, ServerGrows
<1> QED
  BY <1>4, <1>5, <1>6, <1>7

\* The script starts, ends or fails: no row changes.
LEMMA ScriptInv ==
  ASSUME IInv, Start \/ Complete \/ Fail \/ UNCHANGED vars
  PROVE  IInv'
<1> USE DEF IInv
<1>1. UNCHANGED tableVars /\ undone' = undone /\ changes' = changes
  BY DEF Start, Complete, Fail, vars
<1>2. /\ UNCHANGED <<organizations, catalog, roles, grants, membership, account, roleRef>>
      /\ UNCHANGED projects
  BY <1>1 DEF tableVars
<1>3. \A s : Holds(s)' <=> Holds(s)
  BY <1>2 DEF Holds
<1>4. TypeOK'
  <2>1. /\ status' \in {"idle", "running", "done"}
        /\ next' \in 1..(Len(main) + 1)
        /\ runs' \in 0..MaxRuns
    BY MainFacts, MaxRunsIsPositive DEF TypeOK, Start, Complete, Fail, vars
  <2> QED
    BY <1>1, <1>2, <2>1 DEF TypeOK, Dir!DirTypeOK
<1>5. Written'
  <2>1. \/ status' = "idle"
        \/ next' = 1
        \/ status # "idle" /\ next' = next
        \/ status' = status /\ next' = next
    BY DEF Start, Complete, Fail, vars
  <2> QED
    BY <1>1, <1>3, <2>1 DEF Written
<1>6. OnlySoMuchUndone' /\ GrantsAreDefaults'
  BY <1>1, <1>2 DEF OnlySoMuchUndone, GrantsAreDefaults
<1>7. DoneAtTheEnd'
  BY DEF DoneAtTheEnd, Start, Complete, Fail, vars
<1> QED
  BY <1>4, <1>5, <1>6, <1>7

LEMMA NextInv == IInv /\ [Next]_vars => IInv'
BY StatementInv, ServerInv, ScriptInv DEF Next

\* What the invariant says of a completed run.
LEMMA InvWhole == IInv => SeededIsWhole
<1> SUFFICES ASSUME IInv
             PROVE  SeededIsWhole
  OBVIOUS
<1> USE DEF IInv
<1>1. status # "idle" => \A i \in 1..(next - 1) : Holds(main[i]) \/ i \in undone
  BY DEF Written
<1>2. ASSUME status = "done"
      PROVE  /\ catalog = Permissions
             /\ \A o \in Orgs : roles[o] = Roles /\ grants[o] = FullGrants
  <2>1. ASSUME NEW s \in Stmts, s.op \notin {"user", "membership", "project"}
        PROVE  Holds(s)
    <3>1. PICK i \in 1..Len(main) : main[i] = s
      BY MainFacts
    <3>2. i \in 1..(next - 1)
      BY <1>2, MainFacts DEF DoneAtTheEnd
    <3>3. i \notin undone
      BY <2>1, <3>1 DEF OnlySoMuchUndone
    <3> QED
      BY <1>1, <1>2, <3>1, <3>2, <3>3
  <2>2. ASSUME NEW p \in Permissions
        PROVE  p \in catalog
    <3>1. PICK s \in Stmts : s = PermissionStmt(p)
      BY DEF Stmts, CatalogStmts
    <3>2. s.op = "permission" /\ s.permission = p
      BY <3>1 DEF PermissionStmt
    <3> QED
      BY <2>1, <3>2, HoldsFacts
  <2>3. ASSUME NEW o \in Orgs, NEW role \in Roles
        PROVE  role \in roles[o] /\ GrantsOf(role) \subseteq grants[o]
    <3>1. RoleStmts(o, role) \subseteq Stmts
      BY DEF Stmts, TenantStmts, Orgs
    <3>2. role \in roles[o]
      <4>1. PICK s \in Stmts : s = RoleStmt(o, role)
        BY <3>1 DEF RoleStmts
      <4>2. s.op = "role" /\ s.org = o /\ s.role = role
        BY <4>1 DEF RoleStmt
      <4> QED
        BY <2>1, <4>2, HoldsFacts
    <3>3. ASSUME NEW p \in PermissionsOf(role)
          PROVE  [role |-> role, permission |-> p] \in grants[o]
      <4>1. PICK s \in Stmts : s = GrantStmt(o, role, p)
        BY <3>1 DEF RoleStmts
      <4>2. s.op = "grant" /\ s.org = o /\ s.role = role /\ s.permission = p
        BY <4>1 DEF GrantStmt
      <4> QED
        BY <2>1, <4>2, HoldsFacts
    <3> QED
      BY <3>2, <3>3 DEF GrantsOf
  <2>4. catalog = Permissions
    BY <2>2 DEF TypeOK
  <2>5. ASSUME NEW o \in Orgs
        PROVE  roles[o] = Roles /\ grants[o] = FullGrants
    <3>1. roles[o] = Roles
      BY <2>3 DEF TypeOK
    <3>2. FullGrants \subseteq grants[o]
      BY <2>3 DEF FullGrants
    <3> QED
      BY <3>1, <3>2 DEF GrantsAreDefaults
  <2> QED
    BY <2>4, <2>5
<1> QED
  BY <1>1, <1>2 DEF SeededIsWhole

LEMMA Invariance == Spec => []IInv
BY InitInv, NextInv, PTL DEF Spec

-----------------------------------------------------------------------------
(* The theorems.                                                           *)

\* The tables and the script's place in its list keep their types: a seeded
\* project always has its tenant.
THEOREM TypeCorrect == Spec => []TypeOK
BY Invariance, PTL DEF IInv

\* However often the script is run, wherever it fails and whatever the server
\* does meanwhile, what it has written is there but for what the server has
\* undone, and after a completed run the defaults are whole.
THEOREM SeededWhole == Spec => []SeededIsWhole
BY Invariance, InvWhole, PTL

\* No findUniqueOrThrow of the script ever throws for want of its row: a run
\* stops only if a statement rejects or the process dies.
THEOREM LookupsSucceed == Spec => []LookupsFind
BY Invariance, LookupsAlwaysFind, PTL

=============================================================================
