-------------------------- MODULE OnboardingProofs --------------------------
(***************************************************************************)
(* Theorems about Onboarding, for every set of requests, users and names.  *)
(***************************************************************************)
EXTENDS Onboarding, SequenceTheorems, TLAPS

-----------------------------------------------------------------------------
(* The list of upserts.                                                    *)

\* A row of the catalog.
CatalogRow(p) == [role |-> None, permission |-> p]

\* The rows that have a place in the tables.
TableRows == {CatalogRow(p) : p \in Permissions} \cup FullDefaults

Elements(s) == {s[i] : i \in 1..Len(s)}

\* What is in a sequence put together from two.
LEMMA ElementsOfConcat ==
  ASSUME NEW S, NEW s \in Seq(S), NEW t \in Seq(S)
  PROVE  /\ s \o t \in Seq(S)
         /\ Len(s \o t) = Len(s) + Len(t)
         /\ Elements(s \o t) = Elements(s) \cup Elements(t)
<1>1. /\ s \o t \in Seq(S)
      /\ Len(s \o t) = Len(s) + Len(t)
      /\ \A i \in 1..Len(s) + Len(t) :
           (s \o t)[i] = IF i <= Len(s) THEN s[i] ELSE t[i - Len(s)]
  BY ConcatProperties
<1>2. Len(s) \in Nat /\ Len(t) \in Nat
  BY LenProperties
<1>3. Elements(s \o t) \subseteq Elements(s) \cup Elements(t)
  <2>1. SUFFICES ASSUME NEW i \in 1..Len(s) + Len(t)
                 PROVE  (s \o t)[i] \in Elements(s) \cup Elements(t)
    BY <1>1 DEF Elements
  <2>2. CASE i <= Len(s)
    BY <1>1, <1>2, <2>2 DEF Elements
  <2>3. CASE ~(i <= Len(s))
    <3>1. i - Len(s) \in 1..Len(t)
      BY <1>2, <2>3
    <3> QED
      BY <1>1, <2>3, <3>1 DEF Elements
  <2> QED
    BY <2>2, <2>3
<1>4. \A i \in 1..Len(s) : s[i] \in Elements(s \o t)
  <2>1. SUFFICES ASSUME NEW i \in 1..Len(s)
                 PROVE  s[i] \in Elements(s \o t)
    OBVIOUS
  <2>2. i \in 1..Len(s) + Len(t) /\ i <= Len(s)
    BY <1>2
  <2> QED
    BY <1>1, <2>2 DEF Elements
<1>5. \A i \in 1..Len(t) : t[i] \in Elements(s \o t)
  <2>1. SUFFICES ASSUME NEW i \in 1..Len(t)
                 PROVE  t[i] \in Elements(s \o t)
    OBVIOUS
  <2>2. /\ i + Len(s) \in 1..Len(s) + Len(t)
        /\ ~(i + Len(s) <= Len(s))
        /\ (i + Len(s)) - Len(s) = i
    BY <1>2
  <2>3. (s \o t)[i + Len(s)] = t[i]
    BY <1>1, <2>2
  <2> QED
    BY <1>1, <2>2, <2>3 DEF Elements
<1> QED
  BY <1>1, <1>3, <1>4, <1>5 DEF Elements

\* The catalog comes first, one row for each key.
LEMMA CatalogTyped ==
  /\ CatalogUpserts \in Seq(TableRows)
  /\ Len(CatalogUpserts) = 9
  /\ Elements(CatalogUpserts) = {CatalogRow(p) : p \in Permissions}
<1>1. DOMAIN PermissionKeys = 1..9
  BY DEF PermissionKeys
<1>2. CatalogUpserts = [i \in 1..9 |-> CatalogRow(PermissionKeys[i])]
  BY <1>1 DEF CatalogUpserts, CatalogRow
<1>3. Permissions = {PermissionKeys[i] : i \in 1..9}
  BY <1>1 DEF Permissions
<1>4. \A i \in 1..9 : CatalogRow(PermissionKeys[i]) \in TableRows
  BY <1>3 DEF TableRows
<1>5. CatalogUpserts \in Seq(TableRows) /\ Len(CatalogUpserts) = 9
  BY <1>2, <1>4
<1> QED
  BY <1>2, <1>3, <1>5 DEF Elements

\* Each role's part is its row and its grants, in this order.
LEMMA RoleTyped ==
  ASSUME NEW role \in Roles, NEW n \in Nat, DOMAIN RolePermissions[role] = 1..n,
         \A i \in 1..n : RolePermissions[role][i] \in Permissions
  PROVE  /\ RoleUpserts(role) \in Seq(TableRows)
         /\ Len(RoleUpserts(role)) = n + 1
         /\ RoleUpserts(role)[1] = RoleRow(role)
         /\ Elements(RoleUpserts(role)) = {w \in FullDefaults : w.role = role}
<1> DEFINE grants == [i \in DOMAIN RolePermissions[role] |->
                        [role |-> role, permission |-> RolePermissions[role][i]]]
           row == <<RoleRow(role)>>
<1>1. PermissionsOf(role) = {RolePermissions[role][i] : i \in 1..n}
  BY DEF PermissionsOf
<1>2. role # None /\ PermissionsOf(role) \subseteq Permissions
  BY <1>1, NoneIsNothing
<1>3. /\ RoleRow(role) \in {w \in FullDefaults : w.role = role}
      /\ \A p \in PermissionsOf(role) :
           [role |-> role, permission |-> p] \in {w \in FullDefaults : w.role = role}
  BY <1>2 DEF RoleRow, FullDefaults, Upsert
<1>4. {w \in FullDefaults : w.role = role} =
        {RoleRow(role)} \cup {[role |-> role, permission |-> p] : p \in PermissionsOf(role)}
  BY <1>3 DEF RoleRow, FullDefaults, Upsert
<1>5. grants \in Seq(TableRows) /\ Len(grants) = n
  BY <1>1, <1>3 DEF TableRows
<1>6. Elements(grants) = {[role |-> role, permission |-> p] : p \in PermissionsOf(role)}
  BY <1>1, <1>5 DEF Elements
<1>7. row \in Seq(TableRows) /\ Len(row) = 1 /\ Elements(row) = {RoleRow(role)}
  BY <1>3 DEF TableRows, Elements
<1>8. RoleUpserts(role) = row \o grants
  BY DEF RoleUpserts, RoleRow
<1>9. row[1] = RoleRow(role)
  OBVIOUS
<1> HIDE DEF grants, row
<1>10. (row \o grants)[1] = row[1]
  BY <1>5, <1>7, ConcatProperties
<1>11. /\ row \o grants \in Seq(TableRows)
       /\ Len(row \o grants) = 1 + n
       /\ Elements(row \o grants) = Elements(row) \cup Elements(grants)
  BY <1>5, <1>7, ElementsOfConcat
<1>12. Elements(RoleUpserts(role)) = {w \in FullDefaults : w.role = role}
  BY <1>4, <1>6, <1>7, <1>8, <1>11
<1> QED
  BY <1>8, <1>9, <1>10, <1>11, <1>12

\* The three roles' parts have the form of RoleTyped.
LEMMA RolesTyped ==
  ASSUME NEW role \in Roles
  PROVE  /\ RoleUpserts(role) \in Seq(TableRows)
         /\ Len(RoleUpserts(role)) \in Nat \ {0}
         /\ RoleUpserts(role)[1] = RoleRow(role)
         /\ Elements(RoleUpserts(role)) = {w \in FullDefaults : w.role = role}
<1>1. \E n \in Nat : /\ DOMAIN RolePermissions[role] = 1..n
                     /\ \A i \in 1..n : RolePermissions[role][i] \in Permissions
  <2> DEFINE keys == {"tenant:read", "users:read", "users:manage", "roles:read",
                      "permissions:read", "projects:read", "projects:write",
                      "projects:delete", "audit:read"}
  <2>1. \A p \in keys : p \in Permissions
    BY DEF Permissions, PermissionKeys
  <2>2. CASE role = "ORG_ADMIN"
    <3>1. DOMAIN RolePermissions[role] = 1..9
      BY <2>2 DEF RolePermissions, PermissionKeys
    <3>2. \A i \in 1..9 : RolePermissions[role][i] \in keys
      BY <2>2 DEF RolePermissions, PermissionKeys
    <3> QED
      BY <2>1, <3>1, <3>2
  <2>3. CASE role = "ORG_USER"
    <3>1. DOMAIN RolePermissions[role] = 1..6
      BY <2>3 DEF RolePermissions
    <3>2. \A i \in 1..6 : RolePermissions[role][i] \in keys
      BY <2>3 DEF RolePermissions
    <3> QED
      BY <2>1, <3>1, <3>2
  <2>4. CASE role = "READ_ONLY"
    <3>1. DOMAIN RolePermissions[role] = 1..4
      BY <2>4 DEF RolePermissions
    <3>2. \A i \in 1..4 : RolePermissions[role][i] \in keys
      BY <2>4 DEF RolePermissions
    <3> QED
      BY <2>1, <3>1, <3>2
  <2> QED
    BY <2>2, <2>3, <2>4 DEF Roles
<1>2. PICK n \in Nat : /\ DOMAIN RolePermissions[role] = 1..n
                       /\ \A i \in 1..n : RolePermissions[role][i] \in Permissions
  BY <1>1
<1>3. n + 1 \in Nat \ {0}
  OBVIOUS
<1> QED
  BY <1>2, <1>3, RoleTyped

\* A grant comes after the rows it refers to.

Ordered(s) ==
  \A i \in 1..Len(s) : IsGrant(s[i]) =>
    /\ \E j \in 1..(i - 1) : s[j] = RoleRow(s[i].role)
    /\ \E j \in 1..(i - 1) : s[j] = CatalogRow(s[i].permission)

\* Whatever holds the catalog stays in order when a role's part is added.
LEMMA OrderedAppend ==
  ASSUME NEW role \in Roles, NEW s \in Seq(TableRows), Ordered(s),
         Elements(CatalogUpserts) \subseteq Elements(s)
  PROVE  /\ s \o RoleUpserts(role) \in Seq(TableRows)
         /\ Len(s \o RoleUpserts(role)) = Len(s) + Len(RoleUpserts(role))
         /\ Ordered(s \o RoleUpserts(role))
         /\ Elements(s \o RoleUpserts(role)) =
              Elements(s) \cup {w \in FullDefaults : w.role = role}
<1> DEFINE t == RoleUpserts(role)
           st == s \o t
<1>1. /\ t \in Seq(TableRows)
      /\ Len(t) \in Nat \ {0}
      /\ t[1] = RoleRow(role)
      /\ Elements(t) = {w \in FullDefaults : w.role = role}
  BY RolesTyped
<1> HIDE DEF t
<1>2. /\ st \in Seq(TableRows)
      /\ Len(st) = Len(s) + Len(t)
      /\ Elements(st) = Elements(s) \cup Elements(t)
  BY <1>1, ElementsOfConcat
<1>3. \A i \in 1..Len(s) + Len(t) : st[i] = IF i <= Len(s) THEN s[i] ELSE t[i - Len(s)]
  BY <1>1, ConcatProperties
<1>4. Len(s) \in Nat
  BY LenProperties
<1> HIDE DEF st
<1>5. \A i \in 1..Len(s) : i \in 1..Len(s) + Len(t) /\ st[i] = s[i]
  BY <1>1, <1>3, <1>4
<1>6. ASSUME NEW i \in 1..Len(st), IsGrant(st[i])
      PROVE  /\ \E j \in 1..(i - 1) : st[j] = RoleRow(st[i].role)
             /\ \E j \in 1..(i - 1) : st[j] = CatalogRow(st[i].permission)
  <2>1. CASE i <= Len(s)
    <3>1. i \in 1..Len(s) /\ st[i] = s[i]
      BY <1>2, <1>4, <1>5, <2>1
    <3>2. PICK j \in 1..(i - 1) : s[j] = RoleRow(s[i].role)
      BY <1>6, <3>1 DEF Ordered
    <3>3. PICK k \in 1..(i - 1) : s[k] = CatalogRow(s[i].permission)
      BY <1>6, <3>1 DEF Ordered
    <3>4. st[j] = s[j] /\ st[k] = s[k]
      BY <1>4, <1>5, <3>1
    <3> QED
      BY <3>1, <3>2, <3>3, <3>4
  <2>2. CASE ~(i <= Len(s))
    <3>1. i - Len(s) \in 1..Len(t) /\ st[i] = t[i - Len(s)]
      BY <1>1, <1>2, <1>3, <1>4, <2>2
    <3>2. st[i] \in FullDefaults /\ st[i].role = role
      BY <1>1, <3>1 DEF Elements
    <3>3. i # Len(s) + 1
      BY <1>1, <1>4, <1>6, <3>1 DEF IsGrant, RoleRow
    <3>4. Len(s) + 1 \in 1..(i - 1) /\ Len(s) + 1 \in 1..Len(s) + Len(t)
      BY <1>1, <1>2, <1>4, <2>2, <3>3
    <3>5. st[Len(s) + 1] = RoleRow(role)
      <4>1. ~(Len(s) + 1 <= Len(s)) /\ (Len(s) + 1) - Len(s) = 1
        BY <1>4
      <4> QED
        BY <1>1, <1>3, <3>4, <4>1
    <3>6. st[i].permission \in Permissions
      <4>1. /\ st[i].permission \in Permissions \cup {None}
            /\ st[i].permission # None
        BY <1>6, <3>2 DEF FullDefaults, Upsert, IsGrant
      <4> QED
        BY <4>1
    <3>7. CatalogRow(st[i].permission) \in Elements(s)
      BY <3>6, CatalogTyped
    <3>8. PICK k \in 1..Len(s) : s[k] = CatalogRow(st[i].permission)
      BY <3>7 DEF Elements
    <3>9. k \in 1..(i - 1) /\ st[k] = s[k]
      BY <1>2, <1>4, <1>5, <2>2
    <3> QED
      BY <3>2, <3>4, <3>5, <3>8, <3>9
  <2> QED
    BY <2>1, <2>2
<1>7. Ordered(st)
  BY <1>6 DEF Ordered
<1> QED
  BY <1>1, <1>2, <1>7 DEF st, t

\* The upserts are the rows of the tables, each, and references go backwards.
LEMMA UpsertsTyped ==
  /\ Upserts \in Seq(TableRows)
  /\ Len(Upserts) \in Nat \ {0}
  /\ Elements(Upserts) = TableRows
  /\ Ordered(Upserts)
<1> DEFINE s0 == CatalogUpserts
           s1 == s0 \o RoleUpserts("ORG_ADMIN")
           s2 == s1 \o RoleUpserts("ORG_USER")
           s3 == s2 \o RoleUpserts("READ_ONLY")
<1>1. s0 \in Seq(TableRows) /\ Len(s0) \in Nat \ {0}
  BY CatalogTyped
<1>2. Ordered(s0)
  <2>1. \A i \in 1..Len(s0) : s0[i] \in {CatalogRow(p) : p \in Permissions}
    BY CatalogTyped DEF Elements
  <2>2. \A p \in Permissions : ~IsGrant(CatalogRow(p))
    BY DEF IsGrant, CatalogRow
  <2> QED
    BY <2>1, <2>2 DEF Ordered
<1>3. /\ "ORG_ADMIN" \in Roles /\ Len(RoleUpserts("ORG_ADMIN")) \in Nat
      /\ "ORG_USER" \in Roles /\ Len(RoleUpserts("ORG_USER")) \in Nat
      /\ "READ_ONLY" \in Roles /\ Len(RoleUpserts("READ_ONLY")) \in Nat
  BY RolesTyped DEF Roles
<1> DEFINE Own(role) == {w \in FullDefaults : w.role = role}
<1> HIDE DEF s0
<1>4. /\ s1 \in Seq(TableRows) /\ Len(s1) \in Nat \ {0} /\ Ordered(s1)
      /\ Elements(s1) = Elements(s0) \cup Own("ORG_ADMIN")
  BY <1>1, <1>2, <1>3, OrderedAppend DEF s0
<1> HIDE DEF s1
<1>5. /\ s2 \in Seq(TableRows) /\ Len(s2) \in Nat \ {0} /\ Ordered(s2)
      /\ Elements(s2) = Elements(s1) \cup Own("ORG_USER")
  <2>1. Elements(CatalogUpserts) \subseteq Elements(s1)
    BY <1>4 DEF s0
  <2> QED
    BY <1>3, <1>4, <2>1, OrderedAppend
<1> HIDE DEF s2
<1>6. /\ s3 \in Seq(TableRows) /\ Len(s3) \in Nat \ {0} /\ Ordered(s3)
      /\ Elements(s3) = Elements(s2) \cup Own("READ_ONLY")
  <2>1. Elements(CatalogUpserts) \subseteq Elements(s2)
    BY <1>4, <1>5 DEF s0
  <2> QED
    BY <1>3, <1>5, <2>1, OrderedAppend
<1>7. FullDefaults = Own("ORG_ADMIN") \cup Own("ORG_USER") \cup Own("READ_ONLY")
  <2>1. \A w \in FullDefaults : w.role \in Roles
    <3>1. \A w \in FullDefaults : w.role \in Roles \cup {None} /\ w.role # None
      BY DEF FullDefaults, Upsert
    <3> QED
      BY <3>1
  <2> QED
    BY <2>1 DEF Roles
<1>8. Elements(s0) = {CatalogRow(p) : p \in Permissions}
  BY CatalogTyped DEF s0
<1>9. Elements(s3) = TableRows
  BY <1>4, <1>5, <1>6, <1>7, <1>8 DEF TableRows
<1>10. Upserts = s3
  BY DEF Upserts, s0, s1, s2
<1> HIDE DEF s3
<1> QED
  BY <1>6, <1>9, <1>10
-----------------------------------------------------------------------------
(* The inductive invariant.                                                *)

Before == {"idle", "sent", "tenant"}
During == {"defaults", "grant"}
After == {"user", "member", "link", "issue", "list", "audit", "ok"}

\* The stage of r, with "ok" for a success.
At(r) == IF reply[r] = "ok" THEN "ok" ELSE pc[r]

\* The stages each kind of request goes through, and what it has written.
Stage ==
  \A r \in Requests :
    /\ pc[r] = "idle" <=> call[r] = None
    /\ pc[r] = "done" <=> reply[r] # "none"
    /\ pc[r] = "sent" => Creates(r)
    /\ pc[r] \in {"tenant", "user", "member", "issue"} => Is(r, "register")
    /\ pc[r] = "link" => Is(r, "create")
    /\ pc[r] = "list" => Is(r, "roles")
    /\ pc[r] = "audit" => Creates(r)
    /\ pc[r] = "grant" => IsGrant(Due(r))
    /\ At(r) \in Before => written[r] = 0
    /\ At(r) \in After => written[r] = Len(Upserts)

\* A row is in its table; those of t are there for t.
Present(t, w) == IF w.role = None THEN w.permission \in catalog ELSE w \in defaults[t]

\* What a request has upserted is there.
Progress ==
  \A r \in Requests, i \in 1..Len(Upserts) :
    i <= written[r] => Present(TenantOf(r), Upserts[i])

References ==
  \A t \in Requests :
    /\ \A w \in defaults[t] : IsGrant(w) => /\ RoleRow(w.role) \in defaults[t]
                                            /\ w.permission \in catalog
    /\ \A u \in Users : roleRef[t][u] # None => RoleRow(roleRef[t][u]) \in defaults[t]

\* A tenant has the name asked for, and its creator is its administrator from
\* the membership's creation until somebody administers members.
Founded ==
  \A r \in Requests :
    /\ tenant[r] # None => Creates(r)
    /\ At(r) \in Before \/ (reply[r] = "badRequest" /\ ~Is(r, "create")) => tenant[r] = None
    /\ Creates(r) /\ At(r) \in During \cup After => tenant[r] = call[r].name
    /\ Creates(r) /\ At(r) = "ok" => trace[r]
    /\ changes[r] = 0 /\ Is(r, "create") /\ tenant[r] # None =>
         membership[r][call[r].user] = "ORG_ADMIN"
    /\ changes[r] = 0 /\ Creates(r) /\ At(r) \in {"issue", "audit", "ok"} =>
         /\ membership[r][call[r].user] = "ORG_ADMIN"
         /\ roleRef[r][call[r].user] = "ORG_ADMIN"

\* The registrations that may have created the account of u.
CreatedBy(r, u) ==
  /\ Is(r, "register") /\ call[r].user = u
  /\ pc[r] \in {"member", "issue", "audit"} \/ reply[r] = "error"

Caused ==
  /\ \A u \in Users \ Residents :
       /\ account[u] # "absent"
       /\ \A t \in Requests : changes[t] = 0 /\ membership[t][u] = None
       => \E r \in Requests : CreatedBy(r, u)
  /\ \A t \in Requests, u \in Users :
       membership[t][u] # None /\ roleRef[t][u] = None =>
         /\ Is(t, "create") /\ call[t].user = u
         /\ pc[t] \in During \cup {"link"} \/ reply[t] \in {"error", "badRequest"}

\* The registrations that have created their account.
Owns(r) == Is(r, "register") /\ At(r) \in {"member", "issue", "audit", "ok"}

OneOwner ==
  /\ \A u \in Residents : account[u] # "absent"
  /\ \A r \in Requests : Owns(r) =>
       /\ account[call[r].user] # "absent" /\ call[r].user \notin Residents
       /\ \A q \in Requests : Owns(q) /\ call[q].user = call[r].user => q = r

\* Some request lists the roles of the tenant r creates.
Listed(r) == \E q \in Requests \ {r} : Is(q, "roles") /\ call[q].tenant = r

\* A grant that appeared between r's look-up and its insert is a listing's.
Overtaken ==
  \A r \in Requests :
    Is(r, "create") /\ pc[r] = "grant" /\ Due(r) \in defaults[r] => Listed(r)

IInv ==
  /\ TypeOK /\ Stage /\ Progress /\ References /\ Founded /\ Caused /\ OneOwner
  /\ Overtaken /\ RefusalHasACause

-----------------------------------------------------------------------------
(* What a request asks for.                                                *)

LEMMA CallFields ==
  ASSUME TypeOK, NEW r \in Requests
  PROVE  /\ Creates(r) => call[r].user \in Users /\ call[r].name \in Names
         /\ Is(r, "roles") => call[r].tenant \in Requests
         /\ TenantOf(r) \in Requests
         /\ Creates(r) => ~Is(r, "roles") /\ TenantOf(r) = r
<1>1. call[r] # None => call[r] \in Creation \/ call[r] \in Listing
  BY DEF TypeOK, Call
<1>2. Creates(r) => call[r] \in Creation
  BY <1>1 DEF Creates, Is, Listing
<1>3. Is(r, "roles") => call[r] \in Listing
  BY <1>1 DEF Is, Creation
<1> QED
  BY <1>2, <1>3 DEF Creation, Listing, TenantOf, Creates, Is

\* The next upsert has a place.
LEMMA NextUpsert ==
  ASSUME TypeOK, NEW r \in Requests, pc[r] \in During
  PROVE  /\ written[r] + 1 \in 1..Len(Upserts)
         /\ Due(r) \in TableRows
         /\ Due(r).role = None => Due(r).permission \in Permissions
         /\ Due(r).role # None => Due(r) \in FullDefaults
<1>1. Len(Upserts) \in Nat /\ written[r] \in Nat /\ written[r] < Len(Upserts)
  BY UpsertsTyped DEF TypeOK, During
<1>2. written[r] + 1 \in 1..Len(Upserts)
  BY <1>1
<1>3. Due(r) \in TableRows
  BY <1>2, UpsertsTyped DEF Due
<1>4. \A w \in TableRows : /\ w.role = None => w.permission \in Permissions
                           /\ w.role # None => w \in FullDefaults
  <2>1. \A w \in FullDefaults : w.role # None
    BY DEF FullDefaults
  <2>2. \A p \in Permissions : CatalogRow(p).role = None /\ CatalogRow(p).permission = p
    BY DEF CatalogRow
  <2> QED
    BY <2>1, <2>2 DEF TableRows
<1> QED
  BY <1>2, <1>3, <1>4

\* The steps of ensureTenantDefaults that do not fail.
Ensure(r) == EnsureRow(r) \/ LookupGrant(r) \/ CreateGrant(r)

\* They add at most the row that is due, and leave it behind only when it is
\* in its table.
LEMMA EnsureEffects ==
  ASSUME TypeOK, Stage, NEW r \in Requests, Ensure(r)
  PROVE  /\ pc[r] \in During /\ UNCHANGED <<tableVars, call, reply, trace, changes>>
         /\ AfterDefaults(r) \in {"user", "link", "list"}
         /\ \/ UNCHANGED roleVars
            \/ /\ Due(r).role = None /\ catalog' = catalog \cup {Due(r).permission}
               /\ UNCHANGED defaults
            \/ /\ Due(r).role # None /\ UNCHANGED catalog
               /\ defaults' = [defaults EXCEPT ![TenantOf(r)] = @ \cup {Due(r)}]
         /\ \/ /\ Advance(r)
               /\ IF Due(r).role = None THEN Due(r).permission \in catalog'
                                        ELSE Due(r) \in defaults'[TenantOf(r)]
            \/ /\ Proceed(r, "grant") /\ UNCHANGED <<written, defaults>>
               /\ Due(r) \notin defaults[TenantOf(r)]
<1>1. pc[r] \in During /\ UNCHANGED <<tableVars, call, reply, trace, changes>>
  BY DEF Ensure, EnsureRow, LookupGrant, CreateGrant, Advance, Proceed, During
<1>2. AfterDefaults(r) \in {"user", "link", "list"}
  <2>1. call[r] \in Call
    BY <1>1 DEF TypeOK, Stage, During
  <2>2. Is(r, "register") \/ Is(r, "create") \/ Is(r, "roles")
    BY <2>1, NoneIsNoCall DEF Call, Creation, Listing, Is
  <2> QED
    BY <2>2 DEF AfterDefaults
<1>3. TenantOf(r) \in Requests /\ defaults \in [Requests -> SUBSET FullDefaults]
  BY CallFields DEF TypeOK
<1>4. CASE EnsureRow(r)
  <2> DEFINE d == Due(r)
             t == TenantOf(r)
  <2>1. /\ IF d.role = None
           THEN catalog' = catalog \cup {d.permission} /\ UNCHANGED defaults
           ELSE defaults' = [defaults EXCEPT ![t] = @ \cup {d}] /\ UNCHANGED catalog
        /\ Advance(r)
    BY <1>4 DEF EnsureRow
  <2>2. IF d.role = None THEN d.permission \in catalog' ELSE d \in defaults'[t]
    <3> HIDE DEF d, t
    <3>1. t \in Requests
      BY <1>3 DEF t
    <3> QED
      BY <1>3, <2>1, <3>1
  <2> QED
    BY <1>1, <1>2, <2>1, <2>2
<1>5. CASE LookupGrant(r)
  BY <1>1, <1>2, <1>5 DEF LookupGrant, IsGrant, roleVars
<1>6. CASE CreateGrant(r)
  <2> DEFINE d == Due(r)
             t == TenantOf(r)
  <2>1. /\ defaults' = [defaults EXCEPT ![t] = @ \cup {d}] /\ UNCHANGED catalog
        /\ Advance(r)
    BY <1>6 DEF CreateGrant
  <2>2. d.role # None
    BY <1>6 DEF CreateGrant, Stage, IsGrant
  <2>3. d \in defaults'[t]
    <3> HIDE DEF d, t
    <3>1. t \in Requests
      BY <1>3 DEF t
    <3> QED
      BY <1>3, <2>1, <3>1
  <2> QED
    BY <1>1, <1>2, <2>1, <2>2, <2>3
<1> QED
  BY <1>4, <1>5, <1>6 DEF Ensure

-----------------------------------------------------------------------------
(* Types and stages.                                                       *)

LEMMA InitTyped == Init => TypeOK
<1>1. Len(Upserts) \in Nat \ {0}
  BY UpsertsTyped
<1> QED
  BY <1>1, ResidentsAreUsers, MaxChangesIsNat
     DEF Init, TypeOK, Dir!DirTypeOK, Dir!AccountStates, Stages, Replies

\* The answers keep the types.
LEMMA AnswerTyped ==
  ASSUME TypeOK, NEW r \in Requests, NEW response \in Replies, Answer(r, response)
  PROVE  TypeOK'
BY DEF TypeOK, Answer, tableVars, roleVars, Dir!DirTypeOK, Stages

\* The directory's steps keep its types.
LEMMA DirectoryTyped ==
  ASSUME Dir!DirTypeOK, NEW t \in Requests, NEW u \in Users, NEW role \in Roles,
         \/ Dir!Join(t, u, role) \/ Dir!ChangeRole(t, u, role)
         \/ Dir!Leave(t, u) \/ Dir!CreateAccount(u)
  PROVE  Dir!DirTypeOK'
<1>0. Dir!Roles = Roles
  BY DEF Dir!Roles, Roles
<1>1. CASE Dir!Join(t, u, role)
  BY <1>0, <1>1 DEF Dir!DirTypeOK, Dir!Join, Dir!AccountStates
<1>2. CASE Dir!ChangeRole(t, u, role)
  BY <1>0, <1>2 DEF Dir!DirTypeOK, Dir!ChangeRole
<1>3. CASE Dir!Leave(t, u)
  BY <1>0, <1>3 DEF Dir!DirTypeOK, Dir!Leave
<1>4. CASE Dir!CreateAccount(u)
  BY <1>4 DEF Dir!DirTypeOK, Dir!CreateAccount, Dir!AccountStates
<1> QED
  BY <1>1, <1>2, <1>3, <1>4

LEMMA NextTyped ==
  ASSUME TypeOK, Stage, [Next]_vars
  PROVE  TypeOK'
<1> USE DEF TypeOK, Proceed, Stages, Replies, tableVars, roleVars
<1>1. "ORG_ADMIN" \in Roles /\ Len(Upserts) \in Nat \ {0}
  BY UpsertsTyped DEF Roles
<1>2. ASSUME NEW r \in Requests, Send(r)
      PROVE  TypeOK'
  <2>1. PICK c \in Call :
          /\ call' = [call EXCEPT ![r] = c]
          /\ pc' = [pc EXCEPT ![r] = IF c.op = "roles" THEN "defaults" ELSE "sent"]
    BY <1>2 DEF Send
  <2>2. written[r] = 0
    BY <1>2 DEF Send, Stage, At, Before
  <2>3. UNCHANGED <<tableVars, roleVars, written, reply, trace, changes>>
    BY <1>2 DEF Send
  <2> QED
    BY <1>1, <2>1, <2>2, <2>3 DEF Dir!DirTypeOK
<1>3. ASSUME NEW r \in Requests, Handle(r)
      PROVE  TypeOK'
  <2>1. CASE RejectAccount(r) \/ RejectName(r) \/ RejectUser(r) \/ RejectGrant(r)
             \/ LinkNothing(r) \/ ListRoles(r) \/ Fail(r)
    BY <2>1, AnswerTyped
       DEF RejectAccount, RejectName, RejectUser, RejectGrant, LinkNothing, ListRoles, Fail
  <2>2. CASE LookupAccount(r) \/ IssueTokenPair(r)
    BY <2>2 DEF LookupAccount, IssueTokenPair, Dir!DirTypeOK
  <2>3. CASE CreateTenant(r)
    <3>1. call[r].name \in Names /\ written[r] = 0
      BY <2>3, CallFields DEF CreateTenant, Stage, Creates, At, Before
    <3> QED
      BY <1>1, <2>3, <3>1 DEF CreateTenant, Dir!DirTypeOK
  <2>4. CASE CreateTenantWithAdmin(r)
    <3>1. call[r].name \in Names /\ call[r].user \in Users /\ written[r] = 0
      BY <2>4, CallFields DEF CreateTenantWithAdmin, Stage, Creates, At, Before
    <3>2. Dir!DirTypeOK'
      BY <1>1, <2>4, <3>1, DirectoryTyped DEF CreateTenantWithAdmin
    <3> QED
      BY <1>1, <2>4, <3>1, <3>2 DEF CreateTenantWithAdmin
  <2>5. CASE Ensure(r)
    <3> DEFINE d == Due(r)
               t == TenantOf(r)
    <3>1. t \in Requests
      BY CallFields
    <3>2. /\ written[r] + 1 \in 1..Len(Upserts) /\ pc[r] \in During
          /\ d.role = None => d.permission \in Permissions
          /\ d.role # None => d \in FullDefaults
      BY <2>5, EnsureEffects, NextUpsert
    <3>3. AfterDefaults(r) \in {"user", "link", "list"}
      BY <2>5, EnsureEffects
    <3>4. \/ UNCHANGED <<catalog, defaults>>
          \/ d.role = None /\ catalog' = catalog \cup {d.permission} /\ UNCHANGED defaults
          \/ d.role # None /\ defaults' = [defaults EXCEPT ![t] = @ \cup {d}]
             /\ UNCHANGED catalog
      BY <2>5, EnsureEffects
    <3> HIDE DEF d, t
    <3>5. \/ /\ written' = [written EXCEPT ![r] = @ + 1]
             /\ \E stage \in {"defaults", "user", "link", "list"} :
                  /\ stage = "defaults" => written[r] + 1 < Len(Upserts)
                  /\ pc' = [pc EXCEPT ![r] = stage]
          \/ UNCHANGED written /\ pc' = [pc EXCEPT ![r] = "grant"]
      BY <2>5, <3>3, EnsureEffects DEF Advance
    <3>6. UNCHANGED <<tableVars, call, reply, trace, changes>>
      BY <2>5, EnsureEffects
    <3>7. catalog' \subseteq Permissions /\ defaults' \in [Requests -> SUBSET FullDefaults]
      <4>0. catalog \subseteq Permissions /\ defaults \in [Requests -> SUBSET FullDefaults]
        OBVIOUS
      <4>1. CASE UNCHANGED <<catalog, defaults>>
        BY <4>0, <4>1
      <4>2. CASE d.role = None /\ catalog' = catalog \cup {d.permission} /\ UNCHANGED defaults
        BY <3>2, <4>0, <4>2
      <4>3. CASE /\ d.role # None /\ defaults' = [defaults EXCEPT ![t] = @ \cup {d}]
                 /\ UNCHANGED catalog
        BY <3>1, <3>2, <4>0, <4>3
      <4> QED
        BY <3>4, <4>1, <4>2, <4>3
    <3>8. /\ written' \in [Requests -> 0..Len(Upserts)]
          /\ pc' \in [Requests -> Stages]
          /\ \A q \in Requests : pc'[q] \in During => written'[q] < Len(Upserts)
      <4>1. /\ written \in [Requests -> 0..Len(Upserts)] /\ pc \in [Requests -> Stages]
            /\ \A q \in Requests : pc[q] \in During => written[q] < Len(Upserts)
        BY DEF During
      <4>2. CASE UNCHANGED written /\ pc' = [pc EXCEPT ![r] = "grant"]
        BY <3>2, <4>1, <4>2 DEF During
      <4>3. ASSUME written' = [written EXCEPT ![r] = @ + 1],
                   NEW stage \in {"defaults", "user", "link", "list"},
                   stage = "defaults" => written[r] + 1 < Len(Upserts),
                   pc' = [pc EXCEPT ![r] = stage]
            PROVE  /\ written' \in [Requests -> 0..Len(Upserts)] /\ pc' \in [Requests -> Stages]
                   /\ \A q \in Requests : pc'[q] \in During => written'[q] < Len(Upserts)
        BY <1>1, <3>2, <4>1, <4>3 DEF During
      <4> QED
        BY <3>5, <4>2, <4>3
    <3>9. Dir!DirTypeOK' /\ UNCHANGED <<roleRef, tenant, call, reply, trace, changes>>
      BY <3>6 DEF Dir!DirTypeOK
    <3> QED
      BY <3>7, <3>8, <3>9 DEF During
  <2>6. CASE CreateUser(r)
    <3>1. call[r].user \in Users
      BY <2>6, CallFields DEF CreateUser, Stage, Creates
    <3>2. Dir!DirTypeOK'
      BY <1>1, <2>6, <3>1, DirectoryTyped DEF CreateUser
    <3> QED
      BY <1>1, <2>6, <3>2 DEF CreateUser
  <2>7. CASE CreateMembership(r)
    <3>1. call[r].user \in Users
      BY <2>7, CallFields DEF CreateMembership, Stage, Creates
    <3>2. Dir!DirTypeOK'
      BY <1>1, <2>7, <3>1, DirectoryTyped DEF CreateMembership
    <3> QED
      BY <1>1, <2>7, <3>1, <3>2 DEF CreateMembership
  <2>8. CASE SetAdminRoleId(r)
    <3>1. call[r].user \in Users
      BY <2>8, CallFields DEF SetAdminRoleId, Stage, Creates
    <3> QED
      BY <1>1, <2>8, <3>1 DEF SetAdminRoleId, Dir!DirTypeOK
  <2>9. CASE Record(r)
    BY <2>9 DEF Record, Dir!DirTypeOK
  <2> QED
    BY <1>3, <2>1, <2>2, <2>3, <2>4, <2>5, <2>6, <2>7, <2>8, <2>9 DEF Handle, Ensure
<1>4. ASSUME NEW t \in Requests, Administer(t)
      PROVE  TypeOK'
  <2>1. PICK u \in Users, role \in Roles :
          \/ Dir!Join(t, u, role) /\ roleRef' = [roleRef EXCEPT ![t][u] = role]
          \/ Dir!ChangeRole(t, u, role) /\ UNCHANGED roleRef
          \/ Dir!Leave(t, u) /\ roleRef' = [roleRef EXCEPT ![t][u] = None]
    BY <1>4 DEF Administer
  <2>2. Dir!DirTypeOK'
    BY <2>1, DirectoryTyped
  <2>3. roleRef' \in [Requests -> [Users -> Roles \cup {None}]]
    <3>1. roleRef \in [Requests -> [Users -> Roles \cup {None}]]
      OBVIOUS
    <3>2. ASSUME NEW x \in Roles \cup {None}, roleRef' = [roleRef EXCEPT ![t][u] = x]
          PROVE  roleRef' \in [Requests -> [Users -> Roles \cup {None}]]
      BY <3>1, <3>2
    <3>3. CASE UNCHANGED roleRef
      BY <3>1, <3>3
    <3> QED
      BY <2>1, <3>2, <3>3
  <2>4. changes' \in [Requests -> 0..MaxChanges]
    BY <1>4, MaxChangesIsNat DEF Administer
  <2> QED
    BY <1>4, <2>2, <2>3, <2>4 DEF Administer
<1>5. CASE UNCHANGED vars
  BY <1>5 DEF vars, Dir!DirTypeOK
<1> QED
  BY <1>2, <1>3, <1>4, <1>5 DEF Next

\* A step of a handler is one of a request that was sent and not answered.
LEMMA Handled ==
  ASSUME Stage, NEW r \in Requests, Handle(r)
  PROVE  call' = call /\ call[r] # None /\ pc[r] \notin {"idle", "done"} /\ reply[r] = "none"
<1>1. call' = call
  BY DEF Handle, Proceed, Answer, LookupAccount, RejectAccount, CreateTenant,
         CreateTenantWithAdmin, RejectName, EnsureRow, LookupGrant, CreateGrant,
         RejectGrant, Advance, CreateUser, RejectUser, CreateMembership,
         IssueTokenPair, SetAdminRoleId, LinkNothing, ListRoles, Record, Fail
<1>2. pc[r] \notin {"idle", "done"}
  BY DEF Handle, LookupAccount, RejectAccount, CreateTenant,
         CreateTenantWithAdmin, RejectName, EnsureRow, LookupGrant, CreateGrant,
         RejectGrant, Advance, CreateUser, RejectUser, CreateMembership,
         IssueTokenPair, SetAdminRoleId, LinkNothing, ListRoles, Record, Fail
<1> QED
  BY <1>1, <1>2 DEF Stage

\* What a step leaves as it is for the request q and the tenant it creates.
Same(q) ==
  /\ pc'[q] = pc[q] /\ call'[q] = call[q] /\ written'[q] = written[q]
  /\ reply'[q] = reply[q] /\ trace'[q] = trace[q] /\ tenant'[q] = tenant[q]
  /\ membership'[q] = membership[q] /\ roleRef'[q] = roleRef[q]

\* Rows of permissions, roles, grants and accounts stay.
RowsStay ==
  /\ catalog \subseteq catalog'
  /\ \A t \in Requests : defaults[t] \subseteq defaults'[t]
  /\ \A u \in Users : account[u] # "absent" => account'[u] # "absent"

\* A request touches its own state, its own tenant and the shared tables.
LEMMA RequestsApart ==
  ASSUME TypeOK, Stage, NEW r \in Requests, Send(r) \/ Handle(r)
  PROVE  changes' = changes /\ RowsStay /\ \A q \in Requests \ {r} : Same(q)
<1> USE DEF TypeOK, Dir!DirTypeOK, RowsStay, Same, Proceed, tableVars, roleVars
<1>1. CASE Send(r)
  BY <1>1 DEF Send
<1>2. CASE RejectAccount(r) \/ RejectName(r) \/ RejectUser(r) \/ RejectGrant(r)
           \/ LinkNothing(r) \/ ListRoles(r) \/ Fail(r)
  BY <1>2 DEF RejectAccount, RejectName, RejectUser, RejectGrant, LinkNothing, ListRoles,
              Fail, Answer
<1>3. CASE LookupAccount(r) \/ IssueTokenPair(r)
  BY <1>3 DEF LookupAccount, IssueTokenPair
<1>4. CASE CreateTenant(r)
  BY <1>4 DEF CreateTenant
<1>5. CASE CreateTenantWithAdmin(r)
  BY <1>5 DEF CreateTenantWithAdmin, Dir!Join
<1>6. CASE Ensure(r)
  <2> DEFINE d == Due(r)
             t == TenantOf(r)
  <2>1. t \in Requests
    BY CallFields
  <2>2. \/ UNCHANGED <<catalog, defaults>>
        \/ catalog' = catalog \cup {d.permission} /\ UNCHANGED defaults
        \/ defaults' = [defaults EXCEPT ![t] = @ \cup {d}] /\ UNCHANGED catalog
    BY <1>6, EnsureEffects
  <2>3. /\ UNCHANGED <<tableVars, call, reply, trace, changes>>
        /\ UNCHANGED written \/ written' = [written EXCEPT ![r] = @ + 1]
        /\ \E stage : pc' = [pc EXCEPT ![r] = stage]
    BY <1>6, EnsureEffects DEF Advance
  <2> HIDE DEF d, t
  <2>4. catalog \subseteq catalog' /\ \A q \in Requests : defaults[q] \subseteq defaults'[q]
    BY <2>1, <2>2
  <2> QED
    BY <2>3, <2>4
<1>7. CASE CreateUser(r)
  BY <1>7 DEF CreateUser, Dir!CreateAccount
<1>8. CASE CreateMembership(r)
  BY <1>8 DEF CreateMembership, Dir!Join
<1>9. CASE SetAdminRoleId(r)
  BY <1>9 DEF SetAdminRoleId
<1>10. CASE Record(r)
  BY <1>10 DEF Record
<1> QED
  BY <1>1, <1>2, <1>3, <1>4, <1>5, <1>6, <1>7, <1>8, <1>9, <1>10 DEF Handle, Ensure

\* Member administration touches one tenant's members and the accounts.
LEMMA AdministrationApart ==
  ASSUME TypeOK, NEW t \in Requests, Administer(t)
  PROVE  /\ UNCHANGED <<tenant, roleVars, pc, call, written, reply, trace>>
         /\ RowsStay /\ \A q \in Requests \ {t} : Same(q) /\ changes'[q] = changes[q]
         /\ changes'[t] # 0
<1>1. PICK u \in Users, role \in Roles :
        \/ Dir!Join(t, u, role) /\ roleRef' = [roleRef EXCEPT ![t][u] = role]
        \/ Dir!ChangeRole(t, u, role) /\ UNCHANGED roleRef
        \/ Dir!Leave(t, u) /\ roleRef' = [roleRef EXCEPT ![t][u] = None]
  BY DEF Administer
<1>2. \A q \in Requests \ {t} : membership'[q] = membership[q] /\ roleRef'[q] = roleRef[q]
  BY <1>1 DEF TypeOK, Dir!DirTypeOK, Dir!Join, Dir!ChangeRole, Dir!Leave
<1>3. \A v \in Users : account[v] # "absent" => account'[v] # "absent"
  BY <1>1 DEF TypeOK, Dir!DirTypeOK, Dir!Join, Dir!ChangeRole, Dir!Leave
<1>4. /\ UNCHANGED <<tenant, roleVars, pc, call, written, reply, trace>>
      /\ changes' = [changes EXCEPT ![t] = @ + 1]
  BY DEF Administer
<1>5. changes'[t] # 0 /\ \A q \in Requests \ {t} : changes'[q] = changes[q]
  BY <1>4, MaxChangesIsNat DEF TypeOK
<1> QED
  BY <1>2, <1>3, <1>4, <1>5 DEF RowsStay, Same, roleVars

LEMMA InitStages == Init => Stage
BY DEF Init, Stage, Is, Creates, At, Before, After

LEMMA NextKeepsStages ==
  ASSUME TypeOK, Stage, [Next]_vars
  PROVE  Stage'
<1> DEFINE StageOf(q) ==
      /\ pc[q] = "idle" <=> call[q] = None
      /\ pc[q] = "done" <=> reply[q] # "none"
      /\ pc[q] = "sent" => Creates(q)
      /\ pc[q] \in {"tenant", "user", "member", "issue"} => Is(q, "register")
      /\ pc[q] = "link" => Is(q, "create")
      /\ pc[q] = "list" => Is(q, "roles")
      /\ pc[q] = "audit" => Creates(q)
      /\ pc[q] = "grant" => IsGrant(Due(q))
      /\ At(q) \in Before => written[q] = 0
      /\ At(q) \in After => written[q] = Len(Upserts)
<1>1. \A q \in Requests : StageOf(q)
  BY DEF Stage
<1>2. ASSUME NEW q \in Requests, Same(q)
      PROVE  StageOf(q)'
  BY <1>1, <1>2 DEF Same, Is, Creates, At, Due
<1>3. ASSUME NEW r \in Requests, Send(r)
      PROVE  StageOf(r)'
  <2>1. PICK c \in Call :
          /\ call' = [call EXCEPT ![r] = c]
          /\ pc' = [pc EXCEPT ![r] = IF c.op = "roles" THEN "defaults" ELSE "sent"]
    BY <1>3 DEF Send
  <2>2. UNCHANGED <<written, reply>> /\ written[r] = 0 /\ reply[r] = "none"
    BY <1>1, <1>3 DEF Send, At, Before
  <2>3. c # None /\ c.op \in {"register", "create", "roles"}
    BY NoneIsNoCall DEF Call, Creation, Listing
  <2>4. /\ call'[r] = c /\ reply'[r] = "none" /\ written'[r] = 0
        /\ pc'[r] = IF c.op = "roles" THEN "defaults" ELSE "sent"
    BY <2>1, <2>2 DEF TypeOK
  <2> QED
    BY <2>3, <2>4 DEF Is, Creates, At, Before, After
<1>4. ASSUME NEW r \in Requests, Handle(r)
      PROVE  StageOf(r)'
  <2>0. /\ call'[r] = call[r] /\ call[r] # None /\ reply[r] = "none"
        /\ pc[r] \in Stages /\ reply[r] \in Replies /\ At(r) = pc[r]
    BY <1>4, Handled DEF TypeOK, At
  <2>1. ASSUME NEW response \in {"badRequest", "error"}, Answer(r, response)
        PROVE  StageOf(r)'
    <3>1. pc'[r] = "done" /\ reply'[r] = response
      BY <2>1 DEF Answer, TypeOK
    <3> QED
      BY <2>0, <3>1 DEF At, Before, After
  <2>2. ASSUME NEW stage \in Stages \ {"idle", "done"}, Proceed(r, stage),
               stage = "sent" => Creates(r),
               stage \in {"tenant", "user", "member", "issue"} => Is(r, "register"),
               stage = "link" => Is(r, "create"),
               stage = "list" => Is(r, "roles"),
               stage = "audit" => Creates(r),
               stage = "grant" => IsGrant(Due(r)) /\ UNCHANGED written,
               stage \in Before => written'[r] = 0,
               stage \in After => written'[r] = Len(Upserts)
        PROVE  StageOf(r)'
    <3>1. pc'[r] = stage /\ reply'[r] = "none"
      BY <2>0, <2>2 DEF Proceed, TypeOK
    <3> QED
      BY <2>0, <2>2, <3>1 DEF At, Is, Creates, Stages, Due
  <2>3. CASE RejectAccount(r) \/ RejectUser(r) \/ RejectGrant(r) \/ LinkNothing(r)
             \/ Fail(r) \/ RejectName(r)
    BY <2>1, <2>3 DEF RejectAccount, RejectUser, RejectGrant, LinkNothing, Fail, RejectName
  <2>4. CASE LookupAccount(r)
    BY <1>1, <2>0, <2>2, <2>4 DEF LookupAccount, Stages, Before, After
  <2>5. CASE CreateTenant(r)
    BY <1>1, <2>0, <2>2, <2>5 DEF CreateTenant, Stages, Before, After
  <2>6. CASE CreateTenantWithAdmin(r)
    BY <1>1, <2>0, <2>2, <2>6 DEF CreateTenantWithAdmin, Stages, Before, After
  <2>7. CASE Ensure(r)
    <3>1. CASE UNCHANGED written /\ Proceed(r, "grant")
      <4>1. IsGrant(Due(r))
        <5>1. CASE LookupGrant(r)
          BY <5>1 DEF LookupGrant
        <5>2. CASE EnsureRow(r) \/ CreateGrant(r)
          <6>1. written'[r] = written[r] + 1 /\ written[r] \in Nat
            BY <5>2, UpsertsTyped DEF EnsureRow, CreateGrant, Advance, TypeOK
          <6> QED
            BY <3>1, <6>1
        <5> QED
          BY <2>7, <5>1, <5>2 DEF Ensure
      <4> QED
        BY <2>2, <3>1, <4>1 DEF Stages, Before, After
    <3>2. CASE Advance(r)
      <4>1. Proceed(r, IF written[r] + 1 < Len(Upserts) THEN "defaults" ELSE AfterDefaults(r))
        BY <3>2 DEF Advance
      <4>2. written'[r] = written[r] + 1 /\ written[r] + 1 \in 1..Len(Upserts)
        BY <2>7, <3>2, EnsureEffects, NextUpsert DEF Advance, TypeOK
      <4>3. \/ Is(r, "register") /\ AfterDefaults(r) = "user"
            \/ Is(r, "create") /\ AfterDefaults(r) = "link"
            \/ Is(r, "roles") /\ AfterDefaults(r) = "list"
        <5>1. Is(r, "register") \/ Is(r, "create") \/ Is(r, "roles")
          BY <2>0 DEF TypeOK, Call, Creation, Listing, Is
        <5> QED
          BY <5>1 DEF AfterDefaults, Is
      <4>4. CASE written[r] + 1 < Len(Upserts)
        BY <2>2, <4>1, <4>4 DEF Stages, Before, After
      <4>5. CASE ~(written[r] + 1 < Len(Upserts))
        <5>1. written'[r] = Len(Upserts)
          BY <4>2, <4>5, UpsertsTyped
        <5> QED
          BY <2>2, <4>1, <4>3, <4>5, <5>1 DEF Stages, Before, After, Is
      <4> QED
        BY <4>4, <4>5
    <3> QED
      BY <2>7, <3>1, <3>2, EnsureEffects
  <2>8. CASE CreateUser(r)
    BY <1>1, <2>0, <2>2, <2>8 DEF CreateUser, Stages, Before, After
  <2>9. CASE CreateMembership(r)
    BY <1>1, <2>0, <2>2, <2>9 DEF CreateMembership, Stages, Before, After
  <2>10. CASE IssueTokenPair(r)
    BY <1>1, <2>0, <2>2, <2>10 DEF IssueTokenPair, Stages, Before, After, Creates
  <2>11. CASE SetAdminRoleId(r)
    BY <1>1, <2>0, <2>2, <2>11 DEF SetAdminRoleId, Stages, Before, After, Creates
  <2>12. CASE ListRoles(r)
    <3>1. pc'[r] = "done" /\ reply'[r] = "ok" /\ written'[r] = written[r]
      BY <2>12 DEF ListRoles, Answer, TypeOK
    <3>2. written[r] = Len(Upserts)
      BY <1>1, <2>0, <2>12 DEF ListRoles, After
    <3> QED
      BY <2>0, <3>1, <3>2 DEF At, Before, After
  <2>13. CASE Record(r)
    <3>1. pc'[r] = "done" /\ reply'[r] = "ok" /\ written'[r] = written[r]
      BY <2>13 DEF Record, TypeOK
    <3>2. written[r] = Len(Upserts)
      BY <1>1, <2>0, <2>13 DEF Record, After
    <3> QED
      BY <2>0, <3>1, <3>2 DEF At, Before, After
  <2> QED
    BY <1>4, <2>3, <2>4, <2>5, <2>6, <2>7, <2>8, <2>9, <2>10, <2>11, <2>12, <2>13
     DEF Handle, Ensure
<1> HIDE DEF StageOf
<1>5. ASSUME NEW r \in Requests, Send(r) \/ Handle(r), NEW q \in Requests
      PROVE  StageOf(q)'
  BY <1>2, <1>3, <1>4, <1>5, RequestsApart
<1>6. ASSUME NEW t \in Requests, Administer(t), NEW q \in Requests
      PROVE  StageOf(q)'
  <2>1. UNCHANGED <<pc, call, written, reply>>
    BY <1>6, AdministrationApart
  <2> QED
    BY <1>1, <2>1 DEF StageOf, Is, Creates, At, Due
<1>7. ASSUME UNCHANGED vars, NEW q \in Requests
      PROVE  StageOf(q)'
  BY <1>1, <1>7 DEF StageOf, Is, Creates, At, Due, vars
<1>8. \A q \in Requests : StageOf(q)'
  BY <1>5, <1>6, <1>7 DEF Next
<1> QED
  BY <1>8 DEF Stage, StageOf

-----------------------------------------------------------------------------
(* Role tables.                                                            *)

\* Which actions write what.
LEMMA WhoWrites ==
  ASSUME NEW r \in Requests, Handle(r)
  PROVE  /\ Ensure(r) \/ UNCHANGED <<roleVars, written>>
         /\ CreateMembership(r) \/ SetAdminRoleId(r) \/ UNCHANGED roleRef
         /\ CreateTenant(r) \/ CreateTenantWithAdmin(r) \/ UNCHANGED tenant
         /\ CreateTenantWithAdmin(r) \/ CreateMembership(r) \/ UNCHANGED membership
         /\ \/ CreateTenantWithAdmin(r) \/ CreateMembership(r) \/ CreateUser(r)
            \/ UNCHANGED account
BY DEF Handle, Proceed, Answer, LookupAccount, RejectAccount, CreateTenant,
       CreateTenantWithAdmin, RejectName, Ensure, EnsureRow, LookupGrant, CreateGrant,
       RejectGrant, Advance, CreateUser, RejectUser, CreateMembership, IssueTokenPair,
       SetAdminRoleId, LinkNothing, ListRoles, Record, Fail, tableVars, roleVars,
       Dir!CreateAccount

LEMMA RowsStayThroughout ==
  ASSUME TypeOK, Stage, [Next]_vars
  PROVE  RowsStay
<1>1. CASE UNCHANGED vars
  BY <1>1 DEF vars, tableVars, roleVars, RowsStay
<1> QED
  BY <1>1, RequestsApart, AdministrationApart DEF Next

LEMMA PresentStays ==
  ASSUME RowsStay, NEW t \in Requests, NEW w, Present(t, w)
  PROVE  Present(t, w)'
BY DEF RowsStay, Present

\* Whoever has made all upserts leaves a tenant with the whole role table.
LEMMA WrittenMeansEquipped ==
  ASSUME TypeOK, Progress, NEW r \in Requests, written[r] = Len(Upserts)
  PROVE  Equipped(TenantOf(r))
<1>1. TenantOf(r) \in Requests /\ Len(Upserts) \in Nat
  BY CallFields, UpsertsTyped
<1>2. \A w \in TableRows : Present(TenantOf(r), w)
  BY <1>1, UpsertsTyped DEF Progress, Elements
<1>3. \A p \in Permissions : p \in catalog
  <2>1. SUFFICES ASSUME NEW p \in Permissions
                 PROVE  p \in catalog
    OBVIOUS
  <2>2. CatalogRow(p) \in TableRows
    BY DEF TableRows
  <2> QED
    BY <1>2, <2>2 DEF Present, CatalogRow
<1>4. \A w \in FullDefaults : w \in defaults[TenantOf(r)]
  <2>1. SUFFICES ASSUME NEW w \in FullDefaults
                 PROVE  w \in defaults[TenantOf(r)]
    OBVIOUS
  <2>2. w \in TableRows /\ w.role # None
    BY DEF TableRows, FullDefaults
  <2> QED
    BY <1>2, <2>2 DEF Present
<1>5. catalog \subseteq Permissions /\ defaults[TenantOf(r)] \subseteq FullDefaults
  BY <1>1 DEF TypeOK
<1> QED
  BY <1>3, <1>4, <1>5 DEF Equipped

\* The rows a grant refers to have been upserted before it.
LEMMA GrantFollows ==
  ASSUME TypeOK, Progress, NEW r \in Requests, pc[r] \in During, IsGrant(Due(r))
  PROVE  /\ RoleRow(Due(r).role) \in defaults[TenantOf(r)]
         /\ Due(r).permission \in catalog
<1> DEFINE n == written[r] + 1
           next == Upserts[n]
<1>0. Due(r) = next
  BY DEF Due
<1>1. written[r] \in Nat /\ n \in 1..Len(Upserts) /\ Len(Upserts) \in Nat
  BY NextUpsert, UpsertsTyped DEF TypeOK
<1> HIDE DEF n
<1>2. PICK j \in 1..(n - 1) : Upserts[j] = RoleRow(next.role)
  BY <1>0, <1>1, UpsertsTyped DEF Ordered, n
<1>3. PICK k \in 1..(n - 1) : Upserts[k] = CatalogRow(next.permission)
  BY <1>0, <1>1, UpsertsTyped DEF Ordered, n
<1>4. j \in 1..Len(Upserts) /\ j <= written[r] /\ k \in 1..Len(Upserts) /\ k <= written[r]
  BY <1>1 DEF n
<1>5. Present(TenantOf(r), RoleRow(next.role)) /\ Present(TenantOf(r), CatalogRow(next.permission))
  BY <1>2, <1>3, <1>4 DEF Progress
<1> QED
  BY <1>0, <1>5 DEF Present, RoleRow, CatalogRow, IsGrant, n

LEMMA InitProgress == Init => Progress
BY UpsertsTyped DEF Init, Progress

LEMMA NextKeepsProgress ==
  ASSUME TypeOK, Stage, Progress, [Next]_vars
  PROVE  Progress'
<1>1. RowsStay
  BY RowsStayThroughout
<1>2. ASSUME NEW q \in Requests, call'[q] = call[q], written'[q] = written[q],
             NEW i \in 1..Len(Upserts), i <= written'[q]
      PROVE  Present(TenantOf(q), Upserts[i])'
  <2>1. TenantOf(q)' = TenantOf(q) /\ TenantOf(q) \in Requests
    BY <1>2, CallFields DEF TenantOf, Is
  <2>2. Present(TenantOf(q), Upserts[i])
    BY <1>2 DEF Progress
  <2> QED
    BY <1>1, <2>1, <2>2 DEF Present, RowsStay
<1>3. ASSUME NEW r \in Requests, Send(r), NEW q \in Requests,
             NEW i \in 1..Len(Upserts), i <= written'[q]
      PROVE  Present(TenantOf(q), Upserts[i])'
  <2>1. CASE q = r
    <3>1. written'[q] = 0
      BY <1>3, <2>1 DEF Send, Stage, At, Before
    <3> QED
      BY <1>3, <3>1, UpsertsTyped
  <2>2. CASE q # r
    <3>1. Same(q)
      BY <1>3, <2>2, RequestsApart
    <3> QED
      BY <1>2, <1>3, <3>1 DEF Same
  <2> QED
    BY <2>1, <2>2
<1>4. ASSUME NEW r \in Requests, Handle(r), NEW q \in Requests,
             NEW i \in 1..Len(Upserts), i <= written'[q]
      PROVE  Present(TenantOf(q), Upserts[i])'
  <2>1. call' = call
    BY <1>4, Handled
  <2>2. CASE q = r /\ Ensure(r) /\ Advance(r)
    <3> DEFINE d == Due(r)
               t == TenantOf(r)
    <3>1. t \in Requests /\ t' = t
      BY <2>1, CallFields DEF TenantOf, Is
    <3>2. written'[r] = written[r] + 1 /\ written[r] \in Nat
      BY <2>2, UpsertsTyped DEF Advance, TypeOK
    <3>3. CASE i = written[r] + 1
      <4>1. IF d.role = None THEN d.permission \in catalog' ELSE d \in defaults'[t]
        <5>1. ~UNCHANGED written
          BY <3>2
        <5> QED
          BY <2>2, <5>1, EnsureEffects
      <4>2. Upserts[i] = d
        BY <3>3 DEF Due
      <4> QED
        BY <2>2, <3>1, <4>1, <4>2 DEF Present
    <3>4. CASE i # written[r] + 1
      <4>1. i <= written[r]
        BY <1>4, <2>2, <3>2, <3>4, UpsertsTyped DEF TypeOK
      <4>2. Present(t, Upserts[i])
        BY <4>1 DEF Progress
      <4> QED
        BY <1>1, <2>2, <3>1, <4>2 DEF Present, RowsStay
    <3> QED
      BY <3>3, <3>4
  <2>3. CASE ~(q = r /\ Ensure(r) /\ Advance(r))
    <3>1. written'[q] = written[q]
      BY <1>4, <2>3, EnsureEffects, WhoWrites, RequestsApart DEF Same
    <3> QED
      BY <1>2, <1>4, <2>1, <3>1
  <2> QED
    BY <2>2, <2>3
<1>5. ASSUME UNCHANGED <<call, written>>, NEW q \in Requests,
             NEW i \in 1..Len(Upserts), i <= written'[q]
      PROVE  Present(TenantOf(q), Upserts[i])'
  BY <1>2, <1>5
<1>6. ASSUME NEW t \in Requests, Administer(t)
      PROVE  UNCHANGED <<call, written>>
  BY <1>6, AdministrationApart
<1>7. \A q \in Requests, i \in 1..Len(Upserts) :
        i <= written'[q] => Present(TenantOf(q), Upserts[i])'
  BY <1>3, <1>4, <1>5, <1>6 DEF Next, vars
<1> QED
  BY <1>7 DEF Progress

LEMMA InitReferences == Init => References
BY DEF Init, References

LEMMA NextKeepsReferences ==
  ASSUME TypeOK, Stage, Progress, References, [Next]_vars
  PROVE  References'
<1>1. RowsStay
  BY RowsStayThroughout
<1>2. /\ RoleRow("ORG_ADMIN") \in FullDefaults
      /\ \A role \in Roles : RoleRow(role) \in FullDefaults
  BY NoneIsNothing DEF RoleRow, FullDefaults, Upsert, Roles
<1> DEFINE Grants(t) == \A w \in defaults[t] : IsGrant(w) =>
                          RoleRow(w.role) \in defaults[t] /\ w.permission \in catalog
           Links(t) == \A u \in Users :
                          roleRef[t][u] # None => RoleRow(roleRef[t][u]) \in defaults[t]
<1>3. ASSUME NEW t \in Requests, defaults'[t] = defaults[t]
      PROVE  Grants(t)'
  BY <1>1, <1>3 DEF References, RowsStay
<1>4. ASSUME NEW t \in Requests, roleRef'[t] = roleRef[t]
      PROVE  Links(t)'
  BY <1>1, <1>4 DEF References, RowsStay
<1>5. ASSUME NEW r \in Requests, Ensure(r), NEW t \in Requests
      PROVE  Grants(t)'
  <2> DEFINE next == Due(r)
  <2>1. \/ UNCHANGED defaults
        \/ defaults' = [defaults EXCEPT ![TenantOf(r)] = @ \cup {next}]
    BY <1>5, EnsureEffects DEF roleVars
  <2>2. IsGrant(next) => /\ RoleRow(next.role) \in defaults[TenantOf(r)]
                         /\ next.permission \in catalog
    BY <1>5, EnsureEffects, GrantFollows
  <2>3. TenantOf(r) \in Requests
    BY CallFields
  <2> HIDE DEF next
  <2>4. CASE t = TenantOf(r) /\ defaults' = [defaults EXCEPT ![TenantOf(r)] = @ \cup {next}]
    <3>1. defaults'[t] = defaults[t] \cup {next}
      BY <2>3, <2>4 DEF TypeOK
    <3> QED
      BY <1>1, <2>2, <2>4, <3>1 DEF References, RowsStay
  <2>5. CASE t # TenantOf(r) \/ UNCHANGED defaults
    <3>1. defaults'[t] = defaults[t]
      BY <2>1, <2>5 DEF TypeOK
    <3> QED
      BY <1>3, <3>1
  <2> QED
    BY <2>1, <2>4, <2>5
<1>6. ASSUME NEW r \in Requests, CreateMembership(r) \/ SetAdminRoleId(r), NEW t \in Requests
      PROVE  Links(t)'
  <2>1. Equipped(r)
    <3>1. written[r] = Len(Upserts) /\ Creates(r)
      BY <1>6 DEF CreateMembership, SetAdminRoleId, Stage, At, After, Creates
    <3> QED
      BY <3>1, CallFields, WrittenMeansEquipped
  <2>2. roleRef' = [roleRef EXCEPT ![r][call[r].user] = "ORG_ADMIN"]
    BY <1>6 DEF CreateMembership, SetAdminRoleId
  <2>3. \A u \in Users : roleRef'[t][u] # roleRef[t][u] => t = r /\ roleRef'[t][u] = "ORG_ADMIN"
    BY <2>2 DEF TypeOK
  <2> QED
    BY <1>1, <1>2, <2>1, <2>3 DEF References, RowsStay, Equipped
<1>7. ASSUME NEW s \in Requests, Administer(s), NEW t \in Requests
      PROVE  Grants(t)' /\ Links(t)'
  <2>1. UNCHANGED roleVars
    BY <1>7, AdministrationApart
  <2>2. PICK u \in Users, role \in Roles :
          \/ Equipped(s) /\ roleRef' = [roleRef EXCEPT ![s][u] = role]
          \/ UNCHANGED roleRef
          \/ roleRef' = [roleRef EXCEPT ![s][u] = None]
    BY <1>7 DEF Administer
  <2>3. Grants(t)'
    BY <1>3, <2>1 DEF roleVars
  <2>4. ASSUME NEW v \in Users
        PROVE  \/ roleRef'[t][v] \in {roleRef[t][v], None}
               \/ t = s /\ Equipped(s) /\ roleRef'[t][v] \in Roles
    <3>1. roleRef \in [Requests -> [Users -> Roles \cup {None}]]
      BY DEF TypeOK
    <3>2. ASSUME NEW x, roleRef' = [roleRef EXCEPT ![s][u] = x]
          PROVE  roleRef'[t][v] = IF t = s /\ v = u THEN x ELSE roleRef[t][v]
      BY <3>1, <3>2
    <3>3. CASE Equipped(s) /\ roleRef' = [roleRef EXCEPT ![s][u] = role]
      BY <3>2, <3>3
    <3>4. CASE roleRef' = [roleRef EXCEPT ![s][u] = None]
      BY <3>2, <3>4
    <3>5. CASE UNCHANGED roleRef
      BY <3>5
    <3> QED
      BY <2>2, <3>3, <3>4, <3>5
  <2>5. Links(t)'
    BY <1>1, <1>2, <2>4 DEF References, RowsStay, Equipped
  <2> QED
    BY <2>3, <2>5
<1>8. ASSUME NEW r \in Requests, Handle(r), NEW t \in Requests
      PROVE  Grants(t)' /\ Links(t)'
  <2>1. Grants(t)'
    BY <1>3, <1>5, <1>8, WhoWrites DEF roleVars
  <2>2. Links(t)'
    BY <1>4, <1>6, <1>8, WhoWrites
  <2> QED
    BY <2>1, <2>2
<1>9. ASSUME UNCHANGED <<tableVars, roleVars>>, NEW t \in Requests
      PROVE  Grants(t)' /\ Links(t)'
  BY <1>3, <1>4, <1>9 DEF tableVars, roleVars
<1>10. ASSUME NEW r \in Requests, Send(r)
       PROVE  UNCHANGED <<tableVars, roleVars>>
  BY <1>10 DEF Send
<1>11. CASE UNCHANGED vars
  BY <1>9, <1>11 DEF References, vars
<1> HIDE DEF Grants, Links
<1>12. \A t \in Requests : Grants(t)' /\ Links(t)'
  BY <1>7, <1>8, <1>9, <1>10, <1>11 DEF Next, vars
<1> QED
  BY <1>12 DEF References, Grants, Links

-----------------------------------------------------------------------------
(* Tenants and their founders.                                             *)

\* Where the steps of a handler lead.
LEMMA Moves ==
  ASSUME TypeOK, Stage, NEW r \in Requests, Handle(r)
  PROVE  /\ call'[r] = call[r] /\ At(r) = pc[r]
         /\ At(r)' \in During => \/ pc[r] \in During \/ CreateTenant(r)
                                 \/ CreateTenantWithAdmin(r)
         /\ At(r)' \in Before => LookupAccount(r)
         /\ At(r)' \in {"user", "link", "list"} => Ensure(r)
         /\ At(r)' = "member" => CreateUser(r)
         /\ At(r)' = "issue" => CreateMembership(r)
         /\ At(r)' = "audit" => IssueTokenPair(r) \/ SetAdminRoleId(r)
         /\ At(r)' = "ok" => ListRoles(r) \/ Record(r)
         /\ reply'[r] = "badRequest" => pc[r] = "sent" \/ (RejectGrant(r) /\ Is(r, "create"))
<1> USE DEF TypeOK, Proceed, At, Before, Creates
<1>1. call'[r] = call[r] /\ reply[r] = "none"
  BY Handled
<1>2. ASSUME NEW response \in {"badRequest", "error"}, Answer(r, response)
      PROVE  At(r)' = "done" /\ reply'[r] = response
  BY <1>2 DEF Answer
<1>3. CASE RejectAccount(r) \/ RejectUser(r) \/ RejectGrant(r) \/ LinkNothing(r)
           \/ Fail(r) \/ RejectName(r)
  BY <1>1, <1>2, <1>3 DEF RejectAccount, RejectUser, RejectGrant, LinkNothing, Fail,
                          RejectName, Stage, Is, During
<1>4. CASE LookupAccount(r) \/ CreateTenant(r) \/ CreateTenantWithAdmin(r)
  BY <1>1, <1>4 DEF LookupAccount, CreateTenant, CreateTenantWithAdmin, During
<1>5. CASE Ensure(r)
  <2>1. PICK stage \in {"defaults", "grant", AfterDefaults(r)} : Proceed(r, stage)
    BY <1>5, EnsureEffects DEF Advance
  <2>2. AfterDefaults(r) \in {"user", "link", "list"} /\ pc[r] \in During
    BY <1>5, EnsureEffects
  <2>3. At(r)' \in {"defaults", "grant", "user", "link", "list"} /\ reply'[r] = "none"
    BY <1>1, <2>1, <2>2
  <2> QED
    BY <1>1, <1>5, <2>2, <2>3
<1>6. CASE CreateUser(r) \/ CreateMembership(r) \/ IssueTokenPair(r) \/ SetAdminRoleId(r)
  BY <1>1, <1>6 DEF CreateUser, CreateMembership, IssueTokenPair, SetAdminRoleId, During
<1>7. CASE ListRoles(r) \/ Record(r)
  BY <1>1, <1>7 DEF ListRoles, Record, Answer, During
<1> QED
  BY <1>3, <1>4, <1>5, <1>6, <1>7 DEF Handle, Ensure

LEMMA InitFounded == Init => Founded
BY DEF Init, Founded, Creates, Is, At, During, After

LEMMA NextKeepsFounded ==
  ASSUME TypeOK, Stage, Founded, [Next]_vars
  PROVE  Founded'
<1> DEFINE FoundedOf(q) ==
      /\ tenant[q] # None => Creates(q)
      /\ At(q) \in Before \/ (reply[q] = "badRequest" /\ ~Is(q, "create")) => tenant[q] = None
      /\ Creates(q) /\ At(q) \in During \cup After => tenant[q] = call[q].name
      /\ Creates(q) /\ At(q) = "ok" => trace[q]
      /\ changes[q] = 0 /\ Is(q, "create") /\ tenant[q] # None =>
           membership[q][call[q].user] = "ORG_ADMIN"
      /\ changes[q] = 0 /\ Creates(q) /\ At(q) \in {"issue", "audit", "ok"} =>
           /\ membership[q][call[q].user] = "ORG_ADMIN"
           /\ roleRef[q][call[q].user] = "ORG_ADMIN"
<1>1. \A q \in Requests : FoundedOf(q)
  BY DEF Founded
<1>2. ASSUME NEW q \in Requests, Same(q), changes'[q] = changes[q]
      PROVE  FoundedOf(q)'
  BY <1>1, <1>2 DEF Same, Is, Creates, At
<1>3. ASSUME NEW r \in Requests, Send(r)
      PROVE  FoundedOf(r)'
  <2>1. At(r) = "idle" /\ tenant[r] = None /\ UNCHANGED <<tenant, reply>>
    BY <1>1, <1>3 DEF Send, Stage, At, Before, tableVars
  <2>2. reply'[r] = "none"
    BY <1>3, <2>1 DEF Send, Stage
  <2>3. Creates(r)' => At(r)' = "sent"
    <3>1. PICK c \in Call :
            /\ call' = [call EXCEPT ![r] = c]
            /\ pc' = [pc EXCEPT ![r] = IF c.op = "roles" THEN "defaults" ELSE "sent"]
      BY <1>3 DEF Send
    <3> QED
      BY <2>2, <3>1 DEF TypeOK, At, Creates, Is
  <2> QED
    BY <2>1, <2>2, <2>3 DEF During, After
<1>4. ASSUME NEW r \in Requests, Handle(r)
      PROVE  FoundedOf(r)'
  <2>0. changes'[r] = changes[r] /\ Creates(r)' = Creates(r) /\ call'[r] = call[r]
        /\ Is(r, "create")' = Is(r, "create") /\ At(r) = pc[r] /\ reply[r] = "none"
    BY <1>4, Handled, RequestsApart DEF Creates, Is, Stage, At
  <2>1. ASSUME Creates(r)
        PROVE  /\ call[r].user \in Users /\ call[r].name \in Names
               /\ call[r].name # None
    BY <2>1, CallFields, NoneIsNothing
  <2>2. CASE CreateTenant(r)
    <3>1. Is(r, "register") /\ tenant'[r] = call[r].name /\ UNCHANGED <<membership, roleRef>>
      BY <2>2 DEF CreateTenant, Stage, TypeOK
    <3>2. At(r)' = "defaults" /\ reply'[r] = "none"
      BY <2>0, <2>2 DEF CreateTenant, Proceed, At, TypeOK
    <3> QED
      BY <2>0, <3>1, <3>2 DEF Creates, Is, Before
  <2>3. CASE CreateTenantWithAdmin(r)
    <3>1. Is(r, "create") /\ tenant'[r] = call[r].name
      BY <2>3 DEF CreateTenantWithAdmin, TypeOK
    <3>2. At(r)' = "defaults" /\ reply'[r] = "none"
      BY <2>0, <2>3 DEF CreateTenantWithAdmin, Proceed, At, TypeOK
    <3>3. membership'[r][call[r].user] = "ORG_ADMIN"
      BY <2>1, <2>3, <3>1 DEF CreateTenantWithAdmin, Dir!Join, TypeOK, Dir!DirTypeOK, Creates
    <3> QED
      BY <2>0, <3>1, <3>2, <3>3 DEF Creates, Before
  <2>4. CASE CreateMembership(r)
    <3>1. Is(r, "register") /\ tenant'[r] = tenant[r]
      BY <2>4 DEF CreateMembership, Stage
    <3>2. At(r)' = "issue" /\ reply'[r] = "none"
      BY <2>0, <2>4 DEF CreateMembership, Proceed, At, TypeOK
    <3>3. /\ membership'[r][call[r].user] = "ORG_ADMIN"
          /\ roleRef'[r][call[r].user] = "ORG_ADMIN"
      BY <2>1, <2>4, <3>1 DEF CreateMembership, Dir!Join, TypeOK, Dir!DirTypeOK, Creates
    <3>4. tenant[r] = call[r].name
      BY <1>1, <2>0, <2>4, <3>1 DEF CreateMembership, Creates, After
    <3> QED
      BY <2>0, <3>1, <3>2, <3>3, <3>4 DEF Creates, Is, Before
  <2>5. CASE SetAdminRoleId(r)
    <3>1. Is(r, "create") /\ UNCHANGED <<tenant, membership>>
      BY <2>5 DEF SetAdminRoleId, Stage
    <3>2. At(r)' = "audit" /\ reply'[r] = "none"
      BY <2>0, <2>5 DEF SetAdminRoleId, Proceed, At, TypeOK
    <3>3. roleRef'[r][call[r].user] = "ORG_ADMIN"
      BY <2>1, <2>5, <3>1 DEF SetAdminRoleId, TypeOK, Creates
    <3>4. tenant[r] = call[r].name
      BY <1>1, <2>0, <2>5, <3>1 DEF SetAdminRoleId, Creates, After
    <3> QED
      BY <1>1, <2>0, <2>1, <3>1, <3>2, <3>3, <3>4 DEF Creates, Before
  <2>6. CASE UNCHANGED <<tenant, membership, roleRef>> /\ ~CreateTenant(r)
             /\ ~CreateTenantWithAdmin(r) /\ ~CreateMembership(r) /\ ~SetAdminRoleId(r)
    <3>1. At(r)' \in Before \/ (reply'[r] = "badRequest" /\ ~Is(r, "create")) =>
            pc[r] = "sent"
      BY <1>4, Moves DEF LookupAccount
    <3>2. Creates(r) /\ At(r)' \in {"issue", "audit", "ok"} =>
            /\ pc[r] \in {"issue", "audit"}
            /\ At(r)' = "ok" => Record(r)
      <4>1. ListRoles(r) => ~Creates(r)
        BY CallFields DEF ListRoles, Stage
      <4> QED
        BY <1>4, <2>6, <4>1, Moves DEF IssueTokenPair, Record
    <3>3. At(r)' \in During \cup After /\ Creates(r) => pc[r] \in During \cup After
      BY <1>4, <2>6, <3>2, Moves, EnsureEffects DEF After, CreateUser
    <3>4. At(r)' = "ok" /\ Creates(r) => trace'[r]
      BY <3>2 DEF Record, TypeOK
    <3>5. tenant'[r] = tenant[r] /\ membership'[r] = membership[r] /\ roleRef'[r] = roleRef[r]
      BY <2>6
    <3> QED
      BY <1>1, <2>0, <3>1, <3>2, <3>3, <3>4, <3>5 DEF Before
  <2> QED
    BY <1>4, <2>2, <2>3, <2>4, <2>5, <2>6, WhoWrites
<1>5. ASSUME NEW t \in Requests, Administer(t)
      PROVE  FoundedOf(t)'
  <2>1. changes'[t] # 0 /\ UNCHANGED <<tenant, pc, call, reply, trace>>
    BY <1>5, AdministrationApart
  <2> QED
    BY <1>1, <2>1 DEF Is, Creates, At
<1>6. ASSUME UNCHANGED vars, NEW q \in Requests
      PROVE  Same(q) /\ changes'[q] = changes[q]
  BY <1>6 DEF vars, tableVars, Same
<1> HIDE DEF FoundedOf
<1>7. \A q \in Requests : FoundedOf(q)'
  BY <1>2, <1>3, <1>4, <1>5, <1>6, RequestsApart, AdministrationApart DEF Next
<1> QED
  BY <1>7 DEF Founded, FoundedOf

-----------------------------------------------------------------------------
(* What is left half-made has a cause.                                     *)

\* Handlers add memberships: each is its creator's.
LEMMA WhoJoins ==
  ASSUME TypeOK, Stage, NEW r \in Requests, Handle(r), NEW t \in Requests, NEW u \in Users
  PROVE  /\ membership[t][u] # None => membership'[t][u] = membership[t][u]
         /\ membership'[t][u] # membership[t][u] =>
              /\ t = r /\ u = call[r].user /\ membership'[t][u] = "ORG_ADMIN"
              /\ CreateTenantWithAdmin(r) \/ CreateMembership(r)
         /\ account[u] = "absent" /\ account'[u] # "absent" =>
              u = call[r].user /\ (CreateUser(r) \/ membership'[r][u] = "ORG_ADMIN")
<1> USE DEF TypeOK, Dir!DirTypeOK
<1>1. CASE CreateTenantWithAdmin(r) \/ CreateMembership(r)
  <2>1. Dir!Join(r, call[r].user, "ORG_ADMIN")
    BY <1>1 DEF CreateTenantWithAdmin, CreateMembership
  <2>2. membership[r][call[r].user] = None
    BY <2>1 DEF Dir!Join, Dir!IsMember
  <2>3. membership'[t][u] = IF t = r /\ u = call[r].user THEN "ORG_ADMIN"
                                                         ELSE membership[t][u]
    BY <2>1 DEF Dir!Join
  <2>4. account'[u] # account[u] => u = call[r].user /\ membership'[r][u] = "ORG_ADMIN"
    BY <2>1 DEF Dir!Join
  <2> QED
    BY <1>1, <2>2, <2>3, <2>4
<1>2. CASE CreateUser(r)
  BY <1>2 DEF CreateUser, Dir!CreateAccount
<1>3. CASE UNCHANGED <<membership, account>>
  BY <1>3
<1> QED
  BY <1>1, <1>2, <1>3, WhoWrites

LEMMA InitCaused == Init => Caused
<1>1. SUFFICES ASSUME Init
               PROVE  Caused
  OBVIOUS
<1>2. \A u \in Users \ Residents : account[u] = "absent"
  BY <1>1 DEF Init
<1>3. \A t \in Requests, u \in Users : membership[t][u] = None
  BY <1>1 DEF Init
<1> QED
  BY <1>2, <1>3 DEF Caused

LEMMA NextKeepsCaused ==
  ASSUME TypeOK, Stage, Founded, Caused, [Next]_vars
  PROVE  Caused'
<1> DEFINE Alone(u) == \A t \in Requests : changes[t] = 0 /\ membership[t][u] = None
           Orphan(u) == account[u] # "absent" /\ Alone(u)
           Unlinked(t, u) == membership[t][u] # None /\ roleRef[t][u] = None
           Pending(t, u) == /\ Is(t, "create") /\ call[t].user = u
                            /\ \/ pc[t] \in During \cup {"link"}
                               \/ reply[t] \in {"error", "badRequest"}
<1>1. \A u \in Users \ Residents : Orphan(u) => \E q \in Requests : CreatedBy(q, u)
  BY DEF Caused
<1>2. \A t \in Requests, u \in Users : Unlinked(t, u) => Pending(t, u)
  BY DEF Caused
<1>3. ASSUME NEW q \in Requests, NEW u, Same(q), CreatedBy(q, u)
      PROVE  CreatedBy(q, u)'
  BY <1>3 DEF Same, CreatedBy, Is
<1>4. ASSUME NEW q \in Requests, NEW u \in Users, Same(q), Unlinked(q, u)'
      PROVE  Pending(q, u)'
  BY <1>2, <1>4 DEF Same, Is
<1>5. ASSUME NEW r \in Requests, Send(r)
      PROVE  /\ \A u \in Users \ Residents : Orphan(u)' => \E q \in Requests : CreatedBy(q, u)'
             /\ \A t \in Requests, u \in Users : Unlinked(t, u)' => Pending(t, u)'
  <2>1. pc[r] = "idle" /\ reply[r] = "none" /\ call[r] = None
        /\ UNCHANGED <<membership, account, roleRef, changes>>
    BY <1>5 DEF Send, Stage, tableVars
  <2>2. \A u : ~CreatedBy(r, u) /\ ~Pending(r, u)
    BY <2>1 DEF CreatedBy, Is
  <2>3. \A u \in Users \ Residents : Orphan(u)' => \E q \in Requests \ {r} : CreatedBy(q, u)
    BY <1>1, <2>1, <2>2
  <2>4. \A u \in Users : ~Unlinked(r, u)'
    BY <1>2, <2>1, <2>2
  <2> HIDE DEF Orphan, Unlinked, Pending
  <2> QED
    BY <1>3, <1>4, <1>5, <2>3, <2>4, RequestsApart
<1>6. ASSUME NEW r \in Requests, Handle(r), NEW u \in Users \ Residents, Orphan(u)'
      PROVE  \E q \in Requests : CreatedBy(q, u)'
  <2>0. /\ call'[r] = call[r] /\ call[r] # None /\ reply[r] = "none"
        /\ pc[r] \notin {"idle", "done"} /\ changes' = changes
    BY <1>6, Handled, RequestsApart
  <2>1. Alone(u)
    BY <1>6, <2>0, WhoJoins
  <2>2. CASE account[u] = "absent"
    <3>1. u = call[r].user /\ CreateUser(r)
      BY <1>6, <2>2, WhoJoins, NoneIsNothing DEF Roles
    <3>2. pc'[r] = "member" /\ Is(r, "register")
      BY <3>1 DEF CreateUser, Proceed, TypeOK, Stage
    <3> QED
      BY <2>0, <3>1, <3>2 DEF CreatedBy, Is
  <2>3. CASE account[u] # "absent"
    <3>1. PICK q \in Requests : CreatedBy(q, u)
      BY <1>1, <2>1, <2>3
    <3>2. CASE q # r
      BY <1>3, <1>6, <3>1, <3>2, RequestsApart
    <3>3. CASE q = r
      <4>1. Is(r, "register") /\ call[r].user = u /\ pc[r] \in {"member", "issue", "audit"}
        BY <2>0, <3>1, <3>3 DEF CreatedBy
      <4>2. ~CreateMembership(r)
        <5>1. CreateMembership(r) => membership'[r][u] = "ORG_ADMIN"
          BY <4>1 DEF CreateMembership, Dir!Join, TypeOK, Dir!DirTypeOK
        <5> QED
          BY <1>6, <5>1, NoneIsNothing DEF Roles
      <4>3. pc[r] \notin {"issue", "audit"} \/ membership[r][u] = "ORG_ADMIN"
        <5>1. Creates(r) /\ At(r) = pc[r] /\ changes[r] = 0
          BY <2>0, <2>1, <4>1 DEF Creates, At
        <5> QED
          BY <4>1, <5>1 DEF Founded
      <4>4. pc[r] = "member"
        BY <2>1, <4>1, <4>3, NoneIsNothing DEF Roles
      <4>5. Fail(r)
        BY <1>6, <4>2, <4>4 DEF Handle, LookupAccount, RejectAccount, CreateTenant,
           CreateTenantWithAdmin, RejectName, EnsureRow, LookupGrant, CreateGrant,
           RejectGrant, CreateUser, RejectUser, IssueTokenPair, SetAdminRoleId,
           LinkNothing, ListRoles, Record
      <4>6. reply'[r] = "error"
        BY <4>5 DEF Fail, Answer, TypeOK
      <4> QED
        BY <2>0, <4>1, <4>6 DEF CreatedBy, Is
    <3> QED
      BY <3>2, <3>3
  <2> QED
    BY <2>2, <2>3
<1>7. ASSUME NEW r \in Requests, Handle(r), NEW t \in Requests, NEW u \in Users,
             Unlinked(t, u)'
      PROVE  Pending(t, u)'
  <2>0. /\ call'[r] = call[r] /\ call[r] # None /\ reply[r] = "none"
        /\ pc[r] \notin {"idle", "done"} /\ Is(r, "create")' = Is(r, "create")
    BY <1>7, Handled DEF Is
  <2>1. CASE t # r
    BY <1>4, <1>7, <2>1, RequestsApart
  <2>2. CASE t = r
    <3>1. CASE CreateTenantWithAdmin(r)
      <4>1. /\ Is(r, "create") /\ pc'[r] \in During /\ pc[r] = "sent"
            /\ UNCHANGED roleRef
        BY <3>1 DEF CreateTenantWithAdmin, Proceed, TypeOK, During
      <4>2. membership'[r][u] # membership[r][u] => u = call[r].user
        BY <1>7, WhoJoins
      <4>3. membership'[r][u] = membership[r][u] => Unlinked(r, u)
        BY <1>7, <2>2, <4>1
      <4> QED
        BY <1>2, <2>0, <2>2, <4>1, <4>2, <4>3 DEF During
    <3>2. CASE CreateMembership(r)
      <4>1. Is(r, "register") /\ ~Is(r, "create")
        BY <3>2 DEF CreateMembership, Stage, Is
      <4>2. u # call[r].user
        <5>1. u = call[r].user => roleRef'[r][u] = "ORG_ADMIN"
          BY <3>2 DEF CreateMembership, TypeOK
        <5> QED
          BY <1>7, <2>2, <5>1, NoneIsNothing DEF Roles
      <4>3. Unlinked(r, u)
        <5>1. membership'[r][u] = membership[r][u]
          BY <1>7, <4>2, WhoJoins
        <5>2. roleRef'[r][u] = roleRef[r][u]
          BY <3>2, <4>2 DEF CreateMembership, TypeOK
        <5> QED
          BY <1>7, <2>2, <5>1, <5>2
      <4> QED
        BY <1>2, <4>1, <4>3
    <3>3. CASE UNCHANGED membership
      <4>1. CASE SetAdminRoleId(r)
        <5>1. u = call[r].user => roleRef'[r][u] = "ORG_ADMIN"
          BY <4>1 DEF SetAdminRoleId, TypeOK
        <5>2. u # call[r].user => roleRef'[r][u] = roleRef[r][u]
          BY <4>1 DEF SetAdminRoleId, TypeOK
        <5>3. u # call[r].user /\ Unlinked(r, u)
          BY <1>7, <2>2, <3>3, <5>1, <5>2, NoneIsNothing DEF Roles
        <5> QED
          BY <1>2, <5>3
      <4>2. CASE UNCHANGED roleRef
        <5>1. Unlinked(r, u)
          BY <1>7, <2>2, <3>3, <4>2
        <5>2. Pending(r, u) /\ pc[r] \in During \cup {"link"}
          BY <1>2, <2>0, <5>1
        <5>3. \/ pc'[r] \in During \cup {"link"} \/ reply'[r] \in {"error", "badRequest"}
              \/ SetAdminRoleId(r)
          <6>1. CASE Fail(r) \/ LinkNothing(r) \/ RejectGrant(r)
            BY <6>1 DEF Fail, LinkNothing, RejectGrant, Answer, TypeOK
          <6>2. CASE Ensure(r)
            <7>1. AfterDefaults(r) = "link"
              BY <5>2 DEF AfterDefaults, Is
            <7>2. PICK stage \in {"defaults", "grant", AfterDefaults(r)} : Proceed(r, stage)
              BY <6>2, EnsureEffects DEF Advance
            <7> QED
              BY <7>1, <7>2 DEF Proceed, TypeOK, During
          <6> QED
            BY <1>7, <5>2, <6>1, <6>2 DEF Handle, Ensure, During, LookupAccount, RejectAccount,
               CreateTenant, CreateTenantWithAdmin, RejectName, CreateUser, RejectUser,
               CreateMembership, IssueTokenPair, ListRoles, Record
        <5>4. Pending(r, u)' \/ SetAdminRoleId(r)
          BY <2>0, <5>2, <5>3
        <5> QED
          BY <2>2, <4>1, <5>4
      <4> QED
        BY <1>7, <3>2, <4>1, <4>2, WhoWrites
    <3> QED
      BY <1>7, <3>1, <3>2, <3>3, WhoWrites
  <2> QED
    BY <2>1, <2>2
<1>8. ASSUME NEW s \in Requests, Administer(s)
      PROVE  /\ \A u \in Users : ~Orphan(u)'
             /\ \A t \in Requests, u \in Users : Unlinked(t, u)' => Pending(t, u)'
  <2>1. changes'[s] # 0 /\ UNCHANGED <<pc, call, reply>>
    BY <1>8, AdministrationApart
  <2>2. \A t \in Requests, u \in Users : Unlinked(t, u)' => Unlinked(t, u)
    <3>1. PICK v \in Users, role \in Roles :
            \/ Dir!Join(s, v, role) /\ roleRef' = [roleRef EXCEPT ![s][v] = role]
            \/ Dir!ChangeRole(s, v, role) /\ UNCHANGED roleRef
            \/ Dir!Leave(s, v) /\ roleRef' = [roleRef EXCEPT ![s][v] = None]
      BY <1>8 DEF Administer
    <3>2. role # None
      BY NoneIsNothing
    <3>3. CASE Dir!Join(s, v, role) /\ roleRef' = [roleRef EXCEPT ![s][v] = role]
      BY <3>2, <3>3 DEF Dir!Join, TypeOK, Dir!DirTypeOK
    <3>4. CASE Dir!ChangeRole(s, v, role) /\ UNCHANGED roleRef
      BY <3>4 DEF Dir!ChangeRole, Dir!IsMember, TypeOK, Dir!DirTypeOK
    <3>5. CASE Dir!Leave(s, v) /\ roleRef' = [roleRef EXCEPT ![s][v] = None]
      BY <3>5 DEF Dir!Leave, TypeOK, Dir!DirTypeOK
    <3> QED
      BY <3>1, <3>3, <3>4, <3>5
  <2>3. \A t \in Requests, u \in Users : Pending(t, u) => Pending(t, u)'
    BY <2>1 DEF Is
  <2>4. \A u \in Users : ~Orphan(u)'
    BY <2>1
  <2> HIDE DEF Unlinked, Pending
  <2> QED
    BY <1>2, <2>2, <2>3, <2>4
<1>9. CASE UNCHANGED vars
  BY <1>9 DEF vars, tableVars, Caused, CreatedBy, Is
<1>10. ASSUME ~UNCHANGED vars
       PROVE  /\ \A u \in Users \ Residents : Orphan(u)' => \E q \in Requests : CreatedBy(q, u)'
              /\ \A t \in Requests, u \in Users : Unlinked(t, u)' => Pending(t, u)'
  <2> HIDE DEF Orphan, Unlinked, Pending
  <2> QED
    BY <1>5, <1>6, <1>7, <1>8, <1>10 DEF Next
<1> QED
  BY <1>9, <1>10 DEF Caused

-----------------------------------------------------------------------------
(* One registration for each address.                                      *)

LEMMA InitOneOwner == Init => OneOwner
BY ResidentsAreUsers DEF Init, OneOwner, Owns, At

LEMMA NextKeepsOneOwner ==
  ASSUME TypeOK, Stage, OneOwner, [Next]_vars
  PROVE  OneOwner'
<1>0. RowsStay
  BY RowsStayThroughout
<1>1. \A u \in Residents : account'[u] # "absent"
  BY <1>0, ResidentsAreUsers DEF OneOwner, RowsStay
<1>2. \A q \in Requests : Owns(q) => call[q].user \in Users
  BY CallFields DEF Owns, Creates
<1>3. ASSUME NEW q \in Requests, Same(q), Owns(q)'
      PROVE  Owns(q) /\ call'[q] = call[q]
  BY <1>3 DEF Same, Owns, Is, At
<1>4. ASSUME NEW r \in Requests, Send(r)
      PROVE  ~Owns(r)'
  <2>1. reply'[r] = "none" /\ pc'[r] \in {"sent", "defaults"}
    BY <1>4 DEF Send, Stage, TypeOK
  <2> QED
    BY <2>1 DEF Owns, At
<1>5. ASSUME NEW r \in Requests, Handle(r), Owns(r)'
      PROVE  /\ Owns(r) \/ CreateUser(r)
             /\ call'[r] = call[r]
  <2>1. Is(r, "register") /\ call'[r] = call[r] /\ At(r) = pc[r]
        /\ ~Is(r, "create") /\ ~Is(r, "roles")
    BY <1>5, Handled DEF Owns, Is, Stage, At
  <2>2. pc[r] \in {"member", "issue", "audit"} \/ CreateUser(r)
    <3>1. ~SetAdminRoleId(r) /\ ~ListRoles(r)
      BY <2>1 DEF SetAdminRoleId, ListRoles, Stage
    <3> QED
      BY <1>5, <3>1, Moves DEF Owns, CreateMembership, IssueTokenPair, Record
  <2> QED
    BY <2>1, <2>2 DEF Owns
<1>6. ASSUME NEW t \in Requests, Administer(t), NEW q \in Requests, Owns(q)'
      PROVE  Owns(q) /\ call'[q] = call[q]
  BY <1>6, AdministrationApart DEF Owns, Is, At
<1>7. ASSUME UNCHANGED vars, NEW q \in Requests, Owns(q)'
      PROVE  Owns(q) /\ call'[q] = call[q]
  BY <1>7 DEF vars, Owns, Is, At
<1>8. ASSUME NEW q \in Requests, Owns(q)'
      PROVE  call'[q] = call[q] /\ (Owns(q) \/ CreateUser(q))
  <2> HIDE DEF Owns
  <2> QED
    BY <1>3, <1>4, <1>5, <1>6, <1>7, <1>8, RequestsApart DEF Next
<1>9. ASSUME NEW r \in Requests, CreateUser(r)
      PROVE  /\ call[r].user \in Users /\ account[call[r].user] = "absent"
             /\ account'[call[r].user] # "absent"
             /\ \A q \in Requests \ {r} : Owns(q)' => Owns(q) /\ call'[q] = call[q]
  <2>1. call[r].user \in Users
    BY <1>9, CallFields DEF CreateUser, Stage, Creates
  <2>2. account[call[r].user] = "absent" /\ account'[call[r].user] # "absent"
    BY <1>9, <2>1 DEF CreateUser, Dir!CreateAccount, TypeOK, Dir!DirTypeOK
  <2>3. Handle(r)
    BY <1>9 DEF Handle
  <2> QED
    BY <1>3, <2>1, <2>2, <2>3, RequestsApart
<1>10. ASSUME NEW q \in Requests, Owns(q)'
       PROVE  account'[call'[q].user] # "absent" /\ call'[q].user \notin Residents
  <2>1. CASE Owns(q)
    BY <1>0, <1>2, <1>8, <1>10, <2>1 DEF OneOwner, RowsStay
  <2>2. CASE CreateUser(q)
    BY <1>8, <1>9, <1>10, <2>2 DEF OneOwner
  <2> QED
    BY <1>8, <1>10, <2>1, <2>2
<1>11. ASSUME NEW q \in Requests, NEW p \in Requests, Owns(q)', Owns(p)',
              call'[q].user = call'[p].user
       PROVE  q = p
  <2>1. call'[q] = call[q] /\ call'[p] = call[p]
    BY <1>8, <1>11
  <2>2. CASE Owns(q) /\ Owns(p)
    BY <1>11, <2>1, <2>2 DEF OneOwner
  <2>3. CASE CreateUser(q)
    <3>1. p # q => Owns(p)
      BY <1>9, <1>11, <2>3
    <3>2. Owns(p) => account[call[p].user] # "absent"
      BY DEF OneOwner
    <3> QED
      BY <1>9, <1>11, <2>1, <2>3, <3>1, <3>2
  <2>4. CASE CreateUser(p)
    <3>1. p # q => Owns(q)
      BY <1>9, <1>11, <2>4
    <3>2. Owns(q) => account[call[q].user] # "absent"
      BY DEF OneOwner
    <3> QED
      BY <1>9, <1>11, <2>1, <2>4, <3>1, <3>2
  <2> QED
    BY <1>8, <1>11, <2>2, <2>3, <2>4
<1> HIDE DEF Owns
<1>12. \A r \in Requests : Owns(r)' =>
         /\ account'[call'[r].user] # "absent" /\ call'[r].user \notin Residents
         /\ \A q \in Requests : Owns(q)' /\ call'[q].user = call'[r].user => q = r
  BY <1>10, <1>11
<1> QED
  BY <1>1, <1>12 DEF OneOwner

-----------------------------------------------------------------------------
(* What a refused creation leaves.                                         *)

\* A tenant keeps its name and a listing its tenant.
LEMMA NamesStay ==
  ASSUME TypeOK, Stage, Founded, [Next]_vars, NEW t \in Requests
  PROVE  /\ tenant[t] # None => tenant'[t] = tenant[t]
         /\ call[t] # None => call'[t] = call[t]
         /\ Listed(t) => Listed(t)'
<1>1. ASSUME NEW q \in Requests
      PROVE  /\ tenant[q] # None => tenant'[q] = tenant[q]
             /\ call[q] # None => call'[q] = call[q]
  <2>1. CASE Send(q)
    BY <2>1 DEF Send, Stage, tableVars
  <2>2. CASE Handle(q)
    <3>1. CreateTenant(q) \/ CreateTenantWithAdmin(q) => tenant[q] = None
      <4>1. CreateTenant(q) \/ CreateTenantWithAdmin(q) => At(q) \in Before
        BY <2>2, Handled DEF CreateTenant, CreateTenantWithAdmin, At, Before
      <4> QED
        BY <4>1 DEF Founded
    <3> QED
      BY <2>2, <3>1, Handled, WhoWrites
  <2>3. CASE UNCHANGED <<tenant[q], call[q]>>
    BY <2>3
  <2> QED
    BY <2>1, <2>2, <2>3, RequestsApart, AdministrationApart DEF Next, Same, vars, tableVars
<1>2. Listed(t) => Listed(t)'
  BY <1>1 DEF Listed, Is
<1> QED
  BY <1>1, <1>2

LEMMA InitOvertaken == Init => Overtaken /\ RefusalHasACause
BY DEF Init, Overtaken, RefusalHasACause, Is

\* Whoever writes the rows of the tenant another request creates is listing
\* its roles.
LEMMA NextKeepsOvertaken ==
  ASSUME TypeOK, Stage, Founded, Overtaken, [Next]_vars
  PROVE  Overtaken'
<1>1. SUFFICES ASSUME NEW r \in Requests, Is(r, "create")', pc'[r] = "grant",
                      Due(r)' \in defaults'[r]
               PROVE  Listed(r)'
  BY DEF Overtaken
<1>2. ASSUME Is(r, "create"), pc[r] = "grant", Due(r) \in defaults[r]
      PROVE  Listed(r)'
  BY <1>2, NamesStay DEF Overtaken
<1>3. CASE Send(r)
  BY <1>1, <1>3 DEF Send, TypeOK
<1>4. CASE Handle(r)
  <2>1. Is(r, "create") /\ TenantOf(r) = r
    BY <1>1, <1>4, Handled, CallFields DEF Is, Creates
  <2>2. Ensure(r)
    <3>1. At(r)' = "grant"
      BY <1>1, <1>4, NextKeepsStages DEF At, Stage
    <3> QED
      BY <1>1, <1>4 DEF Handle, Ensure, LookupAccount, RejectAccount, CreateTenant,
         CreateTenantWithAdmin, RejectName, RejectGrant, CreateUser, RejectUser,
         CreateMembership, IssueTokenPair, SetAdminRoleId, LinkNothing, ListRoles,
         Record, Fail, Proceed, Answer, TypeOK
  <2>3. ~Advance(r)
    BY <1>1, <2>2, EnsureEffects DEF Advance, Proceed, TypeOK
  <2>4. Due(r)' = Due(r) /\ UNCHANGED defaults /\ Due(r) \notin defaults[r]
    BY <2>1, <2>2, <2>3, EnsureEffects DEF Due
  <2> QED
    BY <1>1, <2>4
<1>5. ASSUME NEW q \in Requests \ {r}, Send(q) \/ Handle(q)
      PROVE  Listed(r)'
  <2>1. Is(r, "create") /\ pc[r] = "grant" /\ Due(r)' = Due(r) /\ call[r] = call'[r]
    BY <1>1, <1>5, RequestsApart DEF Same, Is, Due
  <2>2. CASE defaults'[r] = defaults[r]
    BY <1>1, <1>2, <2>1, <2>2
  <2>3. CASE defaults'[r] # defaults[r]
    <3>1. Ensure(q)
      BY <1>5, <2>3, WhoWrites DEF Send, roleVars
    <3>2. TenantOf(q) = r
      <4>1. \/ UNCHANGED defaults
            \/ defaults' = [defaults EXCEPT ![TenantOf(q)] = @ \cup {Due(q)}]
        BY <3>1, EnsureEffects DEF roleVars
      <4> HIDE DEF Due
      <4> QED
        BY <2>3, <4>1 DEF TypeOK
    <3>3. Is(q, "roles") /\ call[q].tenant = r
      BY <1>5, <3>2 DEF TenantOf
    <3>4. Listed(r)
      BY <3>3 DEF Listed
    <3> QED
      BY <3>4, NamesStay
  <2> QED
    BY <2>2, <2>3
<1>6. ASSUME NEW t \in Requests, Administer(t)
      PROVE  Listed(r)'
  <2>1. UNCHANGED <<pc, call, written, defaults>>
    BY <1>6, AdministrationApart DEF roleVars
  <2> QED
    BY <1>1, <1>2, <2>1 DEF Is, Due
<1>7. CASE UNCHANGED vars
  BY <1>1, <1>2, <1>7 DEF vars, roleVars, Is, Due
<1> QED
  BY <1>3, <1>4, <1>5, <1>6, <1>7 DEF Next

\* A creation is refused because its name is taken, or because its insert of a
\* grant came too late.
LEMMA NextKeepsRefusal ==
  ASSUME TypeOK, Stage, Founded, Overtaken, RefusalHasACause, [Next]_vars
  PROVE  RefusalHasACause'
<1> DEFINE Unmade(r) == /\ tenant[r] = None
                        /\ \E t \in Requests \ {r} : tenant[t] = call[r].name
           Made(r) == tenant[r] = call[r].name /\ Listed(r)
<1>1. SUFFICES ASSUME NEW r \in Requests, Is(r, "create")', reply'[r] = "badRequest"
               PROVE  Unmade(r)' \/ Made(r)'
  BY DEF RefusalHasACause, Listed
<1>2. ASSUME Is(r, "create"), tenant'[r] = tenant[r], Unmade(r) \/ Made(r)
      PROVE  Unmade(r)' \/ Made(r)'
  <2>1. call'[r] = call[r] /\ call[r].name # None
    BY <1>2, NamesStay, CallFields, NoneIsNothing DEF Is, Creates
  <2>2. CASE Unmade(r)
    <3>1. PICK t \in Requests \ {r} : tenant[t] = call[r].name
      BY <2>2
    <3>2. tenant'[t] = call[r].name
      BY <2>1, <3>1, NamesStay
    <3> QED
      BY <1>2, <2>1, <2>2, <3>2
  <2>3. CASE Made(r)
    BY <1>2, <2>1, <2>3, NamesStay
  <2> QED
    BY <1>2, <2>2, <2>3
<1>3. ASSUME Is(r, "create"), reply[r] = "badRequest", tenant'[r] = tenant[r]
      PROVE  Unmade(r)' \/ Made(r)'
  <2>1. Unmade(r) \/ Made(r)
    BY <1>3 DEF RefusalHasACause, Listed
  <2> HIDE DEF Unmade, Made
  <2> QED
    BY <1>2, <1>3, <2>1
<1>4. CASE Send(r)
  BY <1>1, <1>4 DEF Send, Stage
<1>5. CASE Handle(r)
  <2>1. Is(r, "create") /\ At(r) = pc[r] /\ reply[r] = "none"
    BY <1>1, <1>5, Handled DEF Is, At
  <2>2. CASE RejectGrant(r)
    <3>1. tenant'[r] = tenant[r] /\ tenant[r] = call[r].name
      BY <2>1, <2>2 DEF RejectGrant, Answer, tableVars, Founded, Creates, During
    <3>2. Listed(r)
      BY <2>1, <2>2, CallFields DEF RejectGrant, Overtaken, Creates
    <3> QED
      BY <1>2, <2>1, <3>1, <3>2
  <2>3. CASE RejectName(r)
    <3>1. tenant'[r] = tenant[r] /\ tenant[r] = None
      BY <2>1, <2>3 DEF RejectName, Answer, tableVars, Founded, Before
    <3>2. PICK t \in Requests : tenant[t] = call[r].name
      BY <2>3 DEF RejectName, NameTaken
    <3>3. t # r
      BY <2>1, <3>1, <3>2, CallFields, NoneIsNothing DEF Creates
    <3> QED
      BY <1>2, <2>1, <3>1, <3>2, <3>3
  <2>4. RejectGrant(r) \/ RejectName(r)
    <3>1. pc[r] = "sent" \/ RejectGrant(r)
      BY <1>1, <1>5, Moves
    <3>2. pc[r] = "sent" => ~LookupAccount(r) /\ ~RejectAccount(r)
      BY <2>1 DEF LookupAccount, RejectAccount, Is
    <3> QED
      BY <1>1, <1>5, <2>1, <3>1, <3>2 DEF Handle, EnsureRow, LookupGrant, CreateGrant,
         CreateTenant, CreateTenantWithAdmin, CreateUser, RejectUser, CreateMembership,
         IssueTokenPair, SetAdminRoleId, LinkNothing, ListRoles, Record, Fail, Proceed,
         Answer, TypeOK
  <2> QED
    BY <2>2, <2>3, <2>4
<1>6. CASE Same(r)
  BY <1>1, <1>3, <1>6 DEF Same, Is
<1>7. ASSUME NEW t \in Requests, Administer(t)
      PROVE  Unmade(r)' \/ Made(r)'
  <2>1. UNCHANGED <<tenant, call, reply>>
    BY <1>7, AdministrationApart
  <2> QED
    BY <1>1, <1>3, <2>1 DEF Is
<1>8. CASE UNCHANGED vars
  BY <1>6, <1>8 DEF vars, tableVars, Same
<1> HIDE DEF Unmade, Made
<1> QED
  BY <1>4, <1>5, <1>6, <1>7, <1>8, RequestsApart DEF Next

-----------------------------------------------------------------------------
(* The theorems.                                                           *)

LEMMA InitIInv == Init => IInv
BY InitTyped, InitStages, InitProgress, InitReferences, InitFounded, InitCaused,
   InitOneOwner, InitOvertaken DEF IInv

LEMMA NextKeepsIInv == IInv /\ [Next]_vars => IInv'
BY NextTyped, NextKeepsStages, NextKeepsProgress, NextKeepsReferences,
   NextKeepsFounded, NextKeepsCaused, NextKeepsOneOwner, NextKeepsOvertaken,
   NextKeepsRefusal DEF IInv

\* The inductive invariant holds throughout.
THEOREM Invariance == Spec => []IInv
BY InitIInv, NextKeepsIInv, PTL DEF Spec

\* Every variable keeps its type, and the list of upserts is never read past
\* its end.
THEOREM TypeCorrect == Spec => []TypeOK
<1>1. IInv => TypeOK
  BY DEF IInv
<1> QED
  BY <1>1, Invariance, PTL

\* A request that has made all upserts leaves the whole role table, whoever
\* wrote which part of it and whoever failed half-way.
THEOREM EnsuredEquipped == Spec => []EnsuredMeansEquipped
<1>1. IInv => EnsuredMeansEquipped
  BY WrittenMeansEquipped DEF IInv, EnsuredMeansEquipped
<1> QED
  BY <1>1, Invariance, PTL

\* No grant and no membership refers to a row that is missing.
THEOREM ReferencesHold == Spec => []ReferencesExist
<1>1. ASSUME IInv
      PROVE  ReferencesExist
  <2>1. ASSUME NEW r \in Requests, pc[r] \in {"defaults", "grant"}, IsGrant(Due(r))
        PROVE  /\ RoleRow(Due(r).role) \in defaults[TenantOf(r)]
               /\ Due(r).permission \in catalog
    BY <1>1, <2>1, GrantFollows DEF IInv, During
  <2> QED
    BY <1>1, <2>1 DEF IInv, References, ReferencesExist
<1> QED
  BY <1>1, Invariance, PTL

\* A registration or creation answered "ok" has made a whole tenant.
THEOREM SuccessWhole == Spec => []SuccessIsWhole
<1>1. ASSUME IInv, NEW r \in Requests, Creates(r), reply[r] = "ok"
      PROVE  /\ tenant[r] = call[r].name /\ Equipped(r) /\ trace[r]
             /\ changes[r] = 0 => /\ membership[r][call[r].user] = "ORG_ADMIN"
                                  /\ roleRef[r][call[r].user] = "ORG_ADMIN"
  <2>1. At(r) = "ok" /\ written[r] = Len(Upserts)
    BY <1>1 DEF IInv, Stage, At, After
  <2>2. Equipped(r)
    BY <1>1, <2>1, CallFields, WrittenMeansEquipped DEF IInv
  <2> QED
    BY <1>1, <2>1, <2>2 DEF IInv, Founded, After
<1>2. IInv => SuccessIsWhole
  BY <1>1 DEF SuccessIsWhole
<1> QED
  BY <1>2, Invariance, PTL

\* A tenant nobody belonged to, an account that never had a tenant and a
\* member without role row come from a registration or creation that failed or
\* still runs, or from a creation refused after it had made its tenant.
THEOREM RemnantsCaused == Spec => []RemnantsHaveACause
<1> DEFINE Unfinished(r, op) == Is(r, op) /\ (pc[r] # "done" \/ reply[r] = "error")
<1>1. ASSUME IInv, NEW t \in Requests, tenant[t] # None, changes[t] = 0,
             \A u \in Users : ~Dir!IsMember(t, u)
      PROVE  Unfinished(t, "register")
  <2>1. Creates(t) /\ call[t].user \in Users
    BY <1>1, CallFields DEF IInv, Founded
  <2>2. membership[t][call[t].user] = None
    BY <1>1, <2>1 DEF Dir!IsMember
  <2>3. membership[t][call[t].user] # "ORG_ADMIN"
    BY <2>2, NoneIsNothing DEF Roles
  <2>4. ~Is(t, "create") /\ Is(t, "register")
    BY <1>1, <2>1, <2>3 DEF IInv, Founded, Creates
  <2>5. reply[t] \notin {"ok", "badRequest"}
    BY <1>1, <2>1, <2>3, <2>4 DEF IInv, Founded, At
  <2>6. pc[t] = "done" => reply[t] = "error"
    BY <1>1, <2>5 DEF IInv, TypeOK, Replies, Stage
  <2> QED
    BY <2>4, <2>6
<1>2. ASSUME IInv, NEW u \in Users \ Residents, account[u] # "absent",
             \A t \in Requests : changes[t] = 0 /\ ~Dir!IsMember(t, u)
      PROVE  \E r \in Requests : Unfinished(r, "register") /\ call[r].user = u
  BY <1>2 DEF IInv, Caused, CreatedBy, Dir!IsMember
<1>3. ASSUME IInv, NEW t \in Requests, NEW u \in Users, Dir!IsMember(t, u),
             roleRef[t][u] = None
      PROVE  /\ Unfinished(t, "create") \/ (Is(t, "create") /\ reply[t] = "badRequest")
             /\ call[t].user = u
  BY <1>3 DEF IInv, Caused, During, Dir!IsMember
<1>4. IInv => RemnantsHaveACause
  BY <1>1, <1>2, <1>3 DEF RemnantsHaveACause
<1> QED
  BY <1>4, Invariance, PTL

\* Two registrations of one address never both succeed, and none does for an
\* address that had an account.
THEOREM OneRegistration == Spec => []OneRegistrationPerEmail
<1>1. \A r \in Requests : Is(r, "register") /\ reply[r] = "ok" => Owns(r)
  BY DEF Owns, At
<1>2. IInv => OneRegistrationPerEmail
  BY <1>1 DEF IInv, OneOwner, OneRegistrationPerEmail
<1> QED
  BY <1>2, Invariance, PTL

\* A creation is refused because the name is another tenant's, or after its
\* own tenant was made and its roles were listed.
THEOREM RefusalCaused == Spec => []RefusalHasACause
<1>1. IInv => RefusalHasACause
  BY DEF IInv
<1> QED
  BY <1>1, Invariance, PTL
=============================================================================
