---------------------------- MODULE Authorization ----------------------------
(***************************************************************************)
(* The role-based access table and the guard every protected route passes. *)
(* A route names the permissions it requires; the bearer token carries one *)
(* role, which the JWT strategy expands to that role's permissions.  The   *)
(* table is kept in the order in which it is written to the database.      *)
(***************************************************************************)

\* The tenant-local roles (enum OrganizationRole).
Roles == {"ORG_ADMIN", "ORG_USER", "READ_ONLY"}

\* The atomic permissions routes can require.
PermissionKeys ==
  << "tenant:read", "users:read", "users:manage", "roles:read",
     "permissions:read", "projects:read", "projects:write",
     "projects:delete", "audit:read" >>

Permissions == {PermissionKeys[i] : i \in DOMAIN PermissionKeys}

\* What each role grants inside its tenant.
RolePermissions ==
  [ ORG_ADMIN |-> PermissionKeys,
    ORG_USER  |-> << "tenant:read", "users:read", "roles:read",
                     "permissions:read", "projects:read", "projects:write" >>,
    READ_ONLY |-> << "tenant:read", "roles:read", "permissions:read",
                     "projects:read" >> ]

\* What JwtStrategy.validate puts into request.user.permissions.
PermissionsOf(role) ==
  {RolePermissions[role][i] : i \in DOMAIN RolePermissions[role]}

\* PermissionsGuard.canActivate: every required permission is granted.
PermissionsGuard(role, required) == required \subseteq PermissionsOf(role)
=============================================================================
