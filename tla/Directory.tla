------------------------------ MODULE Directory ------------------------------
(***************************************************************************)
(* The tables users and organization_memberships and the changes the       *)
(* program makes to them.  A user joins a tenant at most once, a role is   *)
(* changed only while the user is a member.  UserAdmin and Onboarding are  *)
(* built from these actions; TablesNext, any change anything makes, is     *)
(* the environment of the modules in which the directory changes meanwhile *)
(* (AccessControl, Sessions).                                              *)
(***************************************************************************)
EXTENDS Authorization

CONSTANTS
  Orgs,    \* the tenants
  Users,   \* the identities, one for each e-mail address
  None     \* "no row" or "null"

ASSUME NoneIsNoRole == None \notin Roles

VARIABLES
  membership,   \* membership[o][u] is u's role in tenant o, None without a row
  account       \* account[u]: no row, or the is_active flag of the row

dirVars == <<membership, account>>

AccountStates == {"absent", "active", "inactive"}

DirTypeOK ==
  /\ membership \in [Orgs -> [Users -> Roles \cup {None}]]
  /\ account \in [Users -> AccountStates]

IsMember(o, u) == membership[o][u] # None

Admins(o) == {u \in Users : membership[o][u] = "ORG_ADMIN"}

\* The foreign key of organization_memberships.user_id: a member has an account.
MembersHaveAccounts ==
  \A o \in Orgs, u \in Users : IsMember(o, u) => account[u] # "absent"

\* Every tenant starts with an administrator (register and tenant creation
\* both make their caller one).
DirInit ==
  /\ DirTypeOK
  /\ MembersHaveAccounts
  /\ \A o \in Orgs : Admins(o) # {}

\* A user joins a tenant; a first membership creates the account with it.
Join(o, u, role) ==
  /\ ~IsMember(o, u)
  /\ membership' = [membership EXCEPT ![o][u] = role]
  /\ account' = [account EXCEPT ![u] = IF @ = "absent" THEN "active" ELSE @]

\* A member gets another role (or the same one again).
ChangeRole(o, u, role) ==
  /\ IsMember(o, u)
  /\ membership' = [membership EXCEPT ![o][u] = role]
  /\ UNCHANGED account

\* A member leaves; the account stays.
Leave(o, u) ==
  /\ IsMember(o, u)
  /\ membership' = [membership EXCEPT ![o][u] = None]
  /\ UNCHANGED account

\* is_active is read by login, refresh and addUserToOrg and written by no
\* request handler: an operator (or the seed script) flips it.
SetActive(u) ==
  /\ account[u] # "absent"
  /\ \E flag \in {"active", "inactive"} : account' = [account EXCEPT ![u] = flag]
  /\ UNCHANGED membership

DirNext ==
  \/ \E o \in Orgs, u \in Users, role \in Roles : Join(o, u, role)
  \/ \E o \in Orgs, u \in Users, role \in Roles : ChangeRole(o, u, role)
  \/ \E o \in Orgs, u \in Users : Leave(o, u)
  \/ \E u \in Users : SetActive(u)

\* register writes the account first and the membership in another statement.
CreateAccount(u) ==
  /\ account[u] = "absent"
  /\ account' = [account EXCEPT ![u] = "active"]
  /\ UNCHANGED membership

\* Every change anything in the program makes to the two tables.
TablesNext == DirNext \/ \E u \in Users : CreateAccount(u)
=============================================================================
