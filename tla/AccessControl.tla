---------------------------- MODULE AccessControl ----------------------------
(***************************************************************************)
(* Access tokens over a directory that changes.  A login or refresh checks *)
(* the account, reads the membership an await later and signs the role it  *)
(* found later still; from then on JwtStrategy and PermissionsGuard trust  *)
(* the token until it expires and look at no table.  The refresh tokens    *)
(* that allow an issue are in Sessions.                                    *)
(*                                                                         *)
(* lapse and delay are history variables: no guard of the program reads    *)
(* them.                                                                   *)
(***************************************************************************)
EXTENDS Directory, Naturals

CONSTANTS
  Tokens,      \* the issues of access tokens under way or alive at a time
  AccessTTL,   \* lifetime of an access token (JWT_ACCESS_TTL_SECONDS)
  MaxDelay     \* bound: time an issue takes from the account check to the signature

ASSUME AccessTTLIsPositive == AccessTTL \in Nat \ {0}
ASSUME MaxDelayIsNat == MaxDelay \in Nat

VARIABLES
  stage,    \* stage[t]: unused, or how far its issue has come
  claims,   \* claims[t]: the JwtPayload
  left,     \* left[t]: exp minus now, once signed
  lapse,    \* history: time since what t relies on was last so
  delay     \* history: time its issue has taken

tokenVars == <<stage, claims, left, lapse, delay>>
vars == <<dirVars, tokenVars>>

Stages == {"none", "checked", "read", "signed"}

\* The role is None until the membership has been read.
Claims == [user: Users, org: Orgs, role: Roles \cup {None}]

ASSUME NoneIsNoClaims == None \notin Claims

TypeOK ==
  /\ DirTypeOK
  /\ stage \in [Tokens -> Stages]
  /\ claims \in [Tokens -> Claims \cup {None}]
  /\ left \in [Tokens -> 0..AccessTTL]
  /\ lapse \in [Tokens -> 0..(AccessTTL + MaxDelay)]
  /\ delay \in [Tokens -> 0..MaxDelay]
  /\ \A t \in Tokens : /\ claims[t] = None <=> stage[t] = "none"
                       /\ stage[t] \in {"read", "signed"} => claims[t].role # None

-----------------------------------------------------------------------------
\* Mutant: ignoreExpiration is set.
UsableForever(t) == stage[t] = "signed"

\* JwtStrategy accepts the token: it is signed and has not expired.
Usable(t) == stage[t] = "signed" /\ left[t] > 0

\* A route that requires these permissions runs for the bearer.
Passes(t, required) == Usable(t) /\ PermissionsGuard(claims[t].role, required)

\* What t relies on is so: the account is active, and once it has been read the
\* role is the one the membership gives.
Grounded(t) ==
  /\ account[claims[t].user] = "active"
  /\ claims[t].role \in {None, membership[claims[t].org][claims[t].user]}

Advance(t, s) == stage' = [stage EXCEPT ![t] = s]

\* The account of the user who logs in, or of the refresh token, is active.
CheckAccount(t, o, u) ==
  /\ ~Usable(t) /\ stage[t] \in {"none", "signed"}
  /\ account[u] = "active"
  /\ Advance(t, "checked")
  /\ claims' = [claims EXCEPT ![t] = [user |-> u, org |-> o, role |-> None]]
  /\ left' = [left EXCEPT ![t] = 0]
  /\ lapse' = [lapse EXCEPT ![t] = 0]
  /\ delay' = [delay EXCEPT ![t] = 0]
  /\ UNCHANGED dirVars

\* Mutant: a refresh keeps the role of an earlier token.
KeepRole(t) ==
  /\ stage[t] = "checked"
  /\ Advance(t, "read")
  /\ \E role \in Roles :
       /\ \/ role = membership[claims[t].org][claims[t].user]
          \/ \E q \in Tokens : stage[q] = "signed" /\ claims[q] = [claims[t] EXCEPT !.role = role]
       /\ claims' = [claims EXCEPT ![t].role = role]
  /\ UNCHANGED <<dirVars, left, lapse, delay>>

\* The membership gives the role to sign.
ReadMembership(t) ==
  /\ stage[t] = "checked"
  /\ LET role == membership[claims[t].org][claims[t].user]
     IN  /\ role # None
         /\ claims' = [claims EXCEPT ![t].role = role]
  /\ Advance(t, "read")
  /\ UNCHANGED <<dirVars, left, lapse, delay>>

\* issueTokenPair signs the access token.
Sign(t) ==
  /\ stage[t] = "read"
  /\ Advance(t, "signed")
  /\ left' = [left EXCEPT ![t] = AccessTTL]
  /\ UNCHANGED <<dirVars, claims, lapse, delay>>

\* No membership (401), a query that rejects, or the process dies.
Abandon(t) ==
  /\ stage[t] \in {"checked", "read"}
  /\ Advance(t, "none")
  /\ claims' = [claims EXCEPT ![t] = None]
  /\ UNCHANGED <<dirVars, left, lapse, delay>>

\* Members come, get roles and go; accounts are made and deactivated.
DirectoryStep ==
  /\ TablesNext
  /\ UNCHANGED <<stage, claims, left, delay>>
  /\ lapse' = [t \in Tokens |->
                 IF stage[t] # "none" /\ Grounded(t)' THEN 0 ELSE lapse[t]]

Pending(t) == stage[t] \in {"checked", "read"}

\* Time passes; an issue does not take longer than MaxDelay.
Tick ==
  /\ \A t \in Tokens : Pending(t) => delay[t] < MaxDelay
  /\ left' = [t \in Tokens |-> IF left[t] > 0 THEN left[t] - 1 ELSE 0]
  /\ delay' = [t \in Tokens |-> IF Pending(t) THEN delay[t] + 1 ELSE delay[t]]
  /\ lapse' = [t \in Tokens |->
                 IF stage[t] = "none" \/ Grounded(t) \/ lapse[t] = AccessTTL + MaxDelay
                 THEN lapse[t] ELSE lapse[t] + 1]
  /\ UNCHANGED <<dirVars, stage, claims>>

Init ==
  /\ DirInit
  /\ stage = [t \in Tokens |-> "none"]
  /\ claims = [t \in Tokens |-> None]
  /\ left = [t \in Tokens |-> 0]
  /\ lapse = [t \in Tokens |-> 0]
  /\ delay = [t \in Tokens |-> 0]

Continue(t) == ReadMembership(t) \/ Sign(t) \/ Abandon(t)

Next ==
  \/ \E t \in Tokens :
       \/ \E o \in Orgs, u \in Users : CheckAccount(t, o, u)
       \/ Continue(t)
  \/ DirectoryStep
  \/ Tick

\* The clock goes on and a query settles; nobody has to log in, and the
\* directory need not change.
Fairness == WF_vars(Tick) /\ \A t \in Tokens : WF_vars(Continue(t))

Spec == Init /\ [][Next]_vars /\ Fairness

-----------------------------------------------------------------------------
(* Properties                                                              *)

\* A permission outlives the role, or the active account, that granted it by
\* less than the lifetime of an access token and the time its issue took.
AuthorityIsBounded ==
  \A t \in Tokens, p \in Permissions :
    Passes(t, {p}) => lapse[t] < AccessTTL + delay[t]

\* A role taken from a user for good, by a change of role or by removal, stops
\* working in the tenant for good before long, whatever requests were under way
\* when it was taken.
TakenRolesRunOut ==
  \A o \in Orgs, u \in Users, role \in Roles :
    <>[](membership[o][u] # role) =>
      <>[]~\E t \in Tokens : /\ Usable(t) /\ claims[t].role = role
                             /\ claims[t].user = u /\ claims[t].org = o
=============================================================================
