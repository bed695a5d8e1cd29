------------------------- MODULE AccessControlProofs -------------------------
(***************************************************************************)
(* Theorems about AccessControl, for every directory, number of tokens,    *)
(* lifetime and delay.                                                     *)
(*                                                                         *)
(* Age is the inductive form of AuthorityIsBounded: the time since what a  *)
(* token relies on was so never exceeds the time its issue took and the    *)
(* part of its life that is over.                                          *)
(***************************************************************************)
EXTENDS AccessControl, TLAPS

Age ==
  \A t \in Tokens :
    /\ Pending(t) => lapse[t] <= delay[t]
    /\ Usable(t) => lapse[t] + left[t] <= AccessTTL + delay[t]

IInv == TypeOK /\ Age

-----------------------------------------------------------------------------
\* Every step of the directory keeps its types.
LEMMA DirectoryTyped == DirTypeOK /\ TablesNext => DirTypeOK'
BY DEF DirTypeOK, TablesNext, DirNext, Join, ChangeRole, Leave, SetActive,
       CreateAccount, AccountStates

\* No lifetime has passed at the start.
LEMMA InitInv == Init => IInv
BY AccessTTLIsPositive, MaxDelayIsNat, NoneIsNoClaims
   DEF Init, IInv, TypeOK, Age, Pending, Usable, DirInit, Stages

\* One step keeps the types.
LEMMA NextTyped == TypeOK /\ [Next]_vars => TypeOK'
<1> SUFFICES ASSUME TypeOK, [Next]_vars PROVE TypeOK'
  OBVIOUS
<1> USE AccessTTLIsPositive, MaxDelayIsNat, NoneIsNoClaims, NoneIsNoRole
<1>1. ASSUME NEW t \in Tokens, NEW o \in Orgs, NEW u \in Users, CheckAccount(t, o, u)
      PROVE  TypeOK'
  <2>1. [user |-> u, org |-> o, role |-> None] \in Claims
    BY DEF Claims
  <2> QED
    BY <1>1, <2>1 DEF CheckAccount, Advance, TypeOK, Stages, dirVars, DirTypeOK
<1>2. ASSUME NEW t \in Tokens, ReadMembership(t)
      PROVE  TypeOK'
  <2>1. claims[t] \in Claims
    BY <1>2 DEF ReadMembership, TypeOK
  <2>2. membership[claims[t].org][claims[t].user] \in Roles
    BY <1>2, <2>1 DEF ReadMembership, TypeOK, DirTypeOK, Claims
  <2>3. [claims[t] EXCEPT !.role = membership[claims[t].org][claims[t].user]] \in Claims
    BY <2>1, <2>2 DEF Claims
  <2>4. claims' = [claims EXCEPT ![t] =
                     [claims[t] EXCEPT !.role = membership[claims[t].org][claims[t].user]]]
    BY <1>2 DEF ReadMembership
  <2> QED
    BY <1>2, <2>1, <2>3, <2>4 DEF ReadMembership, Advance, TypeOK, Stages, dirVars, DirTypeOK
<1>3. ASSUME NEW t \in Tokens, Sign(t)
      PROVE  TypeOK'
  BY <1>3 DEF Sign, Advance, TypeOK, Stages, dirVars, DirTypeOK
<1>4. ASSUME NEW t \in Tokens, Abandon(t)
      PROVE  TypeOK'
  BY <1>4 DEF Abandon, Advance, TypeOK, Stages, dirVars, DirTypeOK
<1>5. ASSUME DirectoryStep
      PROVE  TypeOK'
  <2>1. DirTypeOK'
    BY <1>5, DirectoryTyped DEF DirectoryStep, TypeOK
  <2> QED
    BY <1>5, <2>1 DEF DirectoryStep, TypeOK
<1>6. ASSUME Tick
      PROVE  TypeOK'
  <2>1. left' \in [Tokens -> 0..AccessTTL]
    BY <1>6 DEF Tick, TypeOK
  <2>2. delay' \in [Tokens -> 0..MaxDelay]
    BY <1>6 DEF Tick, TypeOK
  <2>3. lapse' \in [Tokens -> 0..(AccessTTL + MaxDelay)]
    BY <1>6 DEF Tick, TypeOK
  <2> QED
    BY <1>6, <2>1, <2>2, <2>3 DEF Tick, TypeOK, dirVars, DirTypeOK
<1>7. CASE UNCHANGED vars
  BY <1>7 DEF vars, tokenVars, dirVars, TypeOK, DirTypeOK
<1> QED
  BY <1>1, <1>2, <1>3, <1>4, <1>5, <1>6, <1>7 DEF Next, Continue

\* One step keeps the ages: a token that is signed starts its life with what its
\* issue took, and then both grow together.
LEMMA NextKeepsAge == TypeOK /\ Age /\ [Next]_vars => Age'
<1> SUFFICES ASSUME TypeOK, Age, [Next]_vars PROVE Age'
  OBVIOUS
<1> USE AccessTTLIsPositive, MaxDelayIsNat DEF Age, Pending, Usable
<1>1. ASSUME NEW t \in Tokens, NEW o \in Orgs, NEW u \in Users, CheckAccount(t, o, u)
      PROVE  Age'
  BY <1>1 DEF CheckAccount, Advance, TypeOK
<1>2. ASSUME NEW t \in Tokens, Continue(t)
      PROVE  Age'
  BY <1>2 DEF Continue, ReadMembership, Sign, Abandon, Advance, TypeOK
<1>3. ASSUME DirectoryStep
      PROVE  Age'
  BY <1>3 DEF DirectoryStep, TypeOK
<1>4. ASSUME Tick
      PROVE  Age'
  BY <1>4 DEF Tick, TypeOK
<1>5. CASE UNCHANGED vars
  BY <1>5 DEF vars, tokenVars
<1> QED
  BY <1>1, <1>2, <1>3, <1>4, <1>5 DEF Next

-----------------------------------------------------------------------------
\* The invariant the theorems below are read off.
THEOREM Invariance == Spec => []IInv
<1>1. IInv /\ [Next]_vars => IInv'
  BY NextTyped, NextKeepsAge DEF IInv
<1> QED
  BY InitInv, <1>1, PTL DEF Spec

\* Type correctness of the issue and use of access tokens.
THEOREM TypeCorrect == Spec => []TypeOK
<1>1. IInv => TypeOK
  BY DEF IInv
<1> QED
  BY <1>1, Invariance, PTL

\* A permission outlives the role that granted it by less than one access token
\* lifetime and the time the issue took (JwtStrategy, PermissionsGuard).
THEOREM AuthorityBounded == Spec => []AuthorityIsBounded
<1>1. IInv => AuthorityIsBounded
  BY AccessTTLIsPositive, MaxDelayIsNat
     DEF IInv, Age, AuthorityIsBounded, Passes, Usable, TypeOK
<1> QED
  BY <1>1, Invariance, PTL
=============================================================================
