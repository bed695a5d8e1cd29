--------------------------- MODULE UserAdminProofs ---------------------------
(***************************************************************************)
(* Theorems about UserAdmin, for every set of tenants, users and requests. *)
(*                                                                         *)
(* The argument rests on one inductive invariant, IInv.  TypeOK alone says *)
(* nothing about what a request remembers; ViewIsCurrent ties that memory  *)
(* to the directory, and Bookkeeping ties a request's stage to what it has *)
(* answered, changed and traced, and its change to what it read and was    *)
(* asked to do.                                                            *)
(***************************************************************************)
EXTENDS UserAdmin, FiniteSetTheorems, TLAPS

\* How q's stage, answer, change and trace go together.
Book(q) ==
  /\ pc[q] # "done" => reply[q] = "none" /\ trace[q] = "none"
  /\ pc[q] \notin {"audit", "done"} => effect[q] = None
  /\ pc[q] = "audit" => effect[q] # None
  /\ trace[q] # "none" => effect[q] # None
  /\ reply[q] = "ok" => effect[q] # None /\ trace[q] # "none"
  /\ reply[q] \in Refusals => effect[q] = None
  /\ effect[q] # None /\ trace[q] = "none" => pc[q] = "audit" \/ reply[q] = "error"

\* A committed change did what was asked, to what was read.
Deed(q) ==
  effect[q] # None =>
    /\ effect[q].after = call[q].role
    /\ call[q].op = "update" /\ ~overtaken[q] => effect[q].before = seen[q]

Bookkeeping == \A q \in Requests : Book(q) /\ Deed(q)

IInv == TypeOK /\ ViewIsCurrent /\ Bookkeeping

-----------------------------------------------------------------------------
(* Lemmas about the operators.                                             *)

\* A request that has been sent is one of the three kinds of call.
LEMMA CallFields ==
  ASSUME NEW c \in Call
  PROVE  /\ c.op \in {"add", "update", "remove"}
         /\ c.org \in Orgs
         /\ c.target \in Users
         /\ c.actorRole \in Roles
         /\ c.role \in RoleOrNone
         /\ c.op # "remove" => c.role \in Roles
         /\ c.op = "remove" => c.role = None
BY DEF Call, RoleOrNone

\* When more than one administrator is counted, another one is left beside
\* the target (the test adminCount <= 1 in updateMemberRole and removeMember).
LEMMA AnotherAdmin ==
  ASSUME NEW o \in Orgs, NEW u, AdminCount(o) > 1
  PROVE  \E v \in Users : v # u /\ membership[o][v] = "ORG_ADMIN"
<1>1. IsFiniteSet(Admins(o)) /\ Cardinality(Admins(o)) \in Nat
  BY FS_Subset, FS_CardinalityType, UsersAreFinite DEF Admins
<1>2. SUFFICES ASSUME Admins(o) \subseteq {u} PROVE FALSE
  BY DEF Admins
<1>3. IsFiniteSet({u}) /\ Cardinality({u}) = 1
  BY FS_Singleton
<1>4. Cardinality(Admins(o)) <= 1
  BY <1>2, <1>3, FS_Subset
<1> QED
  BY <1>1, <1>4 DEF AdminCount

-----------------------------------------------------------------------------
(* Type correctness.                                                       *)

\* Every initial state is well typed.
LEMMA InitTyped == Init => TypeOK
BY DEF Init, TypeOK, DirInit, DirTypeOK, Stages, Replies, RoleOrNone

\* The state changes shared by the actions keep the types.
LEMMA NextTyped == TypeOK /\ [Next]_vars => TypeOK'
<1> SUFFICES ASSUME TypeOK, [Next]_vars PROVE TypeOK'
  OBVIOUS
<1> USE DEF TypeOK, DirTypeOK
<1>1. ASSUME NEW r \in Requests, Send(r) PROVE TypeOK'
  <2>1. PICK c \in Call : call' = [call EXCEPT ![r] = c]
    BY <1>1 DEF Send
  <2> QED
    BY <1>1, <2>1 DEF Send, Stages, dirVars
<1>2. ASSUME NEW r \in Requests, NEW response \in Replies, Answer(r, response),
             UNCHANGED <<dirVars, roleRef>>,
             pc[r] # "idle"
      PROVE  TypeOK'
  BY <1>2 DEF Answer, Stages, dirVars
<1>3. ASSUME NEW r \in Requests, Deny(r) PROVE TypeOK'
  BY <1>2, <1>3 DEF Deny, Replies
<1>4. ASSUME NEW r \in Requests, FindAccount(r) PROVE TypeOK'
  <2>1. account[call[r].target] \in AccountStates
    BY <1>4, CallFields DEF FindAccount
  <2> QED
    BY <1>4, <2>1 DEF FindAccount, Proceed, Stages, dirVars
<1>5. ASSUME NEW r \in Requests, RejectInactive(r) PROVE TypeOK'
  BY <1>2, <1>5 DEF RejectInactive, Replies
<1>6. ASSUME NEW r \in Requests, NEW after \in RoleOrNone, Commit(r, after),
             pc[r] = "write"
      PROVE  /\ pc' \in [Requests -> Stages]
             /\ call' = call /\ seen' = seen /\ reply' = reply /\ trace' = trace
             /\ \A q \in Requests : pc'[q] # "idle" => call'[q] \in Call
             /\ effect' \in [Requests -> Change \cup {None}]
             /\ overtaken' \in [Requests -> BOOLEAN]
  <2>1. TargetRole(r) \in RoleOrNone
    BY <1>6, CallFields DEF TargetRole, RoleOrNone
  <2>2. [before |-> TargetRole(r), after |-> after] \in Change
    BY <2>1, <1>6 DEF Change
  <2> QED
    BY <1>6, <2>2 DEF Commit, Stages
<1>7. ASSUME NEW r \in Requests, Attach(r) PROVE TypeOK'
  <2>1. call[r].org \in Orgs /\ call[r].target \in Users /\ call[r].role \in Roles
    BY <1>7, CallFields DEF Attach
  <2>2. DirTypeOK' /\ roleRef' \in [Orgs -> [Users -> RoleOrNone]]
    BY <1>7, <2>1 DEF Attach, Join, RoleOrNone, AccountStates
  <2> QED
    BY <1>6, <1>7, <2>1, <2>2 DEF Attach, RoleOrNone
<1>8. ASSUME NEW r \in Requests, RejectDuplicate(r) PROVE TypeOK'
  BY <1>2, <1>8 DEF RejectDuplicate, Replies
<1>9. ASSUME NEW r \in Requests, FindMembership(r) PROVE TypeOK'
  <2>1. TargetRole(r) \in RoleOrNone
    BY <1>9, CallFields DEF FindMembership, TargetRole, RoleOrNone
  <2> QED
    BY <1>9, <2>1 DEF FindMembership, Proceed, Stages, dirVars
<1>10. ASSUME NEW r \in Requests, NotFound(r) PROVE TypeOK'
  BY <1>2, <1>10 DEF NotFound, Replies
<1>11. ASSUME NEW r \in Requests, CountAdmins(r) PROVE TypeOK'
  BY <1>11 DEF CountAdmins, Proceed, Stages, dirVars
<1>12. ASSUME NEW r \in Requests, KeepLastAdmin(r) PROVE TypeOK'
  BY <1>2, <1>12 DEF KeepLastAdmin, Replies
<1>13. ASSUME NEW r \in Requests, UpdateRole(r) PROVE TypeOK'
  <2>1. call[r].org \in Orgs /\ call[r].target \in Users /\ call[r].role \in Roles
    BY <1>13, CallFields DEF UpdateRole
  <2>2. DirTypeOK'
    BY <1>13, <2>1 DEF UpdateRole, ChangeRole
  <2> QED
    BY <1>6, <1>13, <2>1, <2>2 DEF UpdateRole, RoleOrNone
<1>14. ASSUME NEW r \in Requests, RemoveMembership(r) PROVE TypeOK'
  <2>1. call[r].org \in Orgs /\ call[r].target \in Users
    BY <1>14, CallFields DEF RemoveMembership
  <2>2. DirTypeOK' /\ roleRef' \in [Orgs -> [Users -> RoleOrNone]]
    BY <1>14, <2>1 DEF RemoveMembership, Leave, RoleOrNone
  <2> QED
    BY <1>6, <1>14, <2>2 DEF RemoveMembership, RoleOrNone
<1>15. ASSUME NEW r \in Requests, Record(r) PROVE TypeOK'
  BY <1>15 DEF Record, Stages, Replies, dirVars
<1>16. ASSUME NEW r \in Requests, Fail(r) PROVE TypeOK'
  BY <1>2, <1>16 DEF Fail, Replies
<1>17. ASSUME Operator PROVE TypeOK'
  BY <1>17 DEF Operator, SetActive, reqVars, AccountStates
<1>18. CASE UNCHANGED vars
  BY <1>18 DEF vars, reqVars, dirVars
<1> QED
  BY <1>1, <1>3, <1>4, <1>5, <1>7, <1>8, <1>9, <1>10, <1>11, <1>12, <1>13,
     <1>14, <1>15, <1>16, <1>17, <1>18 DEF Next, Handle

\* The state of every reachable state is well typed, for every set of tenants,
\* users and requests.
THEOREM TypeCorrect == Spec => []TypeOK
BY InitTyped, NextTyped, PTL DEF Spec
-----------------------------------------------------------------------------
(* What a request has read is still so.                                    *)

\* The part of ViewIsCurrent that speaks of request q.
View(q) ==
  InWindow(q) /\ call[q].op # "add" /\ ~overtaken[q] =>
    /\ seen[q] = TargetRole(q)
    /\ TakesAdmin(q, seen[q]) /\ pc[q] = "write" => AdminCount(call[q].org) > 1

\* A step that leaves the memberships and q's own record alone keeps q's view.
LEMMA ViewUndisturbed ==
  ASSUME NEW q \in Requests, View(q), UNCHANGED membership,
         pc'[q] = pc[q], call'[q] = call[q], seen'[q] = seen[q],
         overtaken'[q] = overtaken[q]
  PROVE  View(q)'
BY DEF View, InWindow, TargetRole, TakesAdmin, AdminCount, Admins

\* A request that is not between its read and its write claims nothing.
LEMMA ViewOutsideWindow ==
  ASSUME NEW q \in Requests, pc'[q] \notin {"count", "write"}
  PROVE  View(q)'
BY DEF View, InWindow

\* The answering actions end the window of r and leave the others alone.
LEMMA ViewAfterAnswer ==
  ASSUME TypeOK, NEW r \in Requests, NEW response, Answer(r, response),
         UNCHANGED membership, NEW q \in Requests, View(q)
  PROVE  View(q)'
<1>1. CASE q = r
  <2>1. pc'[q] = "done"
    BY <1>1 DEF Answer, TypeOK
  <2> QED
    BY <2>1, ViewOutsideWindow
<1>2. CASE q # r
  <2>1. pc'[q] = pc[q] /\ call'[q] = call[q] /\ seen'[q] = seen[q]
        /\ overtaken'[q] = overtaken[q]
    BY <1>2 DEF Answer, TypeOK
  <2> QED
    BY <2>1, ViewUndisturbed
<1> QED
  BY <1>1, <1>2

\* A committed write to tenant call[r].org ends the window of r, overtakes the
\* other requests of the tenant and does not concern those of other tenants.
LEMMA ViewAfterCommit ==
  ASSUME TypeOK, NEW r \in Requests, NEW after, Commit(r, after),
         pc[r] = "write",
         \A o \in Orgs : o # call[r].org => membership'[o] = membership[o],
         NEW q \in Requests, View(q)
  PROVE  View(q)'
<1>1. CASE q = r
  <2>1. pc'[q] = "audit"
    BY <1>1 DEF Commit, TypeOK
  <2> QED
    BY <2>1, ViewOutsideWindow
<1>2. CASE q # r
  <2>1. pc'[q] = pc[q] /\ call' = call /\ seen' = seen
    BY <1>2 DEF Commit, TypeOK
  <2>2. overtaken'[q] = (overtaken[q] \/ (InWindow(q) /\ call[q].org = call[r].org))
    BY <1>2 DEF Commit
  <2>3. CASE ~InWindow(q)
    BY <2>1, <2>3 DEF View, InWindow
  <2>4. CASE InWindow(q) /\ call[q].org = call[r].org
    BY <2>2, <2>4 DEF View
  <2>5. CASE InWindow(q) /\ call[q].org # call[r].org
    <3>1. call[q].org \in Orgs
      BY <2>5, CallFields DEF InWindow, TypeOK
    <3>2. membership'[call[q].org] = membership[call[q].org]
      BY <3>1, <2>5
    <3>3. AdminCount(call[q].org)' = AdminCount(call[q].org)
      BY <3>2, <2>1 DEF AdminCount, Admins
    <3>4. TargetRole(q)' = TargetRole(q) /\ overtaken'[q] = overtaken[q]
      BY <3>2, <2>1, <2>2, <2>5 DEF TargetRole, TypeOK
    <3> QED
      BY <2>1, <3>3, <3>4 DEF View, InWindow, TakesAdmin
  <2> QED
    BY <2>3, <2>4, <2>5
<1> QED
  BY <1>1, <1>2

\* ViewIsCurrent is preserved by every step from a well-typed state.
LEMMA NextKeepsView == TypeOK /\ ViewIsCurrent /\ [Next]_vars => ViewIsCurrent'
<1> SUFFICES ASSUME TypeOK, ViewIsCurrent, [Next]_vars, NEW q \in Requests
             PROVE  View(q)'
  BY DEF ViewIsCurrent, View
<1>0. View(q)
  BY DEF ViewIsCurrent, View
<1>1. ASSUME NEW r \in Requests, NEW response, Answer(r, response),
             UNCHANGED <<dirVars, roleRef>>
      PROVE  View(q)'
  BY <1>0, <1>1, ViewAfterAnswer DEF dirVars
<1>2. ASSUME NEW r \in Requests, Send(r) PROVE View(q)'
  <2>1. CASE q = r
    BY <1>2, <2>1, ViewOutsideWindow DEF Send, TypeOK
  <2>2. CASE q # r
    BY <1>0, <1>2, <2>2, ViewUndisturbed DEF Send, TypeOK, dirVars
  <2> QED
    BY <2>1, <2>2
<1>3. ASSUME NEW r \in Requests,
             Deny(r) \/ RejectInactive(r) \/ RejectDuplicate(r) \/ NotFound(r)
             \/ KeepLastAdmin(r) \/ Fail(r)
      PROVE  View(q)'
  BY <1>1, <1>3
     DEF Deny, RejectInactive, RejectDuplicate, NotFound, KeepLastAdmin, Fail
<1>4. ASSUME NEW r \in Requests, FindAccount(r) PROVE View(q)'
  <2>1. CASE q = r
    BY <1>4, <2>1 DEF FindAccount, Proceed, View, TypeOK
  <2>2. CASE q # r
    BY <1>0, <1>4, <2>2, ViewUndisturbed DEF FindAccount, Proceed, TypeOK, dirVars
  <2> QED
    BY <2>1, <2>2
<1>5. ASSUME NEW r \in Requests, FindMembership(r) PROVE View(q)'
  <2>1. CASE q = r
    <3>1. seen'[r] = TargetRole(r) /\ TargetRole(r)' = TargetRole(r)
      BY <1>5 DEF FindMembership, Proceed, TargetRole, TypeOK, dirVars
    <3>2. TakesAdmin(r, seen[r])' = TakesAdmin(r, TargetRole(r))
      BY <1>5, <3>1 DEF FindMembership, Proceed, TakesAdmin
    <3>3. pc'[r] = (IF TakesAdmin(r, TargetRole(r)) THEN "count" ELSE "write")
      BY <1>5 DEF FindMembership, Proceed, TypeOK
    <3> QED
      BY <2>1, <3>1, <3>2, <3>3 DEF View
  <2>2. CASE q # r
    BY <1>0, <1>5, <2>2, ViewUndisturbed DEF FindMembership, Proceed, TypeOK, dirVars
  <2> QED
    BY <2>1, <2>2
<1>6. ASSUME NEW r \in Requests, CountAdmins(r) PROVE View(q)'
  <2>1. CASE q = r
    BY <1>0, <1>6, <2>1
       DEF CountAdmins, Proceed, View, InWindow, TargetRole, TakesAdmin,
           AdminCount, Admins, TypeOK, dirVars
  <2>2. CASE q # r
    BY <1>0, <1>6, <2>2, ViewUndisturbed DEF CountAdmins, Proceed, TypeOK, dirVars
  <2> QED
    BY <2>1, <2>2
<1>7. ASSUME NEW r \in Requests,
             Attach(r) \/ UpdateRole(r) \/ RemoveMembership(r)
      PROVE  View(q)'
  <2>1. pc[r] = "write" /\ \E after : Commit(r, after)
    BY <1>7 DEF Attach, UpdateRole, RemoveMembership
  <2>2. \A o \in Orgs : o # call[r].org => membership'[o] = membership[o]
    BY <1>7 DEF Attach, UpdateRole, RemoveMembership, Join, ChangeRole, Leave,
                TypeOK, DirTypeOK
  <2> QED
    BY <1>0, <2>1, <2>2, ViewAfterCommit
<1>8. ASSUME NEW r \in Requests, Record(r) PROVE View(q)'
  <2>1. CASE q = r
    BY <1>8, <2>1, ViewOutsideWindow DEF Record, TypeOK
  <2>2. CASE q # r
    BY <1>0, <1>8, <2>2, ViewUndisturbed DEF Record, TypeOK, dirVars
  <2> QED
    BY <2>1, <2>2
<1>9. CASE Operator \/ UNCHANGED vars
  BY <1>0, <1>9, ViewUndisturbed DEF Operator, SetActive, vars, reqVars, dirVars
<1> QED
  BY <1>2, <1>3, <1>4, <1>5, <1>6, <1>7, <1>8, <1>9 DEF Next, Handle

\* Whatever runs beside it, a request that nobody overtook writes on a view of
\* its target, and of the tenant's administrators, that is still current.
THEOREM ViewAlwaysCurrent == Spec => []ViewIsCurrent
<1>1. Init => ViewIsCurrent
  BY DEF Init, ViewIsCurrent, InWindow
<1> QED
  BY <1>1, InitTyped, NextTyped, NextKeepsView, PTL DEF Spec

-----------------------------------------------------------------------------
(* The last administrator.                                                 *)

\* The write of a request that nobody overtook leaves an administrator, and an
\* attachment always does: this is all the code's count-then-write protects.
LEMMA WriteKeepsAnAdmin ==
  ASSUME TypeOK, ViewIsCurrent, NEW r \in Requests, NEW o \in Orgs,
         Attach(r) \/ UpdateRole(r) \/ RemoveMembership(r),
         Admins(o) # {},
         ~(call[r].org = o /\ overtaken[r])
  PROVE  Admins(o)' # {}
<1>1. pc[r] = "write" /\ call[r] \in Call
  BY DEF Attach, UpdateRole, RemoveMembership, TypeOK
<1>2. call[r].org \in Orgs /\ call[r].target \in Users
  BY <1>1, CallFields
<1>3. CASE o # call[r].org
  BY <1>2, <1>3 DEF Attach, UpdateRole, RemoveMembership, Join, ChangeRole, Leave,
                    Admins, TypeOK, DirTypeOK
<1>4. CASE Attach(r)
  <2>1. PICK v \in Users : membership[o][v] = "ORG_ADMIN"
    BY DEF Admins
  <2>2. "ORG_ADMIN" # None
    BY NoneIsNoRole DEF Roles
  <2>3. membership'[o][v] = "ORG_ADMIN"
    BY <1>2, <1>4, <2>1, <2>2 DEF Attach, Join, IsMember, TypeOK, DirTypeOK
  <2> QED
    BY <2>3 DEF Admins
<1>5. CASE /\ o = call[r].org /\ ~overtaken[r]
           /\ UpdateRole(r) \/ RemoveMembership(r)
  <2>1. /\ seen[r] = TargetRole(r)
        /\ TakesAdmin(r, seen[r]) => AdminCount(o) > 1
    BY <1>1, <1>5 DEF ViewIsCurrent, InWindow, UpdateRole, RemoveMembership
  <2>2. membership'[o] = [membership[o] EXCEPT ![call[r].target] = call[r].role]
    BY <1>1, <1>2, <1>5, CallFields
       DEF UpdateRole, RemoveMembership, ChangeRole, Leave, TypeOK, DirTypeOK
  <2>3. CASE TakesAdmin(r, TargetRole(r))
    <3>1. PICK v \in Users : v # call[r].target /\ membership[o][v] = "ORG_ADMIN"
      BY <2>1, <2>3, AnotherAdmin
    <3>2. membership'[o][v] = "ORG_ADMIN"
      BY <1>2, <2>2, <3>1 DEF TypeOK, DirTypeOK
    <3> QED
      BY <3>2 DEF Admins
  <2>4. CASE ~TakesAdmin(r, TargetRole(r))
    <3>1. PICK v \in Users : membership[o][v] = "ORG_ADMIN"
      BY DEF Admins
    <3>2. membership'[o][v] = "ORG_ADMIN"
      BY <1>2, <1>5, <2>2, <2>4, <3>1 DEF TakesAdmin, TargetRole, TypeOK, DirTypeOK
    <3> QED
      BY <3>2 DEF Admins
  <2> QED
    BY <2>3, <2>4
<1> QED
  BY <1>3, <1>4, <1>5

\* A tenant loses its last administrator only to a request that another
\* request of the tenant overtook between its check and its write.
THEOREM LastAdminSafe == Spec => LastAdminLostOnlyByOvertaking
<1> DEFINE Rule ==
      \A o \in Orgs :
        Admins(o) # {} /\ Admins(o)' = {} =>
          \E r \in Requests : /\ pc[r] = "write" /\ pc'[r] = "audit"
                              /\ call[r].org = o
                              /\ overtaken[r]
<1>1. ASSUME TypeOK, ViewIsCurrent, [Next]_vars PROVE [Rule]_vars
  <2> SUFFICES ASSUME NEW o \in Orgs, Admins(o) # {}, Admins(o)' = {}
               PROVE  \E r \in Requests : /\ pc[r] = "write" /\ pc'[r] = "audit"
                                          /\ call[r].org = o
                                          /\ overtaken[r]
    OBVIOUS
  <2>1. membership' # membership
    BY DEF Admins
  <2>2. PICK r \in Requests : Attach(r) \/ UpdateRole(r) \/ RemoveMembership(r)
    BY <1>1, <2>1
       DEF Next, Handle, vars, dirVars, Send, Deny, FindAccount, RejectInactive,
           RejectDuplicate, FindMembership, NotFound, CountAdmins, KeepLastAdmin,
           Record, Fail, Operator, SetActive
  <2>3. call[r].org = o /\ overtaken[r]
    BY <1>1, <2>2, WriteKeepsAnAdmin
  <2>4. pc[r] = "write" /\ pc'[r] = "audit"
    BY <1>1, <2>2 DEF Attach, UpdateRole, RemoveMembership, Commit, TypeOK
  <2> QED
    BY <2>3, <2>4
<1> QED
  BY <1>1, TypeCorrect, ViewAlwaysCurrent, PTL
     DEF Spec, LastAdminLostOnlyByOvertaking
-----------------------------------------------------------------------------
(* Answers, changes and the audit trail.                                   *)

\* A step that leaves q's own record alone keeps its books.
LEMMA BookUndisturbed ==
  ASSUME NEW q \in Requests, Book(q), Deed(q),
         pc'[q] = pc[q], call'[q] = call[q], seen'[q] = seen[q],
         reply'[q] = reply[q], trace'[q] = trace[q], effect'[q] = effect[q],
         overtaken[q] => overtaken'[q]
  PROVE  Book(q)' /\ Deed(q)'
BY DEF Book, Deed

\* An answer given before anything was changed, or the answer "error".
LEMMA BookAfterAnswer ==
  ASSUME TypeOK, NEW r \in Requests, NEW response \in Refusals \cup {"error"},
         Answer(r, response),
         pc[r] # "done",
         response = "error" \/ pc[r] # "audit",
         NEW q \in Requests, Book(q), Deed(q)
  PROVE  Book(q)' /\ Deed(q)'
<1>1. CASE q = r
  <2>1. /\ pc'[r] = "done" /\ reply'[r] = response
        /\ UNCHANGED <<call, seen, trace, effect, overtaken>>
    BY DEF Answer, TypeOK
  <2> QED
    BY <1>1, <2>1 DEF Book, Deed, Refusals
<1>2. CASE q # r
  BY <1>2, BookUndisturbed DEF Answer, TypeOK
<1> QED
  BY <1>1, <1>2

\* A commit records its own change; the others are at most marked overtaken.
LEMMA BookAfterCommit ==
  ASSUME TypeOK, ViewIsCurrent, NEW r \in Requests, Commit(r, call[r].role),
         pc[r] = "write",
         NEW q \in Requests, Book(q), Deed(q)
  PROVE  Book(q)' /\ Deed(q)'
<1>1. CASE q = r
  <2>1. pc'[r] = "audit" /\ UNCHANGED <<call, seen, reply, trace>>
    BY DEF Commit, TypeOK
  <2>2. effect'[r] = [before |-> TargetRole(r), after |-> call[r].role]
    BY DEF Commit, TypeOK
  <2>3. overtaken'[r] = overtaken[r]
    BY DEF Commit, TypeOK
  <2>4. call[r].op = "update" /\ ~overtaken[r] => seen[r] = TargetRole(r)
    BY DEF ViewIsCurrent, InWindow
  <2>5. effect'[r] # None
    <3>1. TargetRole(r) \in RoleOrNone /\ call[r].role \in RoleOrNone
      BY CallFields DEF TypeOK, DirTypeOK, TargetRole, RoleOrNone
    <3>2. effect'[r] \in Change
      BY <2>2, <3>1 DEF Change
    <3> QED
      BY <3>2, NoneIsNoChange
  <2>6. Book(r)'
    BY <1>1, <2>1, <2>5 DEF Book, Refusals
  <2>7. Deed(r)'
    BY <2>1, <2>2, <2>3, <2>4 DEF Deed
  <2> QED
    BY <1>1, <2>6, <2>7
<1>2. CASE q # r
  <2>1. overtaken[q] => overtaken'[q]
    BY DEF Commit
  <2> QED
    BY <1>2, <2>1, BookUndisturbed DEF Commit, TypeOK
<1> QED
  BY <1>1, <1>2

\* Bookkeeping is preserved by every step from a state satisfying IInv.
LEMMA NextKeepsBooks == IInv /\ [Next]_vars => Bookkeeping'
<1> SUFFICES ASSUME IInv, [Next]_vars, NEW q \in Requests
             PROVE  Book(q)' /\ Deed(q)'
  BY DEF Bookkeeping
<1>0. TypeOK /\ ViewIsCurrent /\ Book(q) /\ Deed(q)
  BY DEF IInv, Bookkeeping
<1>1. ASSUME NEW r \in Requests,
             Deny(r) \/ RejectInactive(r) \/ RejectDuplicate(r) \/ NotFound(r)
             \/ KeepLastAdmin(r) \/ Fail(r)
      PROVE  Book(q)' /\ Deed(q)'
  <2>1. PICK response \in Refusals \cup {"error"} :
          /\ Answer(r, response)
          /\ pc[r] # "done"
          /\ response = "error" \/ pc[r] # "audit"
    BY <1>1 DEF Deny, RejectInactive, RejectDuplicate, NotFound, KeepLastAdmin,
                Fail, Refusals
  <2> QED
    BY <1>0, <2>1, BookAfterAnswer
<1>2. ASSUME NEW r \in Requests,
             Send(r) \/ FindAccount(r) \/ FindMembership(r) \/ CountAdmins(r)
      PROVE  Book(q)' /\ Deed(q)'
  <2>1. CASE q = r
    <3>1. pc[r] \notin {"audit", "done"} /\ pc'[r] \notin {"audit", "done"}
          /\ UNCHANGED <<reply, trace, effect>>
      BY <1>0, <1>2 DEF Send, FindAccount, FindMembership, CountAdmins, Proceed, TypeOK
    <3> QED
      BY <1>0, <2>1, <3>1 DEF Book, Deed, Refusals
  <2>2. CASE q # r
    BY <1>0, <1>2, <2>2, BookUndisturbed
       DEF Send, FindAccount, FindMembership, CountAdmins, Proceed, TypeOK
  <2> QED
    BY <2>1, <2>2
<1>3. ASSUME NEW r \in Requests,
             Attach(r) \/ UpdateRole(r) \/ RemoveMembership(r)
      PROVE  Book(q)' /\ Deed(q)'
  <2>1. pc[r] = "write" /\ Commit(r, call[r].role)
    BY <1>0, <1>3, CallFields DEF Attach, UpdateRole, RemoveMembership, TypeOK
  <2> QED
    BY <1>0, <2>1, BookAfterCommit
<1>4. ASSUME NEW r \in Requests, Record(r) PROVE Book(q)' /\ Deed(q)'
  <2>1. CASE q = r
    <3>1. /\ pc'[r] = "done" /\ reply'[r] = "ok" /\ trace'[r] \in {"stored", "logged"}
          /\ pc[r] = "audit" /\ UNCHANGED <<call, seen, effect, overtaken>>
      BY <1>0, <1>4 DEF Record, TypeOK
    <3> QED
      BY <1>0, <2>1, <3>1 DEF Book, Deed, Refusals
  <2>2. CASE q # r
    BY <1>0, <1>4, <2>2, BookUndisturbed DEF Record, TypeOK
  <2> QED
    BY <2>1, <2>2
<1>5. CASE Operator \/ UNCHANGED vars
  BY <1>0, <1>5, BookUndisturbed DEF Operator, vars, reqVars
<1> QED
  BY <1>1, <1>2, <1>3, <1>4, <1>5 DEF Next, Handle

\* IInv holds in every reachable state.
THEOREM Invariance == Spec => []IInv
<1>1. Init => IInv
  <2>1. Init => ViewIsCurrent
    BY DEF Init, ViewIsCurrent, InWindow
  <2>2. Init => Bookkeeping
    BY DEF Init, Bookkeeping, Book, Deed, Refusals
  <2> QED
    BY <2>1, <2>2, InitTyped DEF IInv
<1>2. IInv /\ [Next]_vars => IInv'
  BY NextTyped, NextKeepsView, NextKeepsBooks DEF IInv
<1> QED
  BY <1>1, <1>2, PTL DEF Spec

\* Every audit event is about a change that was committed as it says.
THEOREM AuditTruthful == Spec => []AuditIsTruthful
<1>1. IInv => AuditIsTruthful
  BY DEF IInv, Bookkeeping, Book, Deed, AuditIsTruthful
<1> QED
  BY <1>1, Invariance, PTL

\* "ok" means changed and traced; a refusal means nothing was changed.
THEOREM AnswersTruthful == Spec => []AnswersMatchEffects
<1>1. IInv => AnswersMatchEffects
  BY DEF IInv, Bookkeeping, Book, AnswersMatchEffects
<1> QED
  BY <1>1, Invariance, PTL

-----------------------------------------------------------------------------
(* Joins and removals alternate.                                           *)

\* Effective requests are counted in a finite set.
LEMMA EffectiveFinite ==
  ASSUME NEW op, NEW o, NEW u
  PROVE  /\ IsFiniteSet(Effective(op, o, u))
         /\ Cardinality(Effective(op, o, u)) \in Nat
BY RequestsAreFinite, FS_Subset, FS_CardinalityType DEF Effective

\* A commit adds its request to the effective ones of its own kind, tenant and
\* target, and to no others.
LEMMA EffectiveAfterCommit ==
  ASSUME TypeOK, NEW r \in Requests, NEW after, Commit(r, after),
         after \in RoleOrNone, pc[r] = "write", effect[r] = None,
         NEW op, NEW o, NEW u
  PROVE  Cardinality(Effective(op, o, u)') =
           Cardinality(Effective(op, o, u))
             + (IF call[r].op = op /\ call[r].org = o /\ call[r].target = u
                THEN 1 ELSE 0)
<1>1. effect'[r] # None
  <2>1. TargetRole(r) \in RoleOrNone
    BY CallFields DEF TypeOK, DirTypeOK, TargetRole, RoleOrNone
  <2>2. effect'[r] \in Change
    BY <2>1 DEF Commit, Change, TypeOK
  <2> QED
    BY <2>2, NoneIsNoChange
<1>2. \A q \in Requests : q # r => effect'[q] = effect[q]
  BY DEF Commit, TypeOK
<1>3. call' = call
  BY DEF Commit
<1>4. CASE call[r].op = op /\ call[r].org = o /\ call[r].target = u
  <2>1. Effective(op, o, u)' = Effective(op, o, u) \cup {r}
    BY <1>1, <1>2, <1>3, <1>4 DEF Effective
  <2>2. r \notin Effective(op, o, u)
    BY DEF Effective
  <2>3. IsFiniteSet(Effective(op, o, u))
    BY EffectiveFinite
  <2>4. Cardinality(Effective(op, o, u) \cup {r}) = Cardinality(Effective(op, o, u)) + 1
    BY <2>2, <2>3, FS_AddElement
  <2> QED
    BY <1>4, <2>1, <2>4
<1>5. CASE ~(call[r].op = op /\ call[r].org = o /\ call[r].target = u)
  <2>1. Effective(op, o, u)' = Effective(op, o, u)
    BY <1>2, <1>3, <1>5 DEF Effective
  <2>2. Cardinality(Effective(op, o, u)) \in Nat
    BY EffectiveFinite
  <2> QED
    BY <1>5, <2>1, <2>2
<1> QED
  BY <1>4, <1>5

\* Every step from a state satisfying IInv keeps the alternation.
LEMMA NextAlternates ==
  IInv /\ JoinsAndRemovalsAlternate /\ [Next]_vars => JoinsAndRemovalsAlternate'
<1> SUFFICES ASSUME IInv, [Next]_vars, NEW o \in Orgs, NEW u \in Users,
                    Alternate(o, u)
             PROVE  Alternate(o, u)'
  BY DEF JoinsAndRemovalsAlternate
<1>0. TypeOK /\ \A q \in Requests : Book(q)
  BY DEF IInv, Bookkeeping
<1>1. ASSUME NEW r \in Requests, Attach(r) \/ UpdateRole(r) \/ RemoveMembership(r)
      PROVE  Alternate(o, u)'
  <2> DEFINE joins == Cardinality(Effective("add", o, u))
             removals == Cardinality(Effective("remove", o, u))
             mine(op) == call[r].op = op /\ call[r].org = o /\ call[r].target = u
  <2>1. /\ call[r].org \in Orgs /\ call[r].target \in Users
        /\ call[r].op # "remove" => call[r].role \in Roles
        /\ pc[r] = "write" /\ effect[r] = None
        /\ Commit(r, call[r].role) /\ call[r].role \in RoleOrNone
    BY <1>0, <1>1, CallFields
       DEF Attach, UpdateRole, RemoveMembership, TypeOK, Book
  <2>2. /\ joins \in Nat /\ removals \in Nat
        /\ joins' = joins + (IF mine("add") THEN 1 ELSE 0)
        /\ removals' = removals + (IF mine("remove") THEN 1 ELSE 0)
    BY <1>0, <2>1, EffectiveFinite, EffectiveAfterCommit
  <2>3. CASE mine("add")
    <3>1. ~IsMember(o, u) /\ IsMember(o, u)'
      BY <1>0, <1>1, <2>1, <2>3, NoneIsNoRole
         DEF Attach, UpdateRole, RemoveMembership, Join, IsMember, TypeOK, DirTypeOK
    <3>2. removals - joins \in {0, 1} /\ joins' = joins + 1 /\ removals' = removals
      BY <2>2, <2>3, <3>1 DEF Alternate
    <3>3. joins' - removals' \in {0, 1}
      BY <2>2, <3>2
    <3> QED
      BY <3>1, <3>3 DEF Alternate
  <2>4. CASE mine("remove")
    <3>1. IsMember(o, u) /\ ~IsMember(o, u)'
      BY <1>0, <1>1, <2>1, <2>4
         DEF Attach, UpdateRole, RemoveMembership, Leave, IsMember, TypeOK, DirTypeOK
    <3>2. joins - removals \in {0, 1} /\ joins' = joins /\ removals' = removals + 1
      BY <2>2, <2>4, <3>1 DEF Alternate
    <3>3. removals' - joins' \in {0, 1}
      BY <2>2, <3>2
    <3> QED
      BY <3>1, <3>3 DEF Alternate
  <2>5. CASE ~mine("add") /\ ~mine("remove")
    <3>1. IsMember(o, u)' = IsMember(o, u)
      BY <1>0, <1>1, <2>1, <2>5, NoneIsNoRole
         DEF Attach, UpdateRole, RemoveMembership, Join, ChangeRole, Leave,
             IsMember, TypeOK, DirTypeOK
    <3>2. joins' = joins /\ removals' = removals
      BY <2>2, <2>5
    <3> QED
      BY <3>1, <3>2 DEF Alternate
  <2> QED
    BY <2>3, <2>4, <2>5
<1>2. ASSUME UNCHANGED membership, UNCHANGED effect,
             \A q \in Requests : effect[q] # None => call'[q] = call[q]
      PROVE  Alternate(o, u)'
  <2>1. \A op : Effective(op, o, u)' = Effective(op, o, u)
    BY <1>2 DEF Effective
  <2>2. IsMember(o, u)' = IsMember(o, u)
    BY <1>2 DEF IsMember
  <2> QED
    BY <2>1, <2>2 DEF Alternate
<1>3. ASSUME NEW r \in Requests, Send(r) PROVE Alternate(o, u)'
  <2>1. effect[r] = None
    BY <1>0, <1>3 DEF Send, Book
  <2> QED
    BY <1>0, <1>2, <1>3, <2>1 DEF Send, dirVars, TypeOK
<1>4. ASSUME NEW r \in Requests,
             Deny(r) \/ FindAccount(r) \/ RejectInactive(r) \/ RejectDuplicate(r)
             \/ FindMembership(r) \/ NotFound(r) \/ CountAdmins(r)
             \/ KeepLastAdmin(r) \/ Record(r) \/ Fail(r)
      PROVE  Alternate(o, u)'
  BY <1>2, <1>4
     DEF Deny, FindAccount, RejectInactive, RejectDuplicate, FindMembership,
         NotFound, CountAdmins, KeepLastAdmin, Record, Fail, Answer, Proceed, dirVars
<1>5. CASE Operator \/ UNCHANGED vars
  BY <1>2, <1>5 DEF Operator, SetActive, vars, reqVars
<1> QED
  BY <1>1, <1>3, <1>4, <1>5 DEF Next, Handle

\* Of the requests racing to add or to remove one user, the effective ones
\* take turns: no membership is created twice or removed twice.
THEOREM Alternation == Spec => []JoinsAndRemovalsAlternate
<1>1. Init => JoinsAndRemovalsAlternate
  <2> SUFFICES ASSUME Init, NEW o \in Orgs, NEW u \in Users PROVE Alternate(o, u)
    BY DEF JoinsAndRemovalsAlternate
  <2>1. \A op : Effective(op, o, u) = {}
    BY DEF Init, Effective
  <2>2. Cardinality(Effective("add", o, u)) = 0
        /\ Cardinality(Effective("remove", o, u)) = 0
    BY <2>1, FS_EmptySet
  <2> QED
    BY <2>2 DEF Alternate
<1> QED
  BY <1>1, Invariance, NextAlternates, PTL DEF Spec

-----------------------------------------------------------------------------
(* Role rows.                                                              *)

\* A step that leaves both tables and all changes made alone leaves the lag.
LEMMA LagUndisturbed ==
  ASSUME NEW o \in Orgs, NEW u \in Users, LagsBehindUpdate(o, u),
         membership'[o][u] = membership[o][u], roleRef'[o][u] = roleRef[o][u],
         \A q \in Requests : effect[q] # None =>
           effect'[q] = effect[q] /\ call'[q] = call[q]
  PROVE  LagsBehindUpdate(o, u)'
<1>1. \A q \in Effective("update", o, u) :
        q \in Effective("update", o, u)' /\ effect'[q] = effect[q]
  BY DEF Effective
<1> QED
  BY <1>1 DEF LagsBehindUpdate, IsMember

\* The write of r to its own target: joining and leaving set both columns, an
\* update the role alone.
LEMMA LagAfterWrite ==
  ASSUME IInv, NEW r \in Requests, Attach(r) \/ UpdateRole(r) \/ RemoveMembership(r),
         NEW o, NEW u, o = call[r].org, u = call[r].target, LagsBehindUpdate(o, u)
  PROVE  LagsBehindUpdate(o, u)'
<1>0. TypeOK /\ DirTypeOK /\ Book(r)
  BY DEF IInv, Bookkeeping, TypeOK
<1>1. /\ call[r] \in Call /\ o \in Orgs /\ u \in Users /\ call[r].role \in RoleOrNone
      /\ call[r].op # "remove" => call[r].role \in Roles
      /\ call' = call
  BY <1>0, CallFields DEF Attach, UpdateRole, RemoveMembership, Commit, TypeOK
<1>2. CASE Attach(r) \/ RemoveMembership(r)
  <2>1. roleRef'[o][u] = membership'[o][u]
    BY <1>0, <1>1, <1>2 DEF Attach, RemoveMembership, Join, Leave, TypeOK, DirTypeOK
  <2> QED
    BY <1>1, <2>1 DEF LagsBehindUpdate, IsMember
<1>3. CASE UpdateRole(r)
  <2>1. /\ IsMember(o, u) /\ membership'[o][u] = call[r].role
        /\ roleRef' = roleRef /\ call[r].role \in Roles /\ call[r].op = "update"
    BY <1>0, <1>1, <1>3 DEF UpdateRole, ChangeRole, TypeOK, DirTypeOK
  <2>2. effect'[r] = [before |-> TargetRole(r), after |-> call[r].role]
    BY <1>0, <1>3 DEF UpdateRole, Commit, TypeOK
  <2>3. effect'[r] # None /\ effect'[r].after = call[r].role
    <3>1. TargetRole(r) \in RoleOrNone
      BY <1>0, <1>1 DEF TargetRole, DirTypeOK, RoleOrNone
    <3>2. effect'[r] \in Change
      BY <1>1, <2>2, <3>1 DEF Change
    <3> QED
      BY <2>2, <3>2, NoneIsNoChange
  <2>4. r \in Effective("update", o, u)'
    BY <1>1, <2>1, <2>3 DEF Effective
  <2>5. IsMember(o, u)'
    BY <2>1, NoneIsNoRole DEF IsMember
  <2> QED
    BY <1>1, <2>1, <2>3, <2>4, <2>5 DEF LagsBehindUpdate
<1> QED
  BY <1>2, <1>3

\* Every step keeps the lag of every member explained.
LEMMA NextKeepsLag ==
  IInv /\ RoleIdLagsOnlyBehindUpdates /\ [Next]_vars => RoleIdLagsOnlyBehindUpdates'
<1> SUFFICES ASSUME IInv, [Next]_vars, NEW o \in Orgs, NEW u \in Users,
                    LagsBehindUpdate(o, u)
             PROVE  LagsBehindUpdate(o, u)'
  BY DEF RoleIdLagsOnlyBehindUpdates
<1>0. TypeOK /\ DirTypeOK /\ \A q \in Requests : Book(q)
  BY DEF IInv, Bookkeeping, TypeOK
<1>1. ASSUME NEW r \in Requests, Attach(r) \/ UpdateRole(r) \/ RemoveMembership(r)
      PROVE  LagsBehindUpdate(o, u)'
  <2>1. /\ call[r].org \in Orgs /\ call[r].target \in Users
        /\ effect[r] = None /\ call' = call
    BY <1>0, <1>1, CallFields
       DEF Attach, UpdateRole, RemoveMembership, Commit, TypeOK, Book
  <2>2. CASE o = call[r].org /\ u = call[r].target
    BY <1>1, <2>2, LagAfterWrite
  <2>3. CASE ~(o = call[r].org /\ u = call[r].target)
    <3>1. membership'[o][u] = membership[o][u] /\ roleRef'[o][u] = roleRef[o][u]
      BY <1>0, <1>1, <2>1, <2>3
         DEF Attach, UpdateRole, RemoveMembership, Join, ChangeRole, Leave, TypeOK,
             DirTypeOK
    <3>2. \A q \in Requests : effect[q] # None => effect'[q] = effect[q]
      BY <1>0, <1>1, <2>1
         DEF Attach, UpdateRole, RemoveMembership, Commit, TypeOK
    <3> QED
      BY <2>1, <3>1, <3>2, LagUndisturbed
  <2> QED
    BY <2>2, <2>3
<1>2. ASSUME NEW r \in Requests, Send(r) PROVE LagsBehindUpdate(o, u)'
  <2>1. effect[r] = None
    BY <1>0, <1>2 DEF Send, Book
  <2>2. \A q \in Requests : effect[q] # None => effect'[q] = effect[q] /\ call'[q] = call[q]
    BY <1>0, <1>2, <2>1 DEF Send, TypeOK
  <2> QED
    BY <1>2, <2>2, LagUndisturbed DEF Send, dirVars
<1>3. ASSUME NEW r \in Requests,
             Deny(r) \/ FindAccount(r) \/ RejectInactive(r) \/ RejectDuplicate(r)
             \/ FindMembership(r) \/ NotFound(r) \/ CountAdmins(r)
             \/ KeepLastAdmin(r) \/ Record(r) \/ Fail(r)
      PROVE  LagsBehindUpdate(o, u)'
  <2>1. UNCHANGED <<membership, roleRef, call, effect>>
    BY <1>3
       DEF Deny, FindAccount, RejectInactive, RejectDuplicate, FindMembership,
           NotFound, CountAdmins, KeepLastAdmin, Record, Fail, Answer, Proceed, dirVars
  <2> QED
    BY <2>1, LagUndisturbed
<1>4. CASE Operator \/ UNCHANGED vars
  <2>1. UNCHANGED <<membership, roleRef, call, effect>>
    BY <1>4 DEF Operator, SetActive, vars, reqVars
  <2> QED
    BY <2>1, LagUndisturbed
<1> QED
  BY <1>1, <1>2, <1>3, <1>4 DEF Next, Handle

\* role_id names another role's row only where updateMemberRole has changed the
\* role, whatever requests race.
THEOREM RoleIdLags == Spec => []RoleIdLagsOnlyBehindUpdates
<1>1. Init => RoleIdLagsOnlyBehindUpdates
  BY DEF Init, RoleIdLagsOnlyBehindUpdates, LagsBehindUpdate, IsMember
<1> QED
  BY <1>1, Invariance, NextKeepsLag, PTL DEF Spec
=============================================================================
