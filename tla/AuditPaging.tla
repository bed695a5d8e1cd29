----------------------------- MODULE AuditPaging -----------------------------
(***************************************************************************)
(* GET /audit/events: a client walks a tenant's trail, newest event first, *)
(* following nextCursor, while handlers go on recording events.  An event  *)
(* gets its created_at when its insertion begins and can be read when the  *)
(* insertion is committed, so it may appear behind the walk.  Rows are     *)
(* ordered by created_at alone: rows of one time come in any order, and    *)
(* each query may choose another.                                          *)
(*                                                                         *)
(* began, before and got are history variables: no guard reads them.       *)
(***************************************************************************)
EXTENDS Naturals, FiniteSets

CONSTANTS
  Events,      \* the events handlers record, each once
  Tenants,     \* the tenants; Reader is the one of the client's token
  Reader,
  Limits,      \* page sizes the client asks for
  MaxTime,     \* bound: the clock's last reading
  None         \* null

ASSUME ReaderIsTenant == Reader \in Tenants
ASSUME LimitsArePositive == Limits \subseteq Nat \ {0}
ASSUME MaxTimeIsNat == MaxTime \in Nat
ASSUME EventsAreFinite == IsFiniteSet(Events)
ASSUME NoneIsNothing == None \notin Tenants \cup Events

VARIABLES
  now,       \* the clock that gives created_at
  state,     \* state[e]: not begun, being inserted, in the table or lost
  stamp,     \* stamp[e]: its created_at
  tenant,    \* tenant[e]: its organization_id; a failed login has none
  walking,   \* a walk is under way
  cursor,    \* the cursor of its next request, None for the first
  began,     \* history: the time of the walk's first page
  before,    \* history: the tenant's events in the table at that moment
  got        \* history: how often the walk has shown e (2 is "repeatedly")

tableVars == <<now, state, stamp, tenant>>
walkVars == <<walking, cursor, began, before, got>>
vars == <<tableVars, walkVars>>

States == {"none", "inserting", "stored", "lost"}

TypeOK ==
  /\ now \in 0..MaxTime
  /\ state \in [Events -> States]
  /\ stamp \in [Events -> 0..MaxTime]
  /\ tenant \in [Events -> Tenants \cup {None}]
  /\ walking \in BOOLEAN
  /\ cursor \in Events \cup {None}
  /\ began \in 0..MaxTime
  /\ before \subseteq Events
  /\ got \in [Events -> 0..2]
  /\ cursor # None => walking /\ state[cursor] = "stored" /\ tenant[cursor] = Reader

-----------------------------------------------------------------------------
\* Mutant: the tenant is not in the where clause.
StoredRows == {e \in Events : state[e] = "stored"}

\* where: { organizationId }.
Rows == {e \in Events : state[e] = "stored" /\ tenant[e] = Reader}

Tied(e) == \E f \in Rows \ {e} : stamp[f] = stamp[e]

\* What n rows "order by created_at desc" may yield of S.
Newest(S, n) ==
  {T \in SUBSET S :
     /\ Cardinality(T) = IF Cardinality(S) < n THEN Cardinality(S) ELSE n
     /\ \A e \in T, f \in S \ T : stamp[e] >= stamp[f]}

Older == {e \in Rows : stamp[e] < stamp[cursor]}
OfItsTime == {e \in Rows : stamp[e] = stamp[cursor]}

\* Mutant: the cursor is not passed on.
IgnoreCursor == {Rows}

\* The rows behind the cursor, skip 1: all older ones, and of those of its time
\* any but one or more, which with equal times need not be the cursor itself.
AfterCursor ==
  IF cursor = None THEN {Rows}
  ELSE {Older \cup S : S \in (SUBSET OfItsTime) \ {OfItsTime}}

\* Last of a page: the one its order puts at the end.
LastOf(page) == {e \in page : \A f \in page : stamp[e] <= stamp[f]}

-----------------------------------------------------------------------------
\* AuditService.record calls create: created_at is now.
BeginInsert(e) ==
  /\ state[e] = "none"
  /\ state' = [state EXCEPT ![e] = "inserting"]
  /\ stamp' = [stamp EXCEPT ![e] = now]
  /\ \E o \in Tenants \cup {None} : tenant' = [tenant EXCEPT ![e] = o]
  /\ UNCHANGED <<now, walkVars>>

\* The insertion is committed, or rejected and logged.
EndInsert(e) ==
  /\ state[e] = "inserting"
  /\ \E s \in {"stored", "lost"} : state' = [state EXCEPT ![e] = s]
  /\ UNCHANGED <<now, stamp, tenant, walkVars>>

Tick ==
  /\ now < MaxTime
  /\ now' = now + 1
  /\ UNCHANGED <<state, stamp, tenant, walkVars>>

\* A client starts at the newest event.
StartWalk ==
  /\ ~walking
  /\ walking' = TRUE
  /\ cursor' = None
  /\ got' = [e \in Events |-> 0]
  /\ before' = {}
  /\ UNCHANGED <<tableVars, began>>

\* Mutant: the cursor is the last row fetched, not the last one shown.
CursorPastPage(rows, page, limit) ==
  IF Cardinality(rows) > limit THEN LastOf(rows) ELSE {None}

\* nextCursor.
NextCursor(rows, page, limit) ==
  IF Cardinality(rows) > limit THEN LastOf(page) ELSE {None}

\* AuditController.list: limit + 1 rows are fetched, the page is the first
\* limit of them, and one more tells that there is a next page.
List ==
  /\ walking
  /\ \E limit \in Limits :
     \E after \in AfterCursor :
     \E rows \in Newest(after, limit + 1) :
     \E page \in Newest(rows, limit) :
     \E next \in NextCursor(rows, page, limit) :
       /\ got' = [e \in Events |->
                    IF e \in page /\ got[e] < 2 THEN got[e] + 1 ELSE got[e]]
       /\ cursor' = next
       /\ walking' = (next # None)
  /\ IF cursor = None THEN began' = now /\ before' = Rows
                      ELSE UNCHANGED <<began, before>>
  /\ UNCHANGED tableVars

Init ==
  /\ now = 0
  /\ state = [e \in Events |-> "none"]
  /\ stamp = [e \in Events |-> 0]
  /\ tenant = [e \in Events |-> None]
  /\ walking = FALSE
  /\ cursor = None
  /\ began = 0
  /\ before = {}
  /\ got = [e \in Events |-> 0]

Next ==
  \/ \E e \in Events : BeginInsert(e) \/ EndInsert(e)
  \/ Tick
  \/ StartWalk
  \/ List

\* A client that has started a walk asks for the next page; no one has to
\* record events, and time need not pass.
Spec == Init /\ [][Next]_vars /\ WF_vars(List)

-----------------------------------------------------------------------------
(* Properties                                                              *)

\* While events are appended, also behind the cursor, a walk shows each event
\* that was in the table when it began exactly once, and no event twice; the
\* exception are events with the created_at of another one, which the order
\* does not tell apart.
WalkShowsEachOnce ==
  \A e \in Events : ~Tied(e) =>
    /\ got[e] < 2
    /\ ~walking /\ e \in before => got[e] = 1

\* A walk shows nothing but the tenant's own events, and none that happened
\* after its first page.
WalkShowsThePast ==
  \A e \in Events : got[e] > 0 =>
    tenant[e] = Reader /\ stamp[e] <= began

\* A walk comes to an end however many events are recorded meanwhile, unless
\* some have the same time.
WalkEnds == walking ~> (~walking \/ \E e \in Rows : Tied(e))
=============================================================================
