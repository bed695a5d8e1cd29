-------------------------- MODULE AuditPagingProofs --------------------------
(***************************************************************************)
(* Theorems about AuditPaging, for any number of events and tenants and    *)
(* every page size.                                                        *)
(*                                                                         *)
(* The argument: the table only grows and a stored event keeps its time,   *)
(* so two events that are told apart by their times stay so only if they   *)
(* were before (TiedStays).  The cursor divides the events: what was there *)
(* when the walk began and is not older than the cursor has been shown     *)
(* once, what is older has not been shown yet (Divided).                   *)
(***************************************************************************)
EXTENDS AuditPaging, FiniteSetTheorems, TLAPS

\* What has been shown is there, and what was there at the first page too.
Recorded ==
  /\ \A e \in Events : stamp[e] <= now
  /\ \A e \in Events : got[e] > 0 => e \in Rows /\ stamp[e] <= began
  /\ before \subseteq Rows

\* Before the first page nothing has been shown.
Fresh == walking /\ cursor = None => before = {} /\ \A e \in Events : got[e] = 0

\* Between two pages.
Divided ==
  walking /\ cursor # None =>
    /\ stamp[cursor] <= began
    /\ \A e \in Events : got[e] > 0 => stamp[e] >= stamp[cursor]
    /\ \A e \in before : ~Tied(e) /\ stamp[e] >= stamp[cursor] => got[e] = 1

\* After the last one.
Finished == ~walking => \A e \in before : ~Tied(e) => got[e] = 1

Once == \A e \in Events : ~Tied(e) => got[e] < 2

WalkInv == Fresh /\ Divided /\ Finished /\ Once

IInv == TypeOK /\ Recorded /\ WalkInv

-----------------------------------------------------------------------------
LEMMA InitInv == Init => IInv
<1> SUFFICES ASSUME Init PROVE IInv
  OBVIOUS
<1>1. TypeOK
  <2>1. 0 \in 0..MaxTime /\ 0 \in 0..2
    BY MaxTimeIsNat
  <2>2. /\ state \in [Events -> States]
        /\ stamp \in [Events -> 0..MaxTime]
        /\ tenant \in [Events -> Tenants \cup {None}]
        /\ got \in [Events -> 0..2]
    BY <2>1 DEF Init, States
  <2>3. /\ now \in 0..MaxTime /\ began \in 0..MaxTime
        /\ walking \in BOOLEAN
        /\ cursor = None
        /\ before \subseteq Events
    BY <2>1 DEF Init
  <2> QED
    BY <2>2, <2>3 DEF TypeOK
<1>2. Recorded
  BY DEF Init, Recorded
<1>3. WalkInv
  BY DEF Init, WalkInv, Fresh, Divided, Finished, Once
<1> QED
  BY <1>1, <1>2, <1>3 DEF IInv

\* Steps of the table: rows stay and keep their times.
LEMMA TableSteps ==
  ASSUME TypeOK, [Next]_vars
  PROVE  /\ Rows \subseteq Rows'
         /\ \A e \in Rows : stamp'[e] = stamp[e]
<1> USE DEF Rows, TypeOK
<1>1. ASSUME NEW e \in Events, BeginInsert(e)
      PROVE  Rows \subseteq Rows' /\ \A f \in Rows : stamp'[f] = stamp[f]
  BY <1>1 DEF BeginInsert
<1>2. ASSUME NEW e \in Events, EndInsert(e)
      PROVE  Rows \subseteq Rows' /\ \A f \in Rows : stamp'[f] = stamp[f]
  BY <1>2 DEF EndInsert
<1>3. CASE Tick
  BY <1>3 DEF Tick
<1>4. CASE StartWalk \/ List
  BY <1>4 DEF StartWalk, List, tableVars
<1>5. CASE UNCHANGED vars
  BY <1>5 DEF vars, tableVars
<1> QED
  BY <1>1, <1>2, <1>3, <1>4, <1>5 DEF Next

\* Events whose times are equal stay tied.
LEMMA TiedStays ==
  ASSUME TypeOK, [Next]_vars, NEW e \in Rows, Tied(e)
  PROVE  Tied(e)'
BY TableSteps DEF Tied

-----------------------------------------------------------------------------
(* One page.                                                               *)

\* What a page is made of.
Page(limit, after, rows, page, next) ==
  /\ limit \in Limits
  /\ after \in AfterCursor
  /\ rows \in Newest(after, limit + 1)
  /\ page \in Newest(rows, limit)
  /\ next \in NextCursor(rows, page, limit)

\* The rows behind the cursor are not newer than it, an event that is told
\* apart by its time is older, and no older one is missing.
LEMMA BehindCursor ==
  ASSUME TypeOK, NEW after \in AfterCursor
  PROVE  /\ after \subseteq Rows
         /\ cursor = None => after = Rows
         /\ cursor # None =>
              /\ \A e \in after : stamp[e] <= stamp[cursor]
              /\ \A e \in after : ~Tied(e) => stamp[e] < stamp[cursor]
              /\ \A e \in Rows : stamp[e] < stamp[cursor] => e \in after
<1>1. CASE cursor = None
  BY <1>1 DEF AfterCursor
<1>2. CASE cursor # None
  <2>1. cursor \in Rows
    BY <1>2 DEF TypeOK, Rows
  <2>2. PICK S \in (SUBSET OfItsTime) \ {OfItsTime} : after = Older \cup S
    BY <1>2, Zenon DEF AfterCursor
  <2>3. \A e \in Rows : stamp[e] \in Nat
    BY MaxTimeIsNat DEF TypeOK, Rows
  <2>4. ASSUME NEW e \in after, ~Tied(e)
        PROVE  stamp[e] < stamp[cursor]
    <3>1. CASE e \in Older
      BY <3>1 DEF Older
    <3>2. CASE e \in S
      <4>1. OfItsTime = {e}
        BY <2>1, <2>2, <2>4, <3>2 DEF OfItsTime, Tied
      <4> QED
        BY <2>2, <3>2, <4>1
    <3> QED
      BY <2>2, <2>4, <3>1, <3>2
  <2>5. after \subseteq Rows /\ \A e \in after : stamp[e] <= stamp[cursor]
    BY <2>1, <2>2, <2>3 DEF Older, OfItsTime
  <2>6. \A e \in Rows : stamp[e] < stamp[cursor] => e \in after
    BY <2>2 DEF Older
  <2> QED
    BY <1>2, <2>4, <2>5, <2>6
<1> QED
  BY <1>1, <1>2

\* Newest takes all of a set that is not larger than n.
LEMMA NewestOfFew ==
  ASSUME NEW S \in SUBSET Events, NEW n \in Nat, NEW T \in Newest(S, n)
  PROVE  /\ T \subseteq S /\ IsFiniteSet(T) /\ Cardinality(T) \in Nat
         /\ Cardinality(T) < n => T = S
         /\ Cardinality(S) <= n => T = S
<1>1. IsFiniteSet(S) /\ T \subseteq S
  BY EventsAreFinite, FS_Subset DEF Newest
<1>2. IsFiniteSet(T) /\ Cardinality(T) \in Nat /\ Cardinality(S) \in Nat
      /\ (Cardinality(T) = Cardinality(S) => T = S)
  BY <1>1, FS_Subset, FS_CardinalityType
<1>3. Cardinality(T) = IF Cardinality(S) < n THEN Cardinality(S) ELSE n
  BY DEF Newest
<1> QED
  BY <1>1, <1>2, <1>3

\* A page shows an event that is told apart by its time if it is behind the
\* cursor and not older than the next one, or if there is no next one.
LEMMA PageIsComplete ==
  ASSUME TypeOK, NEW limit, NEW after, NEW rows, NEW page, NEW next,
         Page(limit, after, rows, page, next)
  PROVE  /\ page \subseteq after /\ after \subseteq Rows
         /\ next = None => page = after
         /\ next # None =>
              /\ next \in page
              /\ \A e \in page : stamp[e] >= stamp[next]
              /\ \A e \in after : ~Tied(e) /\ stamp[e] >= stamp[next] => e \in page
<1>1. limit \in Nat /\ limit + 1 \in Nat
  BY LimitsArePositive DEF Page
<1>2. after \in SUBSET Events /\ after \subseteq Rows
  BY BehindCursor DEF Page, Rows
<1>3. /\ rows \subseteq after /\ Cardinality(rows) \in Nat
      /\ Cardinality(rows) < limit + 1 => rows = after
  BY <1>1, <1>2, NewestOfFew DEF Page
<1>4. /\ page \subseteq rows
      /\ Cardinality(rows) <= limit => page = rows
  BY <1>1, <1>2, <1>3, NewestOfFew DEF Page
<1>5. \A e \in Rows : stamp[e] \in Nat /\ e # None
  BY MaxTimeIsNat, NoneIsNothing DEF TypeOK, Rows
<1>6. IF Cardinality(rows) > limit THEN next \in LastOf(page) ELSE next = None
  BY DEF Page, NextCursor
<1>7. ASSUME next = None
      PROVE  page = after
  <2>1. ~(Cardinality(rows) > limit)
    BY <1>2, <1>3, <1>4, <1>5, <1>6, <1>7 DEF LastOf
  <2> QED
    BY <1>1, <1>3, <1>4, <2>1
<1>8. ASSUME next # None
      PROVE  /\ next \in page
             /\ \A e \in page : stamp[e] >= stamp[next]
  BY <1>2, <1>3, <1>4, <1>5, <1>6, <1>8 DEF LastOf
<1>9. ASSUME next # None, NEW e \in after, ~Tied(e), stamp[e] >= stamp[next]
      PROVE  e \in page
  <2>1. next \in page /\ next \in rows /\ next \in Rows /\ e \in Rows
    BY <1>2, <1>3, <1>4, <1>8, <1>9
  <2>2. SUFFICES ASSUME e \notin page PROVE FALSE
    OBVIOUS
  <2>3. stamp[next] >= stamp[e]
    <3>1. CASE e \in rows
      BY <2>1, <2>2, <3>1 DEF Page, Newest
    <3>2. CASE e \notin rows
      BY <1>9, <2>1, <3>2 DEF Page, Newest
    <3> QED
      BY <3>1, <3>2
  <2>4. stamp[next] = stamp[e] /\ next # e
    BY <1>5, <1>9, <2>1, <2>2, <2>3
  <2> QED
    BY <1>9, <2>1, <2>4 DEF Tied
<1> QED
  BY <1>2, <1>3, <1>4, <1>7, <1>8, <1>9

\* What a page shows lies in the past of the walk's first page, and what is
\* told apart by its time it shows for the first time.
LEMMA PageIsNew ==
  ASSUME IInv, walking, NEW limit, NEW after, NEW rows, NEW page, NEW next,
         Page(limit, after, rows, page, next)
  PROVE  /\ \A e \in page : stamp[e] <= (IF cursor = None THEN now ELSE began)
         /\ \A e \in page : ~Tied(e) => got[e] = 0
<1>1. page \subseteq after /\ after \subseteq Rows
  BY PageIsComplete DEF IInv
<1>2. after \in AfterCursor
  BY DEF Page
<1>3. CASE cursor = None
  BY <1>1, <1>3 DEF IInv, Recorded, WalkInv, Fresh, Rows
<1>4. CASE cursor # None
  <2>1. cursor \in Events /\ stamp[cursor] \in Nat /\ began \in Nat
    BY <1>4, MaxTimeIsNat DEF IInv, TypeOK
  <2>2. \A e \in Events : stamp[e] \in Nat /\ got[e] \in Nat
    BY MaxTimeIsNat DEF IInv, TypeOK
  <2>3. ASSUME NEW e \in page
        PROVE  stamp[e] <= began /\ (~Tied(e) => got[e] = 0)
    <3>1. e \in after /\ e \in Events
      BY <1>1 DEF Rows
    <3>2. stamp[e] <= stamp[cursor] /\ (~Tied(e) => stamp[e] < stamp[cursor])
      BY <1>2, <1>4, <3>1, BehindCursor DEF IInv
    <3>3. stamp[cursor] <= began /\ (got[e] > 0 => stamp[e] >= stamp[cursor])
      BY <1>4, <3>1 DEF IInv, WalkInv, Divided
    <3> QED
      BY <2>1, <2>2, <3>1, <3>2, <3>3
  <2> QED
    BY <1>4, <2>3
<1> QED
  BY <1>3, <1>4

-----------------------------------------------------------------------------
(* The steps.                                                              *)

\* What List does, with the page it shows.
Shows(limit, after, rows, page, next) ==
  /\ Page(limit, after, rows, page, next)
  /\ walking
  /\ got' = [e \in Events |->
               IF e \in page /\ got[e] < 2 THEN got[e] + 1 ELSE got[e]]
  /\ cursor' = next
  /\ walking' = (next # None)
  /\ IF cursor = None THEN began' = now /\ before' = Rows
                       ELSE UNCHANGED <<began, before>>
  /\ UNCHANGED tableVars

LEMMA ListShows ==
  ASSUME List
  PROVE  \E limit, after, rows, page, next : Shows(limit, after, rows, page, next)
<1> DEFINE Move(page, next) ==
             /\ got' = [e \in Events |->
                          IF e \in page /\ got[e] < 2 THEN got[e] + 1 ELSE got[e]]
             /\ cursor' = next
             /\ walking' = (next # None)
<1>1. PICK limit \in Limits :
      \E after \in AfterCursor :
      \E rows \in Newest(after, limit + 1) :
      \E page \in Newest(rows, limit) :
      \E next \in NextCursor(rows, page, limit) : Move(page, next)
  BY DEF List
<1> HIDE DEF Move
<1>2. PICK after \in AfterCursor :
      \E rows \in Newest(after, limit + 1) :
      \E page \in Newest(rows, limit) :
      \E next \in NextCursor(rows, page, limit) : Move(page, next)
  BY <1>1
<1>3. PICK rows \in Newest(after, limit + 1) :
      \E page \in Newest(rows, limit) :
      \E next \in NextCursor(rows, page, limit) : Move(page, next)
  BY <1>2
<1>4. PICK page \in Newest(rows, limit) :
      \E next \in NextCursor(rows, page, limit) : Move(page, next)
  BY <1>3
<1>5. PICK next \in NextCursor(rows, page, limit) : Move(page, next)
  BY <1>4
<1>6. Page(limit, after, rows, page, next)
  BY <1>1, <1>2, <1>3, <1>4, <1>5 DEF Page
<1>7. Shows(limit, after, rows, page, next)
  BY <1>5, <1>6 DEF Shows, List, Move
<1> QED
  BY <1>7

\* Each step keeps the types; a cursor names a stored event of the reader.
LEMMA NextTyped ==
  ASSUME IInv, [Next]_vars
  PROVE  TypeOK'
<1> USE MaxTimeIsNat DEF IInv, TypeOK, States, tableVars, walkVars
<1>1. ASSUME NEW e \in Events, BeginInsert(e) PROVE TypeOK'
  BY <1>1 DEF BeginInsert
<1>2. ASSUME NEW e \in Events, EndInsert(e) PROVE TypeOK'
  BY <1>2 DEF EndInsert
<1>3. CASE Tick
  BY <1>3 DEF Tick
<1>4. CASE StartWalk
  BY <1>4 DEF StartWalk
<1>5. CASE List
  <2>1. PICK limit, after, rows, page, next : Shows(limit, after, rows, page, next)
    BY <1>5, ListShows
  <2>2. next # None => next \in Rows
    BY <2>1, PageIsComplete DEF Shows
  <2>3. /\ cursor' \in Events \cup {None} /\ walking' \in BOOLEAN
        /\ cursor' # None => walking' /\ state[cursor'] = "stored"
                                    /\ tenant[cursor'] = Reader
    BY <2>1, <2>2 DEF Shows, Rows
  <2>4. got' \in [Events -> 0..2]
    BY <2>1 DEF Shows
  <2>5. began' \in 0..MaxTime /\ before' \subseteq Events
    BY <2>1 DEF Shows, Rows
  <2>6. UNCHANGED tableVars
    BY <2>1 DEF Shows
  <2> QED
    BY <2>3, <2>4, <2>5, <2>6
<1>6. CASE UNCHANGED vars
  BY <1>6 DEF vars
<1> QED
  BY <1>1, <1>2, <1>3, <1>4, <1>5, <1>6 DEF Next

\* Steps of the table keep what the walk has shown and what it has left.
LEMMA TableKeepsWalk ==
  ASSUME IInv, [Next]_vars, UNCHANGED walkVars
  PROVE  WalkInv'
<1>1. /\ Rows \subseteq Rows'
      /\ \A e \in Rows : stamp'[e] = stamp[e]
      /\ \A e \in Rows : ~Tied(e)' => ~Tied(e)
  BY TableSteps, TiedStays DEF IInv
<1>2. /\ before \subseteq Rows
      /\ \A e \in Events : got[e] > 0 => e \in Rows
      /\ cursor # None => cursor \in Rows
      /\ \A e \in Events : got[e] \in Nat
  BY DEF IInv, Recorded, TypeOK, Rows
<1>3. Fresh'
  BY DEF IInv, WalkInv, Fresh, walkVars
<1>4. Divided'
  BY <1>1, <1>2 DEF IInv, WalkInv, Divided, walkVars
<1>5. Finished'
  BY <1>1, <1>2 DEF IInv, WalkInv, Finished, walkVars
<1>6. Once'
  BY <1>1, <1>2 DEF IInv, WalkInv, Once, walkVars
<1> QED
  BY <1>3, <1>4, <1>5, <1>6 DEF WalkInv

\* The next page.
LEMMA PageKeepsWalk ==
  ASSUME IInv, List
  PROVE  WalkInv'
<1>1. PICK limit, after, rows, page, next : Shows(limit, after, rows, page, next)
  BY ListShows
<1>2. Page(limit, after, rows, page, next) /\ walking
  BY <1>1 DEF Shows
<1>3. /\ UNCHANGED tableVars
      /\ cursor' = next /\ walking' = (next # None)
      /\ \A e \in Events : got'[e] = IF e \in page /\ got[e] < 2 THEN got[e] + 1 ELSE got[e]
  BY <1>1 DEF Shows
<1>4. \A e \in Events : Tied(e)' = Tied(e)
  BY <1>3 DEF Tied, Rows, tableVars
<1>5. /\ page \subseteq after /\ after \subseteq Rows
      /\ next = None => page = after
      /\ next # None => /\ next \in page
                        /\ \A e \in page : stamp[e] >= stamp[next]
                        /\ \A e \in after : ~Tied(e) /\ stamp[e] >= stamp[next] => e \in page
  BY <1>2, PageIsComplete DEF IInv
<1>6. /\ \A e \in page : stamp[e] <= began'
      /\ \A e \in page : ~Tied(e) => got[e] = 0
  BY <1>1, <1>2, PageIsNew DEF Shows
<1>7. /\ \A e \in Events : stamp[e] \in Nat /\ got[e] \in 0..2
      /\ before \subseteq Rows /\ Rows \subseteq Events
      /\ cursor # None => cursor \in Rows
  BY MaxTimeIsNat DEF IInv, TypeOK, Recorded, Rows
\* What is not behind the cursor was shown before.
<1>8. ASSUME NEW e \in before', ~Tied(e), e \notin after
      PROVE  got[e] = 1
  <2>1. after \in AfterCursor
    BY <1>2 DEF Page
  <2>2. cursor # None
    BY <1>1, <1>8, <2>1, BehindCursor DEF Shows, IInv
  <2>3. e \in before /\ e \in Rows
    BY <1>1, <1>7, <1>8, <2>2 DEF Shows
  <2>4. ~(stamp[e] < stamp[cursor])
    BY <1>8, <2>1, <2>2, <2>3, BehindCursor DEF IInv
  <2>5. stamp[e] >= stamp[cursor]
    BY <1>7, <2>2, <2>3, <2>4
  <2> QED
    BY <1>2, <1>8, <2>2, <2>3, <2>5 DEF IInv, WalkInv, Divided
<1>9. before' \subseteq Rows
  BY <1>1, <1>7 DEF Shows
<1>10. ASSUME NEW e \in before', ~Tied(e),
              next # None => stamp[e] >= stamp[next]
       PROVE  got'[e] = 1
  <2>1. e \in Events
    BY <1>7, <1>9
  <2>2. CASE e \in page
    BY <1>3, <1>6, <1>10, <2>1, <2>2
  <2>3. CASE e \notin page
    <3>1. e \notin after
      BY <1>5, <1>10, <2>3
    <3>2. got[e] = 1
      BY <1>8, <1>10, <3>1
    <3> QED
      BY <1>3, <2>1, <2>3, <3>2
  <2> QED
    BY <2>2, <2>3
<1>11. Fresh'
  BY <1>3 DEF Fresh
<1>12. Divided'
  <2> SUFFICES ASSUME next # None
               PROVE  /\ stamp[next] <= began'
                      /\ \A e \in Events : got'[e] > 0 => stamp[e] >= stamp[next]
                      /\ \A e \in before' : ~Tied(e) /\ stamp[e] >= stamp[next] => got'[e] = 1
    BY <1>3, <1>4, <1>7, <1>9 DEF Divided, tableVars
  <2>1. next \in page /\ next \in after /\ next \in Events
    BY <1>5, <1>7
  <2>2. ASSUME NEW e \in Events, got'[e] > 0
        PROVE  stamp[e] >= stamp[next]
    <3>1. CASE e \in page
      BY <1>5, <3>1
    <3>2. CASE e \notin page
      <4>1. got[e] > 0
        BY <1>3, <2>2, <3>2
      <4>2. cursor # None
        BY <1>2, <1>7, <4>1 DEF IInv, WalkInv, Fresh
      <4>3. stamp[e] >= stamp[cursor]
        BY <1>2, <4>1, <4>2 DEF IInv, WalkInv, Divided
      <4>4. stamp[next] <= stamp[cursor]
        BY <1>2, <2>1, <4>2, BehindCursor DEF IInv, Page
      <4> QED
        BY <1>7, <2>1, <4>2, <4>3, <4>4
    <3> QED
      BY <3>1, <3>2
  <2> QED
    BY <1>6, <1>10, <2>1, <2>2
<1>13. Finished'
  BY <1>3, <1>4, <1>7, <1>9, <1>10 DEF Finished
<1>14. Once'
  <2> SUFFICES ASSUME NEW e \in Events, ~Tied(e)
               PROVE  got'[e] < 2
    BY <1>4 DEF Once
  <2>1. CASE e \in page
    BY <1>3, <1>6, <2>1
  <2>2. CASE e \notin page
    BY <1>3, <2>2 DEF IInv, WalkInv, Once
  <2> QED
    BY <2>1, <2>2
<1> QED
  BY <1>11, <1>12, <1>13, <1>14 DEF WalkInv

LEMMA NextWalks ==
  ASSUME IInv, [Next]_vars
  PROVE  WalkInv'
<1>1. CASE List
  BY <1>1, PageKeepsWalk
<1>2. CASE StartWalk
  BY <1>2 DEF StartWalk, WalkInv, Fresh, Divided, Finished, Once
<1>3. CASE ~List /\ ~StartWalk
  <2>1. UNCHANGED walkVars
    BY <1>3 DEF Next, BeginInsert, EndInsert, Tick, vars
  <2> QED
    BY <2>1, TableKeepsWalk
<1> QED
  BY <1>1, <1>2, <1>3

LEMMA NextRecords ==
  ASSUME IInv, [Next]_vars
  PROVE  Recorded'
<1>1. /\ Rows \subseteq Rows'
      /\ \A e \in Rows : stamp'[e] = stamp[e]
  BY TableSteps DEF IInv
<1>2. /\ \A e \in Events : stamp[e] \in Nat /\ got[e] \in 0..2
      /\ now \in Nat /\ Rows \subseteq Events
  BY MaxTimeIsNat DEF IInv, TypeOK, Rows
<1>3. \A e \in Events : stamp'[e] <= now'
  <2> USE DEF IInv, TypeOK, Recorded, tableVars
  <2>1. ASSUME NEW f \in Events, BeginInsert(f)
        PROVE  \A e \in Events : stamp'[e] <= now'
    BY <1>2, <2>1 DEF BeginInsert
  <2>2. ASSUME NEW f \in Events, EndInsert(f)
        PROVE  \A e \in Events : stamp'[e] <= now'
    BY <2>2 DEF EndInsert
  <2>3. CASE Tick
    BY <1>2, <2>3 DEF Tick
  <2>4. CASE StartWalk \/ List \/ UNCHANGED vars
    BY <2>4 DEF StartWalk, List, vars
  <2> QED
    BY <2>1, <2>2, <2>3, <2>4 DEF Next
<1>4. (\A e \in Events : got'[e] > 0 => e \in Rows' /\ stamp'[e] <= began')
      /\ before' \subseteq Rows'
  <2>1. CASE List
    <3>1. PICK limit, after, rows, page, next : Shows(limit, after, rows, page, next)
      BY <2>1, ListShows
    <3>2. /\ \A e \in page : e \in Rows /\ stamp[e] <= began'
      BY <3>1, PageIsNew, PageIsComplete DEF Shows, IInv
    <3>3. /\ \A e \in Events : e \notin page => got'[e] = got[e]
          /\ before' \subseteq Rows
          /\ cursor # None => began' = began
      BY <3>1 DEF Shows, IInv, Recorded
    <3>4. walking /\ (cursor = None => \A e \in Events : got[e] = 0)
      BY <3>1 DEF Shows, IInv, WalkInv, Fresh
    <3>5. ASSUME NEW e \in Events, got'[e] > 0
          PROVE  e \in Rows /\ stamp[e] <= began'
      <4>1. CASE e \in page
        BY <3>2, <4>1
      <4>2. CASE e \notin page
        <5>1. got[e] > 0
          BY <3>3, <3>5, <4>2
        <5>2. cursor # None
          BY <1>2, <3>4, <5>1
        <5> QED
          BY <3>3, <5>1, <5>2 DEF IInv, Recorded
      <4> QED
        BY <4>1, <4>2
    <3> QED
      BY <1>1, <3>3, <3>5
  <2>2. CASE StartWalk
    BY <2>2 DEF StartWalk
  <2>3. CASE ~List /\ ~StartWalk
    <3>1. UNCHANGED walkVars
      BY <2>3 DEF Next, BeginInsert, EndInsert, Tick, vars
    <3> QED
      BY <1>1, <3>1 DEF IInv, Recorded, walkVars
  <2> QED
    BY <2>1, <2>2, <2>3
<1> QED
  BY <1>3, <1>4 DEF Recorded

-----------------------------------------------------------------------------
LEMMA Invariance == Spec => []IInv
<1>1. IInv /\ [Next]_vars => IInv'
  BY NextTyped, NextRecords, NextWalks DEF IInv
<1> QED
  BY InitInv, <1>1, PTL DEF Spec

\* Type correctness of the trail and the walk; a cursor always names a stored
\* event of the reader's tenant, so the database finds the row it starts from.
THEOREM TypeCorrect == Spec => []TypeOK
<1>1. IInv => TypeOK
  BY DEF IInv
<1> QED
  BY Invariance, <1>1, PTL

\* GET /audit/events shows no event of another tenant and none from after the
\* walk's first page, whatever is recorded meanwhile.
THEOREM ShowsThePast == Spec => []WalkShowsThePast
<1>1. IInv => WalkShowsThePast
  BY DEF IInv, Recorded, WalkShowsThePast, Rows
<1> QED
  BY Invariance, <1>1, PTL

\* Following nextCursor shows each event that was there at the start exactly
\* once, unless its time is another one's, for any number of events recorded
\* and committed meanwhile and any mix of page sizes.
THEOREM ShowsEachOnce == Spec => []WalkShowsEachOnce
<1>1. IInv => WalkShowsEachOnce
  BY DEF IInv, WalkInv, Finished, Once, WalkShowsEachOnce
<1> QED
  BY Invariance, <1>1, PTL

\* The safety half of WalkEnds: the next cursor is never newer than the last
\* one, and is older unless another event has its time.  The events older than
\* the cursor are fewer after each page, so only ties or insertions behind the
\* cursor can make a walk longer.
CursorDescends ==
  [][List /\ cursor # None /\ cursor' # None =>
       /\ stamp[cursor'] <= stamp[cursor]
       /\ ~Tied(cursor') => stamp[cursor'] < stamp[cursor]]_vars

\* Following nextCursor goes back in time, for every choice of rows and of page
\* size.
THEOREM WalkDescends == Spec => CursorDescends
<1>1. ASSUME IInv, List, cursor # None, cursor' # None
      PROVE  /\ stamp[cursor'] <= stamp[cursor]
             /\ ~Tied(cursor') => stamp[cursor'] < stamp[cursor]
  <2>1. PICK limit, after, rows, page, next : Shows(limit, after, rows, page, next)
    BY <1>1, ListShows
  <2>2. cursor' = next /\ Page(limit, after, rows, page, next) /\ after \in AfterCursor
    BY <2>1 DEF Shows, Page
  <2>3. next \in after
    BY <1>1, <2>2, PageIsComplete DEF IInv
  <2> QED
    BY <1>1, <2>2, <2>3, BehindCursor DEF IInv
<1> QED
  BY <1>1, Invariance, PTL DEF Spec, CursorDescends
=============================================================================
