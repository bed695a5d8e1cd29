------------------------------ MODULE RateLimit ------------------------------
(***************************************************************************)
(* AuthRateLimitGuard: fixed windows, counted in a map of the process.     *)
(* The guard is synchronous, so an attempt is one step.  A key is an       *)
(* address together with the path of an authentication endpoint.           *)
(*                                                                         *)
(* log is a history variable: no guard reads it.                           *)
(***************************************************************************)
EXTENDS Naturals, Sequences

CONSTANTS
  Keys,          \* address and path
  MaxAttempts,   \* MAX_ATTEMPTS
  Window         \* WINDOW_MS, in units of the clock

ASSUME MaxAttemptsIsPositive == MaxAttempts \in Nat \ {0}
ASSUME WindowIsPositive == Window \in Nat \ {0}

VARIABLES
  bucket,   \* bucket[k]: attempts counted, and resetAt minus now
  log       \* history: ages of k's latest admissions in this process

limitVars == <<bucket, log>>

\* No entry in the map, which the guard treats as one that has been reset.
NoBucket == [count |-> 0, left |-> 0]

\* Counts above the limit are alike, and so are ages beyond a window.
Bucket == [count: 0..(MaxAttempts + 1), left: 0..Window]

\* As many admissions as two windows hold, and one more.
LogLength == 2 * MaxAttempts + 1

LimitTypeOK ==
  /\ bucket \in [Keys -> Bucket]
  /\ log \in [Keys -> Seq(0..Window)]
  /\ \A k \in Keys : Len(log[k]) <= LogLength

Live(k) == bucket[k].left > 0

\* Mutant: the attempt that reaches the limit is refused already.
ExhaustedEarly(k) == Live(k) /\ bucket[k].count + 1 >= MaxAttempts

\* The next attempt would exceed the limit.
Exhausted(k) == Live(k) /\ bucket[k].count >= MaxAttempts

LogAdmission(k) ==
  log' = [log EXCEPT ![k] = Append(IF Len(@) = LogLength THEN Tail(@) ELSE @, 0)]

\* The first attempt of a window.
Open(k) ==
  /\ ~Live(k)
  /\ bucket' = [bucket EXCEPT ![k] = [count |-> 1, left |-> Window]]
  /\ LogAdmission(k)

\* Mutant: one attempt too many.
CountOneMore(k) ==
  /\ Live(k) /\ bucket[k].count <= MaxAttempts
  /\ bucket' = [bucket EXCEPT ![k].count = @ + 1]
  /\ LogAdmission(k)

\* A further one within the limit.
Count(k) ==
  /\ Live(k) /\ ~Exhausted(k)
  /\ bucket' = [bucket EXCEPT ![k].count = @ + 1]
  /\ LogAdmission(k)

\* Mutant: a refused attempt starts the window anew.
RefuseAndProlong(k) ==
  /\ Exhausted(k)
  /\ bucket' = [bucket EXCEPT ![k] = [count |-> MaxAttempts + 1, left |-> Window]]
  /\ UNCHANGED log

\* 429.  The attempt is counted; the window stays where it is.
Refuse(k) ==
  /\ Exhausted(k)
  /\ bucket' = [bucket EXCEPT ![k].count = MaxAttempts + 1]
  /\ UNCHANGED log

\* Time passes.
Elapse ==
  /\ bucket' = [k \in Keys |->
       IF Live(k) THEN [bucket[k] EXCEPT !.left = @ - 1] ELSE bucket[k]]
  /\ log' = [k \in Keys |-> [i \in DOMAIN log[k] |->
       IF log[k][i] < Window THEN log[k][i] + 1 ELSE Window]]

\* A process starts with an empty map.
LimitInit ==
  /\ bucket = [k \in Keys |-> NoBucket]
  /\ log = [k \in Keys |-> <<>>]

-----------------------------------------------------------------------------
\* However the attempts fall on the boundary of two windows, an interval as
\* long as a window holds at most twice the limit: of the latest 2*Max+1
\* admissions the first is at least a window old.
BurstIsBounded ==
  \A k \in Keys : Len(log[k]) = LogLength => log[k][1] = Window

\* Nobody is refused early: a key whose next attempt will be refused has had as
\* many admissions as the limit allows within the last window.
RefusalIsDeserved ==
  \A k \in Keys : Exhausted(k) =>
    /\ Len(log[k]) >= MaxAttempts
    /\ log[k][Len(log[k]) - MaxAttempts + 1] < Window

\* Nobody is locked out: however often an exhausted key goes on trying, its
\* next attempt is admitted before long.
NoLockout == \A k \in Keys : Exhausted(k) ~> ~Exhausted(k)
=============================================================================
