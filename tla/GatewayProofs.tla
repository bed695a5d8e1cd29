---------------------------- MODULE GatewayProofs ----------------------------
(***************************************************************************)
(* Theorems about Gateway, for any number of keys and invocations, every   *)
(* limit and every window.                                                 *)
(*                                                                         *)
(* The rate limit: Sound says of one key what its bucket tells about the   *)
(* ages of its admissions.  The window that is open began Window - left    *)
(* ago, with the first of the admissions it has counted; the window before *)
(* it began a window's length earlier or more and admitted no more than    *)
(* the limit.  The entry point: whatever is cached is ready, and something *)
(* is cached as soon as anything is ready.                                 *)
(***************************************************************************)
EXTENDS Gateway, TLAPS

Ages == 0..Window

\* A log, oldest admission first.
Sorted(s) == \A i, j \in 1..Len(s) : i <= j => s[i] >= s[j]

\* Admissions in the window b is in; those refused are not among them.
Admitted(b) == IF b.count < MaxAttempts THEN b.count ELSE MaxAttempts

\* What an open window says of the log.
OpenWindow(b, s) ==
  LET n == Admitted(b)
  IN  /\ n \in 1..Len(s)
      /\ s[Len(s) - n + 1] = Window - b.left
      /\ Len(s) - n - MaxAttempts >= 1 => s[Len(s) - n - MaxAttempts] = Window

\* What is left to say once the window is over.
OverWindow(s) == Len(s) - MaxAttempts >= 1 => s[Len(s) - MaxAttempts] = Window

Sound(b, s) ==
  /\ b \in Bucket
  /\ s \in Seq(Ages)
  /\ Len(s) <= LogLength
  /\ Sorted(s)
  /\ IF b.left > 0 THEN OpenWindow(b, s) ELSE OverWindow(s)

LimitInv ==
  /\ bucket \in [Keys -> Bucket]
  /\ log \in [Keys -> Seq(Ages)]
  /\ \A k \in Keys : Sound(bucket[k], log[k])

BootInv ==
  /\ BootTypeOK
  /\ OnlyReadyServersServe
  /\ cachedServer = None <=> ready = {}
  /\ cachedServer # None => cachedServer \in ready

IInv == LimitInv /\ BootInv

-----------------------------------------------------------------------------
(* The log of one key.                                                     *)

\* A further admission: the log with age 0 at its end, and without its first
\* entry if it was full.
Admit(s) == Append(IF Len(s) = LogLength THEN Tail(s) ELSE s, 0)

LEMMA AdmitFacts ==
  ASSUME NEW s \in Seq(Ages), Len(s) <= LogLength
  PROVE  LET d == IF Len(s) = LogLength THEN 1 ELSE 0
         IN  /\ Admit(s) \in Seq(Ages)
             /\ Len(Admit(s)) = Len(s) - d + 1
             /\ Len(Admit(s)) <= LogLength
             /\ Admit(s)[Len(Admit(s))] = 0
             /\ \A i \in 1..(Len(s) - d) : Admit(s)[i] = s[i + d]
<1> USE MaxAttemptsIsPositive, WindowIsPositive DEF LogLength, Ages
<1>1. CASE Len(s) = LogLength
  <2>1. s # <<>> /\ Len(s) >= 1
    BY <1>1
  <2>2. /\ Tail(s) \in Seq(Ages)
        /\ Len(Tail(s)) = Len(s) - 1
        /\ \A i \in 1..(Len(s) - 1) : Tail(s)[i] = s[i + 1]
    BY <2>1
  <2>3. Admit(s) = Append(Tail(s), 0)
    BY <1>1 DEF Admit
  <2> QED
    BY <1>1, <2>2, <2>3
<1>2. CASE Len(s) # LogLength
  <2>1. Admit(s) = Append(s, 0)
    BY <1>2 DEF Admit
  <2> QED
    BY <1>2, <2>1
<1> QED
  BY <1>1, <1>2

\* The log stays in order.
LEMMA AdmitSorted ==
  ASSUME NEW s \in Seq(Ages), Len(s) <= LogLength, Sorted(s)
  PROVE  Sorted(Admit(s))
<1> DEFINE d == IF Len(s) = LogLength THEN 1 ELSE 0
           t == Admit(s)
<1>1. /\ t \in Seq(Ages)
      /\ Len(t) = Len(s) - d + 1
      /\ t[Len(t)] = 0
      /\ \A i \in 1..(Len(s) - d) : t[i] = s[i + d]
  BY AdmitFacts
<1>2. Len(s) \in Nat /\ d \in {0, 1}
  OBVIOUS
<1> HIDE DEF d, t
<1>3. ASSUME NEW i \in 1..Len(t), NEW j \in 1..Len(t), i <= j
      PROVE  t[i] >= t[j]
  <2>1. CASE j = Len(t)
    <3>1. t[i] \in Ages /\ t[j] = 0
      BY <2>1, <1>1, <1>3
    <3> QED
      BY <3>1, WindowIsPositive DEF Ages
  <2>2. CASE j # Len(t)
    <3>1. t[i] = s[i + d] /\ t[j] = s[j + d] /\ i + d \in 1..Len(s) /\ j + d \in 1..Len(s)
      BY <2>2, <1>1, <1>2, <1>3
    <3> QED
      BY <3>1, <1>2, <1>3 DEF Sorted
  <2> QED
    BY <2>1, <2>2
<1> QED
  BY <1>3 DEF Sorted, t

\* One unit of time on every age.
Older(s) == [i \in DOMAIN s |-> IF s[i] < Window THEN s[i] + 1 ELSE Window]

LEMMA OlderFacts ==
  ASSUME NEW s \in Seq(Ages)
  PROVE  /\ Older(s) \in Seq(Ages)
         /\ Len(Older(s)) = Len(s)
         /\ \A i \in 1..Len(s) :
              Older(s)[i] = IF s[i] < Window THEN s[i] + 1 ELSE Window
<1>1. DOMAIN s = 1..Len(s) /\ Len(s) \in Nat /\ \A i \in 1..Len(s) : s[i] \in Ages
  OBVIOUS
<1>2. Older(s) \in [1..Len(s) -> Ages]
  BY <1>1, WindowIsPositive DEF Older, Ages
<1> QED
  BY <1>1, <1>2 DEF Older
-----------------------------------------------------------------------------
(* Each kind of attempt keeps a key sound.                                 *)

\* The first attempt of a window: the window before is over.
LEMMA OpenKeepsSound ==
  ASSUME NEW b \in Bucket, NEW s, Sound(b, s), ~(b.left > 0)
  PROVE  Sound([count |-> 1, left |-> Window], Admit(s))
<1> DEFINE c == [count |-> 1, left |-> Window]
           d == IF Len(s) = LogLength THEN 1 ELSE 0
           t == Admit(s)
<1>1. s \in Seq(Ages) /\ Len(s) <= LogLength /\ Sorted(s) /\ OverWindow(s)
  BY DEF Sound
<1>2. /\ t \in Seq(Ages)
      /\ Len(t) = Len(s) - d + 1
      /\ Len(t) <= LogLength
      /\ t[Len(t)] = 0
      /\ \A i \in 1..(Len(s) - d) : t[i] = s[i + d]
  BY <1>1, AdmitFacts
<1>3. Sorted(t)
  BY <1>1, AdmitSorted
<1>4. c \in Bucket /\ Admitted(c) = 1 /\ c.left = Window /\ c.left > 0
  BY MaxAttemptsIsPositive, WindowIsPositive DEF Bucket, Admitted
<1>5. Len(s) \in Nat /\ d \in {0, 1} /\ d <= Len(s)
  BY <1>1, MaxAttemptsIsPositive DEF LogLength
<1> HIDE DEF c, d, t
<1>6. ASSUME Len(t) - 1 - MaxAttempts >= 1
      PROVE  t[Len(t) - 1 - MaxAttempts] = Window
  <2>1. Len(t) - 1 - MaxAttempts = Len(s) - d - MaxAttempts
    BY <1>2, <1>5
  <2>2. Len(s) - d - MaxAttempts \in 1..(Len(s) - d)
    BY <1>5, <1>6, <2>1, MaxAttemptsIsPositive
  <2>3. t[Len(s) - d - MaxAttempts] = s[Len(s) - MaxAttempts]
    BY <1>2, <1>5, <2>2, MaxAttemptsIsPositive
  <2>4. s[Len(s) - MaxAttempts] = Window
    BY <1>1, <1>5, <2>2, MaxAttemptsIsPositive DEF OverWindow
  <2> QED
    BY <2>1, <2>3, <2>4
<1>7. OpenWindow(c, t)
  BY <1>2, <1>4, <1>5, <1>6, WindowIsPositive DEF OpenWindow
<1> QED
  BY <1>2, <1>3, <1>4, <1>7 DEF Sound, c, t

\* A further attempt of an open window.
LEMMA CountKeepsSound ==
  ASSUME NEW b \in Bucket, NEW s, Sound(b, s), b.left > 0, b.count < MaxAttempts
  PROVE  Sound([b EXCEPT !.count = @ + 1], Admit(s))
<1> DEFINE c == [b EXCEPT !.count = @ + 1]
           n == b.count
           d == IF Len(s) = LogLength THEN 1 ELSE 0
           t == Admit(s)
<1>1. s \in Seq(Ages) /\ Len(s) <= LogLength /\ Sorted(s) /\ OpenWindow(b, s)
  BY DEF Sound
<1>2. /\ t \in Seq(Ages)
      /\ Len(t) = Len(s) - d + 1
      /\ Len(t) <= LogLength
      /\ t[Len(t)] = 0
      /\ \A i \in 1..(Len(s) - d) : t[i] = s[i + d]
  BY <1>1, AdmitFacts
<1>3. Sorted(t)
  BY <1>1, AdmitSorted
<1>4. /\ c \in Bucket /\ c.left = b.left /\ c.left > 0
      /\ n \in Nat /\ Admitted(b) = n /\ Admitted(c) = n + 1
  BY MaxAttemptsIsPositive DEF Bucket, Admitted
<1>5. Len(s) \in Nat /\ d \in {0, 1} /\ (d = 1 => Len(s) = 2 * MaxAttempts + 1)
  BY <1>1 DEF LogLength
<1>6. /\ n \in 1..Len(s)
      /\ s[Len(s) - n + 1] = Window - b.left
      /\ Len(s) - n - MaxAttempts >= 1 => s[Len(s) - n - MaxAttempts] = Window
  BY <1>1, <1>4 DEF OpenWindow
<1> USE MaxAttemptsIsPositive
<1> HIDE DEF c, d, t, n
<1>7. n < MaxAttempts
  BY DEF n
<1>8. /\ n + 1 \in 1..Len(t)
      /\ Len(t) - (n + 1) + 1 = Len(s) - d - n + 1
      /\ Len(s) - d - n + 1 \in 1..(Len(s) - d)
  BY <1>2, <1>4, <1>5, <1>6, <1>7
<1>9. t[Len(t) - (n + 1) + 1] = Window - b.left
  BY <1>2, <1>5, <1>6, <1>8
<1>10. ASSUME Len(t) - (n + 1) - MaxAttempts >= 1
       PROVE  t[Len(t) - (n + 1) - MaxAttempts] = Window
  <2>1. Len(t) - (n + 1) - MaxAttempts = Len(s) - d - n - MaxAttempts
    BY <1>2, <1>4, <1>5
  <2>2. Len(s) - d - n - MaxAttempts \in 1..(Len(s) - d)
    BY <1>4, <1>5, <1>10, <2>1
  <2>3. t[Len(s) - d - n - MaxAttempts] = s[Len(s) - n - MaxAttempts]
    BY <1>2, <1>4, <1>5, <2>2
  <2>4. s[Len(s) - n - MaxAttempts] = Window
    BY <1>4, <1>5, <1>6, <2>2
  <2> QED
    BY <2>1, <2>3, <2>4
<1>11. OpenWindow(c, t)
  BY <1>4, <1>8, <1>9, <1>10 DEF OpenWindow
<1> QED
  BY <1>2, <1>3, <1>4, <1>11 DEF Sound, c, t

\* A refused attempt is counted and not admitted.
LEMMA RefuseKeepsSound ==
  ASSUME NEW b \in Bucket, NEW s, Sound(b, s), b.left > 0, b.count >= MaxAttempts
  PROVE  Sound([b EXCEPT !.count = MaxAttempts + 1], s)
<1> DEFINE c == [b EXCEPT !.count = MaxAttempts + 1]
<1>1. c \in Bucket /\ c.left = b.left /\ Admitted(c) = Admitted(b)
  BY MaxAttemptsIsPositive DEF Bucket, Admitted
<1> QED
  BY <1>1 DEF Sound, OpenWindow

\* The bucket a unit of time later.
LaterBucket(b) == IF b.left > 0 THEN [b EXCEPT !.left = @ - 1] ELSE b

\* Time passes: the first admission of a window is a window old when it ends.
LEMMA ElapseKeepsSound ==
  ASSUME NEW b \in Bucket, NEW s, Sound(b, s)
  PROVE  Sound(LaterBucket(b), Older(s))
<1> DEFINE t == Older(s)
           n == Admitted(b)
           c == LaterBucket(b)
<1>1. s \in Seq(Ages) /\ Len(s) <= LogLength /\ Sorted(s) /\ Len(s) \in Nat
  BY DEF Sound
<1>2. \A i \in 1..Len(s) : s[i] \in Ages
  BY <1>1
<1>3. /\ t \in Seq(Ages)
      /\ Len(t) = Len(s)
      /\ \A i \in 1..Len(s) : t[i] = IF s[i] < Window THEN s[i] + 1 ELSE Window
  BY <1>1, OlderFacts
<1> HIDE DEF t
<1>4. Sorted(t)
  <2> SUFFICES ASSUME NEW i \in 1..Len(s), NEW j \in 1..Len(s), i <= j
               PROVE  t[i] >= t[j]
    BY <1>3 DEF Sorted
  <2>1. s[i] >= s[j] /\ s[i] \in Ages /\ s[j] \in Ages
    BY <1>1, <1>2 DEF Sorted
  <2> QED
    BY <1>3, <2>1, WindowIsPositive DEF Ages
<1>5. c \in Bucket /\ (b.left > 0 => c.left = b.left - 1 /\ Admitted(c) = n)
  BY WindowIsPositive, MaxAttemptsIsPositive DEF Bucket, LaterBucket, Admitted
<1>6. b.left \in 0..Window /\ n \in Nat /\ n <= MaxAttempts
  BY MaxAttemptsIsPositive DEF Bucket, Admitted
<1> HIDE DEF n, c
<1>7. CASE ~(b.left > 0)
  <2>1. c = b /\ OverWindow(s)
    BY <1>7 DEF c, LaterBucket, Sound
  <2>2. OverWindow(t)
    BY <1>1, <1>3, <2>1, MaxAttemptsIsPositive, WindowIsPositive DEF OverWindow
  <2> QED
    BY <1>1, <1>3, <1>4, <1>5, <1>7, <2>1, <2>2 DEF Sound, t, c
<1>8. CASE b.left > 0
  <2>1. /\ n \in 1..Len(s)
        /\ s[Len(s) - n + 1] = Window - b.left
        /\ Len(s) - n - MaxAttempts >= 1 => s[Len(s) - n - MaxAttempts] = Window
    BY <1>8 DEF Sound, OpenWindow, n
  <2>2. t[Len(s) - n + 1] = Window - (b.left - 1)
    BY <1>1, <1>3, <1>6, <1>8, <2>1, WindowIsPositive
  <2>3. Len(s) - n - MaxAttempts >= 1 => t[Len(s) - n - MaxAttempts] = Window
    BY <1>1, <1>3, <1>6, <2>1, MaxAttemptsIsPositive, WindowIsPositive
  <2>4. CASE b.left - 1 > 0
    <3>1. OpenWindow(c, t)
      BY <1>1, <1>3, <1>5, <1>6, <1>8, <2>1, <2>2, <2>3 DEF OpenWindow
    <3> QED
      BY <1>1, <1>3, <1>4, <1>5, <1>8, <2>4, <3>1 DEF Sound, t, c
  <2>5. CASE ~(b.left - 1 > 0)
    <3>1. t[Len(s) - n + 1] = Window
      BY <1>6, <1>8, <2>2, <2>5, WindowIsPositive
    <3>2. ASSUME Len(t) - MaxAttempts >= 1
          PROVE  t[Len(t) - MaxAttempts] = Window
      <4>1. /\ Len(t) - MaxAttempts \in 1..Len(t)
            /\ Len(s) - n + 1 \in 1..Len(t)
            /\ Len(t) - MaxAttempts <= Len(s) - n + 1
        BY <1>1, <1>3, <1>6, <2>1, <3>2, MaxAttemptsIsPositive
      <4>2. t[Len(t) - MaxAttempts] >= Window
        BY <1>4, <3>1, <4>1 DEF Sorted
      <4>3. t[Len(t) - MaxAttempts] \in Ages
        BY <1>3, <4>1
      <4> QED
        BY <4>2, <4>3, WindowIsPositive DEF Ages
    <3>3. OverWindow(t)
      BY <3>2 DEF OverWindow
    <3> QED
      BY <1>1, <1>3, <1>4, <1>5, <1>6, <1>8, <2>5, <3>3 DEF Sound, t, c
  <2> QED
    BY <2>4, <2>5
<1> QED
  BY <1>7, <1>8
-----------------------------------------------------------------------------
(* The rate limit.                                                         *)

LEMMA InitLimit == LimitInit => LimitInv
<1> SUFFICES ASSUME LimitInit PROVE LimitInv
  OBVIOUS
<1>1. NoBucket \in Bucket /\ ~(NoBucket.left > 0)
  BY MaxAttemptsIsPositive, WindowIsPositive DEF NoBucket, Bucket
<1>2. <<>> \in Seq(Ages) /\ Len(<<>>) = 0
  OBVIOUS
<1>3. Sound(NoBucket, <<>>)
  BY <1>1, <1>2, MaxAttemptsIsPositive DEF Sound, Sorted, OverWindow, LogLength
<1> QED
  BY <1>1, <1>2, <1>3 DEF LimitInit, LimitInv

\* An attempt on one key leaves the others alone.
LEMMA AttemptKeepsLimit ==
  ASSUME LimitInv, NEW k \in Keys, Attempt(k)
  PROVE  LimitInv'
<1> DEFINE b == bucket[k]
           s == log[k]
<1>1. b \in Bucket /\ s \in Seq(Ages) /\ Len(s) <= LogLength /\ Sound(b, s)
  BY DEF LimitInv, Sound
<1>2. b.count \in 0..(MaxAttempts + 1) /\ b.left \in 0..Window
  BY <1>1 DEF Bucket
<1>3. \E c, t : /\ bucket' = [bucket EXCEPT ![k] = c]
                /\ log' = [log EXCEPT ![k] = t]
                /\ Sound(c, t)
  <2>1. CASE Open(k)
    <3>1. bucket' = [bucket EXCEPT ![k] = [count |-> 1, left |-> Window]]
      BY <2>1 DEF Open
    <3>2. log' = [log EXCEPT ![k] = Admit(s)]
      BY <2>1 DEF Open, LogAdmission, Admit
    <3> QED
      BY <1>1, <2>1, <3>1, <3>2, OpenKeepsSound DEF Open, Live
  <2>2. CASE Count(k)
    <3>1. bucket' = [bucket EXCEPT ![k] = [b EXCEPT !.count = @ + 1]]
      BY <2>2 DEF Count
    <3>2. log' = [log EXCEPT ![k] = Admit(s)]
      BY <2>2 DEF Count, LogAdmission, Admit
    <3>3. b.left > 0 /\ b.count < MaxAttempts
      BY <1>2, <2>2, MaxAttemptsIsPositive DEF Count, Live, Exhausted
    <3> QED
      BY <1>1, <3>1, <3>2, <3>3, CountKeepsSound
  <2>3. CASE Refuse(k)
    <3>1. bucket' = [bucket EXCEPT ![k] = [b EXCEPT !.count = MaxAttempts + 1]]
      BY <2>3 DEF Refuse
    <3>2. log' = [log EXCEPT ![k] = s]
      BY <2>3 DEF Refuse, LimitInv
    <3>3. b.left > 0 /\ b.count >= MaxAttempts
      BY <2>3 DEF Refuse, Live, Exhausted
    <3> QED
      BY <1>1, <3>1, <3>2, <3>3, RefuseKeepsSound
  <2> QED
    BY <2>1, <2>2, <2>3 DEF Attempt
<1> QED
  BY <1>3 DEF LimitInv, Sound

LEMMA ElapseKeepsLimit == LimitInv /\ Elapse => LimitInv'
<1> SUFFICES ASSUME LimitInv, Elapse PROVE LimitInv'
  OBVIOUS
<1>1. bucket' = [k \in Keys |-> LaterBucket(bucket[k])]
  BY DEF Elapse, Live, LaterBucket
<1>2. log' = [k \in Keys |-> Older(log[k])]
  BY DEF Elapse, Older
<1>3. \A k \in Keys : Sound(LaterBucket(bucket[k]), Older(log[k]))
  BY ElapseKeepsSound DEF LimitInv
<1> QED
  BY <1>1, <1>2, <1>3 DEF LimitInv, Sound

-----------------------------------------------------------------------------
(* The entry point.                                                        *)

LEMMA InitBoot == BootInit => BootInv
BY DEF BootInit, BootInv, BootTypeOK, BootStages, OnlyReadyServersServe

LEMMA BootKeepsInv ==
  ASSUME BootInv, NEW i \in Invocations, Boot(i)
  PROVE  BootInv'
<1> USE NoneIsNoInvocation DEF BootInv, BootTypeOK, BootStages, OnlyReadyServersServe, At
<1>1. CASE Reuse(i)
  BY <1>1 DEF Reuse
<1>2. CASE ColdStart(i)
  BY <1>2 DEF ColdStart
<1>3. CASE Create(i)
  BY <1>3 DEF Create
<1>4. CASE InitApp(i)
  BY <1>4 DEF InitApp
<1>5. CASE BootFails(i)
  BY <1>5 DEF BootFails
<1> QED
  BY <1>1, <1>2, <1>3, <1>4, <1>5 DEF Boot

LEMMA LeaveKeepsInv ==
  ASSUME BootInv, NEW i \in Invocations, Leave(i)
  PROVE  BootInv'
BY DEF BootInv, BootTypeOK, BootStages, OnlyReadyServersServe, At, Leave

\* A new process starts like the first one.
LEMMA RecycleIsInit == Recycle => LimitInit' /\ BootInit'
BY DEF Recycle, LimitInit, BootInit

-----------------------------------------------------------------------------
LEMMA NextKeepsInv == IInv /\ [Next]_vars => IInv'
<1> SUFFICES ASSUME IInv, [Next]_vars PROVE IInv'
  OBVIOUS
<1> USE DEF IInv
<1>1. ASSUME UNCHANGED limitVars
      PROVE  LimitInv'
  BY <1>1 DEF limitVars, LimitInv
<1>2. ASSUME UNCHANGED bootVars
      PROVE  BootInv'
  BY <1>2 DEF bootVars, BootInv, BootTypeOK, OnlyReadyServersServe
<1>3. ASSUME NEW i \in Invocations, Boot(i)
      PROVE  IInv'
  BY <1>1, <1>3, BootKeepsInv DEF Boot
<1>4. ASSUME NEW i \in Invocations, Serve(i)
      PROVE  IInv'
  BY <1>1, <1>4, LeaveKeepsInv, AttemptKeepsLimit DEF Serve
<1>5. CASE Tick
  BY <1>2, <1>5, ElapseKeepsLimit DEF Tick
<1>6. CASE Recycle
  <2>1. LimitInit' => LimitInv'
    BY InitLimit, PTL
  <2>2. BootInit' => BootInv'
    BY InitBoot, PTL
  <2> QED
    BY <1>6, <2>1, <2>2, RecycleIsInit
<1>7. CASE UNCHANGED vars
  BY <1>1, <1>2, <1>7 DEF vars
<1> QED
  BY <1>3, <1>4, <1>5, <1>6, <1>7 DEF Next

\* The invariant the theorems below are read off.
THEOREM Invariance == Spec => []IInv
<1>1. Init => IInv
  BY InitLimit, InitBoot DEF Init, IInv
<1> QED
  BY <1>1, NextKeepsInv, PTL DEF Spec

\* Type correctness of the rate limit and the entry point.
THEOREM TypeCorrect == Spec => []TypeOK
<1>1. IInv => TypeOK
  BY DEF IInv, LimitInv, BootInv, Sound, TypeOK, LimitTypeOK, Ages
<1> QED
  BY <1>1, Invariance, PTL

\* At most twice the limit is admitted in any interval of a window's length
\* (AuthRateLimitGuard.canActivate).
THEOREM BurstBounded == Spec => []BurstIsBounded
<1>1. ASSUME IInv, NEW k \in Keys, Len(log[k]) = LogLength
      PROVE  log[k][1] = Window
  <2> DEFINE b == bucket[k]
             s == log[k]
             n == Admitted(b)
  <2>1. Sound(b, s) /\ s \in Seq(Ages) /\ Sorted(s) /\ b \in Bucket
    BY <1>1 DEF IInv, LimitInv, Sound
  <2>2. n \in Nat /\ n <= MaxAttempts
    BY <2>1, MaxAttemptsIsPositive DEF Bucket, Admitted
  <2>3. Len(s) = 2 * MaxAttempts + 1 /\ 1 \in 1..Len(s)
    BY <1>1, MaxAttemptsIsPositive DEF LogLength
  <2> HIDE DEF b, s, n
  <2>4. \E i \in 1..Len(s) : s[i] = Window
    <3>1. CASE b.left > 0
      <4>1. Len(s) - n - MaxAttempts \in 1..Len(s)
        BY <2>2, <2>3, MaxAttemptsIsPositive
      <4> QED
        BY <2>1, <3>1, <4>1, MaxAttemptsIsPositive DEF Sound, OpenWindow, n
    <3>2. CASE ~(b.left > 0)
      <4>1. Len(s) - MaxAttempts \in 1..Len(s)
        BY <2>3, MaxAttemptsIsPositive
      <4> QED
        BY <2>1, <3>2, <4>1, MaxAttemptsIsPositive DEF Sound, OverWindow
    <3> QED
      BY <3>1, <3>2
  <2>5. s[1] >= Window
    BY <2>1, <2>3, <2>4 DEF Sorted
  <2>6. s[1] \in Ages
    BY <2>1, <2>3
  <2> QED
    BY <2>5, <2>6, WindowIsPositive DEF Ages, s
<1>2. IInv => BurstIsBounded
  BY <1>1 DEF BurstIsBounded
<1> QED
  BY <1>2, Invariance, PTL

\* Whoever is refused next has had the whole limit within the last window.
THEOREM RefusalDeserved == Spec => []RefusalIsDeserved
<1>1. ASSUME IInv, NEW k \in Keys, Exhausted(k)
      PROVE  /\ Len(log[k]) >= MaxAttempts
             /\ log[k][Len(log[k]) - MaxAttempts + 1] < Window
  <2>1. Sound(bucket[k], log[k]) /\ bucket[k] \in Bucket
    BY <1>1 DEF IInv, LimitInv
  <2>2. bucket[k].left > 0 /\ bucket[k].left \in 0..Window
        /\ Admitted(bucket[k]) = MaxAttempts
    BY <1>1, <2>1, MaxAttemptsIsPositive DEF Exhausted, Live, Bucket, Admitted
  <2>3. /\ MaxAttempts \in 1..Len(log[k])
        /\ log[k][Len(log[k]) - MaxAttempts + 1] = Window - bucket[k].left
    BY <2>1, <2>2 DEF Sound, OpenWindow
  <2>4. log[k] \in Seq(Ages) /\ Len(log[k]) \in Nat
    BY <2>1 DEF Sound
  <2> QED
    BY <2>2, <2>3, <2>4, MaxAttemptsIsPositive, WindowIsPositive
<1>2. IInv => RefusalIsDeserved
  BY <1>1 DEF RefusalIsDeserved
<1> QED
  BY <1>2, Invariance, PTL

\* No request is given to a server that is not ready (getServer).
THEOREM OnlyReadyServe == Spec => []OnlyReadyServersServe
<1>1. IInv => OnlyReadyServersServe
  BY DEF IInv, BootInv
<1> QED
  BY <1>1, Invariance, PTL

\* A process with a ready server builds no other (getServer).
THEOREM StaysWarm == Spec => WarmStaysWarm
<1>1. ASSUME IInv, [Next]_vars
      PROVE  [\A i \in Invocations : ready # {} /\ stage'[i] = "create" =>
                stage[i] = "create"]_bootVars
  <2> SUFFICES ASSUME NEW j \in Invocations, ready # {}, stage'[j] = "create"
               PROVE  stage[j] = "create"
    OBVIOUS
  <2>1. cachedServer # None /\ stage \in [Invocations -> BootStages]
    BY <1>1 DEF IInv, BootInv, BootTypeOK
  <2> QED
    BY <1>1, <2>1 DEF Next, Boot, Serve, Tick, Recycle, Reuse, ColdStart, Create, InitApp,
       BootFails, Leave, At, vars, bootVars
<1> QED
  BY <1>1, Invariance, PTL DEF Spec, WarmStaysWarm

\* The safety half of NoLockout: no attempt on any key and no start of a server
\* prolongs the window of a key that has used up its limit, and the clock
\* shortens it.
ExhaustionWearsOff ==
  [][\A k \in Keys : Exhausted(k) =>
       /\ bucket'[k].left <= bucket[k].left
       /\ Tick => bucket'[k].left < bucket[k].left]_vars

\* Refused attempts, however many and on whatever key, do not keep a key out.
THEOREM WearsOff == Spec => ExhaustionWearsOff
<1>1. ASSUME IInv, Next, NEW k \in Keys, Exhausted(k)
      PROVE  /\ bucket'[k].left <= bucket[k].left
             /\ Tick => bucket'[k].left < bucket[k].left
  <2>1. /\ bucket \in [Keys -> Bucket] /\ bucket[k] \in Bucket
        /\ bucket[k].left \in Nat /\ bucket[k].left > 0
    BY <1>1, WindowIsPositive DEF IInv, LimitInv, Bucket, Exhausted, Live
  <2>2. CASE Tick
    <3>1. bucket'[k] = [bucket[k] EXCEPT !.left = @ - 1]
      BY <2>1, <2>2 DEF Tick, Elapse, Live
    <3>2. bucket'[k].left = bucket[k].left - 1
      BY <2>1, <3>1 DEF Bucket
    <3> QED
      BY <2>1, <3>2
  <2>3. CASE Recycle
    <3>1. bucket'[k].left = 0
      BY <2>3 DEF Recycle, NoBucket
    <3>2. Tick => bucket'[k].left < bucket[k].left
      BY <2>1, <3>1
    <3> QED
      BY <2>1, <3>1, <3>2
  <2>4. ASSUME NEW j \in Keys, Attempt(j) PROVE bucket'[k].left = bucket[k].left
    <3>1. CASE j # k
      BY <2>1, <2>4, <3>1 DEF Attempt, Open, Count, Refuse
    <3>2. CASE j = k
      <4>1. Refuse(k)
        BY <1>1, <2>4, <3>2 DEF Attempt, Open, Count, Exhausted
      <4>2. bucket'[k] = [bucket[k] EXCEPT !.count = MaxAttempts + 1]
        BY <2>1, <4>1 DEF Refuse
      <4> QED
        BY <2>1, <4>2 DEF Bucket
    <3> QED
      BY <3>1, <3>2
  <2>5. CASE \E i \in Invocations : Boot(i) \/ Serve(i)
    <3>1. bucket'[k].left = bucket[k].left
      BY <2>4, <2>5 DEF Boot, Serve, limitVars
    <3> QED
      BY <2>1, <2>2, <3>1
  <2> QED
    BY <1>1, <2>2, <2>3, <2>5 DEF Next
<1>2. IInv /\ [Next]_vars =>
        [\A k \in Keys : Exhausted(k) =>
           /\ bucket'[k].left <= bucket[k].left
           /\ Tick => bucket'[k].left < bucket[k].left]_vars
  BY <1>1
<1> QED
  BY <1>2, Invariance, PTL DEF Spec, ExhaustionWearsOff
=============================================================================
