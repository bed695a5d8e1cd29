------------------------------- MODULE Gateway -------------------------------
(***************************************************************************)
(* One process of the deployment: an invocation gets a server (ServerBoot) *)
(* and, on the authentication routes, passes the rate limit (RateLimit).   *)
(* The map of buckets belongs to the module and not to a server, so the    *)
(* servers of overlapping cold starts count together.  A process that is   *)
(* recycled loses map and server.                                          *)
(***************************************************************************)
EXTENDS RateLimit, ServerBoot

vars == <<limitVars, bootVars>>

TypeOK == LimitTypeOK /\ BootTypeOK

\* AuthRateLimitGuard.canActivate.
Attempt(k) == Open(k) \/ Count(k) \/ Refuse(k)

Boot(i) ==
  /\ Reuse(i) \/ ColdStart(i) \/ Create(i) \/ InitApp(i) \/ BootFails(i)
  /\ UNCHANGED limitVars

\* server(req, res): register, login, refresh and logout are limited, the other
\* routes are not.
Serve(i) ==
  /\ Leave(i)
  /\ \/ \E k \in Keys : Attempt(k)
     \/ UNCHANGED limitVars

Tick ==
  /\ Elapse
  /\ UNCHANGED bootVars

\* The platform ends the process, with all its invocations, and starts another.
Recycle ==
  /\ bucket' = [k \in Keys |-> NoBucket]
  /\ log' = [k \in Keys |-> <<>>]
  /\ cachedServer' = None
  /\ stage' = [i \in Invocations |-> "idle"]
  /\ server' = [i \in Invocations |-> None]
  /\ ready' = {}

Init == LimitInit /\ BootInit

Next ==
  \/ \E i \in Invocations : Boot(i) \/ Serve(i)
  \/ Tick
  \/ Recycle

\* The clock goes on, and what an invocation awaits does not hang; nothing has
\* to fail, and clients need not come back.
Fairness ==
  /\ WF_vars(Tick)
  /\ \A i \in Invocations : WF_vars((Create(i) \/ InitApp(i)) /\ UNCHANGED limitVars)
  /\ \A i \in Invocations : WF_vars(Serve(i))

Spec == Init /\ [][Next]_vars /\ Fairness

-----------------------------------------------------------------------------
\* Every invocation comes to an end, also one whose server was ready after
\* another's had been cached.
InvocationsEnd == \A i \in Invocations : stage[i] # "idle" ~> stage[i] = "idle"
=============================================================================
