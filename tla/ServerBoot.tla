----------------------------- MODULE ServerBoot -----------------------------
(***************************************************************************)
(* getServer of the serverless entry point: the cached server is tested    *)
(* before two awaits and set after them, so that invocations which find a  *)
(* process cold each build a server.  A server is named by the invocation  *)
(* that built it.                                                          *)
(***************************************************************************)
CONSTANTS
  Invocations,   \* calls of the handler a process has at a time
  None           \* null

ASSUME NoneIsNoInvocation == None \notin Invocations

VARIABLES
  cachedServer,   \* the module's variable of that name
  stage,          \* where each invocation is
  server,         \* what getServer returned to it
  ready           \* the servers whose app.init() has resolved

bootVars == <<cachedServer, stage, server, ready>>

BootStages == {"idle", "create", "init", "serve"}

BootTypeOK ==
  /\ cachedServer \in Invocations \cup {None}
  /\ stage \in [Invocations -> BootStages]
  /\ server \in [Invocations -> Invocations \cup {None}]
  /\ ready \subseteq Invocations

At(i, s) == stage' = [stage EXCEPT ![i] = s]

\* A warm process: the cached server is returned at once.
Reuse(i) ==
  /\ stage[i] = "idle" /\ cachedServer # None
  /\ At(i, "serve")
  /\ server' = [server EXCEPT ![i] = cachedServer]
  /\ UNCHANGED <<cachedServer, ready>>

\* A cold one: NestFactory.create is called.
ColdStart(i) ==
  /\ stage[i] = "idle" /\ cachedServer = None
  /\ At(i, "create")
  /\ UNCHANGED <<cachedServer, server, ready>>

\* Mutant: the server is cached before it is initialised.
CreateCaching(i) ==
  /\ stage[i] = "create"
  /\ At(i, "init")
  /\ cachedServer' = i
  /\ UNCHANGED <<server, ready>>

\* The application exists, pipes and filter are set, app.init() is called.
Create(i) ==
  /\ stage[i] = "create"
  /\ At(i, "init")
  /\ UNCHANGED <<cachedServer, server, ready>>

\* Mutant: only the first server to be ready is handed out.
InitFirst(i) ==
  /\ stage[i] = "init" /\ cachedServer = None
  /\ At(i, "serve")
  /\ cachedServer' = i
  /\ server' = [server EXCEPT ![i] = i]
  /\ ready' = ready \cup {i}

\* app.init() resolves: the server is cached, whatever is cached by now.
InitApp(i) ==
  /\ stage[i] = "init"
  /\ At(i, "serve")
  /\ cachedServer' = i
  /\ server' = [server EXCEPT ![i] = i]
  /\ ready' = ready \cup {i}

\* Either await rejects: the invocation fails and nothing is cached.
BootFails(i) ==
  /\ stage[i] \in {"create", "init"}
  /\ At(i, "idle")
  /\ UNCHANGED <<cachedServer, server, ready>>

\* The server has answered.
Leave(i) ==
  /\ stage[i] = "serve"
  /\ At(i, "idle")
  /\ server' = [server EXCEPT ![i] = None]
  /\ UNCHANGED <<cachedServer, ready>>

BootInit ==
  /\ cachedServer = None
  /\ stage = [i \in Invocations |-> "idle"]
  /\ server = [i \in Invocations |-> None]
  /\ ready = {}

-----------------------------------------------------------------------------
\* Whatever cold starts overlap, and whichever of them fail, a request is only
\* ever given to a server whose app.init() has resolved.
OnlyReadyServersServe ==
  \A i \in Invocations : stage[i] = "serve" => server[i] \in ready

\* Once one server is ready the process builds no more of them, also when
\* another start that was under way fails later.
WarmStaysWarm ==
  [][\A i \in Invocations : ready # {} /\ stage'[i] = "create" =>
       stage[i] = "create"]_bootVars
=============================================================================
