--------------------------- MODULE ProjectsProofs ---------------------------
(***************************************************************************)
(* Theorems about Projects, for any number of tenants, names, projects and *)
(* requests.                                                               *)
(*                                                                         *)
(* The argument: a project keeps the tenant it was created in, and once    *)
(* deleted it does not come back, since only the request that names it     *)
(* creates it and does so once (Evolves).  Story says of one request what  *)
(* its stage, its answer and its event tell about the tables, in terms     *)
(* that later steps of other requests cannot make false.                   *)
(***************************************************************************)
EXTENDS Projects, TLAPS

\* The routes with an id.
NamesId(r) == Is(r, "get") \/ Is(r, "update") \/ Is(r, "delete")

\* The routes that record an event.
Records(r) == Is(r, "create") \/ Is(r, "get") \/ Is(r, "delete")

\* The statement took effect, and the request has not failed since.
Took(r) == pc[r] = "audit" \/ reply[r] = "ok"

\* What is known of one request.
Course(r) ==
  /\ principal[r] = None <=> pc[r] = "idle"
  /\ pc[r] # "done" => reply[r] = "none" /\ event[r] = None
  /\ pc[r] = "done" => reply[r] # "none"
  /\ pc[r] = "readback" => Is(r, "update")
  /\ pc[r] = "audit" => Records(r)
  /\ event[r] # None => reply[r] = "ok" /\ Records(r) /\ event[r] = EventOf(r)
  /\ reply[r] = "ok" /\ Records(r) => event[r] # None
  /\ pc[r] = "idle" => shown[r] = {}

\* What it tells about the tables.
Effect(r) ==
  /\ NamesId(r) => home[call[r].id] # None
  /\ \A p \in shown[r] : home[p] = Org(r)
  /\ Is(r, "create") /\ Took(r) => home[r] # None
  /\ home[r] # None => /\ Is(r, "create") /\ home[r] = Org(r)
                       /\ pc[r] = "audit" \/ reply[r] \in {"ok", "error"}
  /\ Is(r, "get") /\ Took(r) => home[call[r].id] = Org(r)
  /\ Is(r, "delete") /\ Took(r) => home[call[r].id] = Org(r) /\ project[call[r].id] = None
  /\ reply[r] = "notFound" => NamesId(r) /\ ~InTenant(r, call[r].id)

Story(r) == Course(r) /\ Effect(r)

\* It has passed the guard.
Permitted(r) ==
  pc[r] \in {"query", "readback", "audit"} =>
    PermissionsGuard(principal[r].role, Required[call[r].op])

\* A row is its tenant's.
Homes ==
  /\ \A p \in Ids : project[p] # None => home[p] = project[p].org
  /\ \A p \in Existing : home[p] # None

\* What is gone was deleted by someone.
Deleted(r, p) ==
  /\ Is(r, "delete") /\ call[r].id = p
  /\ pc[r] = "audit" \/ reply[r] \in {"ok", "error"}

Caused == \A p \in Ids : home[p] # None /\ project[p] = None =>
            \E r \in Requests : Deleted(r, p)

OneDeletes ==
  \A r, q \in Requests :
    /\ Is(r, "delete") /\ Took(r)
    /\ Is(q, "delete") /\ Took(q)
    /\ call[r].id = call[q].id
    => r = q

IInv ==
  /\ TypeOK
  /\ \A r \in Requests : Story(r) /\ Permitted(r)
  /\ Homes
  /\ Caused
  /\ OneDeletes

-----------------------------------------------------------------------------
(* Requests.                                                               *)

LEMMA CallFacts ==
  ASSUME NEW c \in Call
  PROVE  /\ c # None
         /\ c.op \in {"create", "list", "get", "delete", "update"}
         /\ c.op \in {"get", "delete", "update"} => "id" \in DOMAIN c /\ c.id \in Ids
         /\ c.op = "create" => c.name \in Names
         /\ c.op = "update" => c.name \in Names \cup {None}
BY NoneIsNoRecord DEF Call

LEMMA IsFacts ==
  ASSUME TypeOK, NEW r \in Requests
  PROVE  /\ call[r] # None => call[r] \in Call
         /\ NamesId(r) => call[r].id \in Ids
         /\ Is(r, "create") => call[r].name \in Names
         /\ Is(r, "update") => call[r].name \in Names \cup {None}
         /\ call[r] # None => pc[r] # "idle"
         /\ pc[r] # "idle" => call[r] # None
<1>1. call[r] \in Call \cup {None} /\ (call[r] = None <=> pc[r] = "idle")
  BY DEF TypeOK
<1>2. call[r] # None => call[r] \in Call
  BY <1>1
<1>3. call[r] # None =>
        /\ call[r].op \in {"get", "delete", "update"} => call[r].id \in Ids
        /\ call[r].op = "create" => call[r].name \in Names
        /\ call[r].op = "update" => call[r].name \in Names \cup {None}
  BY <1>2, CallFacts
<1>4. NamesId(r) => call[r] # None /\ call[r].op \in {"get", "delete", "update"}
  BY DEF NamesId, Is
<1>5. NamesId(r) => call[r].id \in Ids
  BY <1>3, <1>4
<1>6. /\ Is(r, "create") => call[r].name \in Names
      /\ Is(r, "update") => call[r].name \in Names \cup {None}
  BY <1>3 DEF Is
<1> QED
  BY <1>1, <1>2, <1>5, <1>6

LEMMA OrgFacts ==
  ASSUME TypeOK, NEW r \in Requests, principal[r] # None
  PROVE  principal[r] \in Principal /\ Org(r) \in Orgs /\ Org(r) # None
BY NoneIsNothing DEF TypeOK, Principal, Org

LEMMA EventOfFacts ==
  ASSUME NEW r
  PROVE  /\ Is(r, "create") => EventOf(r) = "PROJECT_CREATED"
         /\ Is(r, "get") => EventOf(r) = "PROJECT_UPDATED"
         /\ Is(r, "delete") => EventOf(r) = "PROJECT_DELETED"
BY DEF EventOf, Is

\* An answer, which leaves the tables alone.
Answers(r) ==
  \/ RejectCreate(r) \/ ListProjects(r) \/ FailUpdate(r) \/ ReadBack(r)
  \/ NotFound(r) \/ Fail(r)

Steps(r) ==
  \/ Arrive(r) \/ CreateProject(r) \/ FindProject(r) \/ UpdateProject(r)
  \/ DeleteProject(r) \/ Record(r) \/ Answers(r)

LEMMA NextSteps == Next <=> \E r \in Requests : Steps(r)
BY DEF Next, Handle, Steps, Answers

\* What the answers have in common.
Replied(r, response, ids) ==
  /\ Answer(r, response, ids)
  /\ pc[r] \in {"query", "readback", "audit"}
  /\ ids \subseteq Ids
  /\ \A p \in ids : InTenant(r, p)
  /\ \/ response = "badRequest" /\ Is(r, "create") /\ pc[r] = "query"
     \/ response = "error"
     \/ response = "ok" /\ ~Records(r)
     \/ response = "notFound" /\ NamesId(r) /\ ~InTenant(r, call[r].id) /\ pc[r] # "audit"

LEMMA AnswerFacts ==
  ASSUME IInv, NEW r \in Requests, Answers(r)
  PROVE  \E response, ids : Replied(r, response, ids)
<1>1. TypeOK /\ Course(r)
  BY DEF IInv, Story
<1>2. CASE RejectCreate(r)
  <2>1. Replied(r, "badRequest", {})
    BY <1>2 DEF RejectCreate, Replied
  <2> QED
    BY <2>1
<1>3. CASE ListProjects(r)
  <2>1. ~Records(r)
    BY <1>3 DEF ListProjects, Records, Is
  <2>2. Replied(r, "ok", {p \in Ids : InTenant(r, p)})
    BY <1>3, <2>1 DEF ListProjects, Replied
  <2> QED
    BY <2>2
<1>4. CASE FailUpdate(r) \/ Fail(r)
  <2>1. Replied(r, "error", {})
    BY <1>4 DEF FailUpdate, Fail, Replied
  <2> QED
    BY <2>1
<1>5. CASE ReadBack(r)
  <2>1. Is(r, "update")
    BY <1>1, <1>5 DEF ReadBack, Course
  <2>2. ~Records(r) /\ call[r].id \in Ids
    BY <1>1, <2>1, IsFacts DEF Records, NamesId, Is
  <2>3. Replied(r, "ok", {call[r].id})
    BY <1>5, <2>2 DEF ReadBack, Replied
  <2> QED
    BY <2>3
<1>6. CASE NotFound(r)
  <2>1. NamesId(r)
    BY <1>1, <1>6 DEF NotFound, Course, NamesId
  <2>2. Replied(r, "notFound", {})
    BY <1>6, <2>1 DEF NotFound, Replied
  <2> QED
    BY <2>2
<1> QED
  BY <1>2, <1>3, <1>4, <1>5, <1>6 DEF Answers

\* A request changes nothing of another one but the tables.
Alone(r) ==
  \A q \in Requests \ {r} :
    /\ pc'[q] = pc[q] /\ call'[q] = call[q] /\ principal'[q] = principal[q]
    /\ shown'[q] = shown[q] /\ event'[q] = event[q] /\ reply'[q] = reply[q]
    /\ home'[q] = home[q]

LEMMA StepsAlone ==
  ASSUME IInv, NEW r \in Requests, Steps(r)
  PROVE  Alone(r)
<1> USE DEF IInv, TypeOK, Alone, Ids
<1>1. CASE Arrive(r)
  BY <1>1 DEF Arrive
<1>2. CASE CreateProject(r)
  BY <1>2 DEF CreateProject, Proceed
<1>3. CASE FindProject(r)
  BY <1>3 DEF FindProject, Proceed
<1>4. CASE UpdateProject(r)
  BY <1>4 DEF UpdateProject, Proceed
<1>5. CASE DeleteProject(r)
  BY <1>5 DEF DeleteProject, Proceed
<1>6. CASE Record(r)
  BY <1>6 DEF Record
<1>7. CASE Answers(r)
  <2>1. PICK response, ids : Replied(r, response, ids)
    BY <1>7, AnswerFacts
  <2> QED
    BY <2>1 DEF Replied, Answer
<1> QED
  BY <1>1, <1>2, <1>3, <1>4, <1>5, <1>6, <1>7 DEF Steps

\* Past its arrival a request is what it was.
LEMMA CallStays ==
  ASSUME IInv, NEW r \in Requests, Steps(r), ~Arrive(r)
  PROVE  call' = call /\ principal' = principal /\ pc[r] \in {"query", "readback", "audit"}
         /\ call[r] # None /\ principal[r] # None
<1>1. call' = call /\ principal' = principal /\ pc[r] \in {"query", "readback", "audit"}
  <2>1. CASE Answers(r)
    <3>1. PICK response, ids : Replied(r, response, ids)
      BY <2>1, AnswerFacts
    <3> QED
      BY <3>1 DEF Replied, Answer
  <2>2. CASE Record(r)
    BY <2>2 DEF Record
  <2> QED
    BY <2>1, <2>2 DEF Steps, CreateProject, FindProject, UpdateProject, DeleteProject, Proceed
<1> QED
  BY <1>1, IsFacts DEF IInv, Story, Course

-----------------------------------------------------------------------------
(* Types.                                                                  *)

LEMMA InitTyped == Init => TypeOK
<1> SUFFICES ASSUME Init PROVE TypeOK
  OBVIOUS
<1>1. home \in [Ids -> Orgs \cup {None}]
  <2>1. ASSUME NEW p \in Existing
        PROVE  project[p].org \in Orgs
    BY <2>1 DEF Init, Row, Ids
  <2> QED
    BY <2>1 DEF Init
<1> QED
  BY <1>1 DEF Init, TypeOK, Stages, Replies

LEMMA NextTyped ==
  ASSUME IInv, NEW r \in Requests, Steps(r)
  PROVE  TypeOK'
<1> USE DEF TypeOK, Stages, Replies
<1>1. TypeOK /\ r \in Ids
  BY DEF IInv, Ids
<1>2. CASE Arrive(r)
  <2>1. PICK c \in Call, u \in Principal :
          /\ call' = [call EXCEPT ![r] = c]
          /\ principal' = [principal EXCEPT ![r] = u]
          /\ \/ pc' = [pc EXCEPT ![r] = "query"] /\ reply' = reply
             \/ /\ pc' = [pc EXCEPT ![r] = "done"]
                /\ reply' = [reply EXCEPT ![r] = "forbidden"]
    BY <1>2 DEF Arrive
  <2>2. c # None
    BY CallFacts
  <2> QED
    BY <1>1, <1>2, <2>1, <2>2 DEF Arrive
<1>3. ASSUME ~Arrive(r)
      PROVE  TypeOK'
  <2>1. /\ call' = call /\ principal' = principal /\ call[r] # None
        /\ principal[r] # None /\ pc[r] # "idle"
    BY <1>3, CallStays
  <2>2. Org(r) \in Orgs /\ Org(r) # None
    BY <1>1, <2>1, OrgFacts
  <2>3. CASE CreateProject(r)
    <3>1. [org |-> Org(r), name |-> call[r].name] \in Row
      BY <1>1, <2>2, <2>3, IsFacts DEF CreateProject, Row
    <3> QED
      BY <1>1, <2>1, <2>2, <2>3, <3>1 DEF CreateProject, Proceed
  <2>4. CASE FindProject(r)
    <3>1. call[r].id \in Ids
      BY <1>1, <2>4, IsFacts DEF FindProject, NamesId
    <3> QED
      BY <1>1, <2>1, <2>4, <3>1 DEF FindProject, Proceed
  <2>5. CASE UpdateProject(r)
    <3> DEFINE p == call[r].id
               name == IF call[r].name = None THEN project[p].name ELSE call[r].name
    <3>1. p \in Ids /\ call[r].name \in Names \cup {None} /\ project[p] # None
      BY <1>1, <2>5, IsFacts DEF UpdateProject, NamesId, InTenant
    <3>2. project[p] \in Row /\ name \in Names
      BY <1>1, <3>1 DEF Row
    <3>3. project' = [project EXCEPT ![p] = [project[p] EXCEPT !.name = name]]
      BY <2>5 DEF UpdateProject
    <3>4. [project[p] EXCEPT !.name = name] \in Row
      BY <3>2 DEF Row
    <3> QED
      BY <1>1, <2>1, <2>5, <3>1, <3>3, <3>4 DEF UpdateProject, Proceed
  <2>6. CASE DeleteProject(r)
    BY <1>1, <2>1, <2>6 DEF DeleteProject, Proceed
  <2>7. CASE Record(r)
    <3>1. EventOf(r) \in Events
      <4>1. Records(r)
        BY <2>7 DEF Record, IInv, Story, Course
      <4> QED
        BY <4>1, EventOfFacts DEF Records, Events
    <3> QED
      BY <1>1, <2>1, <2>7, <3>1 DEF Record
  <2>8. CASE Answers(r)
    <3>1. PICK response, ids : Replied(r, response, ids)
      BY <2>8, AnswerFacts
    <3> QED
      BY <1>1, <2>1, <3>1 DEF Replied, Answer
  <2> QED
    BY <1>3, <2>3, <2>4, <2>5, <2>6, <2>7, <2>8 DEF Steps
<1> QED
  BY <1>2, <1>3

-----------------------------------------------------------------------------
(* The tables.                                                             *)

\* A project keeps the tenant it was created in, and what is gone stays gone.
Evolves ==
  /\ \A p \in Ids : home[p] # None => home'[p] = home[p]
  /\ \A p \in Ids : home[p] # None /\ project[p] = None => project'[p] = None

LEMMA TablesEvolve ==
  ASSUME IInv, NEW r \in Requests, Steps(r)
  PROVE  Homes' /\ Evolves
<1> USE DEF Homes, Evolves
<1>1. TypeOK /\ Homes /\ r \in Ids /\ Story(r) /\ r \notin Existing /\ Existing \subseteq Ids
  BY ExistingIsNoRequest DEF IInv, Ids
<1>2. CASE CreateProject(r)
  <2>1. home[r] = None
    BY <1>1, <1>2 DEF CreateProject, Story, Course, Effect
  <2>2. /\ project' = [project EXCEPT ![r] = [org |-> Org(r), name |-> call[r].name]]
        /\ home' = [home EXCEPT ![r] = Org(r)]
    BY <1>2 DEF CreateProject
  <2>3. project'[r].org = home'[r]
    BY <1>1, <2>2 DEF TypeOK
  <2>4. \A p \in Ids \ {r} : project'[p] = project[p] /\ home'[p] = home[p]
    BY <1>1, <2>2 DEF TypeOK
  <2> QED
    BY <1>1, <2>1, <2>3, <2>4
<1>3. CASE UpdateProject(r)
  <2> DEFINE q == call[r].id
  <2>1. q \in Ids /\ project[q] # None
    BY <1>1, <1>3, IsFacts DEF UpdateProject, NamesId, InTenant
  <2>2. PICK name : project' = [project EXCEPT ![q] = [project[q] EXCEPT !.name = name]]
    BY <1>3 DEF UpdateProject
  <2>3. project[q] \in Row
    BY <1>1, <2>1 DEF TypeOK
  <2>4. project'[q].org = project[q].org
    BY <1>1, <2>1, <2>2, <2>3 DEF TypeOK, Row
  <2>5. \A p \in Ids \ {q} : project'[p] = project[p]
    BY <1>1, <2>1, <2>2 DEF TypeOK
  <2>6. home' = home
    BY <1>3 DEF UpdateProject
  <2> QED
    BY <1>1, <2>1, <2>4, <2>5, <2>6
<1>4. CASE DeleteProject(r)
  <2>1. project' = [project EXCEPT ![call[r].id] = None] /\ home' = home
    BY <1>4 DEF DeleteProject
  <2>2. \A p \in Ids : project'[p] \in {project[p], None}
    BY <1>1, <2>1 DEF TypeOK
  <2> QED
    BY <1>1, <2>1, <2>2
<1>5. CASE Arrive(r) \/ FindProject(r) \/ Record(r)
  BY <1>1, <1>5 DEF Arrive, FindProject, Record
<1>6. CASE Answers(r)
  <2>1. PICK response, ids : Replied(r, response, ids)
    BY <1>6, AnswerFacts
  <2> QED
    BY <1>1, <2>1 DEF Replied, Answer
<1> QED
  BY <1>2, <1>3, <1>4, <1>5, <1>6 DEF Steps

LEMMA StoryOfOthers ==
  ASSUME IInv, NEW r \in Requests, Steps(r), NEW q \in Requests, q # r
  PROVE  Story(q)'
<1>1. /\ pc'[q] = pc[q] /\ call'[q] = call[q] /\ principal'[q] = principal[q]
      /\ shown'[q] = shown[q] /\ event'[q] = event[q] /\ reply'[q] = reply[q]
      /\ home'[q] = home[q]
  BY StepsAlone DEF Alone
<1>2. Homes' /\ Evolves
  BY TablesEvolve
<1>3. TypeOK /\ Course(q) /\ Effect(q)
  BY DEF IInv, Story
<1>4. /\ \A op : Is(q, op)' <=> Is(q, op)
      /\ NamesId(q)' <=> NamesId(q)
      /\ Records(q)' <=> Records(q)
      /\ Took(q)' <=> Took(q)
      /\ EventOf(q)' = EventOf(q)
      /\ Org(q)' = Org(q)
  BY <1>1 DEF Is, NamesId, Records, Took, EventOf, Org
<1>5. Course(q)'
  BY <1>1, <1>3, <1>4 DEF Course
<1>6. Effect(q)'
  <2>1. NamesId(q) => call[q].id \in Ids
    BY <1>3, IsFacts
  <2>2. shown[q] \subseteq Ids /\ (shown[q] # {} => Org(q) # None)
    <3>1. shown[q] # {} => principal[q] # None
      BY <1>3 DEF Course
    <3> QED
      BY <1>3, <3>1, OrgFacts DEF TypeOK
  <2>3. NamesId(q) => home[call[q].id] # None /\ home'[call[q].id] = home[call[q].id]
    BY <1>2, <1>3, <2>1 DEF Effect, Evolves
  <2>4. \A p \in shown[q] : home'[p] = Org(q)
    BY <1>2, <1>3, <2>2 DEF Effect, Evolves
  <2>5. Is(q, "delete") /\ Took(q) => project'[call[q].id] = None
    BY <1>2, <1>3, <2>1, <2>3 DEF Effect, Evolves, NamesId
  <2>6. reply[q] = "notFound" => ~InTenant(q, call[q].id)'
    <3> SUFFICES ASSUME reply[q] = "notFound" PROVE ~InTenant(q, call[q].id)'
      OBVIOUS
    <3>1. ~InTenant(q, call[q].id) /\ call[q].id \in Ids /\ home[call[q].id] # None
      BY <1>3, <2>1, <2>3 DEF Effect
    <3>2. project[call[q].id] = None \/ project[call[q].id].org # Org(q)
      BY <3>1 DEF InTenant
    <3>3. project'[call[q].id] # None => project'[call[q].id].org = home[call[q].id]
                                        /\ project[call[q].id] # None
      BY <1>2, <3>1 DEF Homes, Evolves
    <3>4. project[call[q].id] # None => project[call[q].id].org = home[call[q].id]
      BY <3>1 DEF IInv, Homes
    <3>5. project'[call[q].id] = None \/ project'[call[q].id].org # Org(q)
      BY <3>2, <3>3, <3>4
    <3> QED
      BY <1>1, <1>4, <3>5 DEF InTenant
  <2>7. NamesId(q) <=> Is(q, "get") \/ Is(q, "update") \/ Is(q, "delete")
    BY DEF NamesId
  <2> QED
    BY <1>1, <1>3, <1>4, <2>3, <2>4, <2>5, <2>6, <2>7 DEF Effect
<1> QED
  BY <1>5, <1>6 DEF Story

-----------------------------------------------------------------------------
(* The request that makes the step.                                        *)

LEMMA OwnArrival ==
  ASSUME IInv, NEW r \in Requests, Arrive(r)
  PROVE  Story(r)'
<1>1. TypeOK /\ Course(r) /\ Effect(r) /\ TypeOK'
  BY NextTyped DEF IInv, Story, Steps
<1>2. PICK c \in Call, u \in Principal :
        /\ "id" \in DOMAIN c => home[c.id] # None
        /\ call' = [call EXCEPT ![r] = c]
        /\ principal' = [principal EXCEPT ![r] = u]
        /\ \/ pc' = [pc EXCEPT ![r] = "query"] /\ reply' = reply
           \/ /\ pc' = [pc EXCEPT ![r] = "done"]
              /\ reply' = [reply EXCEPT ![r] = "forbidden"]
  BY DEF Arrive
<1>3. /\ pc[r] = "idle" /\ reply[r] = "none" /\ event[r] = None /\ shown[r] = {}
      /\ call[r] = None /\ home[r] = None
  BY <1>1 DEF Arrive, Course, Effect, TypeOK, Is
<1>4. UNCHANGED <<project, shown, event, home>>
  BY DEF Arrive
<1>5. call'[r] = c /\ principal'[r] = u /\ c # None /\ u # None
  BY <1>1, <1>2, CallFacts, NoneIsNoRecord DEF TypeOK
<1>6. \/ pc'[r] = "query" /\ reply'[r] = "none"
      \/ pc'[r] = "done" /\ reply'[r] = "forbidden"
  BY <1>1, <1>2, <1>3 DEF TypeOK
<1>7. NamesId(r)' => home'[call'[r].id] # None
  BY <1>2, <1>4, <1>5, CallFacts DEF NamesId, Is
<1>8. Course(r)'
  BY <1>3, <1>4, <1>5, <1>6 DEF Course
<1>9. Effect(r)'
  BY <1>3, <1>4, <1>6, <1>7 DEF Effect, Took
<1> QED
  BY <1>8, <1>9 DEF Story

LEMMA OwnStory ==
  ASSUME IInv, NEW r \in Requests, Steps(r)
  PROVE  Story(r)'
<1>1. TypeOK /\ Course(r) /\ Effect(r) /\ TypeOK' /\ Homes /\ r \in Ids
  BY NextTyped DEF IInv, Story, Ids
<1>2. CASE Arrive(r)
  BY <1>2, OwnArrival
<1>3. ASSUME ~Arrive(r)
      PROVE  Story(r)'
  <2>1. /\ call' = call /\ principal' = principal /\ call[r] # None
        /\ principal[r] # None /\ pc[r] \in {"query", "readback", "audit"}
    BY <1>3, CallStays
  <2>2. /\ \A op : Is(r, op)' <=> Is(r, op)
        /\ NamesId(r)' <=> NamesId(r)
        /\ Records(r)' <=> Records(r)
        /\ EventOf(r)' = EventOf(r)
        /\ Org(r)' = Org(r)
    BY <2>1 DEF Is, NamesId, Records, EventOf, Org
  <2>3. reply[r] = "none" /\ event[r] = None
    BY <1>1, <2>1 DEF Course
  <2>4. NamesId(r) => call[r].id \in Ids
    BY <1>1, IsFacts
  <2>5. Homes' /\ Evolves
    BY TablesEvolve
  <2>6. NamesId(r) => home[call[r].id] # None /\ home'[call[r].id] = home[call[r].id]
    BY <1>1, <2>4, <2>5 DEF Effect, Evolves
  <2>7. Org(r) \in Orgs /\ Org(r) # None
    BY <1>1, <2>1, OrgFacts
  <2>8. ASSUME pc[r] = "query", pc'[r] \in {"readback", "audit"},
               event' = event, reply' = reply,
               pc'[r] = "readback" => Is(r, "update"),
               pc'[r] = "audit" => Records(r),
               \A p \in shown'[r] : home'[p] = Org(r),
               Is(r, "create") => home'[r] = Org(r) /\ pc'[r] = "audit",
               ~Is(r, "create") => home'[r] = home[r],
               Is(r, "get") => home'[call[r].id] = Org(r),
               Is(r, "delete") => home'[call[r].id] = Org(r) /\ project'[call[r].id] = None
        PROVE  Story(r)'
    <3>1. Course(r)'
      BY <2>1, <2>2, <2>3, <2>8 DEF Course
    <3>2. Effect(r)'
      BY <1>1, <2>1, <2>2, <2>3, <2>6, <2>7, <2>8 DEF Effect, Took
    <3> QED
      BY <3>1, <3>2 DEF Story
  <2>9. CASE CreateProject(r)
    <3>1. Is(r, "create") /\ pc[r] = "query" /\ pc'[r] = "audit" /\ home'[r] = Org(r)
          /\ event' = event /\ reply' = reply /\ shown' = shown
      BY <1>1, <2>9 DEF CreateProject, Proceed, TypeOK
    <3>2. ~Is(r, "get") /\ ~Is(r, "delete") /\ Records(r)
      BY <3>1 DEF Is, Records
    <3>3. \A p \in shown[r] : p \in Ids /\ home[p] = Org(r) /\ home'[p] = home[p]
      BY <1>1, <2>5, <2>7 DEF Effect, Evolves, TypeOK
    <3> QED
      BY <2>8, <3>1, <3>2, <3>3
  <2>10. CASE FindProject(r)
    <3>1. /\ Is(r, "get") /\ pc[r] = "query" /\ pc'[r] = "audit"
          /\ event' = event /\ reply' = reply /\ home' = home
          /\ shown'[r] = {call[r].id} /\ InTenant(r, call[r].id)
      BY <1>1, <2>10 DEF FindProject, Proceed, TypeOK
    <3>2. ~Is(r, "create") /\ ~Is(r, "delete") /\ Records(r) /\ NamesId(r)
      BY <3>1 DEF Is, Records, NamesId
    <3>3. home[call[r].id] = Org(r)
      BY <1>1, <2>4, <3>1, <3>2 DEF InTenant, Homes
    <3> QED
      BY <2>8, <3>1, <3>2, <3>3
  <2>11. CASE UpdateProject(r)
    <3>1. /\ Is(r, "update") /\ pc[r] = "query" /\ pc'[r] = "readback"
          /\ event' = event /\ reply' = reply /\ home' = home /\ shown' = shown
      BY <1>1, <2>11 DEF UpdateProject, Proceed, TypeOK
    <3>2. ~Is(r, "create") /\ ~Is(r, "delete") /\ ~Is(r, "get")
      BY <3>1 DEF Is
    <3>3. \A p \in shown[r] : home[p] = Org(r)
      BY <1>1 DEF Effect
    <3> QED
      BY <2>8, <3>1, <3>2, <3>3
  <2>12. CASE DeleteProject(r)
    <3>1. /\ Is(r, "delete") /\ pc[r] = "query" /\ pc'[r] = "audit"
          /\ event' = event /\ reply' = reply /\ home' = home /\ shown' = shown
          /\ InTenant(r, call[r].id) /\ project' = [project EXCEPT ![call[r].id] = None]
      BY <1>1, <2>12 DEF DeleteProject, Proceed, TypeOK
    <3>2. ~Is(r, "create") /\ ~Is(r, "get") /\ Records(r) /\ NamesId(r)
      BY <3>1 DEF Is, Records, NamesId
    <3>3. home[call[r].id] = Org(r) /\ project'[call[r].id] = None
      BY <1>1, <2>4, <3>1, <3>2 DEF InTenant, Homes, TypeOK
    <3>4. \A p \in shown[r] : home[p] = Org(r)
      BY <1>1 DEF Effect
    <3> QED
      BY <2>8, <3>1, <3>2, <3>3, <3>4
  <2>13. CASE Record(r)
    <3>1. /\ pc[r] = "audit" /\ Records(r) /\ pc'[r] = "done" /\ reply'[r] = "ok"
          /\ event'[r] = EventOf(r) /\ UNCHANGED <<project, shown, home>>
      BY <1>1, <2>13 DEF Record, Course, TypeOK
    <3>2. EventOf(r) # None
      BY <3>1, EventOfFacts, NoneIsNoRecord DEF Records, Events
    <3>3. Took(r) /\ Took(r)'
      BY <3>1 DEF Took
    <3>4. Course(r)'
      BY <2>1, <2>2, <3>1, <3>2 DEF Course
    <3>5. Effect(r)'
      BY <1>1, <2>1, <2>2, <3>1, <3>3 DEF Effect
    <3> QED
      BY <3>4, <3>5 DEF Story
  <2>14. CASE Answers(r)
    <3>1. PICK response, ids : Replied(r, response, ids)
      BY <2>14, AnswerFacts
    <3>2. /\ pc'[r] = "done" /\ reply'[r] = response /\ shown'[r] = ids
          /\ response \in {"badRequest", "error", "ok", "notFound"}
          /\ UNCHANGED <<project, call, principal, event, home>>
      BY <1>1, <3>1 DEF Replied, Answer, TypeOK
    <3>3. \A p \in ids : home[p] = Org(r)
      BY <1>1, <3>1 DEF Replied, InTenant, Homes
    <3>4. InTenant(r, call[r].id)' <=> InTenant(r, call[r].id)
      BY <3>2 DEF InTenant, Org
    <3>5. home[r] # None => response = "error"
      <4>1. home[r] # None => Is(r, "create") /\ pc[r] = "audit"
        BY <1>1, <2>3 DEF Effect
      <4>2. Is(r, "create") => Records(r) /\ ~NamesId(r)
        BY DEF Is, Records, NamesId
      <4> QED
        BY <3>1, <4>1, <4>2 DEF Replied
    <3>6. Records(r) => response # "ok"
      BY <3>1 DEF Replied
    <3>7. response = "notFound" => NamesId(r) /\ ~InTenant(r, call[r].id)
      BY <3>1 DEF Replied
    <3>8. Course(r)'
      BY <2>1, <2>2, <2>3, <3>2, <3>6 DEF Course
    <3>9. Took(r)' => ~Records(r)
      BY <3>2, <3>6 DEF Took
    <3>10. Effect(r)'
      BY <1>1, <2>2, <2>6, <3>2, <3>3, <3>4, <3>5, <3>7, <3>9 DEF Effect, Records
    <3> QED
      BY <3>8, <3>10 DEF Story
  <2> QED
    BY <1>3, <2>9, <2>10, <2>11, <2>12, <2>13, <2>14 DEF Steps
<1> QED
  BY <1>2, <1>3

LEMMA PermittedStays ==
  ASSUME IInv, NEW r \in Requests, Steps(r), NEW q \in Requests
  PROVE  Permitted(q)'
<1>1. Permitted(q) /\ TypeOK
  BY DEF IInv
<1>2. CASE q # r
  <2>1. pc'[q] = pc[q] /\ call'[q] = call[q] /\ principal'[q] = principal[q]
    BY <1>2, StepsAlone DEF Alone
  <2> QED
    BY <1>1, <2>1 DEF Permitted
<1>3. CASE q = r /\ Arrive(r)
  <2>1. PICK c \in Call, u \in Principal :
          /\ call' = [call EXCEPT ![r] = c]
          /\ principal' = [principal EXCEPT ![r] = u]
          /\ \/ PermissionsGuard(u.role, Required[c.op])
             \/ pc' = [pc EXCEPT ![r] = "done"]
    BY <1>3 DEF Arrive
  <2> QED
    BY <1>1, <1>3, <2>1 DEF Permitted, TypeOK
<1>4. CASE q = r /\ ~Arrive(r)
  <2>1. call' = call /\ principal' = principal /\ pc[r] \in {"query", "readback", "audit"}
    BY <1>4, CallStays
  <2> QED
    BY <1>1, <1>4, <2>1 DEF Permitted
<1> QED
  BY <1>2, <1>3, <1>4

-----------------------------------------------------------------------------
(* Deletions.                                                              *)

\* A row comes with its creation and goes with a deletion.
LEMMA ComeAndGo ==
  ASSUME IInv, NEW r \in Requests, Steps(r), NEW p \in Ids
  PROVE  /\ home[p] = None /\ home'[p] # None => p = r /\ project'[p] # None
         /\ project[p] # None /\ project'[p] = None =>
              /\ DeleteProject(r) /\ Is(r, "delete") /\ call[r].id = p /\ pc'[r] = "audit"
              /\ call' = call
<1>1. TypeOK /\ r \in Ids
  BY DEF IInv, Ids
<1>2. CASE CreateProject(r)
  <2>1. [org |-> Org(r), name |-> call[r].name] \in Row
    <3>1. Org(r) \in Orgs
      BY <1>1, <1>2, CallStays, OrgFacts DEF CreateProject, Arrive
    <3> QED
      BY <1>1, <1>2, <3>1, IsFacts DEF CreateProject, Row
  <2> QED
    BY <1>1, <1>2, <2>1, NoneIsNoRecord DEF CreateProject, TypeOK
<1>3. CASE UpdateProject(r)
  <2>1. TypeOK'
    BY NextTyped
  <2>2. call[r].id \in Ids /\ project[call[r].id] # None /\ home' = home
    BY <1>1, <1>3, IsFacts DEF UpdateProject, NamesId, InTenant
  <2>3. PICK name : project' = [project EXCEPT ![call[r].id] =
                                  [project[call[r].id] EXCEPT !.name = name]]
    BY <1>3 DEF UpdateProject
  <2>4. project[call[r].id] \in Row
    BY <1>1, <2>2 DEF TypeOK
  <2>5. project'[call[r].id] = [project[call[r].id] EXCEPT !.name = name]
    BY <1>1, <2>2, <2>3 DEF TypeOK
  <2>6. project'[call[r].id] # None
    <3>1. call[r].name \in Names \cup {None}
      BY <1>1, <1>3, IsFacts DEF UpdateProject
    <3>2. /\ project' = [project EXCEPT ![call[r].id] =
                 [project[call[r].id] EXCEPT !.name =
                    IF call[r].name = None THEN project[call[r].id].name ELSE call[r].name]]
      BY <1>3 DEF UpdateProject
    <3>3. [project[call[r].id] EXCEPT !.name =
             IF call[r].name = None THEN project[call[r].id].name ELSE call[r].name] \in Row
      BY <2>4, <3>1 DEF Row
    <3> QED
      BY <1>1, <2>2, <3>2, <3>3, NoneIsNoRecord DEF TypeOK
  <2> QED
    BY <1>1, <2>2, <2>3, <2>6 DEF TypeOK
<1>4. CASE DeleteProject(r)
  BY <1>1, <1>4 DEF DeleteProject, Proceed, TypeOK
<1>5. CASE Arrive(r) \/ FindProject(r) \/ Record(r)
  BY <1>5 DEF Arrive, FindProject, Record
<1>6. CASE Answers(r)
  <2>1. PICK response, ids : Replied(r, response, ids)
    BY <1>6, AnswerFacts
  <2> QED
    BY <2>1 DEF Replied, Answer
<1> QED
  BY <1>2, <1>3, <1>4, <1>5, <1>6 DEF Steps

\* A deletion that has taken effect is recorded or has failed.
LEMMA DeletedStays ==
  ASSUME IInv, NEW r \in Requests, Steps(r), NEW q \in Requests, NEW p \in Ids,
         Deleted(q, p)
  PROVE  Deleted(q, p)'
<1>1. CASE q # r
  <2>1. pc'[q] = pc[q] /\ call'[q] = call[q] /\ reply'[q] = reply[q]
    BY <1>1, StepsAlone DEF Alone
  <2> QED
    BY <2>1 DEF Deleted, Is
<1>2. CASE q = r
  <2>1. TypeOK /\ Course(r)
    BY DEF IInv, Story
  <2>2. Is(r, "delete") /\ Records(r) /\ call[r] # None
    BY <1>2 DEF Deleted, Records, Is
  <2>3. ~Arrive(r)
    BY <2>1, <2>2 DEF Arrive, TypeOK
  <2>4. call' = call /\ pc[r] \in {"query", "readback", "audit"}
    BY <2>3, CallStays
  <2>5. pc[r] = "audit"
    BY <1>2, <2>1, <2>4 DEF Deleted, Course
  <2>6. CASE Record(r)
    BY <1>2, <2>1, <2>6 DEF Record, Deleted, Is, TypeOK
  <2>7. CASE Answers(r)
    <3>1. PICK response, ids : Replied(r, response, ids)
      BY <2>7, AnswerFacts
    <3>2. response = "error"
      BY <2>2, <2>5, <3>1 DEF Replied
    <3> QED
      BY <1>2, <2>1, <3>1, <3>2 DEF Replied, Answer, Deleted, Is, TypeOK
  <2> QED
    BY <2>3, <2>5, <2>6, <2>7
       DEF Steps, CreateProject, FindProject, UpdateProject, DeleteProject
<1> QED
  BY <1>1, <1>2

LEMMA CausedStays ==
  ASSUME IInv, NEW r \in Requests, Steps(r)
  PROVE  Caused'
<1> SUFFICES ASSUME NEW p \in Ids, home'[p] # None, project'[p] = None
             PROVE  \E q \in Requests : Deleted(q, p)'
  BY DEF Caused
<1>1. home[p] # None
  BY ComeAndGo
<1>2. CASE project[p] = None
  <2>1. PICK q \in Requests : Deleted(q, p)
    BY <1>1, <1>2 DEF IInv, Caused
  <2> QED
    BY <2>1, DeletedStays
<1>3. CASE project[p] # None
  <2>1. Deleted(r, p)'
    BY <1>3, ComeAndGo DEF Deleted, Is
  <2> QED
    BY <2>1
<1> QED
  BY <1>2, <1>3

\* A deletion takes effect where its row was there.
LEMMA TakesEffect ==
  ASSUME IInv, NEW r \in Requests, Steps(r), NEW q \in Requests,
         Is(q, "delete")', Took(q)'
  PROVE  /\ Is(q, "delete") /\ call'[q] = call[q]
         /\ Took(q) \/ (q = r /\ project[call[r].id] # None)
<1>1. CASE q # r
  <2>1. pc'[q] = pc[q] /\ call'[q] = call[q] /\ reply'[q] = reply[q]
    BY <1>1, StepsAlone DEF Alone
  <2> QED
    BY <2>1 DEF Is, Took
<1>2. CASE q = r
  <2>1. TypeOK /\ TypeOK' /\ Course(r) /\ Course(r)'
    BY NextTyped, OwnStory DEF IInv, Story
  <2>2. ~Arrive(r)
    <3> SUFFICES ASSUME Arrive(r) PROVE FALSE
      OBVIOUS
    <3>1. pc'[r] \in {"query", "done"} /\ reply'[r] \in {"none", "forbidden"}
      BY <2>1 DEF Arrive, Course, TypeOK
    <3> QED
      BY <1>2, <3>1 DEF Took
  <2>3. call' = call
    BY <2>2, CallStays
  <2>4. Is(r, "delete") /\ Records(r)
    BY <1>2, <2>3 DEF Is, Records
  <2>5. CASE Answers(r)
    <3>1. PICK response, ids : Replied(r, response, ids)
      BY <2>5, AnswerFacts
    <3> QED
      BY <1>2, <2>1, <2>4, <3>1 DEF Replied, Answer, Took, TypeOK
  <2>6. CASE DeleteProject(r)
    <3>1. project[call[r].id] # None
      BY <2>6 DEF DeleteProject, InTenant
    <3> QED
      BY <1>2, <2>3, <2>4, <3>1
  <2>7. CASE Record(r)
    BY <1>2, <2>3, <2>4, <2>7 DEF Record, Took
  <2> QED
    BY <2>2, <2>4, <2>5, <2>6, <2>7
       DEF Steps, CreateProject, FindProject, UpdateProject, Is
<1> QED
  BY <1>1, <1>2

LEMMA OneDeletesStays ==
  ASSUME IInv, NEW r \in Requests, Steps(r)
  PROVE  OneDeletes'
<1> SUFFICES ASSUME NEW a \in Requests, NEW b \in Requests,
                    Is(a, "delete")', Took(a)', Is(b, "delete")', Took(b)',
                    call'[a].id = call'[b].id
             PROVE  a = b
  BY DEF OneDeletes
<1>1. /\ Is(a, "delete") /\ call'[a] = call[a]
      /\ Took(a) \/ (a = r /\ project[call[r].id] # None)
  BY TakesEffect
<1>2. /\ Is(b, "delete") /\ call'[b] = call[b]
      /\ Took(b) \/ (b = r /\ project[call[r].id] # None)
  BY TakesEffect
<1>3. Took(a) => project[call[a].id] = None
  BY <1>1 DEF IInv, Story, Effect
<1>4. Took(b) => project[call[b].id] = None
  BY <1>2 DEF IInv, Story, Effect
<1>5. Took(a) /\ Took(b) => a = b
  BY <1>1, <1>2 DEF IInv, OneDeletes
<1> QED
  BY <1>1, <1>2, <1>3, <1>4, <1>5

-----------------------------------------------------------------------------
(* The invariant.                                                          *)

LEMMA InitInv == Init => IInv
<1> SUFFICES ASSUME Init PROVE IInv
  OBVIOUS
<1>1. TypeOK
  BY InitTyped
<1>2. /\ \A r \in Requests : pc[r] = "idle" /\ call[r] = None /\ principal[r] = None
      /\ \A r \in Requests : shown[r] = {} /\ event[r] = None /\ reply[r] = "none"
      /\ \A r \in Requests : r \in Ids /\ r \notin Existing /\ home[r] = None
      /\ \A p \in Existing : p \in Ids /\ project[p] # None /\ home[p] = project[p].org
  BY ExistingIsNoRequest DEF Init, Ids
<1>3. \A r \in Requests : Story(r) /\ Permitted(r)
  BY <1>2 DEF Story, Course, Effect, Permitted, Took, Is, NamesId, Records
<1>4. Homes
  <2>1. \A p \in Existing : project[p].org \in Orgs
    BY <1>1, <1>2 DEF TypeOK, Row
  <2>2. \A p \in Ids : p \in Existing \/ project[p] = None
    BY DEF Init, Ids
  <2> QED
    BY <1>2, <2>1, <2>2, NoneIsNothing DEF Homes
<1>5. Caused
  BY <1>2 DEF Caused, Ids
<1>6. OneDeletes
  BY <1>2 DEF OneDeletes, Is
<1> QED
  BY <1>1, <1>3, <1>4, <1>5, <1>6 DEF IInv

LEMMA NextInv == IInv /\ [Next]_vars => IInv'
<1>1. ASSUME IInv, NEW r \in Requests, Steps(r)
      PROVE  IInv'
  <2>1. TypeOK'
    BY <1>1, NextTyped
  <2>2. \A q \in Requests : Story(q)' /\ Permitted(q)'
    BY <1>1, OwnStory, StoryOfOthers, PermittedStays
  <2>3. Homes' /\ Caused' /\ OneDeletes'
    BY <1>1, TablesEvolve, CausedStays, OneDeletesStays
  <2> QED
    BY <2>1, <2>2, <2>3 DEF IInv
<1>2. ASSUME IInv, UNCHANGED vars
      PROVE  IInv'
  <2>1. TypeOK'
    BY <1>2 DEF vars, IInv, TypeOK
  <2>2. ASSUME NEW q \in Requests
        PROVE  Story(q)' /\ Permitted(q)'
    BY <1>2 DEF vars, IInv, Story, Course, Effect, Permitted, Took, Is, NamesId, Records,
                EventOf, InTenant, Org
  <2>3. Homes' /\ Caused' /\ OneDeletes'
    BY <1>2 DEF vars, IInv, Homes, Caused, Deleted, OneDeletes, Took, Is
  <2> QED
    BY <2>1, <2>2, <2>3 DEF IInv
<1> QED
  BY <1>1, <1>2, NextSteps

LEMMA Invariance == Spec => []IInv
BY InitInv, NextInv, PTL DEF Spec

\* Type correctness of the project handlers.
THEOREM TypeCorrect == Spec => []TypeOK
<1>1. IInv => TypeOK
  BY DEF IInv
<1> QED
  BY Invariance, <1>1, PTL

\* No answer shows a project of another tenant than the token's.
THEOREM AnswersStay == Spec => []AnswersStayInTenant
<1>1. IInv => AnswersStayInTenant
  BY DEF IInv, Story, Effect, AnswersStayInTenant
<1> QED
  BY Invariance, <1>1, PTL

\* Of racing deletions one succeeds, and the project stays deleted.
THEOREM DeletionFinal == Spec => []DeletionIsOnceAndFinal
<1>1. ASSUME IInv PROVE DeletionIsOnceAndFinal
  <2>1. \A r \in Requests : reply[r] = "ok" \/ event[r] # None => Took(r)
    BY <1>1 DEF IInv, Story, Course, Took
  <2> SUFFICES ASSUME NEW r \in Requests, Is(r, "delete"), Took(r)
               PROVE  /\ project[call[r].id] = None
                      /\ \A q \in Requests \ {r} :
                           Is(q, "delete") /\ call[q].id = call[r].id => ~Took(q)
    BY <2>1 DEF DeletionIsOnceAndFinal
  <2>2. project[call[r].id] = None
    BY <1>1 DEF IInv, Story, Effect
  <2>3. \A q \in Requests \ {r} :
          Is(q, "delete") /\ call[q].id = call[r].id => ~Took(q)
    BY <1>1 DEF IInv, OneDeletes
  <2> QED
    BY <2>2, <2>3
<1> QED
  BY Invariance, <1>1, PTL

\* What a client is answered is true when it is answered and later on.
THEOREM AnswersTrue == Spec => []AnswersAreTrue
<1>1. ASSUME IInv PROVE AnswersAreTrue
  <2> SUFFICES ASSUME NEW r \in Requests
               PROVE  /\ reply[r] = "notFound" => ~InTenant(r, call[r].id) /\ event[r] = None
                      /\ reply[r] \in {"forbidden", "badRequest"} =>
                           home[r] = None /\ event[r] = None
                      /\ Is(r, "create") /\ reply[r] = "ok" => home[r] = Org(r)
                      /\ home[r] # None =>
                           Is(r, "create") /\ (pc[r] = "audit" \/ reply[r] \in {"ok", "error"})
    BY DEF AnswersAreTrue
  <2>1. Course(r) /\ Effect(r)
    BY <1>1 DEF IInv, Story
  <2>2. reply[r] \in {"notFound", "forbidden", "badRequest"} => event[r] = None /\ pc[r] = "done"
    BY <2>1 DEF Course
  <2>3. reply[r] \in {"forbidden", "badRequest"} => home[r] = None
    BY <2>1, <2>2 DEF Effect
  <2>4. Is(r, "create") /\ reply[r] = "ok" => home[r] = Org(r)
    BY <2>1 DEF Effect, Took
  <2> QED
    BY <2>1, <2>2, <2>3, <2>4 DEF Effect
<1> QED
  BY Invariance, <1>1, PTL

\* Creations and deletions have their events and those events their creations
\* and deletions, unless a request failed half-way.
THEOREM ComingAndGoingTraced == Spec => []CreationsAndDeletionsAreTraced
<1>1. ASSUME IInv PROVE CreationsAndDeletionsAreTraced
  <2> DEFINE unrecorded(r) == pc[r] = "audit" \/ reply[r] = "error"
  <2>1. \A r \in Requests : Course(r) /\ Effect(r)
    BY <1>1 DEF IInv, Story
  <2>2. \A r \in Requests : /\ Is(r, "create") => Records(r)
                            /\ Is(r, "delete") => Records(r)
    BY DEF Records
  <2>3. ASSUME NEW r \in Requests, home[r] # None
        PROVE  event[r] = "PROJECT_CREATED" \/ unrecorded(r)
    BY <2>1, <2>2, <2>3, EventOfFacts DEF Course, Effect
  <2>4. ASSUME NEW p \in Ids, home[p] # None, project[p] = None
        PROVE  \E r \in Requests : /\ Is(r, "delete") /\ call[r].id = p
                                   /\ event[r] = "PROJECT_DELETED" \/ unrecorded(r)
    <3>1. PICK r \in Requests : Deleted(r, p)
      BY <1>1, <2>4 DEF IInv, Caused
    <3>2. Is(r, "delete") /\ call[r].id = p
      BY <3>1 DEF Deleted
    <3>3. event[r] = "PROJECT_DELETED" \/ unrecorded(r)
      BY <2>1, <2>2, <3>1, <3>2, EventOfFacts DEF Deleted, Course
    <3> QED
      BY <3>2, <3>3
  <2>5. ASSUME NEW r \in Requests, event[r] \in {"PROJECT_CREATED", "PROJECT_DELETED"}
        PROVE  /\ event[r] = "PROJECT_CREATED" => Is(r, "create") /\ home[r] = Org(r)
               /\ event[r] = "PROJECT_DELETED" =>
                    /\ Is(r, "delete") /\ home[call[r].id] = Org(r)
                    /\ project[call[r].id] = None
    <3>1. Records(r) /\ Took(r) /\ event[r] = EventOf(r)
      BY <2>1, <2>5, NoneIsNoRecord DEF Course, Took, Events
    <3>2. CASE Is(r, "create")
      BY <2>1, <3>1, <3>2, EventOfFacts DEF Effect
    <3>3. ~Is(r, "get")
      BY <2>5, <3>1, EventOfFacts
    <3>4. CASE Is(r, "delete")
      BY <2>1, <3>1, <3>4, EventOfFacts DEF Effect
    <3> QED
      BY <3>1, <3>2, <3>3, <3>4 DEF Records
  <2> QED
    BY <2>3, <2>4, <2>5 DEF CreationsAndDeletionsAreTraced
<1> QED
  BY Invariance, <1>1, PTL

\* A row is changed only by a request of its tenant whose role permits that.
THEOREM TenantOwns == Spec => TenantOwnsItsProjects
<1>1. ASSUME IInv, NEW r \in Requests, Steps(r), NEW p \in Ids, project'[p] # project[p]
      PROVE  /\ pc[r] = "query" /\ pc'[r] # "query"
             /\ \A row \in {project[p], project'[p]} \ {None} : row.org = Org(r)
             /\ \/ project[p] = None /\ Is(r, "create")
                \/ project'[p] = None /\ "projects:delete" \in PermissionsOf(principal[r].role)
                \/ "projects:write" \in PermissionsOf(principal[r].role)
  <2>1. TypeOK /\ r \in Ids /\ Course(r) /\ Effect(r) /\ Permitted(r) /\ Homes
    BY <1>1 DEF IInv, Story, Ids
  <2>2. CASE CreateProject(r)
    <3>1. p = r /\ pc[r] = "query" /\ Is(r, "create") /\ pc'[r] = "audit"
      BY <1>1, <2>1, <2>2 DEF CreateProject, Proceed, TypeOK
    <3>2. home[r] = None
      BY <2>1, <3>1 DEF Course, Effect
    <3>3. principal[r] # None
      BY <2>1, <3>1 DEF Course
    <3>4. project[r] = None
      <4>1. project[r] # None => project[r].org \in Orgs
        BY <2>1 DEF TypeOK, Row
      <4> QED
        BY <2>1, <3>2, <4>1, NoneIsNothing DEF Homes
    <3>5. project'[r].org = Org(r)
      BY <2>1, <2>2 DEF CreateProject, TypeOK
    <3> QED
      BY <3>1, <3>4, <3>5
  <2>3. CASE UpdateProject(r)
    <3>1. pc[r] = "query" /\ Is(r, "update") /\ pc'[r] = "readback" /\ home' = home
      BY <2>1, <2>3 DEF UpdateProject, Proceed, TypeOK
    <3>2. p = call[r].id /\ InTenant(r, p)
      BY <1>1, <2>1, <2>3 DEF UpdateProject, TypeOK
    <3>3. project[p].org = Org(r) /\ (project'[p] # None => project'[p].org = Org(r))
      <4>1. Homes'
        BY <1>1, TablesEvolve
      <4> QED
        BY <2>1, <3>1, <3>2, <4>1 DEF InTenant, Homes
    <3>4. "projects:write" \in PermissionsOf(principal[r].role)
      BY <2>1, <3>1 DEF Permitted, PermissionsGuard, Required, Is
    <3> QED
      BY <3>1, <3>3, <3>4
  <2>4. CASE DeleteProject(r)
    <3>1. pc[r] = "query" /\ Is(r, "delete") /\ pc'[r] = "audit"
      BY <2>1, <2>4 DEF DeleteProject, Proceed, TypeOK
    <3>2. p = call[r].id /\ InTenant(r, p) /\ project'[p] = None
      BY <1>1, <2>1, <2>4 DEF DeleteProject, TypeOK
    <3>3. "projects:delete" \in PermissionsOf(principal[r].role)
      BY <2>1, <3>1 DEF Permitted, PermissionsGuard, Required, Is
    <3> QED
      BY <3>1, <3>2, <3>3 DEF InTenant
  <2>5. CASE Arrive(r) \/ FindProject(r) \/ Record(r)
    BY <1>1, <2>5 DEF Arrive, FindProject, Record
  <2>6. CASE Answers(r)
    <3>1. PICK response, ids : Replied(r, response, ids)
      BY <1>1, <2>6, AnswerFacts
    <3> QED
      BY <1>1, <3>1 DEF Replied, Answer
  <2> QED
    BY <1>1, <2>2, <2>3, <2>4, <2>5, <2>6 DEF Steps
<1> DEFINE Owned ==
      \A p \in Ids : project'[p] # project[p] =>
        \E r \in Requests :
          /\ pc[r] = "query" /\ pc'[r] # "query"
          /\ \A row \in {project[p], project'[p]} \ {None} : row.org = Org(r)
          /\ \/ project[p] = None /\ Is(r, "create")
             \/ project'[p] = None /\ "projects:delete" \in PermissionsOf(principal[r].role)
             \/ "projects:write" \in PermissionsOf(principal[r].role)
<1>2. IInv /\ [Next]_vars => [Owned]_vars
  <2> SUFFICES ASSUME IInv, Next PROVE Owned
    OBVIOUS
  <2>1. PICK r \in Requests : Steps(r)
    BY NextSteps
  <2> QED
    BY <1>1, <2>1
<1> QED
  BY Invariance, <1>2, PTL DEF Spec, TenantOwnsItsProjects
=============================================================================
