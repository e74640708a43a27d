---------------------------- MODULE LazyService -----------------------------
(***************************************************************************)
(* The services of the routers, which the first request builds: an engine  *)
(* with its pool of connections, and the service that works on it, in      *)
(* globals of the router's module.  The dependency is synchronous, so that *)
(* the threads of the server run it concurrently, and nothing locks.       *)
(***************************************************************************)
EXTENDS Naturals, FiniteSets, Sequences, Functions

CONSTANTS
  Thread,        \* threads of the server
  MaxFailures,   \* bound on failed constructions (requests are refused beyond it)
  MaxCloses,     \* bound on how often the application is shut down
  None

ASSUME LazyAssumption ==
  /\ IsFiniteSet(Thread) /\ Thread # {} /\ MaxFailures \in Nat /\ MaxCloses \in Nat /\ None \notin Nat

VARIABLES
  router,     \* which of the routers this is
  settings,   \* what the environment configures
  engine,     \* the global engine
  service,    \* the global services: the engine each works on
  stage,      \* what each thread does
  holds,      \* the engine that what the thread has in hand works on
  open,       \* engines not disposed of
  created,    \* number of engines
  failures,
  closes

vars == <<router, settings, engine, service, stage, holds, open, created, failures, closes>>

\* The globals in the order in which they are published, and whether a model
\* client, which has to be configured, is part of the service.
Chat      == [services |-> <<"_chat_service">>, model |-> TRUE]
Feedback  == [services |-> <<"_feedback_service">>, model |-> FALSE]
AdminIssue == [services |-> <<"_review_service", "_issue_service">>, model |-> FALSE]
Agent     == [services |-> <<"_mes_agent">>, model |-> TRUE]
Report    == [services |-> <<"_report_generator">>, model |-> FALSE]

Names    == Range(router.services)
Building == {"create", "check", "bind"} \cup Names

Init ==
  /\ router   \in {Chat, Feedback, AdminIssue, Agent, Report}
  /\ settings \in {"complete", "no_database", "no_model"}
  /\ engine   = None
  /\ service  = [n \in Names |-> None]
  /\ stage    = [t \in Thread |-> "idle"]
  /\ holds    = [t \in Thread |-> None]
  /\ open     = {}
  /\ created  = 0
  /\ failures = 0
  /\ closes   = 0

-----------------------------------------------------------------------------
Goto(t, from, to) == stage[t] = from /\ stage' = [stage EXCEPT ![t] = to]

\* An exception leaves the getter; what it assigned so far stays.
Fail(t, from) ==
  /\ Goto(t, from, "idle")
  /\ holds' = [holds EXCEPT ![t] = None]
  /\ failures' = failures + 1
  /\ UNCHANGED <<router, settings, engine, service, open, created, closes>>

Complete == \A n \in Names : service[n] # None

\* Mutation: nobody looks whether there is a service already.
LookAlways(t) ==
  /\ failures < MaxFailures
  /\ Goto(t, "idle", "create")
  /\ UNCHANGED <<router, settings, engine, service, holds, open, created, failures, closes>>

\* The dependency of a request is resolved.
Look(t) ==
  /\ failures < MaxFailures
  /\ Goto(t, "idle", IF Complete THEN "return" ELSE "create")
  /\ UNCHANGED <<router, settings, engine, service, holds, open, created, failures, closes>>

\* create_database_engine
Create(t) ==
  \/ /\ settings # "no_database"
     /\ Goto(t, "create", "check")
     /\ engine' = created + 1
     /\ created' = created + 1
     /\ open' = open \cup {created + 1}
     /\ UNCHANGED <<router, settings, service, holds, failures, closes>>
  \/ settings = "no_database" /\ Fail(t, "create")

\* Mutation: an engine that fails its check is disposed of.
CheckDisposing(t) ==
  \/ /\ Goto(t, "check", "bind")
     /\ UNCHANGED <<router, settings, engine, service, holds, open, created, failures, closes>>
  \/ /\ Goto(t, "check", "idle")
     /\ open' = open \ {engine}
     /\ engine' = None
     /\ failures' = failures + 1
     /\ UNCHANGED <<router, settings, service, holds, created, closes>>

\* check_database_connection; the engine in the global may be that of another
\* thread by now.
Check(t) ==
  \/ /\ Goto(t, "check", "bind")
     /\ UNCHANGED <<router, settings, engine, service, holds, open, created, failures, closes>>
  \/ Fail(t, "check")

\* create_session_factory, and the clients of the model
Bind(t) ==
  \/ /\ ~ (router.model /\ settings = "no_model")
     /\ Goto(t, "bind", router.services[1])
     /\ holds' = [holds EXCEPT ![t] = engine]
     /\ UNCHANGED <<router, settings, engine, service, open, created, failures, closes>>
  \/ router.model /\ settings = "no_model" /\ Fail(t, "bind")

After(i) == IF i = Len(router.services) THEN "return" ELSE router.services[i + 1]

\* Mutation: the name is not declared global.
PublishLocally(t) ==
  \E i \in DOMAIN router.services :
    /\ Goto(t, router.services[i], After(i))
    /\ holds' = [holds EXCEPT ![t] = IF i = Len(router.services) THEN None ELSE @]
    /\ UNCHANGED <<router, settings, engine, service, open, created, failures, closes>>

Publish(t) ==
  \E i \in DOMAIN router.services :
    /\ Goto(t, router.services[i], After(i))
    /\ service' = [service EXCEPT ![router.services[i]] = holds[t]]
    /\ holds' = [holds EXCEPT ![t] = IF i = Len(router.services) THEN None ELSE @]
    /\ UNCHANGED <<router, settings, engine, open, created, failures, closes>>

\* The getter reads the global once more, whoever has assigned it last.
Return(t) ==
  /\ Goto(t, "return", "serving")
  /\ \E n \in Names : holds' = [holds EXCEPT ![t] = service[n]]
  /\ UNCHANGED <<router, settings, engine, service, open, created, failures, closes>>

Done(t) ==
  /\ Goto(t, "serving", "idle")
  /\ holds' = [holds EXCEPT ![t] = None]
  /\ UNCHANGED <<router, settings, engine, service, open, created, failures, closes>>

\* close_..., which the server calls when all requests have ended
Close ==
  /\ closes < MaxCloses /\ closes' = closes + 1
  /\ \A t \in Thread : stage[t] = "idle"
  /\ service' = [n \in Names |-> None]
  /\ open' = open \ {engine}
  /\ engine' = None
  /\ UNCHANGED <<router, settings, stage, holds, created, failures>>

Build(t) == Create(t) \/ Check(t) \/ Bind(t) \/ Publish(t) \/ Return(t)

Next == Close \/ \E t \in Thread : Look(t) \/ Build(t) \/ Done(t)

Spec == Init /\ [][Next]_vars

-----------------------------------------------------------------------------
\* Above all, no getter returns None: the assertions of get_review_service and
\* get_issue_service hold, whoever has built the services.
TypeOK ==
  /\ router   \in {Chat, Feedback, AdminIssue, Agent, Report}
  /\ settings \in {"complete", "no_database", "no_model"}
  /\ created  \in Nat
  /\ open     \subseteq 1..created
  /\ engine   \in (1..created) \cup {None}
  /\ service  \in [Names -> (1..created) \cup {None}]
  /\ stage    \in [Thread -> {"idle", "return", "serving"} \cup Building]
  /\ holds    \in [Thread -> (1..created) \cup {None}]
  /\ \A t \in Thread : holds[t] # None <=> stage[t] \in {"serving"} \cup Names
  /\ failures \in Nat
  /\ closes   \in 0..MaxCloses

\* Whatever the threads overwrite of each other, a request and every published
\* service work on an engine that is not disposed of (get_chat_service and its
\* like, close_chat_service and its like).
ServedByOpenEngine ==
  /\ \A n \in Names : service[n] # None => service[n] \in open
  /\ \A t \in Thread : stage[t] = "serving" => holds[t] \in open

\* Racing first requests cost at most an engine for each thread, and only once
\* between two shutdowns; anything beyond is due to a construction that failed
\* after the engine had been assigned.
EnginesBounded ==
  LET racing == Cardinality(Thread)
  IN  Cardinality(open) <= failures + racing + closes * (racing - 1)
=============================================================================
