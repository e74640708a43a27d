------------------------------ MODULE MesAgent ------------------------------
(***************************************************************************)
(* POST /api/agent/run: MesAgent.run and what it calls.  The model selects *)
(* a capability, HeatTreatmentAgent checks the selection against the       *)
(* catalog and executes it, the trace of the run is collected in a         *)
(* dictionary that all runs share, and the response is audited.            *)
(*                                                                         *)
(* Runs execute concurrently in the thread pool of the server.  Every step *)
(* ends where a run waits for the language model or for a database.        *)
(***************************************************************************)
EXTENDS TextToSql, Sequences, Functions

CONSTANTS
  Request,      \* runs
  Catalogs,     \* catalogs that may be deployed
  Reasonings,   \* results that the model may return for CapabilityReasoningResult
  Query,        \* queries that it may return for TextToSqlGeneration
  MaxCrashes,   \* bound on the crashes of the process
  Absent        \* None

VARIABLES
  catalog,      \* the capabilities CapabilityLoader has loaded
  stage,        \* how far each run has come
  reasoning,    \* the result of the reasoner
  query,        \* the generated, later the validated query
  calls,        \* the executors that ExecutionEngine has invoked
  events,       \* TraceRuntime._events; no key is like an empty list
  response,     \* the response
  stored,       \* rows of agent_trace
  warned,       \* runs whose audit failed according to the log
  crashes

vars == <<catalog, stage, reasoning, query, calls, events, response, stored, warned, crashes>>

\* HEAT_TREATMENT_CAPABILITIES
HeatTreatment == {"heat_current_stage", "heat_completion_count_monthly", "heat_device_trace"}

\* build_langchain_tools and the executors of the engine
Tools     == {"heat_current_stage", "heat_equipment_assignment", "heat_batch_products"}
Executors == {"heat_current_stage", "text_to_sql"}

Entities   == {"record_no", "time_range"}
Capability == [domain : {"heat_treatment", "production", "quality"},
               status : {"enabled", "planned", "experimental", "blocked", "disabled"},
               type   : {"tool", "readonly_sql"}, executor : STRING,
               needs  : SUBSET Entities]

\* CapabilityValidator.validate_capability
Loadable(definitions) ==
  \A c \in DOMAIN definitions :
    /\ definitions[c] \in Capability
    /\ definitions[c].status = "enabled" /\ definitions[c].type = "tool"
         => definitions[c].executor \in Tools

ASSUME AgentAssumption ==
  /\ \A definitions \in Catalogs : Loadable(definitions)
  /\ \A m \in Reasonings :
       m \in [selected : {m.selected}, entities : SUBSET Entities, need_clarification : BOOLEAN]
  /\ Query \subseteq Queries
  /\ MaxCrashes \in Nat
  /\ Absent \notin HeatTreatment

Stages == {"idle", "reason", "reason_plain", "reasoned", "tool", "generate", "generate_plain",
           "validate", "run_sql", "responded", "finished", "answered", "lost"}
Ended      == {"answered", "lost"}
InProgress == Stages \ (Ended \cup {"idle"})

Init ==
  /\ catalog   \in Catalogs
  /\ stage     = [r \in Request |-> "idle"]
  /\ reasoning = [r \in Request |-> Absent]
  /\ query     = [r \in Request |-> Absent]
  /\ calls     = [r \in Request |-> <<>>]
  /\ events    = [r \in Request |-> <<>>]
  /\ response  = [r \in Request |-> Absent]
  /\ stored    = [r \in Request |-> Absent]
  /\ warned    = {}
  /\ crashes   = 0

-----------------------------------------------------------------------------
Goto(r, from, to) == stage[r] = from /\ stage' = [stage EXCEPT ![r] = to]

\* TraceRuntime.record
Record(r, new) == events' = [events EXCEPT ![r] = @ \o new]

\* The agent is done: with a response, or with an exception that run catches.
Respond(r, from, status, capability, data, new) ==
  /\ Goto(r, from, "responded")
  /\ Record(r, new)
  /\ response' = [response EXCEPT ![r] = [status |-> status, capability |-> capability,
                                          data |-> data, trace |-> <<>>]]
  /\ reasoning' = [reasoning EXCEPT ![r] = Absent]
  /\ query' = [query EXCEPT ![r] = Absent]
  /\ UNCHANGED <<catalog, stored, warned, crashes>>

Failure == <<"result", "error">>

Raise(r, from) ==
  Respond(r, from, "error", Absent, "none", <<Failure>>) /\ UNCHANGED calls

\* TraceRuntime.start and AgentRouter.route, which knows one agent
Start(r) ==
  /\ Goto(r, "idle", "reason")
  /\ events' = [events EXCEPT ![r] = << <<"request">>, <<"agent_router">> >>]
  /\ UNCHANGED <<catalog, reasoning, query, calls, response, stored, warned, crashes>>

-----------------------------------------------------------------------------
\* LlmCapabilityReasoningAdapter.reason: a selection that the model was not
\* offered is dropped.
Available == {c \in DOMAIN catalog : catalog[c].domain = "heat_treatment"}

\* Mutation: the selection is passed on as it came.
AdaptedKeeping(m) == m

Adapted(m) ==
  IF m.selected \in Available \cup {Absent} THEN m
  ELSE [m EXCEPT !.selected = Absent, !.need_clarification = TRUE]

Reasoned(r, from) ==
  /\ Goto(r, from, "reasoned")
  /\ \E m \in Reasonings :
       /\ reasoning' = [reasoning EXCEPT ![r] = Adapted(m)]
       /\ Record(r, << <<"reasoning", Adapted(m)>> >>)
  /\ UNCHANGED <<catalog, query, calls, response, stored, warned, crashes>>

Retry(r, from, to) ==
  /\ Goto(r, from, to)
  /\ UNCHANGED <<catalog, reasoning, query, calls, events, response, stored, warned, crashes>>

\* LlmRuntime.structured: only a call that raises is repeated in plain text; an
\* output that is no CapabilityReasoningResult is an error at once.
ReasonStructured(r) ==
  Reasoned(r, "reason") \/ Retry(r, "reason", "reason_plain") \/ Raise(r, "reason")

\* Mutation: the plain call that fails is followed by another structured one.
ReasonPlainRetrying(r) == Reasoned(r, "reason_plain") \/ Retry(r, "reason_plain", "reason")

ReasonPlain(r) == Reasoned(r, "reason_plain") \/ Raise(r, "reason_plain")

-----------------------------------------------------------------------------
\* CapabilityReasoningValidator.validate
Validation(m) ==
  CASE m.selected = Absent                               -> "need_clarification"
    [] ~ (catalog[m.selected].needs \subseteq m.entities) -> "missing_required_entities"
    [] catalog[m.selected].status # "enabled"            -> "capability_not_executable"
    [] OTHER                                             -> "matched"

\* Mutation: a capability of the domain need not be one of the agent's.
SelectedAny(r) == reasoning[r].selected

Selected(r) ==
  IF reasoning[r].selected \in HeatTreatment THEN reasoning[r].selected ELSE Absent

Matched(r) == Selected(r) # Absent /\ Validation(reasoning[r]) = "matched"

Clarify(r) ==
  /\ stage[r] = "reasoned" /\ ~ Matched(r)
  /\ Respond(r, "reasoned", "clarification_required", Selected(r), "none",
             << <<"capability", Selected(r), Validation(reasoning[r])>> >>)
  /\ UNCHANGED calls

Validated(r) == <<"capability", Selected(r), "validated">>

\* CapabilityRuntime.execute and ExecutionEngine.execute
Executable(c) == catalog[c].status = "enabled" /\ catalog[c].executor \in Executors

RefuseToExecute(r) ==
  /\ stage[r] = "reasoned" /\ Matched(r) /\ ~ Executable(Selected(r))
  /\ Respond(r, "reasoned", "error", Absent, "none", <<Validated(r), Failure>>)
  /\ UNCHANGED calls

\* Mutation: the run is recorded as validated once the executor has returned.
CallUnrecorded(r) ==
  /\ stage[r] = "reasoned" /\ Matched(r) /\ Executable(Selected(r))
  /\ Goto(r, "reasoned", IF catalog[Selected(r)].executor = "text_to_sql" THEN "generate" ELSE "tool")
  /\ calls' = [calls EXCEPT ![r] = Append(@, Selected(r))]
  /\ UNCHANGED <<catalog, reasoning, query, events, response, stored, warned, crashes>>

Call(r) ==
  /\ stage[r] = "reasoned" /\ Matched(r) /\ Executable(Selected(r))
  /\ Goto(r, "reasoned", IF catalog[Selected(r)].executor = "text_to_sql" THEN "generate" ELSE "tool")
  /\ Record(r, <<Validated(r)>>)
  /\ calls' = [calls EXCEPT ![r] = Append(@, Selected(r))]
  /\ UNCHANGED <<catalog, reasoning, query, response, stored, warned, crashes>>

Succeed(r, from, data) ==
  /\ Respond(r, from, "success", Selected(r), data, << <<"execution", Selected(r)>> >>)
  /\ UNCHANGED calls

-----------------------------------------------------------------------------
\* HeatToolInput forbids entities that the tool does not know.
ToolAccepts(entities) == entities \subseteq {"record_no"}

\* Mutation: a tool that fails is called again.
ToolRaisesRetrying(r) ==
  /\ stage[r] = "tool"
  /\ calls' = [calls EXCEPT ![r] = Append(@, Selected(r))]
  /\ UNCHANGED <<catalog, stage, reasoning, query, events, response, stored, warned, crashes>>

\* Bad arguments, or the business database fails.
ToolRaises(r) == Raise(r, "tool")

ToolReturns(r) ==
  /\ stage[r] = "tool" /\ ToolAccepts(reasoning[r].entities)
  /\ \E data \in {"found", "not_found"} : Succeed(r, "tool", data)

\* TextToSqlGenerator.generate; a structured answer that does not fit counts
\* as a call that raised.
Generated(r, from) ==
  /\ Goto(r, from, "validate")
  /\ \E q \in Query : query' = [query EXCEPT ![r] = q]
  /\ UNCHANGED <<catalog, reasoning, calls, events, response, stored, warned, crashes>>

GenerateStructured(r) == Generated(r, "generate") \/ Retry(r, "generate", "generate_plain")

GeneratePlain(r) == Generated(r, "generate_plain") \/ Succeed(r, "generate_plain", "failed")

\* Accepted; rejected; or illegible to the tokenizer, whose errors are no
\* ParseError.
ValidateSql(r) ==
  /\ stage[r] = "validate"
  /\ \/ /\ Rejections(query[r]) = {}
        /\ Goto(r, "validate", "run_sql")
        /\ query' = [query EXCEPT ![r].limit = Enforced(@)]
        /\ UNCHANGED <<catalog, reasoning, calls, events, response, stored, warned, crashes>>
     \/ Rejections(query[r]) # {} /\ Succeed(r, "validate", "rejected")
     \/ query[r].shape = "unparsable" /\ Raise(r, "validate")

\* ReadonlySqlExecutor.execute: errors of SQLAlchemy become a failed result.
RunSql(r) == (\E data \in {"rows", "failed"} : Succeed(r, "run_sql", data)) \/ Raise(r, "run_sql")

-----------------------------------------------------------------------------
\* Mutation: the events stay in the dictionary.
FinishKeeping(r) ==
  /\ Goto(r, "responded", "finished")
  /\ LET all == Append(events[r], <<"result", response[r].status>>)
     IN  response' = [response EXCEPT ![r].trace = all] /\ events' = [events EXCEPT ![r] = all]
  /\ UNCHANGED <<catalog, reasoning, query, calls, stored, warned, crashes>>

\* TraceRuntime.finish
Finish(r) ==
  /\ Goto(r, "responded", "finished")
  /\ response' = [response EXCEPT ![r].trace =
                    Append(events[r], <<"result", response[r].status>>)]
  /\ events' = [events EXCEPT ![r] = <<>>]
  /\ UNCHANGED <<catalog, reasoning, query, calls, stored, warned, crashes>>

Answer(r) ==
  /\ Goto(r, "finished", "answered")
  /\ UNCHANGED <<catalog, reasoning, query, calls, events, response, crashes>>

\* Mutation: the row is written from what is known before the trace is taken.
AuditStoresUntraced(r) ==
  /\ Answer(r)
  /\ stored' = [stored EXCEPT ![r] = [response[r] EXCEPT !.trace = <<>>]]
  /\ UNCHANGED warned

\* AnalyticsAuditRuntime.record
AuditStores(r) ==
  /\ Answer(r)
  /\ stored' = [stored EXCEPT ![r] = response[r]]
  /\ UNCHANGED warned

\* The INSERT fails, or is committed without an acknowledgement.
AuditFails(r) ==
  /\ Answer(r)
  /\ warned' = warned \cup {r}
  /\ \/ UNCHANGED stored
     \/ stored' = [stored EXCEPT ![r] = response[r]]

\* The process dies; an INSERT it has sent may yet be committed.
Crash ==
  /\ crashes < MaxCrashes /\ crashes' = crashes + 1
  /\ LET lost == {r \in Request : stage[r] \in InProgress}
         Without(f) == [r \in Request |-> IF r \in lost THEN Absent ELSE f[r]]
     IN  /\ lost # {}
         /\ stage'     = [r \in Request |-> IF r \in lost THEN "lost" ELSE stage[r]]
         /\ reasoning' = Without(reasoning)
         /\ query'     = Without(query)
         /\ events'    = [r \in Request |-> IF r \in lost THEN <<>> ELSE events[r]]
         /\ response'  = Without(response)
         /\ \E sent \in SUBSET {r \in lost : stage[r] = "finished"} :
              stored' = [r \in Request |-> IF r \in sent THEN response[r] ELSE stored[r]]
  /\ UNCHANGED <<catalog, calls, warned>>

Think(r)  == ReasonStructured(r) \/ ReasonPlain(r) \/ Clarify(r) \/ RefuseToExecute(r) \/ Call(r)
UseTool(r) == ToolReturns(r) \/ ToolRaises(r)
UseSql(r) == GenerateStructured(r) \/ GeneratePlain(r) \/ ValidateSql(r) \/ RunSql(r)
Close(r)  == Finish(r) \/ AuditStores(r) \/ AuditFails(r)

Next == Crash \/ \E r \in Request : Start(r) \/ Think(r) \/ UseTool(r) \/ UseSql(r) \/ Close(r)

Spec == Init /\ [][Next]_vars

Proceed(r) == stage[r] \in InProgress \ {"tool"} /\ (Think(r) \/ UseSql(r) \/ Close(r))

\* The calls of the model and the SQL it wrote are bounded by timeouts.  The
\* query of the tool is not, and nothing is assumed of it; nor is the INSERT of
\* the audit, which MySQL is taken to answer.
FairSpec == Spec /\ \A r \in Request : WF_vars(Proceed(r))

-----------------------------------------------------------------------------
Results == [selected : Available \cup {Absent}, entities : SUBSET Entities,
            need_clarification : BOOLEAN]

Event ==
  {<<"request">>, <<"agent_router">>}
    \cup ({"reasoning"} \X Results)
    \cup ({"capability"} \X (HeatTreatment \cup {Absent})
            \X {"need_clarification", "missing_required_entities",
                "capability_not_executable", "matched", "validated"})
    \cup ({"execution"} \X HeatTreatment)
    \cup ({"result"} \X {"success", "clarification_required", "error"})

Response ==
  [status     : {"success", "clarification_required", "error"},
   capability : HeatTreatment \cup {Absent},
   data       : {"none", "found", "not_found", "rows", "rejected", "failed"},
   trace      : Seq(Event)]

\* What each run works on has its type; above all, a reasoning result selects
\* nothing that the model was not offered (adapter.reason).
TypeOK ==
  /\ catalog   \in Catalogs
  /\ stage     \in [Request -> Stages]
  /\ reasoning \in [Request -> Results \cup {Absent}]
  /\ query     \in [Request -> Queries \cup {Absent}]
  /\ calls     \in [Request -> Seq(HeatTreatment)]
  /\ events    \in [Request -> Seq(Event)]
  /\ response  \in [Request -> Response \cup {Absent}]
  /\ stored    \in [Request -> Response \cup {Absent}]
  /\ warned    \subseteq Request
  /\ crashes   \in 0..MaxCrashes

\* The trace of a run, as far as it has come.
Trail(r) ==
  IF stage[r] \in {"finished", "answered"} THEN Range(response[r].trace) ELSE Range(events[r])

\* An executor is invoked only for an enabled capability of the agent that the
\* model of this very run selected, and for which it named every entity that
\* the catalog asks for (HeatTreatmentAgent.run, validate, require_executable).
CallsAreRequested ==
  \A r \in Request : \A c \in Range(calls[r]) :
    /\ c \in HeatTreatment /\ catalog[c].status = "enabled"
    /\ stage[r] # "lost" =>
         \E e \in Trail(r) : /\ e[1] = "reasoning" /\ e[2].selected = c
                             /\ catalog[c].needs \subseteq e[2].entities

\* The trace that a client receives tells what happened: which capability was
\* handed to its executor, whether it returned, and the status of the response.
TraceTellsCalls ==
  \A r \in Request : stage[r] = "answered" =>
    LET x == response[r] IN
      /\ x.trace[Len(x.trace)] = <<"result", x.status>>
      /\ \A c \in Range(calls[r]) : <<"capability", c, "validated">> \in Trail(r)
      /\ \A c \in HeatTreatment :
           <<"execution", c>> \in Trail(r) <=> x.status = "success" /\ x.capability = c
      /\ x.status = "success" => calls[r] = <<x.capability>>
      /\ x.status = "clarification_required" => calls[r] = <<>>

\* TraceRuntime, which lives as long as the process, holds the events of the
\* runs in progress and of no other, whichever way a run ends.
TracesReleased ==
  \A r \in Request :
    events[r] # <<>> <=> stage[r] \in InProgress \ {"finished"}

\* Whoever has an answer has one that is on record as it was sent, or the log
\* says that it may not be; only a crash leaves a record of an answer that
\* nobody got (AnalyticsAuditRuntime.record).
AnswersAreAudited ==
  \A r \in Request :
    /\ stage[r] = "answered" => stored[r] = response[r] \/ (stored[r] = Absent /\ r \in warned)
    /\ stored[r] # Absent => stage[r] \in Ended

\* A run that has started is answered, or lost with the process, unless it
\* waits for the query of a tool, which has no timeout.
EveryRunEnds ==
  \A r \in Request :
    stage[r] \in InProgress \ {"tool"} ~> stage[r] \in Ended \cup {"tool"}

ClientView ==
  [r \in Request |-> CASE stage[r] = "answered" -> response[r].status
                       [] stage[r] = "lost"     -> "lost"
                       [] OTHER                 -> "nothing"]

\* Every run does what AgentContract promises of it.
Contract == INSTANCE AgentContract WITH
              Permitted <- HeatTreatment, used <- calls, told <- ClientView
ContractSpec == Contract!Spec

\* heat-treatment.yaml:134-138: rows, row_count and validated_sql are required
\* of what the capability returns.
SuccessCarriesRows ==
  \A r \in Request : stage[r] = "answered" =>
    response[r].data \notin {"rejected", "failed"}

\* docs/agent-tool-text-to-sql-routing-v1.md:220-228: "SqlValidator [...]
\* enforces: [...] no `SELECT *`", so that no query that is executed lists all
\* columns of a table (SqlValidator.validate).
NoWildcardRuns ==
  \A r \in Request : stage[r] = "run_sql" => query[r].stars = {}

\* docs/agent-architecture-v2.md:87-93: the agent owns "clarification when a
\* request is ambiguous", so that no run executes a capability about which its
\* own reasoning result has doubts (HeatTreatmentAgent.run).
DoubtsAreClarified ==
  \A r \in Request : calls[r] # <<>> =>
    \A e \in Trail(r) : e[1] = "reasoning" => ~ e[2].need_clarification
=============================================================================
