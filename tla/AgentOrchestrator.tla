------------------------- MODULE AgentOrchestrator --------------------------
(***************************************************************************)
(* The archived V1 agent: AgentOrchestrator.run routes a question by its   *)
(* keywords, plans at most three steps, executes them through              *)
(* PlanExecutionAdapter, plans once more when something was missing, and   *)
(* then records the run, one event at a time.                              *)
(*                                                                         *)
(* Runs share the ToolRegistry, which remembers the trace of the last tool *)
(* it executed.  A question is kept as the keywords that occur in it, and  *)
(* then as what the routers make of them.                                  *)
(***************************************************************************)
EXTENDS Naturals, FiniteSets, Sequences, SequencesExt

CONSTANTS
  Run,         \* runs of the agent
  Questions,   \* what each of them may be asked, as sets of words
  NoTrace      \* no tool has been executed

\* Each stands for the keywords that are looked for together: "done" is a
\* status for the semantic router only, "stage" for the legacy one only,
\* "recent" stands for the statistical words the semantic router ignores, and
\* "inquire" for a message that begins with 查询 and has 状态 in it.
Word == {"heat", "record", "inquire", "short", "how", "product", "equipment",
         "status", "stage", "done", "total", "statistics", "recent", "blocked"}

ASSUME OrchestratorAssumption ==
  NoTrace \notin Run /\ Questions \in [Run -> SUBSET SUBSET Word]

VARIABLES
  run,        \* how far each run has come, and with what
  lastTrace,  \* the run whose tool result the registry remembers
  stored      \* what is recorded of each run, in order

vars == <<run, lastTrace, stored>>

-----------------------------------------------------------------------------
(* SemanticRouter and LegacyFallbackRouter.                                *)

Mentions(q, words) == q \cap words # {}

HeatCompletionAnalysis(q) == "heat" \in q /\ Mentions(q, {"statistics", "total"})

HeatStatusQuery(q) ==
  /\ Mentions(q, {"status", "done", "total"})
  /\ Mentions(q, {"heat", "record", "short"})

GenericHeatStatusQuery(q) == {"inquire", "heat", "status"} \subseteq q

Routing(domain, intent, unclear) ==
  [domain |-> domain, intent |-> intent, clarify |-> unclear]

\* SemanticRouter.route
Semantic(q) ==
  IF HeatCompletionAnalysis(q) THEN Routing("heat", "analyze_completion_count", FALSE)
  ELSE IF HeatStatusQuery(q)
  THEN Routing("heat", "query_status", GenericHeatStatusQuery(q) /\ "record" \notin q)
  ELSE IF "heat" \in q THEN Routing("heat", "unknown", TRUE)
  ELSE IF {"product", "how"} \subseteq q THEN Routing("product", "unknown", TRUE)
  ELSE Routing("unknown", "unknown", TRUE)

SqlQuery(q) == Mentions(q, {"statistics", "recent"})

\* LegacyFallbackRouter.route, a tool being known by its semantic intent
Legacy(q) ==
  IF "blocked" \in q THEN "mixed"
  ELSE IF SqlQuery(q) THEN "sql"
  ELSE IF Mentions(q, {"status", "stage"}) THEN "query_status"
  ELSE IF "equipment" \in q THEN "query_equipment"
  ELSE IF "product" \in q THEN "query_batch_products"
  ELSE "unknown"

LegacyTools == {"query_status", "query_equipment", "query_batch_products"}

\* All that the planner and the tools go by.
Understood(q) ==
  [semantic |-> Semantic(q), legacy |-> Legacy(q),
   sql |-> SqlQuery(q), record |-> "record" \in q]

Understandings == [r \in Run |-> {Understood(q) : q \in Questions[r]}]

-----------------------------------------------------------------------------
(* DebuggablePlanner.plan                                                  *)

ToolStep(name) == [type |-> "tool", name |-> name]
SqlStep(name)  == [type |-> "sql", name |-> name]

Clarification == << >>
Unknown       == << >>
ToolPlan(intent) == << ToolStep(intent) >>
SqlPlan       == << SqlStep("free") >>
MixedPlan     ==
  << ToolStep("production_status"), ToolStep("quality_status"), SqlStep("free") >>
SemanticToolPlan == ToolPlan("query_status")
SemanticSqlPlan  == << SqlStep("analyze_completion_count") >>

Unclear(a) == a.semantic.clarify /\ a.semantic.domain # "unknown"

LegacyPlan(a) ==
  CASE a.legacy = "mixed"        -> MixedPlan
    [] a.legacy = "sql"          -> SqlPlan
    [] a.legacy \in LegacyTools  -> ToolPlan(a.legacy)
    [] a.legacy = "unknown"      -> Unknown

FirstPlan(a) ==
  CASE Unclear(a) -> Clarification
    [] ~ Unclear(a) /\ a.semantic.intent = "query_status" -> SemanticToolPlan
    [] ~ Unclear(a) /\ a.semantic.intent = "analyze_completion_count" -> SemanticSqlPlan
    [] ~ Unclear(a) /\ a.semantic.intent = "unknown" -> LegacyPlan(a)

\* Mutation: whatever is missing is looked for with SQL.
SupplementAlways(a) == SqlPlan

\* What is missing is looked for with SQL only if the question is statistical.
Supplement(a) == IF a.sql THEN SqlPlan ELSE Unknown

\* _replan_from_observation; no step of this adapter reports a missing fact
\* about quality or factories, of which the code would take care first.
Replan(a, o) ==
  IF Unclear(a) THEN Clarification
  ELSE IF o.missing = "plan.steps" THEN Unknown
  ELSE IF a.legacy \in LegacyTools /\ ~ a.sql THEN ToolPlan(a.legacy)
  ELSE IF o.missing # "nothing" THEN Supplement(a)
  ELSE Unknown

-----------------------------------------------------------------------------
(* PlanExecutionAdapter.execute and ExecutionFeedbackLoop.run              *)

Observation(status, missing) == [status |-> status, missing |-> missing]
Success == Observation("success", "nothing")

\* What is recorded of a step.
StepEvents(result) ==
  LET suffix(ok, type) ==
        CASE ok /\ type = "tool"   -> "TOOL_EXECUTE_SUCCESS"
          [] ~ ok /\ type = "tool" -> "TOOL_EXECUTE_FAIL"
          [] ok /\ type = "sql"    -> "SQL_EXECUTE_SUCCESS"
          [] ~ ok /\ type = "sql"  -> "SQL_EXECUTE_FAIL"
      ends == suffix(result.status = "success", result.type)
  IN  IF result.type = "tool" THEN << "TOOL_MATCH", ends >>
      ELSE << "SQL_GENERATE", "SQL_VALIDATE", ends >>

Planning == << "PLANNER_START", "PLANNER_END" >>

\* Mutation: the trace is recorded before the events.
RecordsTraceFirst(x, status) ==
  << "TRACE", "LOOP_START" >> \o FlattenSeq([i \in DOMAIN x.results |-> StepEvents(x.results[i])])
    \o << "LOOP_END" >> \o (IF status = "success" THEN << >> ELSE << "FAILURE" >>)

\* _record_loop_events, and what _record_success_trace adds
Records(x, status) ==
  << "LOOP_START" >> \o Planning
    \o (IF x.attempt = 2 THEN << "REPLAN_TRIGGER" >> \o Planning ELSE << >>)
    \o FlattenSeq([i \in DOMAIN x.results |-> StepEvents(x.results[i])])
    \o << "LOOP_END", "TRACE" >>
    \o (IF status = "success" THEN << >> ELSE << "FAILURE" >>)

\* _record_error_trace
ErrorRecords == << "LOOP_START", "LOOP_END", "TRACE", "FAILURE" >>

Executing(r) == run[r].stage = "executing"

\* A second plan is made if the first one left something open.
NeedsReplan(o) == o.status = "partial" \/ o.missing # "nothing"

\* Mutation: as long as something is missing another plan is made.
AnotherPlanAlways(x, o) == NeedsReplan(o)

AnotherPlan(x, o) == x.attempt = 1 /\ NeedsReplan(o)

\* The run x goes on after the plan was executed as far as it goes.
Observed(x, o) ==
  IF AnotherPlan(x, o)
  THEN [x EXCEPT !.attempt = x.attempt + 1, !.at = 1, !.plan = Replan(x.asked, o)]
  ELSE [x EXCEPT !.stage = "recording", !.answer = o.status,
                 !.pending = Records(x, o.status)]

\* A step has been executed: the next one follows unless it failed.
StepEnds(x, o) ==
  LET next == [x EXCEPT !.stage = "executing",
                 !.results = Append(@, [type   |-> x.plan[x.at].type,
                                        status |-> o.status])]
  IN  IF o.status = "success" /\ x.at < Len(x.plan)
      THEN [next EXCEPT !.at = @ + 1]
      ELSE Observed(next, o)

Raised(x) ==
  [x EXCEPT !.stage = "recording", !.answer = "error", !.pending = ErrorRecords]

Becomes(r, x) == run' = [run EXCEPT ![r] = x] /\ UNCHANGED stored

Silent == UNCHANGED lastTrace

Ask(r) ==
  /\ run[r].stage = "idle"
  /\ \E a \in Understandings[r] :
       Becomes(r, [run[r] EXCEPT !.stage = "executing", !.asked = a,
                                 !.attempt = 1, !.plan = FirstPlan(a)])
  /\ Silent

\* An empty message, or one of more than 4000 characters.
RefuseMessage(r) ==
  /\ run[r].stage = "idle"
  /\ Becomes(r, Raised(run[r]))
  /\ Silent

NothingPlanned(r) ==
  /\ Executing(r) /\ run[r].plan = << >>
  /\ Becomes(r, Observed(run[r], Observation("fail", "plan.steps")))
  /\ Silent

At(r, type, names) ==
  /\ Executing(r) /\ run[r].plan # << >>
  /\ run[r].plan[run[r].at].type = type
  /\ run[r].plan[run[r].at].name \in names

\* CapabilityRouter.route over the shipped catalog: the other tools are planned.
Routable == {"query_status", "analyze_completion_count"}

\* The router finds no enabled capability of this intent, or the registry does
\* not know the name.
ToolMiss(r) ==
  /\ At(r, "tool", (LegacyTools \cup {"production_status", "quality_status"}) \ Routable)
  /\ Becomes(r, StepEnds(run[r], Observation("fail", run[r].plan[run[r].at].name)))
  /\ Silent

\* _missing_required_fields
RecordMissing(r) ==
  /\ At(r, "tool", Routable) /\ ~ run[r].asked.record
  /\ Becomes(r, StepEnds(run[r], Observation("partial", "record")))
  /\ Silent

\* ToolRegistry.execute up to the tool
CallTool(r) ==
  /\ At(r, "tool", Routable) /\ run[r].asked.record
  /\ Becomes(r, [run[r] EXCEPT !.stage = "calling", !.called = @ \cup {"tool"}])
  /\ Silent

ToolRaises(r) ==
  /\ run[r].stage = "calling"
  /\ \E missing \in {"heat_current_stage", "heat_current_stage.args"} :
       Becomes(r, StepEnds(run[r], Observation("fail", missing)))
  /\ Silent

\* The tool returns, and the registry remembers its trace for all runs.
ToolReturns(r) ==
  /\ run[r].stage = "calling"
  /\ lastTrace' = r
  /\ Becomes(r, [run[r] EXCEPT !.stage = "returned", !.succeeded = Append(@, "tool")])

\* last_trace
ReadTrace(r) ==
  /\ run[r].stage = "returned"
  /\ Becomes(r, StepEnds([run[r] EXCEPT !.trace = lastTrace], Success))
  /\ Silent

\* The error codes of text-to-SQL, as _sql_failure_type, _sql_missing_facts
\* and the status take them.
SqlFailures ==
  { Observation("partial", "query_filter"),   \* unbounded_scan
    Observation("fail", "nothing") }          \* schema_gap, sql_error, execution_error

RunSql(r) ==
  /\ At(r, "sql", {"free"} \cup Routable)
  /\ LET x == [run[r] EXCEPT !.called = @ \cup {"sql"}]
     IN  \/ Becomes(r, StepEnds([x EXCEPT !.succeeded = Append(@, "sql")], Success))
         \/ \E o \in SqlFailures : Becomes(r, StepEnds(x, o))
         \/ Becomes(r, Raised(x))
  /\ Silent

-----------------------------------------------------------------------------
(* The collector: each record is committed on its own.                     *)

Store(r) ==
  /\ run[r].stage = "recording" /\ run[r].pending # << >>
  /\ stored' = [stored EXCEPT ![r] = Append(@, Head(run[r].pending))]
  /\ run' = [run EXCEPT ![r].pending = Tail(@)]
  /\ Silent

\* PersistenceError, which a commit that took effect may raise as well: the
\* rest is not recorded.
StoreFails(r) ==
  /\ run[r].stage = "recording" /\ run[r].pending # << >>
  /\ run' = [run EXCEPT ![r].stage = "done", ![r].pending = << >>]
  /\ \/ UNCHANGED stored
     \/ stored' = [stored EXCEPT ![r] = Append(@, Head(run[r].pending))]
  /\ Silent

Answer(r) ==
  /\ run[r].stage = "recording" /\ run[r].pending = << >>
  /\ Becomes(r, [run[r] EXCEPT !.stage = "done"])
  /\ Silent

Init ==
  /\ run = [r \in Run |->
       [stage |-> "idle", asked |-> Understood({}), plan |-> << >>, attempt |-> 0,
        at |-> 1, results |-> << >>, trace |-> NoTrace, answer |-> "none",
        pending |-> << >>, called |-> {}, succeeded |-> << >>]]
  /\ lastTrace = NoTrace
  /\ stored = [r \in Run |-> << >>]

Next ==
  \E r \in Run :
    \/ Ask(r) \/ RefuseMessage(r)
    \/ NothingPlanned(r) \/ ToolMiss(r) \/ RecordMissing(r)
    \/ CallTool(r) \/ ToolRaises(r) \/ ToolReturns(r) \/ ReadTrace(r) \/ RunSql(r)
    \/ Store(r) \/ StoreFails(r) \/ Answer(r)

Spec == Init /\ [][Next]_vars

-----------------------------------------------------------------------------
(* Properties                                                              *)

Step == [type : {"tool"}, name : LegacyTools \cup {"production_status", "quality_status"}]
          \cup [type : {"sql"}, name : {"free", "analyze_completion_count"}]

\* Every variable stays in its type; a question is planned at most twice, and
\* no plan has more than the five steps PlannerPlan admits.
TypeOK ==
  /\ \A r \in Run :
       /\ run[r].stage \in {"idle", "executing", "calling", "returned",
                            "recording", "done"}
       /\ run[r].asked \in Understandings[r] \cup {Understood({})}
       /\ run[r].attempt \in 0 .. 2
       /\ run[r].plan \in Seq(Step) /\ Len(run[r].plan) <= 5
       /\ run[r].at \in 1 .. 5
       /\ run[r].trace \in Run \cup {NoTrace}
       /\ run[r].answer \in {"none", "success", "partial", "fail", "error"}
  /\ lastTrace \in Run \cup {NoTrace}

\* Through both plans, SQL runs only for a statistical question or the count
\* the catalog offers, a tool only with a record number, and nothing at all
\* for a question that needs a clarification ("缺失事实不能自动扩大为 SQL 查询",
\* "语义不明确时禁止生成 SQL").
OnlyIntendedCalls ==
  \A r \in Run :
    LET a == run[r].asked IN
    /\ "sql" \in run[r].called =>
         a.sql \/ a.semantic.intent = "analyze_completion_count"
    /\ "tool" \in run[r].called => a.record
    /\ Unclear(a) => run[r].called = {}

Count(s, e) == Cardinality({i \in DOMAIN s : s[i] = e})

\* When a run has its trace row, the events before it tell each call that
\* succeeded, and of a second plan if there was one; a failure is recorded only
\* of a run that did not succeed (collector.record_event, record_trace,
\* record_failure, any of which may fail).
AuditIsTrue ==
  \A r \in Run :
    /\ "TRACE" \in ToSet(stored[r]) =>
         /\ Count(stored[r], "TOOL_EXECUTE_SUCCESS") = Count(run[r].succeeded, "tool")
         /\ Count(stored[r], "SQL_EXECUTE_SUCCESS") = Count(run[r].succeeded, "sql")
         /\ run[r].answer # "error" =>
              Count(stored[r], "PLANNER_END") = run[r].attempt
    /\ "FAILURE" \in ToSet(stored[r]) => run[r].answer # "success"

\* The trace a run reports of its tool call is its own: "参数和 observation
\* 未跨请求污染" (docs/agent-production-acceptance-v1.md:300).  The registry is
\* shared, and is asked for its last trace after the call.
TraceIsOwn == \A r \in Run : run[r].trace \in {r, NoTrace}
=============================================================================
