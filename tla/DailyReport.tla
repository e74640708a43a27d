---------------------------- MODULE DailyReport -----------------------------
(***************************************************************************)
(* The reports: a thread that generates the three of them every day at ten *)
(* past midnight, and POST /api/analytics/report/generate, which generates *)
(* one at any time.  Both date a report by the local clock, query the      *)
(* tables for that date, and overwrite a file.  The thread is called the   *)
(* reporter here, as MetricsSnapshot has one in the same process.          *)
(***************************************************************************)
EXTENDS AnalyticsStore

CONSTANTS
  Request,     \* requests for a report
  Day,         \* ticks of a day
  ReportTime,  \* DAILY_REPORT_TIME
  Offsets,     \* local time minus UTC
  Lag,         \* bound on the time from the end of a wait to the last report
  Alphabet     \* values of text columns in alphabetical order

ASSUME ReportAssumption ==
  /\ Day \in Nat /\ ReportTime \in 0..(Day - 1) /\ Offsets \subseteq (1 - Day)..(Day - 1)
  /\ Drift \in 0..ReportTime /\ Lag \in Nat \ {0} /\ ReportTime + Lag < Day
  /\ Day <= MaxTime /\ "scheduler" \notin Request
  /\ Alphabet \in Seq(ToSet(Alphabet))
  /\ \A r \in Row :
       /\ r.table = "agent_event" => r.component \in ToSet(Alphabet)
       /\ r.table = "agent_failure" => {r.failure_type, r.error_code} \subseteq ToSet(Alphabet) \cup {None}
  /\ {"unknown", "unknown_sql_error"} \subseteq ToSet(Alphabet)

VARIABLES
  offset,     \* the zone of the server
  reporter,   \* the thread: "none", "waiting" or "working"
  reportDue,  \* when its wait ends, or ended, in local time
  since,      \* the local time at which it has started
  batches,    \* the dates of the batches it has begun
  job,        \* the report that each generator works on
  asked,      \* the requests made so far
  files       \* the reports on disk

reportVars == <<now, store, offset, reporter, reportDue, since, batches, job, asked, files>>

Generator == {"scheduler"} \cup Request
Types     == <<"daily", "failure", "health">>
Dates     == 0..((MaxTime + Day) \div Day + 1)

\* _output_path; the health report has one file for all dates.
Path(type, date) == <<type, IF type = "health" THEN 0 ELSE date>>
Paths            == {Path(type, date) : type \in ToSet(Types), date \in Dates}

\* Nothing is being generated.
Idle    == [type |-> "none", date |-> 0, data |-> None]
Busy(g) == job[g] # Idle

Local    == now + offset
Today    == Local \div Day
ReportAt(date) == date * Day + ReportTime

ReportInit ==
  /\ now     = Day
  /\ StoreInit
  /\ offset  \in Offsets
  /\ reporter = "none"
  /\ reportDue = 0
  /\ since   = 0
  /\ batches = {}
  /\ job     = [g \in Generator |-> Idle]
  /\ asked   = {}
  /\ files   = [p \in Paths |-> None]

-----------------------------------------------------------------------------
\* _daily_window.  The columns hold UTC, the date is local.
Window(date) == [start |-> date * Day, end |-> (date + 1) * Day]

Coalesce(value, default) == IF value = None THEN default ELSE value

\* SELECT name, COUNT(*) ... GROUP BY name ORDER BY count DESC, name ASC LIMIT 5,
\* where name is a function of the rows.
Count(name, n) == Cardinality({c \in DOMAIN name : name[c] = n})
Place(n)       == CHOOSE i \in DOMAIN Alphabet : Alphabet[i] = n

Outranking(name, n) ==
  {m \in Range(name) : Count(name, m) > Count(name, n) \/ (Count(name, m) = Count(name, n) /\ Place(m) < Place(n))}

Ranked(name, i) == CHOOSE n \in Range(name) : Cardinality(Outranking(name, n)) = i - 1

Top(name) ==
  LET groups == Cardinality(Range(name))
  IN  [i \in 1..(IF groups < 5 THEN groups ELSE 5) |->
         [name |-> Ranked(name, i), count |-> Count(name, Ranked(name, i))]]

ToolEvents(w) == Typed(Events(w), {"TOOL_EXECUTE_SUCCESS", "TOOL_EXECUTE_FAIL"})

ToolUsage(w) == Top([c \in ToolEvents(w) |-> row[c].component])

TypeName(c)  == Coalesce(row[c].failure_type, "unknown")
ErrorName(c) == Coalesce(row[c].error_code, TypeName(c))
SqlName(c)   == Coalesce(row[c].error_code, Coalesce(row[c].failure_type, "unknown_sql_error"))

TopFailureTypes(w) == Top([c \in Failures(w) |-> TypeName(c)])

SqlErrors(w) ==
  {c \in Failures(w) : row[c].source_layer = "sql" \/ row[c].failure_type \in {"sql_error", "schema_gap"}}

FailureGroup(w, type) ==
  Top([c \in {f \in Failures(w) : row[f].failure_type = type} |-> ErrorName(c)])

\* AVG ignores events without a latency.
AvgLatency(w) ==
  LET timed == {c \in Events(w) : row[c].latency_ms # None}
  IN  Rate(Total([c \in timed |-> row[c].latency_ms]), Cardinality(timed))

PlannerSuccessRate(w) ==
  LET total == Cardinality(Traces(w))
      wrong == Cardinality({c \in Failures(w) : row[c].source_layer = "planner" \/ row[c].failure_type = "missing_param"})
  IN  Rate(IF wrong > total THEN 0 ELSE total - wrong, total)

\* _risk_level
Risk(success, sql, replan, failures) ==
  CASE success < 8000 \/ sql < 8000 \/ failures >= 10 -> "HIGH"
    [] success < 9500 \/ replan > 2000 \/ failures > 0 -> "MEDIUM"
    [] OTHER -> "LOW"

\* _query_metrics
Metrics(w) ==
  LET failures == Cardinality(Failures(w))
      tools    == ToolUsage(w)
  IN  [total_requests |-> Cardinality(Traces(w)), success_rate |-> SuccessRate(w),
       avg_loop_depth |-> AvgLoopDepth(w), avg_latency |-> AvgLatency(w), tool_hit_rate |-> ToolHitRate(w),
       sql_success_rate |-> SqlSuccessRate(w), replan_rate |-> ReplanRate(w), failure_count |-> failures,
       planner_success_rate |-> PlannerSuccessRate(w),
       system_risk_level |-> Risk(SuccessRate(w), SqlSuccessRate(w), ReplanRate(w), failures),
       most_used_tool |-> IF tools = <<>> THEN "N/A" ELSE tools[1].name]

Lists(w) ==
  [top_failure_types |-> TopFailureTypes(w), top_sql_errors |-> Top([c \in SqlErrors(w) |-> SqlName(c)]),
   tool_usage |-> ToolUsage(w), tool_miss_analysis |-> FailureGroup(w, "tool_miss"),
   schema_gaps |-> FailureGroup(w, "schema_gap"), execution_failures |-> FailureGroup(w, "execution_error")]

\* _degradation_signals
Signals(m, failures) ==
  {s \in {"replan", "failures", "sql"} :
     CASE s = "replan"   -> m.replan_rate > 2000
       [] s = "failures" -> failures # <<>>
       [] s = "sql"      -> m.sql_success_rate < 9500}

\* fetch_report_data: one connection, whose snapshot is that of its first query
ReportData(w) ==
  [metrics |-> Metrics(w), lists |-> Lists(w), signals |-> Signals(Metrics(w), TopFailureTypes(w))]

-----------------------------------------------------------------------------
\* Mutation: at midnight
NextRunAtMidnight(t) == (t \div Day + 1) * Day

\* Mutation: always tomorrow
NextRunTomorrow(t) == ReportAt(t \div Day + 1)

\* seconds_until_next_daily_run, counted from t
NextRun(t) == IF t >= ReportAt(t \div Day) THEN ReportAt(t \div Day + 1) ELSE ReportAt(t \div Day)

\* Time passes, but not so fast that a batch takes until the next day.
ReportTick ==
  /\ now < MaxTime
  /\ reporter # "none" => Local < reportDue + Lag
  /\ now' = now + 1
  /\ UNCHANGED <<store, offset, reporter, reportDue, since, batches, job, asked, files>>

ReportCollect == Record /\ UNCHANGED <<offset, reporter, reportDue, since, batches, job, asked, files>>

ReportWait ==
  /\ reporter' = "waiting"
  /\ reportDue' = NextRun(Local)

\* With the process, so that no request is under way.
ReportStart ==
  /\ reporter = "none" /\ \A g \in Generator : ~ Busy(g)
  /\ ReportWait
  /\ since' = Local
  /\ UNCHANGED <<now, store, offset, batches, job, asked, files>>

\* The process exits: the thread is a daemon, and nothing waits for its report.
ReportStop ==
  /\ reporter # "none"
  /\ reporter' = "none"
  /\ job' = [g \in Generator |-> Idle]
  /\ Abandon
  /\ UNCHANGED <<offset, reportDue, since, batches, asked, files>>

Begun(type) == [type |-> type, date |-> Today, data |-> None]

\* The wait, which another clock measures, may end early.
ReportWake ==
  /\ reporter = "waiting" /\ reportDue - Drift <= Local
  /\ reporter' = "working"
  /\ batches' = batches \cup {Today}
  /\ job' = [job EXCEPT !["scheduler"] = Begun(Types[1])]
  /\ UNCHANGED <<now, store, offset, reportDue, since, asked, files>>

\* POST /api/analytics/report/generate
Ask(r) ==
  /\ r \notin asked /\ asked' = asked \cup {r}
  /\ \E type \in ToSet(Types) : job' = [job EXCEPT ![r] = Begun(type)]
  /\ UNCHANGED <<now, store, offset, reporter, reportDue, since, batches, files>>

Fetch(g) ==
  /\ Busy(g) /\ job[g].data = None
  /\ job' = [job EXCEPT ![g].data = ReportData(Window(job[g].date))]
  /\ UNCHANGED <<now, store, offset, reporter, reportDue, since, batches, asked, files>>

\* What follows a report: of the thread the next one, dated anew, or its wait.
Proceed(g) ==
  LET rest == {i \in DOMAIN Types : i > 1 /\ Types[i - 1] = job[g].type}
  IN  \/ /\ g = "scheduler" /\ rest # {}
         /\ \E i \in rest : job' = [job EXCEPT ![g] = Begun(Types[i])]
         /\ UNCHANGED <<reporter, reportDue>>
      \/ /\ g = "scheduler" /\ rest = {}
         /\ job' = [job EXCEPT ![g] = Idle]
         /\ ReportWait
      \/ /\ g # "scheduler"
         /\ job' = [job EXCEPT ![g] = Idle]
         /\ UNCHANGED <<reporter, reportDue>>

\* Mutation: the groups are queried in a transaction of their own.
WriteRequerying(g) ==
  /\ Busy(g) /\ job[g].data # None
  /\ files' = [files EXCEPT ![Path(job[g].type, job[g].date)] =
                 [job[g].data EXCEPT !.lists = Lists(Window(job[g].date))]]
  /\ Proceed(g)
  /\ UNCHANGED <<now, store, offset, since, batches, asked>>

Write(g) ==
  /\ Busy(g) /\ job[g].data # None
  /\ files' = [files EXCEPT ![Path(job[g].type, job[g].date)] = job[g].data]
  /\ Proceed(g)
  /\ UNCHANGED <<now, store, offset, since, batches, asked>>

\* Mutation: an exception ends the batch without a further wait.
ReportFailForGood(g) ==
  /\ Busy(g)
  /\ job' = [job EXCEPT ![g] = Idle]
  /\ UNCHANGED <<now, store, offset, reporter, reportDue, since, batches, asked, files>>

\* An exception ends the request, and the batch; the thread goes on.
ReportFail(g) ==
  /\ Busy(g)
  /\ job' = [job EXCEPT ![g] = Idle]
  /\ IF g = "scheduler" THEN ReportWait ELSE UNCHANGED <<reporter, reportDue>>
  /\ UNCHANGED <<now, store, offset, since, batches, asked, files>>

ReportNext ==
  \/ ReportTick \/ ReportCollect \/ ReportStart \/ ReportStop \/ ReportWake
  \/ \E r \in Request : Ask(r)
  \/ \E g \in Generator : Fetch(g) \/ Write(g) \/ ReportFail(g)

ReportSpec == ReportInit /\ [][ReportNext]_reportVars

-----------------------------------------------------------------------------
\* Above all, the thread works on a report just while it is in a batch.
ReportTypeOK ==
  /\ now     \in 0..MaxTime
  /\ call    \in [Call -> {"none", "stamped", "stored", "failed"}]
  /\ row     \in [Call -> Row \cup {None}]
  /\ at      \in [Call -> 0..MaxTime]
  /\ offset  \in Offsets
  /\ reporter \in {"none", "waiting", "working"}
  /\ reportDue \in Nat
  /\ since   \in Nat
  /\ batches \subseteq Dates
  /\ \A g \in Generator : Busy(g) => job[g].type \in ToSet(Types) /\ job[g].date \in Dates
  /\ Busy("scheduler") <=> reporter = "working"
  /\ asked \subseteq Request
  /\ DOMAIN files = Paths

\* Although a wait may end early, and a batch is dated only when it has ended,
\* all reports of a batch bear the date of the day they are due
\* (DailyReportScheduler._run, DAILY_REPORT_TIME).
BatchOnItsDay == Busy("scheduler") => job["scheduler"].date = reportDue \div Day

\* No day passes without a batch while the thread runs, whether or not the
\* batches succeed (DailyReportScheduler._run, seconds_until_next_daily_run).
NoDaySkipped ==
  reporter # "none" => \A d \in Dates : since < ReportAt(d) /\ ReportAt(d) + Lag < Local => d \in batches

Agree(report) ==
  LET groups == report.lists.top_failure_types
  IN  /\ Len(groups) < 5 => Total([i \in DOMAIN groups |-> groups[i].count]) = report.metrics.failure_count
      /\ "failures" \in report.signals <=> groups # <<>>

\* The sections of a report agree with each other, although each is a query of
\* its own and rows arrive in between (fetch_report_data).
SectionsAgree == \A p \in Paths : files[p] # None => Agree(files[p])

\* A daily report, keyed by its date, tells of the requests of that date
\* (_daily_window), at the latest when the next one is due.  The code does not
\* do this: a batch is generated when its day begins, and nothing generates it
\* again; requests of dates that differ in UTC are left aside here.
DailyCoversDay ==
  \A d \in Dates : {d, d + 1} \subseteq batches /\ files[Path("daily", d)] # None =>
    Cardinality({c \in Traces(Window(d)) : (at[c] + offset) \div Day = d})
      <= files[Path("daily", d)].metrics.total_requests
=============================================================================
