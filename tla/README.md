# Verification of mes-agent

TLA+ models of the MES agent backend (`src/backend/app`, FastAPI with synchronous
handlers on a thread pool, SQLAlchemy over MySQL), checked with TLC and, for the
properties that matter most, proved with TLAPS. Every module names the code it
models; `PROJECT.json` maps each definition to its lines.

## Inventory

| Component | State it keeps | Operations | Interacts with | What makes it correct |
|---|---|---|---|---|
| Chat (`chat_service.py`, `chat_persistence_service.py`, `api/chat.py`) | rows of `agent_conversation`, `agent_message`, `agent_model_call` | open the records, call the model, save the answer or the failure | connection pool, DeepSeek client | a chat's rows always agree; nothing is reported before it is stored; no connection is held during the model call; every request ends |
| DeepSeek client (`deepseek_client.py`) | none | one POST, classification of what comes back | chat | each failure gets its own error, which decides the stored status and the HTTP status |
| Feedback (`feedback_service.py`, `feedback_repository.py`) | `agent_feedback` | submit (insert or update) | messages of the chats | one active row per message and visitor; a submission replaces the former one as a whole |
| Issues (`issue_service.py`, `issue_repository.py`) | `agent_issue` | raise, edit, list, show | feedback that visitors may change meanwhile | one issue per feedback; the documented life cycle; closed is final |
| Feedback review (`feedback_review_service.py`) | none (joins) | list with filters and pages, show | feedback, issues | what it shows belongs together |
| Service construction (`api/*.py`, `main.py`) | one engine and one service per router, built at the first request | get, close | thread pool, shutdown | one engine is in use and it is disposed |
| Agent run (`agent/core`, `agents/heat_treatment`, `reasoning`, `runtime`) | a trace per request | reason, validate, execute, audit | model, tools, analytics | only enabled capabilities with their entities run; the status tells what happened; every run is traced |
| Text to SQL (`execution/tools/text_to_sql`) | none | generate, validate, execute, normalise | agent run | only a validated query runs; limits hold |
| Analytics (`analytics/`) | `agent_trace`, `agent_event`, `agent_failure`, `agent_metrics_snapshot`; two scheduler threads | record, snapshot, report | agent run, lifespan | every request is counted once; schedulers start and stop |
| Web interface (`frontend/src`) | list, selected feedback with its issue and form, requests in flight; current chat | search, page, open, raise, save; chat, rate | the routes above | what is shown and saved belongs to what is selected; a save ends |
| Archived V1 agent (`agent/archive/v1`) | the trace of the last tool call, shared by all runs; the records of a run | route by keywords, plan, execute, plan again, record | tools, text to SQL, analytics | nothing runs that the question does not ask for; what is recorded is what happened |
| `agent_query_service.py`, archived graph and experiments | - | - | no route reaches them | - |

Behaviours that are hard: handlers run on a pool of threads, so that two
requests interleave between every read and write; the database decides at
REPEATABLE READ, whose snapshots are stale when the ORM writes; any statement
or commit may fail, and a commit may take effect although it is reported as
failed; the process may die between two transactions; the model may be slow,
fail or answer nonsense. `PROJECT.json` lists these hazards at their lines.

## Modules

| Module | What it is |
|---|---|
| `DeepSeekClient` | what can happen on the wire, and the error and HTTP status it becomes |
| `ChatPersistence` | `POST /api/chat`: one action per statement of the two transactions, the provider call between them, failures, lost acknowledgements, pool and crash; extends `DeepSeekClient` |
| `ChatLedger` | abstract: an entry per chat that is opened, settled once, and backs what is reported |
| `ChatPersistenceProofs` | theorems about `ChatPersistence` |
| `FeedbackStore` | `POST /api/feedback`: validation, snapshot read, insert or column-wise update, unique key, row lock |
| `FeedbackRegister` | abstract: one register per message and visitor, replaced as a whole |
| `FeedbackStoreProofs` | theorems about `FeedbackStore` |
| `IssueTracker` | `POST` and `PUT /api/admin/issues`: create and update with their checks, under the same database rules |
| `IssueLifecycle` | abstract: the transitions, required fields and finality the documentation states |
| `IssueTrackerProofs` | theorems about `IssueTracker` |
| `IssueConsole` | the issue manager of the page with the review and issue routes it calls: several requests in flight, answers out of order or lost, visitors and other administrators |
| `IssueConsoleProofs` | theorems about `IssueConsole` |
| `MesAgent` | `POST /api/agent/run`: reasoning with its plain-text fallback, validation against the catalog, the tool or text-to-SQL, the shared trace, the audit, crash; extends `TextToSql` |
| `TextToSql` | the checks of `SqlValidator` in their order, and the limit it enforces, as operators |
| `AgentContract` | abstract: a run uses at most one permitted capability, and what it answers fits what it used |
| `MesAgentProofs` | theorems about `MesAgent`, its traces included |
| `AgentOrchestrator` | the archived V1 agent: two routers, the planner and its second plan, tool and SQL steps, the shared registry, the records one commit at a time |
| `AgentOrchestratorProofs` | theorems about `AgentOrchestrator` |
| `LazyService` | how the five routers build their engine and services at the first request, and close them: racing threads, failures, shutdown |
| `LazyServiceProofs` | theorems about `LazyService` |
| `AnalyticsStore` | the three tables the collector fills: rows that are stamped, then committed, and the rates that both the snapshots and the reports query |
| `MetricsSnapshot` | the snapshot thread: wait, window, the transaction of a snapshot, failures, stop, exit, crash; extends `AnalyticsStore` |
| `DailyReport` | the report thread and the requested reports: schedule, windows by date, queries, files; extends `AnalyticsStore` |
| `AnalyticsProofs` | theorems about `MetricsSnapshot` and `DailyReport`, which have names of their own so that one module can extend both |
| `MC*` | instances for TLC: constants only |

### Correspondence

*Chat.* `stage[r]` is the program counter of the handler of request `r`, one value
per statement. `view[r]` holds the rows its session has flushed, `db[r]` the
committed ones; as all keys are fresh, no two chats share a row, and the database
splits by chat. `open` is the set of checked-out connections. A failing statement
(`StartFails`, `ResultFails`) rolls back and re-raises as the code does; `LoseAck`
is a commit that took effect and raised. `Crash` ends all handlers, as nothing in
`main.py` resumes a `CALLING` row. Retention of snapshots, tokens and durations is
left out; of the prompt and the answer only their existence is kept.

*Feedback and issues.* A transaction is three steps: the read that fixes its
snapshot (`LookUp`, `Decide...`), the flushed write, and the commit. InnoDB is
modelled from how the code uses it: a second INSERT under the same unique key,
or an UPDATE of a row another transaction has flushed, waits; the INSERT is then refused
if the key exists, the UPDATE changes the latest row, but only in the columns
SQLAlchemy found different from the object that was read. That last rule is what
makes overlapping submissions mix. Feedback keys and issue keys are fresh
(`uuid4`).

*Agent.* `stage[r]` is how far `MesAgent.run` has come with run `r`; a step ends where
the run waits for the language model or for a database, so that what lies between two
waits is one action. `reasoning[r]` is the result as `LlmCapabilityReasoningAdapter`
passes it on, `query[r]` the SQL before and after validation, `events[r]` the list that
`TraceRuntime` keeps under the run's id, `stored[r]` its row of `agent_trace`, and
`calls[r]` remembers which executors were invoked. The catalog is a variable without a
step: it is loaded once, any of the catalogs that `CapabilityLoader` accepts. A model
call that raises is repeated in plain text; nonsense is an error at once, except
for SQL, whose generator counts it as a failed call. `Raise` is the `except` of
`MesAgent.run`. Errors of generation, validation and execution of SQL become data of
a success, errors of the tokenizer are none of the caught ones and reach `Raise`. A query
is reduced to the answers to what the validator asks about it: shape, tables, columns, stars,
narrowing and limit. What it does not ask is kept where a property is about it: which SELECT lists all
columns, although only the outermost one is looked at; the columns of a derived table are
any columns, as the validator has no list for the alias of such a table.

*Issue manager.* `calls` are the requests in flight: sent, then answered or failed at the
server, then dealt with by the page, each a step of its own, so that answers overtake one
another as they may under `await`. `list` and `desk` are the refs of `App.vue`; an issue is known by the
feedback it was raised of, and what the form and the messages say is left out, as no property depends on it.
`ServeCreate` and `ServeUpdate` are one step each, because `IssueTracker` looks inside
them; what it refuses is a failure here. Nothing is assumed of the administrator: a detail
page may be opened, a list loaded and another save tried while a save is under way, because a save
disables the buttons that save and, while it reloads the list, the search, but no others. `Fickle` and `Shared` say of which
feedback visitors change their minds and other administrators raise an issue. Left out is a request that the network gives up while the server
still works on it.

*Archived agent.* A question is the set of keywords that occur in it (`Word`), and then an
understanding: what each of the two routers makes of it. `FirstPlan`, `Replan` and `AnotherPlan` are the planner and the
feedback loop; `run[r]` is the run with its plan, its attempt and its observations.
The tool call is three steps, the call, its return, which overwrites `lastTrace` for all runs, and
the read of `last_trace`, since another run may return between the last two; a trace is known by the run
whose call left it. `pending` are the
records still to be committed, one transaction each, of which the first that fails ends the recording.

*Service construction.* `engine` and `service` are the globals of a router's module, a
published service being known by the engine it works on; `holds[t]` is the engine of
what thread `t` has built or been given. Every read and write of a global is a step of
its own, since threads may switch between any two. `router` and `settings` are chosen once: the routers
differ in how many services they publish and in whether they need a model client.
`Close` waits for all handlers, as the server does before it ends the lifespan.

*Analytics.* `now` is the clock, in ticks of which `Milli` make a millisecond. A call of the
collector takes the time (`Stamp`) and commits its row later (`Commit`); what a
`DATETIME(3)` column makes of the time is `Kept`. The present agent records traces only;
the model also records events and failures, which the queries count and the
collector offers. A rate is a number of ten-thousandths, rounded to the nearest (ties and
doubly rounded quotients, where MySQL and Python differ in the last digit, are abstracted).
The queries of one connection see one snapshot of the tables, as InnoDB's default
isolation level has it, so that `Read` and `Fetch` are one step each. Clocks do not go
back. In `MetricsSnapshot`, the wait ends up to `drift` early on the wall clock, since the monotonic
clock measures it, or any time later; `drift` is chosen once, from none to `Drift`, so that one model has both the
machines on which waits are exact and the others; that it has timed out (`Wake`) and that the thread takes the time
for its window (`Begin`) are two steps, and `stop` may come between them and is then not noticed;
`Exit` may overtake a snapshot, because `stop` waits for a second only and the thread is
a daemon. In `DailyReport`, where the thread is called the reporter, the wait may end as early,
and `Lag` bounds how late a batch ends. A report is its data:
the text rendered from it adds nothing but form.

Operators named in a comment "Mutation:" are deliberate errors that
the properties are tried against; no specification uses them.

## Runs

| Run | Checks | Instance |
|---|---|---|
| `ChatPersistence` | rows whole, answers backed, connections accounted, results final, implements `ChatLedger`, every chat ends | 2 requests, pool of 1, 1 crash, ten HTTP statuses (one per branch and one that no branch handles), one body defect |
| `FeedbackStore` | `OneActiveRow`, implements `FeedbackRegister` | 3 submissions of one visitor about one message, two of them in flight together before the first rating is stored, failures |
| `IssueTracker` | one issue per feedback, implements `IssueLifecycle` | 1 feedback, 2 keys, 2 administrators who race to raise it but edit one after the other, 24 edits, failures |
| `IssueConsole` | one thing is saved at a time and the buttons know it, every save ends | 2 dislikes on pages of one, 2 requests in flight, all of them or those without an issue, one visitor who changes their mind, one issue that others may raise |
| `AgentOrchestrator` | only intended calls through both plans, the records of a run are true | 2 runs, one asked every subset of 14 words, the other calls the tool; every failure |
| `AgentTraceMixed` | violated: a run reports the trace of another run's call | as `AgentOrchestrator` |
| `MesAgent` | only requested calls, traces tell the truth and are released, answers audited, every run ends, implements `AgentContract` | 2 runs, the shipped catalog and one with a planned capability enabled, 11 reasoning results, 17 queries, limit 2, 1 crash |
| `LazyService` | no getter returns None, nothing in use is disposed of, engines left open are bounded | 5 routers, 3 configurations, 2 threads, 3 failures, 2 shutdowns |
| `MetricsSnapshot` | rates are rates, windows never overlap, no request is counted twice, and by how much both may fail when waits end early | 2 calls of 4 kinds of rows, interval 3, 2 ticks a millisecond, a drift of none or 1, time up to 9, 2 starts |
| `DailyReport` | batches bear their day, no day is skipped, the sections of a report agree | 1 call of 3 kinds of rows, 1 request, days of 3 ticks, report time 1, drift 1, lag 1, local time one tick ahead of UTC, time up to 8 |
| `IssueReopened` | violated: an administrator reopens an issue another one closed | 1 issue, 2 administrators without coordination |
| `DailyReportOfDay` | violated: no daily report tells of a request of its day | as `DailyReport` |

*Bounds.* Chats interact through the pool and the crash only, and both are
symmetric, so two chats with a pool of one show every conflict. A feedback row
can only be disturbed by another submission of the same owner: three let one be
stored while two race over it, and a second owner would only multiply the states.
Two administrators exhibit every stale read; a third adds no new kind of
conflict, as every conflict is between one reader and the commits since its read.
Runs of the agent share the trace dictionary and the process only, so that two show
what one does to another; the reasoning results are every selection that the
adapter, the agent and the validator treat differently, the queries one of each defect,
a limit on either side of the bound and a derived table with and without a star of its own, as the checks
are taken one by one.
Two threads that build a service overwrite each other in every order, and three failures
with two shutdowns let each generation of services fail and race.
Two dislikes on pages of one give two feedbacks to confuse, a list that moves when one is raised or
taken back, and two buttons for pages; of two requests in flight either is the late one, and what keeps a save
from ending is its own reload and one more request that answers before, between or after it.
Runs of the archived agent share nothing but the registry, so that one that may be asked anything
meets one that returns at any moment.
Time up to 9 holds two windows of three ticks that follow each other exactly, or three that are cut short, and a restart between any two of them; with two
ticks to a millisecond, rows and bounds fall on either side of every rounding. With a drift of one,
the columns let two windows overlap by a millisecond, which is two ticks: an interval of three is longer, so that a window
that repeats the one before would be found.
Two days
and a night of three ticks hold two batches that may each be early, late, failed or
missed, and the date changes within the drift of the first.
`MaxCrashes`, the number of requests and of issue keys bound the models; no
other counter grows. Deadlock is checked except for the feedback run and those of both agents, which end when
all submissions or runs are answered, and the service construction and the analytics, which end at their bounds; the chat says so with `Quiescent`.

*Fairness.* `FairSpec` of the chat is weakly fair, per request, to the steps of
the handler: threads run, the pool times out, and httpx bounds every provider call with
`LLM_TIMEOUT_SECONDS`. Of MySQL it is assumed that it answers a statement or breaks the connection off:
`engine.py:59` bounds the connecting only. Nothing is fair about submitting
or crashing. A request for a connection is one fair action with its timeout, so
no strong fairness is needed.

`FairSpec` of the agent is weakly fair to each run but for the tool: the model calls
and the generated SQL have timeouts, the query of `heat_current_stage` has none. So
`EveryRunEnds` promises an end, or a wait for that query. The `INSERT` of the audit has no timeout either; there
MySQL is assumed to answer, as for the chat.

`FairSpec` of `IssueConsole` is weakly fair, per request, to the server and to the browser. The page
has no timeout of its own: MySQL is taken to answer, and the network to deliver an answer or an error in
the end. Nothing is fair about what the administrator does.

The service construction states no liveness: its connection check has no read timeout
(`engine.py:66`), and that it ends would be assumed, not shown. Nor do the analytics and the archived agent: no
step of them waits for another.

*Races without a run.* Of two first submissions in flight together one is refused by the
unique key and answered with HTTP 500, although a later submission updates the row; two
requests that raise an issue of one feedback end likewise. `FeedbackStore` and `IssueTracker`
contain both races, and `OneActiveRow` and `OneIssuePerFeedback` hold through them.

*Assumptions about clients.* `RegisterSpec` holds when a message that is rated is rated again only after
the former answer (the page disables its buttons meanwhile, in one tab) and the first rating is sent twice at
most. `LifecycleSpec` holds when two administrators do not update one issue at
once; `IssueReopened` drops this. Nothing else is assumed of a client.

*Violated claims.* `IssueReopened`, `AgentTraceMixed` and `DailyReportOfDay` check one property each that a document
claims and the code violates; `PROJECT.json` quotes the documents under "findings". The modules state five more such
claims, which have no run of their own. Each is an invariant that TLC finds violated within seconds when it takes the place of
the properties of the configuration named:

| Claim | Configuration | What the repository says | What the code does |
|---|---|---|---|
| `FeedbackStore!LikesAreBare` | `FeedbackStore` with `Eager = TRUE` | "Changing dislike to like clears `reason_type` and `comment`" (`docs/anonymous-feedback-flow.md:124`) | `FeedbackRepository.update` (:82) writes the columns that differ from a stale read: a like and a dislike that overlap, as from two tabs, leave a like with a comment |
| `IssueConsole!IssueIsOfFeedback` | `IssueConsole` | the detail of a feedback joins the optional issue of that feedback (`docs/disliked-feedback-issue-flow.md:128-137`) | `createIssueForSelected` (`App.vue:428`) and `saveIssue` (:455) put the issue under whatever is selected when it arrives |
| `MesAgent!SuccessCarriesRows` | `MesAgent` | rows, row_count and validated_sql are required of the output (`heat-treatment.yaml:134-138`) | a query that was rejected, not generated or not executed is answered as a success without them |
| `MesAgent!NoWildcardRuns` | `MesAgent` | the validator "enforces: [...] no `SELECT *`" (`docs/agent-tool-text-to-sql-routing-v1.md:220`, `:228`) | `validator.py:62` looks at the outermost SELECT only, and has no columns for the alias of a derived table (:77-79) |
| `MesAgent!DoubtsAreClarified` | `MesAgent` | the agent owns "clarification when a request is ambiguous" (`docs/agent-architecture-v2.md:87-93`) | neither the agent (`agent.py:25`) nor the validator reads `need_clarification`: a complete selection is executed |

## Proofs

`ChatPersistenceProofs` proves, for every set of requests, pool size and number
of crashes (assumption `PoolAssumption`): type correctness, `ChatsAreWhole`,
`ToldIsStored`, `ConnectionsAccounted` and `ResultsAreFinal`. None of them is
inductive: that a chat is whole after a commit depends on what the session has
flushed, which depends on the stage and on the outcome. The inductive invariant
says, stage by stage, what the committed rows and the view contain and which
connections are held; each theorem follows from it. The argument is per chat: an
action touches one request, and the lemmas about the transaction steps are
shared by the actions that use them. The same invariant gives the refinement of `ChatLedger`
(`ImplementsLedger`): seen through one chat's rows and answer, a step is silent or opens,
settles, reports or gives up, and each of those is the ledger's action of that name; a
crash is one `GiveUp` for all chats in flight.

`MesAgentProofs` proves for every set of runs and every catalog, reasoning result and
query that `AgentAssumption` and `LimitAssumption` admit: type correctness,
`TracesReleased`, `AnswersAreAudited`, and that `MesAgent` implements `AgentContract`. The inductive
invariant says by stage whether a run has called, what its reasoning and query are worth
(`Asked`, `Queried`), and what it has told and stored (`Told`).

A further invariant, `TrailInv`, relates the events collected so far to the
calls: what was executed was validated and selected by a reasoning result in the
same trace, and nothing is recorded as executed before the run is done. From it follow
`CallsAreRequested` and `TraceTellsCalls`.

`LazyServiceProofs` proves type correctness, `ServedByOpenEngine` and `EnginesBounded` for any number of threads,
failures and shutdowns. Its invariant `Built` says that a thread past `create` leaves the
global engine set, that a service handed out means that all are published, and that
services are published in order. `EnginesBounded` needs counting: `Due` are the threads
that may yet create an engine no failure pays for; open engines and `Due` together
stay within the bound, because a thread that has built once finds a service the next
time.

`AgentOrchestratorProofs` proves the properties of the run `AgentOrchestrator`, for any runs and any sets of words
that each may be asked with (`OrchestratorAssumption`). The properties are not inductive: that a
call is an intended one depends on which plans can have been made, and that the records of a run are true
depends on those still to be committed. `Good` therefore says of one run by its stage which
plan it may have in hand (`Plans`, which also bounds their length) and that nothing has
succeeded so far (`Underway`); that just the last step of an answered run may have
succeeded (`Ended`), because the first success ends a plan and a second plan follows only upon a failed one;
and that what is stored and what is pending together are the records of the answer, and what is stored at
the end is a beginning of them (`Told`). `AuditIsTrue` counts events in such a beginning of
the records (`StepsCounted`, `Audited`); `Count` is a cardinality so that
concatenation adds up (`CountCat`).

`AnalyticsProofs` proves all properties of `MetricsSnapshot` and of `DailyReport`, and also
that the snapshot thread survives every failure (`ThreadSurvives`), for any number of
calls and kinds of rows, any interval, precision of the columns, length of the day and zone
(`StoreAssumption`, `SnapshotAssumption`, `ReportAssumption`; all three are in force in the
module).

- Of the snapshots, `Ahead` says that every stored window ends before the one in hand begins, but for
  the drift, and, while the thread waits or has woken, before the interval that ends when it is due; as rounding to
  the columns is monotone (`KeptMonotone`) and a drift is rounded up at most (`KeptWithin`), that order
  survives storage: two windows overlap by the drift in whole milliseconds and, without
  drift, not at all. `CountedOnce` needs more than
  the columns tell, which are rounded: `Counting` bounds the requests the rows count (`Allowed`). Without drift
  they are no more than there are stored traces before the window to come (`Early`, by the unrounded bound):
  an insertion adds the traces in the window, which are disjoint from those before it (`EarlyAndIn`), and rows that arrive
  late only add to the right side. With drift, those
  of them that are older by an interval less the drift may have been counted once more. So none is counted three
  times, as `SnapshotAssumption` has two drifts fit into an interval. That rates stay within
  one (`MeasuredFractions`) is arithmetic about rounded quotients of the cardinalities of a part
  and its whole.
- Of the reports, `Scheduled` says that the reporter waits for, or works on, a due time of a day; that
  every due time since its start and before that one has had its batch (`Covered`); and that
  a batch under way is of that day. `NextRun` leads to the next due time within a day (`NextRunFacts`); from a wait that ends
  up to `Drift` early to a batch that ends up to `Lag` late it is one and the same
  day (`WorkDay`), because `ReportAssumption` keeps both within it: ten minutes past midnight leave the wait ten minutes of
  drift and the batch almost a day. Without that, a batch could bear the date of the day before.
- `SectionsAgree` holds since a report is queried from one state of the tables: `ReportAgrees` shows that
  the groups of the list add up to the failures. It needs that the order of the list is a strict total
  order, so that each name has a place and each place one name (`RankedFacts`), which holds if `Alphabet`
  has all texts there are. TLC checks it with one row at most, the theorem is for any number.
- Sums are folds, and a fold is a recursive function; that its equation determines it
  (`Determined`) is shown by a smallest counterexample, `LeastNumber`, in place of induction. `TotalIs` then lets a sum be
  any function that adds one value at a time, such as the size of a set.

`FeedbackStoreProofs` proves type correctness and `OneActiveRow` for any requests, visitors, messages and contents, with no
assumption about the visitors. The invariant ties the three steps of a transaction together: what was read is a row of the same
owner that stays there (`Read`), and a flushed row is the only one of its owner that is being written
or is there (`Held`), which the unique key and the row lock establish when it is
flushed. `ImplementsRegister` proves the refinement of `FeedbackRegister` for visitors who are `Waiting`. It needs
that nobody else of the owner is in flight once a row is there (`Spaced`), so that what was read
is still true when it is written (`Fresh`); then the column-wise update writes exactly what was
submitted (`MergedContent`), and the commit is the abstract `Save`. With three first ratings in flight it would not be: two of
them could read the row of the first and mix.

`IssueTrackerProofs` does the same for issues: type correctness and `OneIssuePerFeedback` for any
administrators (`Raising` says that a flushed new issue is the only one of its feedback,
`Handling` that one request at a time writes an issue and that it stays with its feedback), and
`ImplementsLifecycle` for administrators who are `Exclusive`: what an update read is current until it
commits, and what it makes of that is a move of the life cycle, because the checks of
`update_issue` admit no more (`ChecksAllow`).

`IssueConsoleProofs` proves type correctness and `OneSaveAtATime` for any feedback, pages and number of
requests in flight, with nothing assumed of the administrator (`AbsentAssumption` says only that no request is the
value that stands for none). Type correctness needs that an answer fits the kind of its request (`Fits`) and that nothing
is saved while nothing is selected (`Chosen`). With these `OneSaveAtATime` is inductive: a save waits for its own request and
then for the reload that follows it (`Saver`), and each step either replaces the one by the other, or starts a save with the buttons enabled,
or ends one and enables them.

Every invariant and every action property that a passing run checks is thus proved, and the four
refinements. Model-checked only: `EveryChatEnds`, `EveryRunEnds` and `SavesEnd`, as
liveness under fairness, which rests on ENABLED, is out of the prover's
reach, and the properties that the code violates, for which TLC has the counterexample.

## Not modelled, and what is left

Left for later, in this order: as theorems, that no step of a chat, a run or a save
leads back to an earlier stage, the part of the liveness properties that is a safety property; the
capability catalog and its loader as operators against a reference definition.

Left out for good: rendering of reports and logs, building of prompts and
payloads, configuration; `agent_query_service.py` and the older graph of nodes in `agent/archive`, which
no route reaches and which run straight through one call each; the scripts of experiments and
evaluations, which call the agent and print. The chat and rating forms of the page hold one request each and show its answer; the
requests are modelled at the server.
