--------------------------- MODULE AnalyticsStore ---------------------------
(***************************************************************************)
(* The tables of the analytics, as AgentEventCollector fills them and as   *)
(* the snapshots and the reports query them.  Each call of the collector   *)
(* inserts one row: it takes the time first, and the row becomes visible   *)
(* when its transaction commits, which may be later.                       *)
(*                                                                         *)
(* A rate is a number of ten-thousandths, since the queries and the code   *)
(* round to four decimals.                                                 *)
(***************************************************************************)
EXTENDS Integers, FiniteSets, Sequences, SequencesExt

CONSTANTS
  Call,      \* calls of the collector
  Row,       \* what they record: the table and its columns, but for the time
  MaxTime,   \* bound on the clock
  Milli,     \* ticks of the clock in a millisecond, the precision of the columns
  Drift,     \* by how much at most a wait may end early on the wall clock
  None

ASSUME StoreAssumption ==
  /\ IsFiniteSet(Call) /\ MaxTime \in Nat /\ Milli \in Nat \ {0} /\ Drift \in Nat /\ None \notin Row
  /\ \A r \in Row : r.table \in {"agent_trace", "agent_event", "agent_failure"}

VARIABLES
  now,   \* the clock
  call,  \* how far each call has come
  row,   \* what it records, None if it does not
  at     \* the time it has taken, or 0

store == <<call, row, at>>

StoreInit ==
  /\ call = [c \in Call |-> "none"]
  /\ row  = [c \in Call |-> None]
  /\ at   = [c \in Call |-> 0]

\* record_event, record_trace and record_failure up to the insertion.
Stamp(c) ==
  /\ call[c] = "none"
  /\ call' = [call EXCEPT ![c] = "stamped"]
  /\ \E r \in Row : row' = [row EXCEPT ![c] = r]
  /\ at' = [at EXCEPT ![c] = now]
  /\ UNCHANGED now

\* uk_agent_trace_trace_id; the other tables have no such key.
Duplicate(c) ==
  /\ row[c].table = "agent_trace"
  /\ \E d \in Call : call[d] = "stored" /\ row[d].table = "agent_trace" /\ row[d].trace_id = row[c].trace_id

Commit(c) ==
  /\ call[c] = "stamped" /\ ~ Duplicate(c)
  /\ call' = [call EXCEPT ![c] = "stored"]
  /\ UNCHANGED <<now, row, at>>

\* Any statement may fail, a duplicate does: PersistenceError.
Refuse(c) ==
  /\ call[c] = "stamped"
  /\ call' = [call EXCEPT ![c] = "failed"]
  /\ row' = [row EXCEPT ![c] = None]
  /\ at' = [at EXCEPT ![c] = 0]
  /\ UNCHANGED now

\* The process dies with the calls that are under way.
Abandon ==
  LET dying(c) == call[c] = "stamped"
  IN  /\ call' = [c \in Call |-> IF dying(c) THEN "failed" ELSE call[c]]
      /\ row'  = [c \in Call |-> IF dying(c) THEN None ELSE row[c]]
      /\ at'   = [c \in Call |-> IF dying(c) THEN 0 ELSE at[c]]
      /\ UNCHANGED now

Record == \E c \in Call : Stamp(c) \/ Commit(c) \/ Refuse(c)

-----------------------------------------------------------------------------
\* DATETIME(3) rounds to the nearest millisecond.
Kept(t) == Milli * ((2 * t + Milli) \div (2 * Milli))

\* Mutation: BETWEEN
FromBetween(table, w) ==
  {c \in Call : call[c] = "stored" /\ row[c].table = table /\ w.start <= Kept(at[c]) /\ Kept(at[c]) <= w.end}

\* The rows of a table in a window.
From(table, w) ==
  {c \in Call : call[c] = "stored" /\ row[c].table = table /\ w.start <= Kept(at[c]) /\ Kept(at[c]) < w.end}

Traces(w)   == From("agent_trace", w)
Events(w)   == From("agent_event", w)
Failures(w) == From("agent_failure", w)

\* COALESCE(n / NULLIF(d, 0), 0), rounded
Rate(n, d) == IF d = 0 THEN 0 ELSE (20000 * n + d) \div (2 * d)

\* Mutation: the quotient is upside down.
RatedInversely(success, attempts) == Rate(Cardinality(attempts), Cardinality(success))

Rated(success, attempts) == Rate(Cardinality(success), Cardinality(attempts))

Typed(S, types) == {c \in S : row[c].event_type \in types}

SuccessRate(w) == Rated({c \in Traces(w) : row[c].status = "success"}, Traces(w))

ToolHitRate(w) ==
  Rated(Typed(Events(w), {"TOOL_EXECUTE_SUCCESS"}), Typed(Events(w), {"TOOL_EXECUTE_SUCCESS", "TOOL_EXECUTE_FAIL"}))

SqlSuccessRate(w) ==
  Rated(Typed(Events(w), {"SQL_EXECUTE_SUCCESS"}), Typed(Events(w), {"SQL_EXECUTE_SUCCESS", "SQL_EXECUTE_FAIL"}))

ReplanRate(w) ==
  Rated({row[c].trace_id : c \in Typed(Events(w), {"REPLAN_TRIGGER"})}, {row[c].trace_id : c \in Events(w)})

Total(numbers) == FoldFunction(LAMBDA a, b : a + b, 0, numbers)

AvgLoopDepth(w) == Rate(Total([c \in Traces(w) |-> row[c].loop_depth]), Cardinality(Traces(w)))
=============================================================================
