----------------------------- MODULE TextToSql ------------------------------
(***************************************************************************)
(* What TextToSqlNode makes of a generated query: the checks of            *)
(* SqlValidator in their order, the limit it enforces and the number of    *)
(* rows ReadonlySqlExecutor fetches.  A generated text is kept as the      *)
(* answers to the questions that the validator asks about it.              *)
(***************************************************************************)
EXTENDS Naturals, FiniteSets

CONSTANTS
  MaxLimit,    \* agent_text_to_sql_max_limit, also the executor's max_rows
  NoLiteral    \* there is no LIMIT, or it is not an integer literal

ASSUME LimitAssumption == MaxLimit \in Nat \ {0} /\ NoLiteral \notin Nat

Shapes == {"empty", "unparsable", "several", "other", "writing", "select"}

\* "derived" is a column of a derived table, qualified by the alias of that
\* table, all its columns at once (d.*) included; which columns those are
\* the validator does not ask.  "unlisted" is a column of a table of the
\* package that the package does not list, or an unqualified one that no table
\* of it has.  The name of a common table expression is a closed table.
Queries ==
  [shape    : Shapes,                        \* "writing": a SELECT that contains DML or DDL
   tables   : SUBSET {"open", "closed"},     \* named in the schema package, or not
   stars    : SUBSET {"outermost", "nested"},  \* which SELECTs list all columns
   columns  : SUBSET {"open", "alias", "derived", "forbidden", "unlisted"},
   narrowed : BOOLEAN,                       \* some WHERE, GROUP BY or aggregate, whatever it says
   limit    : Nat \cup {NoLiteral}]

\* The complaints in the order in which validate looks for them; which of the
\* two about columns comes first depends on the order of the columns.
Checks == << {"empty_sql"}, {"parse_error"}, {"multiple_statements"},
             {"non_select_sql"}, {"forbidden_statement"}, {"missing_table"},
             {"forbidden_table"}, {"wildcard_column"},
             {"forbidden_column", "unknown_column"}, {"unbounded_scan"} >>

Complaints(q) ==
  [empty_sql           |-> q.shape = "empty",
   parse_error         |-> q.shape = "unparsable",
   multiple_statements |-> q.shape = "several",
   non_select_sql      |-> q.shape = "other",
   forbidden_statement |-> q.shape = "writing",
   missing_table       |-> q.tables = {},
   forbidden_table     |-> "closed" \in q.tables,
   wildcard_column     |-> "outermost" \in q.stars,
   forbidden_column    |-> "forbidden" \in q.columns,
   unknown_column      |-> "unlisted" \in q.columns,
   unbounded_scan      |-> ~ q.narrowed]

Failing(q) == {i \in DOMAIN Checks : \E c \in Checks[i] : Complaints(q)[c]}

\* The error codes that validate may return; none if it accepts the query.
Rejections(q) ==
  {c \in DOMAIN Complaints(q) :
     /\ Complaints(q)[c]
     /\ \E i \in Failing(q) : c \in Checks[i] /\ \A j \in Failing(q) : i <= j}

\* _enforce_limit
Enforced(limit) == IF limit \in 0..MaxLimit THEN limit ELSE MaxLimit
=============================================================================
