--------------------------- MODULE MCDailyReport ---------------------------
(* Instances of DailyReport for TLC.                                       *)
EXTENDS DailyReport

CONSTANT c1

Calls == {c1}

SomeRows ==
  {[table |-> "agent_trace", trace_id |-> "a", status |-> "success", loop_depth |-> 1],
   [table |-> "agent_event", trace_id |-> "a", event_type |-> "SQL_EXECUTE_SUCCESS",
    component |-> "text_to_sql", latency_ms |-> 3],
   [table |-> "agent_failure", source_layer |-> "sql", failure_type |-> None, error_code |-> None]}

Names == <<"text_to_sql", "unknown", "unknown_sql_error">>

Zones == {1}
=============================================================================
