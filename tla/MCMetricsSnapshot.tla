------------------------- MODULE MCMetricsSnapshot -------------------------
(* Instances of MetricsSnapshot for TLC.                                   *)
EXTENDS MetricsSnapshot, TLC

CONSTANTS c1, c2

Calls == {c1, c2}

Symmetry == Permutations(Calls)

TraceOf(id, status) == [table |-> "agent_trace", trace_id |-> id, status |-> status, loop_depth |-> 1]

SomeRows ==
  {TraceOf("a", "success"), TraceOf("b", "failed"),
   [table |-> "agent_event", trace_id |-> "b", event_type |-> "REPLAN_TRIGGER"],
   [table |-> "agent_failure", source_layer |-> "execution", failure_type |-> "sql_error"]}
=============================================================================
