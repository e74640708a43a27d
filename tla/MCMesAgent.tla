----------------------------- MODULE MCMesAgent -----------------------------
(* Instances of MesAgent for TLC.                                          *)
EXTENDS MesAgent, TLC

Definition(domain, status, type, executor, needs) ==
  [domain |-> domain, status |-> status, type |-> type, executor |-> executor, needs |-> needs]

\* capability/catalog/definitions/*.yaml, but for inspection_status; the two
\* planned ones of other domains are never offered to the model.
Shipped ==
  [heat_current_stage            |-> Definition("heat_treatment", "enabled", "tool",
                                                "heat_current_stage", {"record_no"}),
   heat_completion_count_monthly |-> Definition("heat_treatment", "enabled", "readonly_sql",
                                                "text_to_sql", {"time_range"}),
   heat_device_trace             |-> Definition("heat_treatment", "planned", "tool",
                                                "heat_device_trace", {"record_no"}),
   work_order_status             |-> Definition("production", "planned", "tool",
                                                "work_order_status", {"record_no"})]

\* The planned capability enabled with a tool that the loader knows, and a
\* tool enabled that the agent does not list.
Extended ==
  [Shipped EXCEPT !.heat_device_trace.status = "enabled",
                  !.heat_device_trace.executor = "heat_equipment_assignment"]
    @@ [heat_batch_products |-> Definition("heat_treatment", "enabled", "tool",
                                           "heat_current_stage", {})]

BothCatalogs == {Shipped, Extended}

Result(c, entities, unsure) ==
  [selected |-> c, entities |-> entities, need_clarification |-> unsure]

\* Every selection, without its entity, with one more than the tool takes, and
\* with doubts; "unheard" is in no catalog.
SomeReasonings ==
  {Result(Absent, {}, TRUE), Result("unheard", {"record_no"}, FALSE),
   Result("work_order_status", {}, FALSE), Result("heat_batch_products", {"record_no"}, FALSE)}
    \cup {Result("heat_current_stage", e, FALSE) : e \in SUBSET Entities}
    \cup {Result("heat_device_trace", {"record_no"}, FALSE)}
    \cup {Result("heat_completion_count_monthly", {"time_range"}, b) : b \in BOOLEAN}

Fine == [shape |-> "select", tables |-> {"open"}, stars |-> {},
         columns |-> {"open", "alias"}, narrowed |-> TRUE, limit |-> MaxLimit]

\* Limits on both sides of the bound, every single complaint, and a selection
\* of all columns in a derived table, with and without a list of them outside.
SomeQueries ==
  {[Fine EXCEPT !.limit = l] : l \in {NoLiteral, 0, MaxLimit, MaxLimit + 1}}
    \cup {[Fine EXCEPT !.shape = s] : s \in Shapes}
    \cup {[Fine EXCEPT !.tables = t] : t \in {{}, {"open", "closed"}}}
    \cup {[Fine EXCEPT !.columns = {"open", c}] : c \in {"forbidden", "unlisted"}}
    \cup {[Fine EXCEPT !.stars = {s}] : s \in {"outermost", "nested"}}
    \cup {[Fine EXCEPT !.stars = {"nested"}, !.columns = {"derived"}],
          [Fine EXCEPT !.narrowed = FALSE]}
=============================================================================
