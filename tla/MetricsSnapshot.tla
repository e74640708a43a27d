-------------------------- MODULE MetricsSnapshot --------------------------
(***************************************************************************)
(* The thread that stores a row of metrics every interval: its start with  *)
(* the application, its wait, the transaction that reads the tables and    *)
(* inserts the row, and its stop, which does not wait for the transaction. *)
(***************************************************************************)
EXTENDS AnalyticsStore

CONSTANTS
  Interval,   \* ticks between two snapshots
  MaxStarts   \* bound on the starts of the application

ASSUME SnapshotAssumption ==
  /\ Interval \in Nat \ {0} /\ Interval <= MaxTime /\ 2 * Drift <= Interval
  /\ MaxStarts \in Nat

VARIABLES
  app,        \* "down", "up" or "stopping"
  thread,     \* what the thread of the scheduler does
  due,        \* when its wait ends
  window,     \* the window of the snapshot in hand
  metrics,    \* what it has computed for it
  snapshots,  \* the rows of agent_metrics_snapshot
  drift,      \* how early the waits of this machine may end; never changes
  starts

scheduler == <<thread, due, window, metrics, snapshots, drift>>
vars      == <<now, store, app, scheduler, starts>>

Init ==
  /\ now       = Interval
  /\ StoreInit
  /\ app       = "down"
  /\ thread    = "none"
  /\ due       = 0
  /\ window    = None
  /\ metrics   = None
  /\ snapshots = <<>>
  /\ drift     \in 0..Drift
  /\ starts    = 0

-----------------------------------------------------------------------------
Tick ==
  /\ now < MaxTime
  /\ now' = now + 1
  /\ UNCHANGED <<store, app, scheduler, starts>>

Collect == app = "up" /\ Record /\ UNCHANGED <<app, scheduler, starts>>

\* _stop_event.wait
Wait(ends) ==
  /\ thread' = "waiting"
  /\ due' = ends
  /\ window' = None
  /\ metrics' = None

\* lifespan up to its yield; the snapshots may be disabled, and an error in
\* their start is only logged.
Start ==
  /\ app = "down" /\ starts < MaxStarts
  /\ app' = "up"
  /\ starts' = starts + 1
  /\ Wait(now + Interval) \/ UNCHANGED <<thread, due, window, metrics>>
  /\ UNCHANGED <<now, store, snapshots, drift>>

WindowUntil(t) == [start |-> t - Interval, end |-> t]

\* Mutation: the next wait ends an interval after the last one, not after now.
InsertOnSchedule ==
  /\ thread = "inserting"
  /\ snapshots' = Append(snapshots, [metrics |-> metrics, window_start |-> Kept(window.start), window_end |-> Kept(window.end)])
  /\ Wait(due + Interval)
  /\ UNCHANGED <<now, store, app, drift, starts>>

\* The wait times out, measured by the monotonic clock; stop ends it otherwise.
Wake ==
  /\ thread = "waiting" /\ app # "stopping" /\ due - drift <= now
  /\ thread' = "woken"
  /\ UNCHANGED <<now, store, app, due, window, metrics, snapshots, drift, starts>>

\* create_recent_snapshot takes the time once more.  Nothing looks at the event
\* again: a thread that has woken takes its snapshot, stopped or not.
Begin ==
  /\ thread = "woken"
  /\ thread' = "reading"
  /\ window' = WindowUntil(now)
  /\ UNCHANGED <<now, store, app, due, metrics, snapshots, drift, starts>>

Measured(w) ==
  LET total  == Cardinality(Traces(w))
      failed == {c \in Failures(w) : row[c].source_layer = "execution" \/ row[c].failure_type = "execution_error"}
  IN  [total_requests |-> total, success_rate |-> SuccessRate(w), tool_hit_rate |-> ToolHitRate(w),
       sql_success_rate |-> SqlSuccessRate(w), replan_rate |-> ReplanRate(w), avg_loop_depth |-> AvgLoopDepth(w),
       execution_error_rate |-> Rate(Cardinality(failed), total)]

\* The three queries see the tables as they are at the first one.
Read ==
  /\ thread = "reading"
  /\ thread' = "inserting"
  /\ metrics' = Measured(window)
  /\ UNCHANGED <<now, store, app, due, window, snapshots, drift, starts>>

\* The row is committed; whether the thread hears of it makes no difference.
Insert ==
  /\ thread = "inserting"
  /\ snapshots' = Append(snapshots, [metrics |-> metrics, window_start |-> Kept(window.start), window_end |-> Kept(window.end)])
  /\ Wait(now + Interval)
  /\ UNCHANGED <<now, store, app, drift, starts>>

\* Any exception is logged, and the thread waits for the next turn.
Fail ==
  /\ thread \in {"reading", "inserting"}
  /\ Wait(now + Interval)
  /\ UNCHANGED <<now, store, app, snapshots, drift, starts>>

\* stop, when all requests have ended: the event is set, which ends the wait of
\* the thread at once.
Stop ==
  /\ app = "up" /\ \A c \in Call : call[c] # "stamped"
  /\ app' = "stopping"
  /\ UNCHANGED <<now, store, scheduler, starts>>

End ==
  /\ app = "stopping" /\ thread = "waiting"
  /\ thread' = "ended"
  /\ UNCHANGED <<now, store, app, due, window, metrics, snapshots, drift, starts>>

Gone == thread' = "none" /\ window' = None /\ metrics' = None

\* join has returned or timed out, the engine is disposed of and the process
\* exits; the thread is a daemon, and its transaction is rolled back.
Exit ==
  /\ app = "stopping" /\ thread # "waiting"
  /\ app' = "down"
  /\ Gone
  /\ UNCHANGED <<now, store, due, snapshots, drift, starts>>

Crash ==
  /\ app # "down"
  /\ app' = "down"
  /\ Abandon
  /\ Gone
  /\ UNCHANGED <<due, snapshots, drift, starts>>

Work == Wake \/ Begin \/ Read \/ Insert \/ Fail \/ End

Next == Tick \/ Collect \/ Start \/ Work \/ Stop \/ Exit \/ Crash

Spec == Init /\ [][Next]_vars

-----------------------------------------------------------------------------
Fraction  == 0..10000
Fractions == {"success_rate", "tool_hit_rate", "sql_success_rate", "replan_rate"}

\* Above all, the rates that compare a part with the whole are at most one, in
\* what the thread has computed and in what it has stored (create_snapshot).
TypeOK ==
  /\ now       \in 0..MaxTime
  /\ call      \in [Call -> {"none", "stamped", "stored", "failed"}]
  /\ row       \in [Call -> Row \cup {None}]
  /\ at        \in [Call -> 0..MaxTime]
  /\ app       \in {"down", "up", "stopping"}
  /\ thread    \in {"none", "waiting", "woken", "reading", "inserting", "ended"}
  /\ due       \in Nat
  /\ thread \in {"reading", "inserting"} => window \in [start : Int, end : Int]
  /\ thread = "inserting" => \A f \in Fractions : metrics[f] \in Fraction
  /\ \A s \in ToSet(snapshots) : \A f \in Fractions : s.metrics[f] \in Fraction
  /\ drift     \in 0..Drift
  /\ starts    \in 0..MaxStarts

\* By how much a window may begin before the last one has ended, at the
\* precision of the columns: not at all if waits never end early.
Overlap == Milli * ((drift + Milli - 1) \div Milli)

\* The windows of the snapshots follow each other, and overlap no further than
\* a wait may be cut short, whatever was late, failed or restarted in between
\* (MetricsSnapshotScheduler._run, create_recent_snapshot).
WindowsFollow ==
  \A i, j \in DOMAIN snapshots : i < j => snapshots[i].window_end <= snapshots[j].window_start + Overlap

\* No request is counted by two snapshots, also when it is recorded in the very
\* millisecond in which a window ends; by two at most if waits may end early
\* (create_snapshot).
CountedOnce ==
  Total([i \in DOMAIN snapshots |-> snapshots[i].metrics.total_requests])
    <= Cardinality({c \in Call : call[c] = "stored" /\ row[c].table = "agent_trace"})
         * (IF drift = 0 THEN 1 ELSE 2)

\* As long as the application is up, its thread lives, whatever fails in it.
ThreadSurvives == thread = "ended" => app = "stopping"
=============================================================================
