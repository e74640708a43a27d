--------------------------- MODULE AgentContract ----------------------------
(***************************************************************************)
(* What POST /api/agent/run promises: a run uses at most one capability, a *)
(* permitted one, reports success only after it returned, and asks for     *)
(* clarification only if nothing was touched.                              *)
(***************************************************************************)
EXTENDS Sequences

CONSTANTS
  Request,     \* runs
  Permitted    \* the capabilities that may be executed

VARIABLES
  used,     \* the capabilities each run has invoked
  told      \* what its client was told

vars == <<used, told>>

Init == used = [r \in Request |-> <<>>] /\ told = [r \in Request |-> "nothing"]

Use(r) ==
  /\ used[r] = <<>> /\ told[r] = "nothing"
  /\ \E c \in Permitted : used' = [used EXCEPT ![r] = <<c>>]
  /\ UNCHANGED told

Tell(r, statuses) ==
  /\ told[r] = "nothing"
  /\ \E s \in statuses : told' = [told EXCEPT ![r] = s]
  /\ UNCHANGED used

TellUsed(r)   == used[r] # <<>> /\ Tell(r, {"success", "error"})
TellUnused(r) == used[r] = <<>> /\ Tell(r, {"clarification_required", "error"})

\* The process dies with any number of runs.
Lose ==
  /\ \E R \in SUBSET {r \in Request : told[r] = "nothing"} :
       told' = [r \in Request |-> IF r \in R THEN "lost" ELSE told[r]]
  /\ UNCHANGED used

Next == (\E r \in Request : Use(r) \/ TellUsed(r) \/ TellUnused(r)) \/ Lose

Spec == Init /\ [][Next]_vars
=============================================================================
