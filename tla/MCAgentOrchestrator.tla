------------------------ MODULE MCAgentOrchestrator -------------------------
(* An instance of AgentOrchestrator for TLC: one run may be asked anything, *)
(* the other one calls the tool.                                            *)
EXTENDS AgentOrchestrator, TLC

CONSTANTS r1, r2

Runs == {r1, r2}
Asked == (r1 :> SUBSET Word) @@ (r2 :> {{"record", "stage"}})
=============================================================================
