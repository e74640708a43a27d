--------------------------- MODULE MCIssueConsole ---------------------------
(* An instance of IssueConsole for TLC: two pages of one row each.         *)
EXTENDS IssueConsole
=============================================================================
