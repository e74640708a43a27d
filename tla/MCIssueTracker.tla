--------------------------- MODULE MCIssueTracker ---------------------------
(* Instances of IssueTracker for TLC.                                      *)
EXTENDS IssueTracker, TLC

Plain(s) == [status |-> s, cause_type |-> "keep", cause |-> "keep",
             solution |-> "keep"]
Explaining(s) == [status |-> s, cause_type |-> "given", cause |-> "given",
                  solution |-> "given"]

\* Every move with all its fields filled in, with one of them withdrawn, and
\* bare; and every single field, given or withdrawn.
ManyEdits ==
  {Plain(s) : s \in Status \cup {"keep"}} \cup {Explaining(s) : s \in Status}
    \cup {[Explaining(s) EXCEPT !.solution = "none"] : s \in {"located", "fixed"}}
    \cup {[Explaining("fixed") EXCEPT !.cause = "none"]}
    \cup {[Plain("keep") EXCEPT !.solution = x] : x \in {"none", "given"}}
    \cup {[Plain("keep") EXCEPT !.cause_type = "none", !.cause = x] : x \in {"none", "given"}}

\* Each move as a bare change of status and with all its fields filled in,
\* and the withdrawal of a solution.
FewEdits ==
  {Plain(s) : s \in Status} \cup {Explaining(s) : s \in {"located", "fixed"}}
    \cup {[Plain("keep") EXCEPT !.solution = "none"]}

Symmetry == Permutations(Issue) \cup Permutations(Admin)
=============================================================================
