--------------------------- MODULE IssueLifecycle ---------------------------
(***************************************************************************)
(* The handling of a disliked feedback as its documentation tells it: one  *)
(* issue per feedback, which moves along the allowed transitions, carries  *)
(* what its status requires, and is never touched once closed.             *)
(***************************************************************************)
EXTENDS Naturals

CONSTANTS Feedback, Issue, Absent

Status == {"pending", "analyzing", "located", "fixed", "ignored", "closed"}
Given  == {"none", "given"}

\* ALLOWED_TRANSITIONS
Allowed ==
  [pending   |-> {"analyzing", "ignored"},
   analyzing |-> {"located", "ignored"},
   located   |-> {"fixed", "ignored", "analyzing"},
   fixed     |-> {"closed", "located"},
   ignored   |-> {"closed"},
   closed    |-> {}]

\* The statuses whose entry stamps processed_at.
Processed == {"fixed", "ignored", "closed"}

Content == [status : Status, cause_type : Given, cause : Given,
            solution : Given, processed : {"never", "stamped"}]

Fresh == [status |-> "pending", cause_type |-> "none", cause |-> "none",
          solution |-> "none", processed |-> "never"]

\* _validate_required_fields
Explained(c) ==
  /\ c.status \in {"located", "fixed"} =>
       c.cause_type = "given" /\ c.cause = "given"
  /\ c.status = "fixed" => c.solution = "given"

\* What one update may make of an issue.
MayBecome(old, new) ==
  /\ old.status # "closed"
  /\ new.status \in Allowed[old.status] \cup {old.status}
  /\ Explained(new)
  /\ new.processed = IF new.status \in Processed THEN "stamped"
                                                 ELSE old.processed

VARIABLE issues   \* the content and the feedback of each issue

Of(f) == {i \in Issue : issues[i] # Absent /\ issues[i].feedback = f}

Init == issues = [i \in Issue |-> Absent]

Raise(i, f) ==
  /\ issues[i] = Absent
  /\ Of(f) = {}
  /\ issues' = [issues EXCEPT ![i] = [feedback |-> f, content |-> Fresh]]

Handle(i) ==
  /\ issues[i] # Absent
  /\ \E c \in Content :
       /\ MayBecome(issues[i].content, c)
       /\ issues' = [issues EXCEPT ![i] = [feedback |-> issues[i].feedback,
                                           content  |-> c]]

Next == \E i \in Issue : (\E f \in Feedback : Raise(i, f)) \/ Handle(i)

Spec == Init /\ [][Next]_issues
=============================================================================
