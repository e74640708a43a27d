-------------------------- MODULE FeedbackRegister --------------------------
(***************************************************************************)
(* What POST /api/feedback promises: every visitor has one register per    *)
(* message, a submission replaces its whole content in one step or leaves  *)
(* it alone, and a visitor who is told "saved" finds the submission there. *)
(***************************************************************************)
CONSTANTS
  Request,    \* submissions
  Owner,      \* a message together with a visitor
  Feedback,   \* what a register may hold
  Nothing     \* the content of a register nobody wrote to

VARIABLES
  register,   \* the feedback of each owner
  asked,      \* what each submission asks for: an owner and a feedback
  told        \* what each submitter was told

vars == <<register, asked, told>>

Asking == [owner : Owner, feedback : Feedback]

Init ==
  /\ register = [o \in Owner |-> Nothing]
  /\ asked    = [r \in Request |-> Nothing]
  /\ told     = [r \in Request |-> "nothing"]

Ask(r) ==
  /\ asked[r] = Nothing /\ told[r] = "nothing"
  /\ \E a \in Asking : asked' = [asked EXCEPT ![r] = a]
  /\ UNCHANGED <<register, told>>

\* An error may follow a submission that took effect, never the reverse.
Save(r) ==
  /\ asked[r] # Nothing /\ told[r] = "nothing"
  /\ register' = [register EXCEPT ![asked[r].owner] = asked[r].feedback]
  /\ told' \in {[told EXCEPT ![r] = t] : t \in {"saved", "error"}}
  /\ UNCHANGED asked

Refuse(r) ==
  /\ told[r] = "nothing"
  /\ told' \in {[told EXCEPT ![r] = t] : t \in {"refused", "error"}}
  /\ UNCHANGED <<register, asked>>

Next == \E r \in Request : Ask(r) \/ Save(r) \/ Refuse(r)

Spec == Init /\ [][Next]_vars
=============================================================================
