--------------------------- MODULE FeedbackStore ----------------------------
(***************************************************************************)
(* POST /api/feedback: FeedbackApplicationService.submit_feedback, one     *)
(* transaction that reads the target message and the visitor's feedback of *)
(* it, and then inserts a row or updates the one it read.                  *)
(*                                                                         *)
(* MySQL runs at its default isolation level: both reads see the snapshot  *)
(* taken by the first of them, an INSERT is checked against the unique key *)
(* (message, owner) and waits for an uncommitted row with the same key, an *)
(* UPDATE waits for the row lock and then changes the latest row.  The ORM *)
(* puts into that UPDATE only the columns that differ from what was read.  *)
(***************************************************************************)
EXTENDS Naturals, FiniteSets

CONSTANTS
  Request,    \* the submissions that may ever arrive
  Visitor,    \* anonymous visitors
  Message,    \* assistant messages whose status is normal
  Reason,     \* FeedbackReasonType
  Comment,    \* comments that are not blank
  Parallel,   \* how many submissions for one message a visitor has in flight
  Eager,      \* and may they overlap after the first one is stored
  Faults,     \* may statements and commits fail
  Absent      \* in place of a form or a row that is not there

\* Keys that resolve to no message one may judge.
Misdirected == {"missing", "user_message", "unavailable"}

\* The body of the request, before validation.  A like stands for whatever
\* is sent to a key one may not judge: its content goes nowhere.
Form == [visitor : Visitor, target : Message, type : {"like", "dislike"},
         reason  : Reason \cup {"none"},
         comment : Comment \cup {"none", "blank"}]
          \cup [visitor : Visitor, target : Misdirected, type : {"like"},
                reason : {"none"}, comment : {"none"}]

\* The columns of an agent_feedback row that submit_feedback writes.
Columns  == {"type", "reason", "comment"}
Feedback == [type : {"like", "dislike"}, reason : Reason \cup {"none"},
             comment : Comment \cup {"none"}]
Owner    == Message \X Visitor
Row      == [owner : Owner, content : Feedback]

\* A submission as it is handled.
Submission == [visitor : Visitor, target : Message \cup Misdirected, content : Feedback]

ASSUME StoreAssumption ==
  /\ Parallel \in Nat \ {0} /\ {Eager, Faults} \subseteq BOOLEAN
  /\ "none" \notin Reason /\ {"none", "blank"} \cap Comment = {}
  /\ Message \cap Misdirected = {}
  /\ Absent \notin Row \cup Submission \cup [owner : Owner, feedback : Feedback]

VARIABLES
  phase,     \* how far each submission has come
  form,      \* what it asks for, normalised
  rows,      \* committed feedback, by the submission whose key it carries
  seen,      \* the submission whose row was read, with the content read
  flushed,   \* the row a submission has written and not committed
  answer     \* what the submitter received

vars == <<phase, form, rows, seen, flushed, answer>>

Phases  == {"idle", "received", "looked_up", "flushed", "answered"}
Answers == {"none", "saved", "invalid", "not_found", "not_assistant",
            "persistence_error"}

Init ==
  /\ phase   = [r \in Request |-> "idle"]
  /\ form    = [r \in Request |-> Absent]
  /\ rows    = [r \in Request |-> Absent]
  /\ seen    = [r \in Request |-> Absent]
  /\ flushed = [r \in Request |-> Absent]
  /\ answer  = [r \in Request |-> "none"]

-----------------------------------------------------------------------------
(* FeedbackRequest and the first lines of submit_feedback.                 *)

\* Mutation: a blank comment is stripped and stored.
NormalizeCommentKeepingBlank(c) == c

NormalizeComment(c) == IF c = "blank" THEN "none" ELSE c

Normalized(f) ==
  IF f.type = "like"
  THEN [type |-> "like", reason |-> "none", comment |-> "none"]
  ELSE [type |-> f.type, reason |-> f.reason,
        comment |-> NormalizeComment(f.comment)]

\* validate_feedback_combination
WellFormed(f) == f.type = "like" => f.reason = "none"

InFlight(r) == phase[r] \in {"received", "looked_up", "flushed"}

Rivals(f) ==
  {r \in Request : /\ InFlight(r)
                   /\ form[r].visitor = f.visitor /\ form[r].target = f.target}

Rated(f) == \E k \in Request : rows[k] # Absent
                              /\ rows[k].owner = <<f.target, f.visitor>>

\* The page keeps its buttons disabled until the answer is there, unless the
\* first rating is sent twice: two tabs, a reload, an impatient HTTP client.
MaySend(f) ==
  \/ Rivals(f) = {}
  \/ Cardinality(Rivals(f)) < Parallel /\ (Eager \/ ~ Rated(f))

Answer(r, a) ==
  /\ phase'   = [phase EXCEPT ![r] = "answered"]
  /\ answer'  = [answer EXCEPT ![r] = a]
  /\ flushed' = [flushed EXCEPT ![r] = Absent]
  /\ UNCHANGED <<form, seen>>

Receive(r) ==
  /\ phase[r] = "idle"
  /\ \E f \in Form :
       /\ WellFormed(f) /\ MaySend(f)
       /\ form' = [form EXCEPT ![r] = [visitor |-> f.visitor,
                                       target  |-> f.target,
                                       content |-> Normalized(f)]]
  /\ phase' = [phase EXCEPT ![r] = "received"]
  /\ UNCHANGED <<rows, seen, flushed, answer>>

RejectForm(r) ==
  /\ phase[r] = "idle"
  /\ \E f \in Form : ~ WellFormed(f)
  /\ Answer(r, "invalid")
  /\ UNCHANGED rows

-----------------------------------------------------------------------------
(* The transaction.                                                        *)

OwnerOf(r) == <<form[r].target, form[r].visitor>>

\* get_by_message_key finds no assistant message in normal status.
RefuseTarget(r) ==
  /\ phase[r] = "received"
  /\ form[r].target \in Misdirected
  /\ Answer(r, CASE form[r].target = "missing"      -> "not_found"
                 [] form[r].target = "user_message" -> "not_assistant"
                 [] form[r].target = "unavailable"  -> "invalid")
  /\ UNCHANGED rows

\* The target is fine: get_active_by_message_and_visitor.
LookUp(r) ==
  LET mine == {k \in Request : rows[k] # Absent /\ rows[k].owner = OwnerOf(r)} IN
  /\ phase[r] = "received"
  /\ form[r].target \in Message
  /\ seen' = [seen EXCEPT ![r] =
                IF mine = {} THEN Absent
                ELSE LET k == CHOOSE k \in mine : TRUE
                     IN  [key |-> k, content |-> rows[k].content]]
  /\ phase' = [phase EXCEPT ![r] = "looked_up"]
  /\ UNCHANGED <<form, rows, flushed, answer>>

\* Another transaction holds the row, or the index entry, of this owner.
Blocked(r) ==
  \E q \in Request \ {r} : phase[q] = "flushed" /\ OwnerOf(q) = OwnerOf(r)

Flush(r, key, content) ==
  /\ flushed' = [flushed EXCEPT ![r] =
                   [key |-> key, row |-> [owner   |-> OwnerOf(r),
                                          content |-> content]]]
  /\ phase' = [phase EXCEPT ![r] = "flushed"]
  /\ UNCHANGED <<form, rows, seen, answer>>

\* uk_agent_feedback_active_message_owner
Duplicate(r) == \E k \in Request : rows[k] # Absent /\ rows[k].owner = OwnerOf(r)

\* Mutation: the table has no unique key.
CreateUnchecked(r) ==
  /\ phase[r] = "looked_up" /\ seen[r] = Absent
  /\ Flush(r, r, form[r].content)

Create(r) ==
  /\ phase[r] = "looked_up" /\ seen[r] = Absent
  /\ ~ Blocked(r) /\ ~ Duplicate(r)
  /\ Flush(r, r, form[r].content)

CreateRefused(r) ==
  /\ phase[r] = "looked_up" /\ seen[r] = Absent
  /\ ~ Blocked(r) /\ Duplicate(r)
  /\ Answer(r, "persistence_error")
  /\ UNCHANGED rows

\* Mutation: a value that was not sent leaves the column as it is.
UpdateSent(r) ==
  /\ phase[r] = "looked_up" /\ seen[r] # Absent
  /\ ~ Blocked(r)
  /\ LET new == form[r].content
         now == rows[seen[r].key].content
     IN  Flush(r, seen[r].key,
               [c \in Columns |-> IF new[c] # "none" THEN new[c] ELSE now[c]])

Update(r) ==
  /\ phase[r] = "looked_up" /\ seen[r] # Absent
  /\ ~ Blocked(r)
  /\ LET new == form[r].content
         now == rows[seen[r].key].content
     IN  Flush(r, seen[r].key,
               [c \in Columns |-> IF new[c] # seen[r].content[c]
                                  THEN new[c] ELSE now[c]])

Applied(r) == [rows EXCEPT ![flushed[r].key] = flushed[r].row]

Commit(r) ==
  /\ phase[r] = "flushed"
  /\ rows' = Applied(r)
  /\ Answer(r, "saved")

\* A statement fails, a lock or the pool times out, or the process dies: the
\* transaction is rolled back.  A commit may also take effect unacknowledged.
Fail(r) ==
  /\ Faults
  /\ \/ InFlight(r) /\ UNCHANGED rows
     \/ phase[r] = "flushed" /\ rows' = Applied(r)
  /\ Answer(r, "persistence_error")

Next ==
  \E r \in Request :
    \/ Receive(r) \/ RejectForm(r) \/ RefuseTarget(r) \/ LookUp(r)
    \/ Create(r) \/ CreateRefused(r) \/ Update(r) \/ Commit(r) \/ Fail(r)

Spec == Init /\ [][Next]_vars

-----------------------------------------------------------------------------
(* Properties                                                              *)

\* Every variable stays in its type; a stored comment is never blank.
TypeOK ==
  /\ phase \in [Request -> Phases]
  /\ form \in [Request -> Submission \cup {Absent}]
  /\ rows \in [Request -> Row \cup {Absent}]
  /\ seen \in [Request -> [key : Request, content : Feedback] \cup {Absent}]
  /\ flushed \in [Request -> [key : Request, row : Row] \cup {Absent}]
  /\ answer \in [Request -> Answers]

\* However many submissions race, a visitor has at most one active feedback
\* row for a message (get_active_by_message_and_visitor then create).
OneActiveRow ==
  \A k, l \in Request :
    /\ rows[k] # Absent /\ rows[l] # Absent
    /\ rows[k].owner = rows[l].owner
    => k = l

\* A stored like has neither reason nor comment: "Changing dislike to like
\* clears `reason_type` and `comment`" (docs/anonymous-feedback-flow.md:124).
\* An overlapping dislike may put back what the UPDATE of the like, comparing
\* with what it has read, leaves alone.
LikesAreBare ==
  \A k \in Request : rows[k] # Absent /\ rows[k].content.type = "like" =>
    rows[k].content.reason = "none" /\ rows[k].content.comment = "none"

-----------------------------------------------------------------------------
RegisterOf(o) ==
  LET mine == {k \in Request : rows[k] # Absent /\ rows[k].owner = o}
  IN  IF mine = {} THEN Absent ELSE rows[CHOOSE k \in mine : TRUE].content

Asked(r) ==
  IF form[r] = Absent \/ form[r].target \in Misdirected THEN Absent
  ELSE [owner |-> OwnerOf(r), feedback |-> form[r].content]

Told(r) ==
  CASE answer[r] = "none"              -> "nothing"
    [] answer[r] = "saved"             -> "saved"
    [] answer[r] = "persistence_error" -> "error"
    [] OTHER                           -> "refused"

Register == INSTANCE FeedbackRegister
              WITH register <- [o \in Owner |-> RegisterOf(o)],
                   asked    <- [r \in Request |-> Asked(r)],
                   told     <- [r \in Request |-> Told(r)],
                   Nothing  <- Absent

\* As long as a visitor who has rated a message waits for each answer before
\* submitting again, the table is one register per visitor and message, each submission replaces
\* its content as a whole, and "saved" means that it did.
RegisterSpec == Register!Spec
=============================================================================
