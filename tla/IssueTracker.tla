---------------------------- MODULE IssueTracker ----------------------------
(***************************************************************************)
(* /api/admin/issues: IssueApplicationService.create_issue and             *)
(* update_issue, each one transaction that reads, decides and writes,      *)
(* while other administrators do the same and visitors change the feedback *)
(* an issue is about.                                                      *)
(*                                                                         *)
(* The database behaves as in FeedbackStore: decisions are taken on a      *)
(* snapshot, an INSERT waits for and is checked against the unique key, an *)
(* UPDATE waits for the row lock and then sets, in the latest row, only    *)
(* the columns that the ORM found changed with respect to the snapshot.    *)
(***************************************************************************)
EXTENDS Naturals, FiniteSets

CONSTANTS
  Feedback,   \* the feedback rows there are
  Issue,      \* keys for issues
  Admin,      \* clients, each waiting for an answer before its next request
  Edit,       \* the bodies they send to PUT /issues/{issue_key}
  Exclusive,  \* do they leave an issue to the one who is updating it
  Faults,     \* may statements and commits fail
  Absent      \* in place of a row that is not there

VARIABLES
  disliked,   \* the feedback whose type is DISLIKE
  issues,     \* committed issues
  phase,      \* how far the request of each administrator has come
  job,        \* the request
  seen,       \* the content of the issue an update has read
  flushed,    \* the row that is written and not committed
  answer      \* the last answer

vars == <<disliked, issues, phase, job, seen, flushed, answer>>

Lifecycle == INSTANCE IssueLifecycle

Status  == Lifecycle!Status
Content == Lifecycle!Content
Columns == {"status", "cause_type", "cause", "solution", "processed"}
Row     == [feedback : Feedback, content : Content]

\* A field of UpdateIssueRequest is left out, null (or blank), or given; a
\* null process_status counts as left out.
Edits == [status : Status \cup {"keep"}, cause_type : {"keep", "none", "given"},
          cause : {"keep", "none", "given"}, solution : {"keep", "none", "given"}]

ASSUME TrackerAssumption ==
  /\ Edit \subseteq Edits /\ {Exclusive, Faults} \subseteq BOOLEAN
  /\ Absent \notin Row \cup [issue : Issue, row : Row]

Idle == [kind |-> "idle"]
Jobs == [kind : {"create"}, feedback : Feedback \cup {"unknown"}]
          \cup [kind : {"update"}, issue : Issue, edit : Edit] \cup {Idle}

Phases  == {"idle", "asked", "decided", "flushed"}
Answers == {"none", "ok", "not_found", "not_disliked", "invalid_transition",
            "invalid", "persistence_error"}

Init ==
  /\ disliked \in SUBSET Feedback
  /\ issues  = [i \in Issue |-> Absent]
  /\ phase   = [a \in Admin |-> "idle"]
  /\ job     = [a \in Admin |-> Idle]
  /\ seen    = [a \in Admin |-> Absent]
  /\ flushed = [a \in Admin |-> Absent]
  /\ answer  = [a \in Admin |-> "none"]

-----------------------------------------------------------------------------
Ask(a, j) ==
  /\ phase[a] = "idle"
  /\ phase'  = [phase EXCEPT ![a] = "asked"]
  /\ job'    = [job EXCEPT ![a] = j]
  /\ answer' = [answer EXCEPT ![a] = "none"]
  /\ UNCHANGED <<disliked, issues, seen, flushed>>

Answer(a, result) ==
  /\ phase'   = [phase EXCEPT ![a] = "idle"]
  /\ job'     = [job EXCEPT ![a] = Idle]
  /\ seen'    = [seen EXCEPT ![a] = Absent]
  /\ flushed' = [flushed EXCEPT ![a] = Absent]
  /\ answer'  = [answer EXCEPT ![a] = result]
  /\ UNCHANGED disliked

Refuse(a, result) == Answer(a, result) /\ UNCHANGED issues

Decide(a, content) ==
  /\ phase' = [phase EXCEPT ![a] = "decided"]
  /\ seen'  = [seen EXCEPT ![a] = content]
  /\ UNCHANGED <<disliked, issues, job, flushed, answer>>

Flush(a, i, row) ==
  /\ phase'   = [phase EXCEPT ![a] = "flushed"]
  /\ flushed' = [flushed EXCEPT ![a] = [issue |-> i, row |-> row]]
  /\ UNCHANGED <<disliked, issues, job, seen, answer>>

\* A visitor replaces a like by a dislike or the reverse; the foreign key
\* makes the update of the feedback row wait for an uncommitted issue.
ChangeMind(f) ==
  /\ ~ \E a \in Admin : phase[a] = "flushed" /\ flushed[a].row.feedback = f
                                              /\ job[a].kind = "create"
  /\ disliked' = IF f \in disliked THEN disliked \ {f} ELSE disliked \cup {f}
  /\ UNCHANGED <<issues, phase, job, seen, flushed, answer>>

-----------------------------------------------------------------------------
(* create_issue                                                            *)

IssuesOf(f) == {i \in Issue : issues[i] # Absent /\ issues[i].feedback = f}

Creating(a, p) == phase[a] = p /\ job[a].kind = "create"
Updating(a, p) == phase[a] = p /\ job[a].kind = "update"

AskCreate(a) ==
  \E f \in Feedback \cup {"unknown"} :
    Ask(a, [kind |-> "create", feedback |-> f])

RefuseCreate(a) ==
  /\ Creating(a, "asked")
  /\ \/ job[a].feedback = "unknown" /\ Refuse(a, "not_found")
     \/ /\ job[a].feedback \in Feedback \ disliked
        /\ Refuse(a, "not_disliked")

ReturnExisting(a) ==
  /\ Creating(a, "asked")
  /\ job[a].feedback \in disliked
  /\ IssuesOf(job[a].feedback) # {}
  /\ Answer(a, "ok")
  /\ UNCHANGED issues

DecideCreate(a) ==
  /\ Creating(a, "asked")
  /\ job[a].feedback \in disliked
  /\ IssuesOf(job[a].feedback) = {}
  /\ Decide(a, Absent)

UnusedKey(i) ==
  issues[i] = Absent /\ \A b \in Admin : flushed[b] # Absent => flushed[b].issue # i

\* Mutation: the table has no unique key on feedback_id.
InsertUnchecked(a) ==
  LET row == [feedback |-> job[a].feedback, content |-> Lifecycle!Fresh] IN
  /\ Creating(a, "decided")
  /\ \E i \in Issue : UnusedKey(i) /\ Flush(a, i, row)

\* uk_agent_issue_feedback makes the second of two inserts wait, and fail.
Insert(a) ==
  LET f   == job[a].feedback
      row == [feedback |-> f, content |-> Lifecycle!Fresh]
  IN
  /\ Creating(a, "decided")
  /\ ~ \E b \in Admin \ {a} : Creating(b, "flushed") /\ job[b].feedback = f
  /\ IF IssuesOf(f) = {}
     THEN \E i \in Issue : UnusedKey(i) /\ Flush(a, i, row)
     ELSE Refuse(a, "persistence_error")

-----------------------------------------------------------------------------
(* update_issue                                                            *)

\* Mutation: a field that is left out overwrites what is stored.
ChosenAsSent(sent, stored) == sent

Chosen(sent, stored) == IF sent = "keep" THEN stored ELSE sent

\* Mutation: leaving the processed statuses takes the stamp away.
EditedUnstamping(old, e) ==
  LET s == Chosen(e.status, old.status) IN
  [status     |-> s,
   cause_type |-> Chosen(e.cause_type, old.cause_type),
   cause      |-> Chosen(e.cause, old.cause),
   solution   |-> Chosen(e.solution, old.solution),
   processed  |-> IF s \in Lifecycle!Processed THEN "stamped" ELSE "never"]

Edited(old, e) ==
  LET s == Chosen(e.status, old.status) IN
  [status     |-> s,
   cause_type |-> Chosen(e.cause_type, old.cause_type),
   cause      |-> Chosen(e.cause, old.cause),
   solution   |-> Chosen(e.solution, old.solution),
   processed  |-> IF s \in Lifecycle!Processed THEN "stamped"
                                               ELSE old.processed]

\* The two checks of the status, then _validate_required_fields.
Moves(old, new) ==
  IF new.status = old.status THEN old.status # "closed"
  ELSE new.status \in Lifecycle!Allowed[old.status]

RequiredFields(new) == Lifecycle!Explained(new)

AskUpdate(a) ==
  \E i \in Issue, e \in Edit :
    /\ Exclusive => \A b \in Admin : job[b].kind = "update" => job[b].issue # i
    /\ Ask(a, [kind |-> "update", issue |-> i, edit |-> e])

RefuseUpdate(a) ==
  LET i == job[a].issue
      old == issues[i].content
      new == Edited(old, job[a].edit)
  IN
  /\ Updating(a, "asked")
  /\ \/ issues[i] = Absent /\ Refuse(a, "not_found")
     \/ /\ issues[i] # Absent /\ ~ Moves(old, new)
        /\ Refuse(a, "invalid_transition")
     \/ /\ issues[i] # Absent /\ Moves(old, new) /\ ~ RequiredFields(new)
        /\ Refuse(a, "invalid")

DecideUpdate(a) ==
  LET i == job[a].issue
      new == Edited(issues[i].content, job[a].edit)
  IN
  /\ Updating(a, "asked")
  /\ issues[i] # Absent
  /\ Moves(issues[i].content, new) /\ RequiredFields(new)
  /\ Decide(a, issues[i].content)

Update(a) ==
  LET i   == job[a].issue
      new == Edited(seen[a], job[a].edit)
      now == issues[i].content
      stamped == new.status \in Lifecycle!Processed
  IN
  /\ Updating(a, "decided")
  /\ ~ \E b \in Admin \ {a} : Updating(b, "flushed") /\ job[b].issue = i
  /\ Flush(a, i,
       [feedback |-> issues[i].feedback,
        content  |-> [c \in Columns |->
                        IF new[c] # seen[a][c] \/ (c = "processed" /\ stamped)
                        THEN new[c] ELSE now[c]]])

-----------------------------------------------------------------------------
Applied(a) == [issues EXCEPT ![flushed[a].issue] = flushed[a].row]

Commit(a) ==
  /\ phase[a] = "flushed"
  /\ issues' = Applied(a)
  /\ Answer(a, "ok")

\* A statement or the commit raises SQLAlchemyError (a commit may have taken
\* effect), or the process dies with the request.
Fail(a) ==
  /\ Faults
  /\ \/ phase[a] # "idle" /\ UNCHANGED issues
     \/ phase[a] = "flushed" /\ issues' = Applied(a)
  /\ Answer(a, "persistence_error")

Next ==
  \/ \E f \in Feedback : ChangeMind(f)
  \/ \E a \in Admin :
       \/ AskCreate(a) \/ RefuseCreate(a) \/ ReturnExisting(a)
       \/ DecideCreate(a) \/ Insert(a)
       \/ AskUpdate(a) \/ RefuseUpdate(a) \/ DecideUpdate(a) \/ Update(a)
       \/ Commit(a) \/ Fail(a)

Spec == Init /\ [][Next]_vars

-----------------------------------------------------------------------------
(* Properties                                                              *)

\* Every variable stays in its type.
TypeOK ==
  /\ disliked \subseteq Feedback
  /\ issues \in [Issue -> Row \cup {Absent}]
  /\ phase \in [Admin -> Phases]
  /\ job \in [Admin -> Jobs]
  /\ seen \in [Admin -> Content \cup {Absent}]
  /\ flushed \in [Admin -> [issue : Issue, row : Row] \cup {Absent}]
  /\ answer \in [Admin -> Answers]

\* However many administrators raise an issue of the same feedback at once,
\* there is one ("One disliked feedback can have at most one primary issue").
OneIssuePerFeedback ==
  \A i, j \in Issue :
    /\ issues[i] # Absent /\ issues[j] # Absent
    /\ issues[i].feedback = issues[j].feedback
    => i = j

\* A closed issue is never modified ("Closed issues cannot be modified by
\* the current API").
ClosedIsFrozen ==
  [][\A i \in Issue : issues[i] # Absent /\ issues[i].content.status = "closed"
                        => issues'[i] = issues[i]]_vars

\* With one administrator at a time on an issue the tracker is the documented lifecycle.
LifecycleSpec == Lifecycle!Spec
=============================================================================
