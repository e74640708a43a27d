------------------------- MODULE IssueTrackerProofs -------------------------
(***************************************************************************)
(* Theorems about IssueTracker, for any feedback, keys, administrators and *)
(* edits.                                                                  *)
(***************************************************************************)
EXTENDS IssueTracker, TLAPS

Written == [issue : Issue, row : Row]
Create  == [kind : {"create"}, feedback : Feedback \cup {"unknown"}]
Change  == [kind : {"update"}, issue : Issue, edit : Edit]

-----------------------------------------------------------------------------
(* The inductive invariant.                                                *)

\* What a request is about, and that only a flushed one has written.
Phased ==
  \A a \in Admin :
    /\ phase[a] = "idle" <=> job[a] = Idle
    /\ phase[a] = "flushed" <=> flushed[a] # Absent
    /\ Creating(a, "decided") => job[a].feedback \in Feedback
    /\ Updating(a, "decided") \/ Updating(a, "flushed") =>
         issues[job[a].issue] # Absent /\ seen[a] \in Content

\* A new issue is the only one of its feedback, and nobody else writes one.
Raising ==
  \A a \in Admin : Creating(a, "flushed") =>
    /\ flushed[a].row = [feedback |-> job[a].feedback, content |-> Lifecycle!Fresh]
    /\ job[a].feedback \in Feedback
    /\ issues[flushed[a].issue] = Absent
    /\ IssuesOf(job[a].feedback) = {}
    /\ \A b \in Admin : Creating(b, "flushed") =>
         (job[b].feedback = job[a].feedback \/ flushed[b].issue = flushed[a].issue => b = a)

\* An issue stays with its feedback, and one request at a time writes it.
Handling ==
  \A a \in Admin : Updating(a, "flushed") =>
    /\ flushed[a].issue = job[a].issue
    /\ flushed[a].row.feedback = issues[job[a].issue].feedback
    /\ \A b \in Admin : Updating(b, "flushed") /\ job[b].issue = job[a].issue => b = a

IInv == TypeOK /\ Phased /\ Raising /\ Handling /\ OneIssuePerFeedback

LEMMA Initially == Init => IInv
BY DEF Init, IInv, TypeOK, Phases, Answers, Jobs, Phased, Raising, Handling,
       OneIssuePerFeedback, Creating, Updating, Idle

\* There are three kinds of jobs.
LEMMA Kinds ==
  ASSUME NEW j \in Jobs
  PROVE  /\ j.kind = "create" => j \in Create
         /\ j.kind = "update" => j \in Change
         /\ j = Idle \/ j.kind \in {"create", "update"}
         /\ Idle.kind = "idle"
BY DEF Jobs, Create, Change, Idle

-----------------------------------------------------------------------------
(* The steps that leave the issues alone.                                  *)

\* What one administrator does before writing changes nothing for the others.
LEMMA Quiet ==
  ASSUME IInv, NEW a \in Admin,
         DOMAIN phase' = Admin, DOMAIN job' = Admin, DOMAIN seen' = Admin,
         \A b \in Admin \ {a} : /\ phase'[b] = phase[b] /\ job'[b] = job[b]
                                /\ seen'[b] = seen[b] /\ flushed'[b] = flushed[b],
         phase'[a] # "flushed", flushed'[a] = Absent, UNCHANGED issues
  PROVE  /\ Raising' /\ Handling' /\ OneIssuePerFeedback'
         /\ (phase'[a] = "idle" <=> job'[a] = Idle)
            /\ (phase'[a] = "decided" /\ job'[a].kind = "create" => job'[a].feedback \in Feedback)
            /\ (phase'[a] = "decided" /\ job'[a].kind = "update" =>
                  issues[job'[a].issue] # Absent /\ seen'[a] \in Content)
            => Phased'
<1>1. \A b \in Admin \ {a}, p \in Phases :
        /\ Creating(b, p)' = Creating(b, p) /\ Updating(b, p)' = Updating(b, p)
  BY DEF Creating, Updating
<1>2. ~ Creating(a, "flushed")' /\ ~ Updating(a, "flushed")'
  BY DEF Creating, Updating
<1>3. Raising'
  BY <1>1, <1>2 DEF IInv, Raising, IssuesOf, Phases
<1>4. Handling'
  BY <1>1, <1>2 DEF IInv, Handling, Phases
<1>5. OneIssuePerFeedback'
  BY DEF IInv, OneIssuePerFeedback
<1>6. ASSUME phase'[a] = "idle" <=> job'[a] = Idle,
             phase'[a] = "decided" /\ job'[a].kind = "create" => job'[a].feedback \in Feedback,
             phase'[a] = "decided" /\ job'[a].kind = "update" =>
               issues[job'[a].issue] # Absent /\ seen'[a] \in Content
      PROVE  Phased'
  BY <1>6 DEF IInv, Phased, Creating, Updating
<1> QED
  BY <1>3, <1>4, <1>5, <1>6

LEMMA ChangeMindStep ==
  ASSUME IInv, NEW f \in Feedback, ChangeMind(f)
  PROVE  IInv'
<1>1. UNCHANGED <<issues, phase, job, seen, flushed, answer>> /\ disliked' \subseteq Feedback
  BY DEF ChangeMind, IInv, TypeOK
<1> QED
  BY <1>1 DEF IInv, TypeOK, Phased, Raising, Handling, OneIssuePerFeedback, Creating, Updating,
              IssuesOf

LEMMA AskStep ==
  ASSUME IInv, NEW a \in Admin, NEW j \in Jobs \ {Idle}, Ask(a, j)
  PROVE  IInv'
<1>1. /\ phase[a] = "idle" /\ phase' = [phase EXCEPT ![a] = "asked"]
      /\ job' = [job EXCEPT ![a] = j] /\ answer' = [answer EXCEPT ![a] = "none"]
      /\ UNCHANGED <<disliked, issues, seen, flushed>>
  BY DEF Ask
<1>2. TypeOK'
  BY <1>1 DEF IInv, TypeOK, Phases, Answers
<1>3. flushed[a] = Absent
  BY <1>1 DEF IInv, Phased
<1> QED
  BY <1>1, <1>2, <1>3, Quiet DEF IInv, TypeOK

LEMMA RefusedStep ==
  ASSUME IInv, NEW a \in Admin, NEW result \in Answers, Answer(a, result), UNCHANGED issues
  PROVE  IInv'
<1>1. /\ phase' = [phase EXCEPT ![a] = "idle"] /\ job' = [job EXCEPT ![a] = Idle]
      /\ seen' = [seen EXCEPT ![a] = Absent] /\ flushed' = [flushed EXCEPT ![a] = Absent]
      /\ answer' = [answer EXCEPT ![a] = result] /\ UNCHANGED disliked
  BY DEF Answer
<1>2. TypeOK'
  BY <1>1 DEF IInv, TypeOK, Phases, Jobs
<1> QED
  BY <1>1, <1>2, Quiet DEF IInv, TypeOK

LEMMA DecideStep ==
  ASSUME IInv, NEW a \in Admin, phase[a] = "asked", NEW content \in Content \cup {Absent},
         Decide(a, content),
         job[a].kind = "create" => job[a].feedback \in Feedback,
         job[a].kind = "update" => issues[job[a].issue] # Absent /\ content \in Content
  PROVE  IInv'
<1>1. /\ phase' = [phase EXCEPT ![a] = "decided"] /\ seen' = [seen EXCEPT ![a] = content]
      /\ UNCHANGED <<disliked, issues, job, flushed, answer>>
  BY DEF Decide
<1>2. TypeOK'
  BY <1>1 DEF IInv, TypeOK, Phases
<1>3. flushed[a] = Absent /\ job[a] # Idle
  BY <1>1 DEF IInv, Phased
<1> QED
  BY <1>1, <1>2, <1>3, Quiet DEF IInv, TypeOK

LEMMA DecideCreateStep ==
  ASSUME IInv, NEW a \in Admin, DecideCreate(a)
  PROVE  IInv'
BY DecideStep DEF DecideCreate, Creating, IInv, TypeOK

\* The content of an issue that exists is in its type.
LEMMA ContentOf ==
  ASSUME TypeOK, NEW i \in Issue, issues[i] # Absent
  PROVE  issues[i] \in Row /\ issues[i].content \in Content /\ issues[i].feedback \in Feedback
BY DEF TypeOK, Row

LEMMA DecideUpdateStep ==
  ASSUME IInv, NEW a \in Admin, DecideUpdate(a)
  PROVE  IInv'
<1>1. phase[a] = "asked" /\ job[a].kind = "update" /\ issues[job[a].issue] # Absent
      /\ Decide(a, issues[job[a].issue].content)
  BY DEF DecideUpdate, Updating
<1>2. job[a].issue \in Issue
  BY <1>1, Kinds DEF IInv, TypeOK, Change
<1>3. issues[job[a].issue].content \in Content
  BY <1>1, <1>2, ContentOf DEF IInv
<1> QED
  BY <1>1, <1>3, DecideStep

-----------------------------------------------------------------------------
(* Writing.                                                                *)

\* What the ORM makes of the latest row.
Merged(new, old, now) ==
  [c \in Columns |->
     IF new[c] # old[c] \/ (c = "processed" /\ new.status \in Lifecycle!Processed)
     THEN new[c] ELSE now[c]]

\* An edit, and an update of the columns it changes, make a content.
LEMMA EditedContent ==
  ASSUME NEW old \in Content, NEW e \in Edit
  PROVE  /\ Edited(old, e) \in Content
         /\ Edited(old, e).processed = IF Edited(old, e).status \in Lifecycle!Processed
                                       THEN "stamped" ELSE old.processed
<1>1. e \in Edits
  BY TrackerAssumption
<1> QED
  BY <1>1 DEF Edited, Chosen, Edits, Content, Lifecycle!Content, Lifecycle!Given, Status

LEMMA MergedContent ==
  ASSUME NEW new \in Content, NEW old \in Content, NEW now \in Content
  PROVE  /\ Merged(new, old, now) \in Content
         /\ old = now => Merged(new, old, now) = new
<1> DEFINE update == Merged(new, old, now)
<1>0. update = [c \in Columns |->
                  IF new[c] # old[c] \/ (c = "processed" /\ new.status \in Lifecycle!Processed)
                  THEN new[c] ELSE now[c]]
  BY DEF Merged
<1> HIDE DEF update
<1>1. \A x \in Content :
        /\ x = [c \in Columns |-> x[c]]
        /\ x["status"] \in Status /\ x["cause_type"] \in Lifecycle!Given
        /\ x["cause"] \in Lifecycle!Given /\ x["solution"] \in Lifecycle!Given
        /\ x["processed"] \in {"never", "stamped"}
  BY DEF Content, Lifecycle!Content, Status, Columns
<1>2. update = [status |-> update["status"], cause_type |-> update["cause_type"],
                cause |-> update["cause"], solution |-> update["solution"],
                processed |-> update["processed"]]
  BY <1>0 DEF Columns
<1>3. /\ update["status"] \in Status /\ update["cause_type"] \in Lifecycle!Given
      /\ update["cause"] \in Lifecycle!Given /\ update["solution"] \in Lifecycle!Given
      /\ update["processed"] \in {"never", "stamped"}
  BY <1>0, <1>1 DEF Columns
<1>4. update \in Content
  BY <1>2, <1>3 DEF Content, Lifecycle!Content, Status
<1>5. old = now => \A c \in Columns : update[c] = new[c]
  BY <1>0
<1>6. old = now => update = [c \in Columns |-> new[c]]
  BY <1>0, <1>5
<1> QED
  BY <1>1, <1>4, <1>6 DEF update

LEMMA InsertStep ==
  ASSUME IInv, NEW a \in Admin, Insert(a)
  PROVE  IInv'
<1> DEFINE f == job[a].feedback
           row == [feedback |-> f, content |-> Lifecycle!Fresh]
<1>1. phase[a] = "decided" /\ job[a].kind = "create" /\ f \in Feedback
  BY DEF Insert, IInv, Phased, Creating
<1>2. CASE IssuesOf(f) # {}
  BY <1>2, RefusedStep DEF Insert, Refuse, Answers
<1>3. CASE IssuesOf(f) = {}
  <2>1. PICK i \in Issue : UnusedKey(i) /\ Flush(a, i, row)
    BY <1>3 DEF Insert
  <2>2. \A b \in Admin : Creating(b, "flushed") /\ job[b].feedback = f => b = a
    BY DEF Insert
  <2>3. row \in Row
    BY <1>1 DEF Row, Content, Lifecycle!Content, Lifecycle!Fresh, Lifecycle!Status, Lifecycle!Given
  <2> DEFINE write == [issue |-> i, row |-> row]
  <2>4. /\ write \in Written /\ write # Absent /\ write.issue = i
        /\ write.row = [feedback |-> f, content |-> Lifecycle!Fresh]
    BY <2>3, TrackerAssumption DEF Written
  <2>5. /\ phase' = [phase EXCEPT ![a] = "flushed"] /\ flushed' = [flushed EXCEPT ![a] = write]
        /\ UNCHANGED <<disliked, issues, job, seen, answer>>
    BY <2>1 DEF Flush
  <2>6. issues[i] = Absent /\ \A b \in Admin : flushed[b] # Absent => flushed[b].issue # i
    BY <2>1 DEF UnusedKey
  <2> HIDE DEF write, row
  <2>7. TypeOK'
    BY <2>4, <2>5 DEF IInv, TypeOK, Phases, Written
  <2>8. DOMAIN phase = Admin /\ DOMAIN flushed = Admin
    BY DEF IInv, TypeOK
  <2>9. Phased'
    BY <1>1, <2>4, <2>5, <2>8 DEF IInv, Phased, Creating, Updating
  <2>10. Raising'
    <3>1. \A b \in Admin : Creating(b, "flushed")' => b = a \/ Creating(b, "flushed")
      BY <2>5, <2>8 DEF Creating
    <3>2. \A b \in Admin : Creating(b, "flushed") => flushed[b] # Absent /\ b # a
      BY <1>1 DEF IInv, Phased, Creating
    <3>3. \A b \in Admin \ {a} : flushed'[b] = flushed[b]
      BY <2>5, <2>8
    <3>4. flushed'[a] = write
      BY <2>5, <2>8
    <3>5. \A b \in Admin : Creating(b, "flushed")' => IssuesOf(job[b].feedback)' = {}
      BY <3>1, <1>3, <2>5, ZenonT(60) DEF IInv, Raising, IssuesOf
    <3>6. \A b \in Admin : Creating(b, "flushed")' =>
            /\ flushed'[b].row = [feedback |-> job[b].feedback, content |-> Lifecycle!Fresh]
            /\ job[b].feedback \in Feedback
            /\ issues[flushed'[b].issue] = Absent
      BY <3>1, <3>2, <3>3, <3>4, <1>1, <2>4, <2>6 DEF IInv, Raising
    <3>7. ASSUME NEW b \in Admin, NEW c \in Admin, Creating(b, "flushed")', Creating(c, "flushed")',
                 job[c].feedback = job[b].feedback \/ flushed'[c].issue = flushed'[b].issue
          PROVE  c = b
      <4>1. CASE b # a /\ c # a
        BY <3>7, <4>1, <3>1, <3>3, ZenonT(60) DEF IInv, Raising
      <4>2. CASE b = a \/ c = a
        BY <3>7, <4>2, <3>1, <3>2, <3>3, <3>4, <2>2, <2>4, <2>6
      <4> QED
        BY <4>1, <4>2
    <3> QED
      BY <3>5, <3>6, <3>7, <2>5 DEF Raising
  <2>11. Handling'
    BY <1>1, <2>5, <2>8 DEF IInv, Handling, Updating
  <2> QED
    BY <2>5, <2>7, <2>9, <2>10, <2>11 DEF IInv, OneIssuePerFeedback
<1> QED
  BY <1>2, <1>3

LEMMA UpdateStep ==
  ASSUME IInv, NEW a \in Admin, Update(a)
  PROVE  IInv'
<1> DEFINE i == job[a].issue
           new == Edited(seen[a], job[a].edit)
           content == Merged(new, seen[a], issues[i].content)
           row == [feedback |-> issues[i].feedback, content |-> content]
           write == [issue |-> i, row |-> row]
<1>1. /\ phase[a] = "decided" /\ job[a].kind = "update"
      /\ \A b \in Admin : Updating(b, "flushed") /\ job[b].issue = i => b = a
      /\ Flush(a, i, row)
  BY DEF Update, Updating, Merged
<1>2. i \in Issue /\ job[a].edit \in Edit /\ issues[i] # Absent /\ seen[a] \in Content
  BY <1>1, Kinds DEF IInv, TypeOK, Phased, Updating, Change
<1>3. issues[i] \in Row /\ issues[i].content \in Content /\ issues[i].feedback \in Feedback
  BY <1>2, ContentOf DEF IInv
<1>4. new \in Content
  BY <1>2, EditedContent
<1>5. content \in Content
  <2> HIDE DEF new
  <2> QED
    BY <1>2, <1>3, <1>4, MergedContent
<1> HIDE DEF content
<1>6. row \in Row /\ row.feedback = issues[i].feedback
  BY <1>3, <1>5 DEF Row
<1> HIDE DEF row
<1>7. write \in Written /\ write # Absent /\ write.issue = i /\ write.row = row
  BY <1>2, <1>6, TrackerAssumption DEF Written
<1>8. /\ phase' = [phase EXCEPT ![a] = "flushed"] /\ flushed' = [flushed EXCEPT ![a] = write]
      /\ UNCHANGED <<disliked, issues, job, seen, answer>>
  BY <1>1 DEF Flush
<1> HIDE DEF write
<1>9. TypeOK'
  BY <1>7, <1>8 DEF IInv, TypeOK, Phases, Written
<1>10. DOMAIN phase = Admin /\ DOMAIN flushed = Admin
  BY DEF IInv, TypeOK
<1>11. Phased'
  BY <1>1, <1>2, <1>7, <1>8, <1>10 DEF IInv, Phased, Creating, Updating
<1>12. Raising'
  BY <1>1, <1>8, <1>10 DEF IInv, Raising, Creating, IssuesOf
<1>13. Handling'
  <2>1. \A b \in Admin : Updating(b, "flushed")' => b = a \/ Updating(b, "flushed")
    BY <1>8, <1>10 DEF Updating
  <2>2. /\ \A b \in Admin \ {a} : flushed'[b] = flushed[b]
        /\ flushed'[a] = write
    BY <1>8, <1>10
  <2> QED
    BY <2>1, <2>2, <1>1, <1>6, <1>7, <1>8 DEF IInv, Handling
<1> QED
  BY <1>8, <1>9, <1>11, <1>12, <1>13 DEF IInv, OneIssuePerFeedback

-----------------------------------------------------------------------------
(* The commit.                                                             *)

LEMMA AppliedStep ==
  ASSUME IInv, NEW a \in Admin, phase[a] = "flushed", NEW result \in Answers,
         issues' = Applied(a), Answer(a, result)
  PROVE  IInv'
<1> DEFINE i == flushed[a].issue
           row == flushed[a].row
<1>1. /\ phase' = [phase EXCEPT ![a] = "idle"] /\ job' = [job EXCEPT ![a] = Idle]
      /\ seen' = [seen EXCEPT ![a] = Absent] /\ flushed' = [flushed EXCEPT ![a] = Absent]
      /\ answer' = [answer EXCEPT ![a] = result] /\ UNCHANGED disliked
      /\ issues' = [issues EXCEPT ![i] = row]
  BY DEF Answer, Applied
<1>2. i \in Issue /\ row \in Row /\ row # Absent
  BY TrackerAssumption DEF IInv, TypeOK, Phased
<1>3. job[a] \in Jobs /\ job[a].kind \in {"create", "update"}
  BY Kinds DEF IInv, TypeOK, Phased
<1>4. job[a].kind = "create" =>
        /\ row.feedback = job[a].feedback /\ issues[i] = Absent
        /\ IssuesOf(row.feedback) = {}
        /\ \A b \in Admin : Creating(b, "flushed") =>
             (job[b].feedback = job[a].feedback \/ flushed[b].issue = i => b = a)
  <2> SUFFICES ASSUME job[a].kind = "create"
               PROVE  /\ row.feedback = job[a].feedback /\ issues[i] = Absent
                      /\ IssuesOf(row.feedback) = {}
                      /\ \A b \in Admin : Creating(b, "flushed") =>
                           (job[b].feedback = job[a].feedback \/ flushed[b].issue = i => b = a)
    OBVIOUS
  <2>1. Creating(a, "flushed")
    BY DEF Creating
  <2>2. row.feedback = job[a].feedback
    <3>1. row = [feedback |-> job[a].feedback, content |-> Lifecycle!Fresh]
      BY <2>1 DEF IInv, Raising
    <3> QED
      BY <3>1
  <2>3. IssuesOf(row.feedback) = {}
    BY <2>1, <2>2 DEF IInv, Raising
  <2> QED
    BY <2>1, <2>2, <2>3 DEF IInv, Raising
<1>5. job[a].kind = "update" =>
        /\ i = job[a].issue /\ issues[i] # Absent /\ row.feedback = issues[i].feedback
  BY DEF IInv, Phased, Handling, Updating
<1> HIDE DEF i, row
<1>6. TypeOK'
  BY <1>1, <1>2 DEF IInv, TypeOK, Phases, Jobs
<1>7. /\ DOMAIN phase = Admin /\ DOMAIN flushed = Admin /\ DOMAIN job = Admin
      /\ DOMAIN seen = Admin /\ DOMAIN issues = Issue
  BY DEF IInv, TypeOK
<1>8. /\ issues'[i] = row /\ \A k \in Issue \ {i} : issues'[k] = issues[k]
      /\ \A k \in Issue : issues[k] # Absent =>
           issues'[k] # Absent /\ issues'[k].feedback = issues[k].feedback
  BY <1>1, <1>2, <1>3, <1>4, <1>5, <1>7
<1>9. /\ phase'[a] = "idle" /\ job'[a] = Idle /\ flushed'[a] = Absent
      /\ \A b \in Admin \ {a} : /\ phase'[b] = phase[b] /\ job'[b] = job[b]
                                /\ seen'[b] = seen[b] /\ flushed'[b] = flushed[b]
  BY <1>1, <1>7
<1>10. \A b \in Admin, p \in {"decided", "flushed"} :
         /\ Creating(b, p)' => b # a /\ Creating(b, p)
         /\ Updating(b, p)' => b # a /\ Updating(b, p)
  BY <1>9 DEF Creating, Updating
<1>11. \A b \in Admin : Updating(b, "decided") \/ Updating(b, "flushed") =>
         job[b].issue \in Issue /\ issues[job[b].issue] # Absent
  BY Kinds DEF IInv, TypeOK, Phased, Updating, Change
<1>12. Phased'
  BY <1>8, <1>9, <1>10, <1>11 DEF IInv, Phased
<1>13. Raising'
  <2> SUFFICES ASSUME NEW b \in Admin, Creating(b, "flushed")'
               PROVE  /\ flushed'[b].row = [feedback |-> job'[b].feedback,
                                            content |-> Lifecycle!Fresh]
                      /\ job'[b].feedback \in Feedback
                      /\ issues'[flushed'[b].issue] = Absent
                      /\ IssuesOf(job[b].feedback)' = {}
                      /\ \A c \in Admin : Creating(c, "flushed")' =>
                           (job'[c].feedback = job'[b].feedback
                              \/ flushed'[c].issue = flushed'[b].issue => c = b)
    BY DEF Raising
  <2>1. b # a /\ Creating(b, "flushed") /\ job'[b] = job[b] /\ flushed'[b] = flushed[b]
    BY <1>9, <1>10
  <2>2. /\ flushed[b].row = [feedback |-> job[b].feedback, content |-> Lifecycle!Fresh]
        /\ job[b].feedback \in Feedback
        /\ issues[flushed[b].issue] = Absent
        /\ IssuesOf(job[b].feedback) = {}
        /\ \A c \in Admin : Creating(c, "flushed") =>
             (job[c].feedback = job[b].feedback \/ flushed[c].issue = flushed[b].issue => c = b)
    BY <2>1 DEF IInv, Raising
  <2>3. flushed[b].issue \in Issue
    BY <2>1 DEF IInv, TypeOK, Phased, Creating
  <2>4. flushed[b].issue # i /\ row.feedback # job[b].feedback
    <3>1. CASE job[a].kind = "create"
      BY <2>1, <3>1, <1>4
    <3>2. CASE job[a].kind = "update"
      BY <2>2, <3>2, <1>2, <1>5 DEF IssuesOf
    <3> QED
      BY <3>1, <3>2, <1>3
  <2>5. issues'[flushed[b].issue] = Absent
    BY <2>2, <2>3, <2>4, <1>8
  <2>6. {k \in Issue : issues'[k] # Absent /\ issues'[k].feedback = job[b].feedback} = {}
    BY <2>2, <2>4, <1>8 DEF IssuesOf
  <2>7. \A c \in Admin : Creating(c, "flushed")' =>
          Creating(c, "flushed") /\ job'[c] = job[c] /\ flushed'[c] = flushed[c]
    BY <1>9, <1>10
  <2> QED
    BY <2>1, <2>2, <2>5, <2>6, <2>7 DEF IssuesOf
<1>14. Handling'
  <2>1. \A b \in Admin : Updating(b, "flushed")' =>
          /\ Updating(b, "flushed") /\ job'[b] = job[b] /\ flushed'[b] = flushed[b]
          /\ issues'[job[b].issue].feedback = issues[job[b].issue].feedback
    BY <1>8, <1>9, <1>10, <1>11
  <2> QED
    BY <2>1 DEF IInv, Handling
<1>15. OneIssuePerFeedback'
  <2>1. ASSUME NEW k \in Issue, issues'[k] # Absent, issues'[k].feedback = row.feedback
        PROVE  k = i
    <3>1. CASE job[a].kind = "create"
      BY <2>1, <3>1, <1>4, <1>8 DEF IssuesOf
    <3>2. CASE job[a].kind = "update"
      BY <2>1, <3>2, <1>2, <1>5, <1>8 DEF IInv, OneIssuePerFeedback
    <3> QED
      BY <3>1, <3>2, <1>3
  <2> QED
    BY <2>1, <1>2, <1>8 DEF IInv, OneIssuePerFeedback
<1> QED
  BY <1>6, <1>12, <1>13, <1>14, <1>15 DEF IInv

LEMMA Inductive == IInv /\ [Next]_vars => IInv'
<1> SUFFICES ASSUME IInv, [Next]_vars PROVE IInv'
  OBVIOUS
<1>1. CASE UNCHANGED vars
  BY <1>1 DEF vars, IInv, TypeOK, Phased, Raising, Handling, OneIssuePerFeedback, Creating,
              Updating, IssuesOf
<1>2. ASSUME NEW f \in Feedback, ChangeMind(f) PROVE IInv'
  BY <1>2, ChangeMindStep
<1>3. ASSUME NEW a \in Admin, AskCreate(a) PROVE IInv'
  BY <1>3, AskStep DEF AskCreate, Jobs, Idle
<1>4. ASSUME NEW a \in Admin, AskUpdate(a) PROVE IInv'
  BY <1>4, AskStep DEF AskUpdate, Jobs, Idle
<1>5. ASSUME NEW a \in Admin, RefuseCreate(a) \/ ReturnExisting(a) \/ RefuseUpdate(a) PROVE IInv'
  BY <1>5, RefusedStep DEF RefuseCreate, ReturnExisting, RefuseUpdate, Refuse, Answers
<1>6. ASSUME NEW a \in Admin, DecideCreate(a) \/ Insert(a) PROVE IInv'
  BY <1>6, DecideCreateStep, InsertStep
<1>7. ASSUME NEW a \in Admin, DecideUpdate(a) \/ Update(a) PROVE IInv'
  BY <1>7, DecideUpdateStep, UpdateStep
<1>8. ASSUME NEW a \in Admin, Commit(a) \/ Fail(a) PROVE IInv'
  BY <1>8, AppliedStep, RefusedStep DEF Commit, Fail, Answers
<1> QED
  BY <1>1, <1>2, <1>3, <1>4, <1>5, <1>6, <1>7, <1>8 DEF Next

LEMMA Invariant == Spec => []IInv
BY Initially, Inductive, PTL DEF Spec

\* Every variable keeps its type, whatever part of an issue an edit names.
THEOREM TypeCorrect == Spec => []TypeOK
<1>1. IInv => TypeOK
  BY DEF IInv
<1> QED
  BY Invariant, <1>1, PTL

\* However many administrators raise issues of the same feedback at once,
\* and whatever fails or goes unacknowledged, it has one issue at most
\* (create_issue under uk_agent_issue_feedback).
THEOREM OneIssueEach == Spec => []OneIssuePerFeedback
<1>1. IInv => OneIssuePerFeedback
  BY DEF IInv
<1> QED
  BY Invariant, <1>1, PTL

-----------------------------------------------------------------------------
(* IssueTracker implements IssueLifecycle, for administrators who leave an *)
(* issue to the one who is updating it.                                    *)

\* One update of an issue is under way, so that what it read is still there,
\* and what it makes of that is allowed.
Owned ==
  \A a, b \in Admin :
    job[a].kind = "update" /\ job[b].kind = "update" /\ job[a].issue = job[b].issue => a = b
Current ==
  \A a \in Admin : Updating(a, "decided") \/ Updating(a, "flushed") =>
    seen[a] = issues[job[a].issue].content
Due ==
  \A a \in Admin :
    /\ Updating(a, "decided") =>
         Lifecycle!MayBecome(seen[a], Edited(seen[a], job[a].edit))
    /\ Updating(a, "flushed") => Lifecycle!MayBecome(seen[a], flushed[a].row.content)

LInv == IInv /\ Owned /\ Current /\ Due

LEMMA InitiallyOwned == Init => LInv
BY Initially DEF Init, LInv, Owned, Current, Due, Updating, Idle

\* The checks of update_issue admit what the life cycle does.
LEMMA ChecksAllow ==
  ASSUME NEW old \in Content, NEW e \in Edit,
         Moves(old, Edited(old, e)), RequiredFields(Edited(old, e))
  PROVE  Lifecycle!MayBecome(old, Edited(old, e))
<1> DEFINE new == Edited(old, e)
<1>1. new \in Content /\ new.processed = IF new.status \in Lifecycle!Processed
                                         THEN "stamped" ELSE old.processed
  BY EditedContent
<1>2. old.status \in Lifecycle!Status /\ Lifecycle!Allowed["closed"] = {}
  BY DEF Content, Lifecycle!Content, Lifecycle!Status, Lifecycle!Allowed
<1> HIDE DEF new
<1>3. Moves(old, new) /\ RequiredFields(new)
  BY DEF new
<1>4. old.status # "closed" /\ new.status \in Lifecycle!Allowed[old.status] \cup {old.status}
  BY <1>2, <1>3 DEF Moves
<1> QED
  BY <1>1, <1>3, <1>4 DEF new, RequiredFields, Lifecycle!MayBecome

\* A step of one administrator that keeps the issues, and its own part.
LEMMA QuietOwned ==
  ASSUME LInv, NEW a \in Admin, UNCHANGED issues,
         \A b \in Admin \ {a} : /\ phase'[b] = phase[b] /\ job'[b] = job[b]
                                /\ seen'[b] = seen[b] /\ flushed'[b] = flushed[b],
         job'[a].kind = "update" =>
           \A b \in Admin \ {a} : job[b].kind = "update" => job[b].issue # job'[a].issue,
         Updating(a, "decided")' \/ Updating(a, "flushed")' =>
           seen'[a] = issues[job'[a].issue].content,
         Updating(a, "decided")' =>
           Lifecycle!MayBecome(seen'[a], Edited(seen'[a], job'[a].edit)),
         Updating(a, "flushed")' => Lifecycle!MayBecome(seen'[a], flushed'[a].row.content)
  PROVE  Owned' /\ Current' /\ Due'
<1>1. \A b \in Admin \ {a}, p \in Phases : Updating(b, p)' = Updating(b, p)
  BY DEF Updating
<1>2. Owned'
  BY DEF LInv, Owned
<1>3. Current'
  BY <1>1 DEF LInv, Current, Phases
<1>4. Due'
  <2> SUFFICES ASSUME NEW b \in Admin
               PROVE  /\ Updating(b, "decided")' =>
                           Lifecycle!MayBecome(seen'[b], Edited(seen'[b], job'[b].edit))
                      /\ Updating(b, "flushed")' =>
                           Lifecycle!MayBecome(seen'[b], flushed'[b].row.content)
    BY DEF Due, Lifecycle!MayBecome, Edited, Chosen
  <2>1. CASE b = a
    BY <2>1
  <2>2. CASE b # a
    <3>1. /\ Updating(b, "decided")' = Updating(b, "decided")
          /\ Updating(b, "flushed")' = Updating(b, "flushed")
      BY <2>2, <1>1 DEF Phases
    <3> QED
      BY <2>2, <3>1 DEF LInv, Due
  <2> QED
    BY <2>1, <2>2
<1> QED
  BY <1>2, <1>3, <1>4

LEMMA AskOwned ==
  ASSUME LInv, NEW a \in Admin, NEW j \in Jobs \ {Idle}, Ask(a, j),
         j.kind = "update" => \A b \in Admin : job[b].kind = "update" => job[b].issue # j.issue
  PROVE  LInv'
<1>1. /\ phase' = [phase EXCEPT ![a] = "asked"] /\ job' = [job EXCEPT ![a] = j]
      /\ UNCHANGED <<disliked, issues, seen, flushed>>
  BY DEF Ask
<1>2. DOMAIN phase = Admin /\ DOMAIN job = Admin
  BY DEF LInv, IInv, TypeOK
<1>3. ~ Updating(a, "decided")' /\ ~ Updating(a, "flushed")'
  BY <1>1, <1>2 DEF Updating
<1>4. Owned' /\ Current' /\ Due'
  BY <1>1, <1>2, <1>3, QuietOwned
<1> QED
  BY <1>4, AskStep DEF LInv

LEMMA RefusedOwned ==
  ASSUME LInv, NEW a \in Admin, NEW result \in Answers, Answer(a, result), UNCHANGED issues
  PROVE  LInv'
<1>1. /\ phase' = [phase EXCEPT ![a] = "idle"] /\ job' = [job EXCEPT ![a] = Idle]
      /\ seen' = [seen EXCEPT ![a] = Absent] /\ flushed' = [flushed EXCEPT ![a] = Absent]
  BY DEF Answer
<1>2. DOMAIN phase = Admin /\ DOMAIN job = Admin /\ DOMAIN seen = Admin
      /\ DOMAIN flushed = Admin
  BY DEF LInv, IInv, TypeOK
<1>3. job'[a].kind = "idle"
  BY <1>1, <1>2 DEF Idle
<1>4. ~ Updating(a, "decided")' /\ ~ Updating(a, "flushed")'
  BY <1>3 DEF Updating
<1>5. Owned' /\ Current' /\ Due'
  BY <1>1, <1>2, <1>3, <1>4, QuietOwned
<1> QED
  BY <1>5, RefusedStep DEF LInv

LEMMA DecideCreateOwned ==
  ASSUME LInv, NEW a \in Admin, DecideCreate(a)
  PROVE  LInv'
<1>1. /\ job[a].kind = "create" /\ phase' = [phase EXCEPT ![a] = "decided"]
      /\ seen' = [seen EXCEPT ![a] = Absent] /\ UNCHANGED <<issues, job, flushed>>
  BY DEF DecideCreate, Creating, Decide
<1>2. DOMAIN phase = Admin /\ DOMAIN seen = Admin
  BY DEF LInv, IInv, TypeOK
<1>3. ~ Updating(a, "decided")' /\ ~ Updating(a, "flushed")'
  BY <1>1 DEF Updating
<1>4. Owned' /\ Current' /\ Due'
  BY <1>1, <1>2, <1>3, QuietOwned
<1> QED
  BY <1>4, DecideCreateStep DEF LInv

LEMMA InsertOwned ==
  ASSUME LInv, NEW a \in Admin, Insert(a)
  PROVE  LInv'
<1>1. CASE IssuesOf(job[a].feedback) # {}
  BY <1>1, RefusedOwned DEF Insert, Refuse, Answers
<1>2. CASE IssuesOf(job[a].feedback) = {}
  <2>1. /\ job[a].kind = "create" /\ phase' = [phase EXCEPT ![a] = "flushed"]
        /\ UNCHANGED <<issues, job, seen>>
        /\ \E write : flushed' = [flushed EXCEPT ![a] = write]
    BY <1>2 DEF Insert, Creating, Flush
  <2>2. DOMAIN phase = Admin /\ DOMAIN flushed = Admin
    BY DEF LInv, IInv, TypeOK
  <2>3. ~ Updating(a, "decided")' /\ ~ Updating(a, "flushed")'
    BY <2>1 DEF Updating
  <2>4. Owned' /\ Current' /\ Due'
    BY <2>1, <2>2, <2>3, QuietOwned
  <2> QED
    BY <2>4, InsertStep DEF LInv
<1> QED
  BY <1>1, <1>2

LEMMA DecideUpdateOwned ==
  ASSUME LInv, NEW a \in Admin, DecideUpdate(a)
  PROVE  LInv'
<1> DEFINE old == issues[job[a].issue].content
           new == Edited(old, job[a].edit)
<1>1. /\ phase[a] = "asked" /\ job[a].kind = "update" /\ issues[job[a].issue] # Absent
      /\ Moves(old, new) /\ RequiredFields(new)
      /\ phase' = [phase EXCEPT ![a] = "decided"] /\ seen' = [seen EXCEPT ![a] = old]
      /\ UNCHANGED <<issues, job, flushed>>
  BY DEF DecideUpdate, Updating, Decide
<1>2. DOMAIN phase = Admin /\ DOMAIN seen = Admin
  BY DEF LInv, IInv, TypeOK
<1>3. job[a].issue \in Issue /\ job[a].edit \in Edit
  BY <1>1, Kinds DEF LInv, IInv, TypeOK, Change
<1>4. old \in Content
  BY <1>1, <1>3, ContentOf DEF LInv, IInv
<1>5. Lifecycle!MayBecome(old, new)
  BY <1>1, <1>3, <1>4, ChecksAllow
<1>6. seen'[a] = old
  BY <1>1, <1>2
<1>7. Lifecycle!MayBecome(seen'[a], Edited(seen'[a], job'[a].edit))
  BY <1>1, <1>5, <1>6
<1>8. ~ Updating(a, "flushed")'
  BY <1>1, <1>2 DEF Updating
<1> HIDE DEF new
<1>9. Owned' /\ Current' /\ Due'
  BY <1>1, <1>2, <1>6, <1>7, <1>8, QuietOwned DEF LInv, Owned
<1> QED
  BY <1>9, DecideUpdateStep DEF LInv

LEMMA UpdateOwned ==
  ASSUME LInv, NEW a \in Admin, Update(a)
  PROVE  LInv'
<1> DEFINE i == job[a].issue
           new == Edited(seen[a], job[a].edit)
           row == [feedback |-> issues[i].feedback,
                   content  |-> Merged(new, seen[a], issues[i].content)]
           write == [issue |-> i, row |-> row]
<1>1. /\ phase[a] = "decided" /\ job[a].kind = "update" /\ Flush(a, i, row)
  BY DEF Update, Updating, Merged
<1>2. i \in Issue /\ job[a].edit \in Edit /\ issues[i] # Absent /\ seen[a] \in Content
  BY <1>1, Kinds DEF LInv, IInv, TypeOK, Phased, Updating, Change
<1>3. Updating(a, "decided")
  BY <1>1 DEF Updating
<1>4. seen[a] = issues[i].content /\ Lifecycle!MayBecome(seen[a], new)
  BY <1>3 DEF LInv, Current, Due
<1>5. row.content = new
  <2>1. new \in Content
    BY <1>2, EditedContent
  <2>2. Merged(new, seen[a], issues[i].content) = new
    BY <1>2, <1>4, <2>1, MergedContent
  <2> QED
    BY <2>2
<1> HIDE DEF new, row
<1>6. write.row = row
  OBVIOUS
<1>7. /\ phase' = [phase EXCEPT ![a] = "flushed"] /\ flushed' = [flushed EXCEPT ![a] = write]
      /\ UNCHANGED <<disliked, issues, job, seen, answer>>
  BY <1>1 DEF Flush
<1> HIDE DEF write
<1>8. DOMAIN phase = Admin /\ DOMAIN flushed = Admin
  BY DEF LInv, IInv, TypeOK
<1>9. flushed'[a].row.content = new /\ seen'[a] = seen[a]
  BY <1>5, <1>6, <1>7, <1>8
<1>10. Lifecycle!MayBecome(seen'[a], flushed'[a].row.content)
  BY <1>4, <1>9
<1>11. ~ Updating(a, "decided")'
  BY <1>7, <1>8 DEF Updating
<1>12. Owned' /\ Current' /\ Due'
  BY <1>1, <1>4, <1>7, <1>8, <1>10, <1>11, QuietOwned DEF LInv, Owned
<1> QED
  BY <1>12, UpdateStep DEF LInv

LEMMA AppliedOwned ==
  ASSUME LInv, NEW a \in Admin, phase[a] = "flushed", NEW result \in Answers,
         issues' = Applied(a), Answer(a, result)
  PROVE  LInv'
<1> DEFINE i == flushed[a].issue
<1>1. /\ phase' = [phase EXCEPT ![a] = "idle"] /\ job' = [job EXCEPT ![a] = Idle]
      /\ seen' = [seen EXCEPT ![a] = Absent] /\ flushed' = [flushed EXCEPT ![a] = Absent]
      /\ issues' = [issues EXCEPT ![i] = flushed[a].row]
  BY DEF Answer, Applied
<1>2. /\ DOMAIN phase = Admin /\ DOMAIN flushed = Admin /\ DOMAIN job = Admin
      /\ DOMAIN seen = Admin /\ DOMAIN issues = Issue
  BY DEF LInv, IInv, TypeOK
<1>3. /\ job'[a].kind = "idle"
      /\ \A b \in Admin \ {a} : /\ phase'[b] = phase[b] /\ job'[b] = job[b]
                                /\ seen'[b] = seen[b] /\ flushed'[b] = flushed[b]
  BY <1>1, <1>2 DEF Idle
<1>4. \A b \in Admin, p \in {"decided", "flushed"} :
        Updating(b, p)' => b # a /\ Updating(b, p)
  BY <1>3 DEF Updating
<1>5. /\ job[a].kind \in {"create", "update"}
      /\ job[a].kind = "update" => i = job[a].issue
  <2>1. job[a] \in Jobs /\ job[a] # Idle
    BY DEF LInv, IInv, TypeOK, Phased
  <2>2. job[a].kind = "update" => i = job[a].issue
    BY DEF LInv, IInv, Handling, Updating
  <2> QED
    BY <2>1, <2>2, Kinds
<1>6. job[a].kind = "create" => issues[i] = Absent
  BY DEF LInv, IInv, Raising, Creating
<1>7. \A b \in Admin \ {a} : Updating(b, "decided") \/ Updating(b, "flushed") =>
        issues'[job[b].issue] = issues[job[b].issue]
  <2> SUFFICES ASSUME NEW b \in Admin \ {a}, Updating(b, "decided") \/ Updating(b, "flushed")
               PROVE  issues'[job[b].issue] = issues[job[b].issue]
    OBVIOUS
  <2>1. job[b].kind = "update" /\ issues[job[b].issue] # Absent
    BY DEF LInv, IInv, Phased, Updating
  <2>2. job[b].issue \in Issue
    BY <2>1, Kinds DEF LInv, IInv, TypeOK, Change
  <2>3. job[b].issue # i
    BY <2>1, <1>5, <1>6 DEF LInv, Owned
  <2> HIDE DEF i
  <2> QED
    BY <2>2, <2>3, <1>1, <1>2
<1>8. Owned'
  BY <1>3 DEF LInv, Owned
<1>9. Current'
  BY <1>3, <1>4, <1>7 DEF LInv, Current
<1>10. Due'
  <2> SUFFICES ASSUME NEW b \in Admin
               PROVE  /\ Updating(b, "decided")' =>
                           Lifecycle!MayBecome(seen'[b], Edited(seen'[b], job'[b].edit))
                      /\ Updating(b, "flushed")' =>
                           Lifecycle!MayBecome(seen'[b], flushed'[b].row.content)
    BY DEF Due, Lifecycle!MayBecome, Edited, Chosen
  <2>1. CASE b = a
    BY <2>1, <1>4
  <2>2. CASE b # a
    BY <2>2, <1>3, <1>4 DEF LInv, Due
  <2> QED
    BY <2>1, <2>2
<1> QED
  BY <1>8, <1>9, <1>10, AppliedStep DEF LInv

LEMMA InductiveOwned ==
  ASSUME Exclusive
  PROVE  LInv /\ [Next]_vars => LInv'
<1> SUFFICES ASSUME LInv, [Next]_vars PROVE LInv'
  OBVIOUS
<1>1. ASSUME UNCHANGED <<issues, phase, job, seen, flushed>> PROVE Owned' /\ Current' /\ Due'
  BY <1>1 DEF LInv, Owned, Current, Due, Updating
<1>2. CASE UNCHANGED vars
  BY <1>1, <1>2, Inductive DEF vars, LInv
<1>3. ASSUME NEW f \in Feedback, ChangeMind(f) PROVE LInv'
  BY <1>1, <1>3, ChangeMindStep DEF ChangeMind, LInv
<1>4. ASSUME NEW a \in Admin, AskCreate(a) PROVE LInv'
  BY <1>4, AskOwned DEF AskCreate, Jobs, Idle
<1>5. ASSUME NEW a \in Admin, AskUpdate(a) PROVE LInv'
  BY <1>5, AskOwned DEF AskUpdate, Jobs, Idle
<1>6. ASSUME NEW a \in Admin, RefuseCreate(a) \/ ReturnExisting(a) \/ RefuseUpdate(a) PROVE LInv'
  BY <1>6, RefusedOwned DEF RefuseCreate, ReturnExisting, RefuseUpdate, Refuse, Answers
<1>7. ASSUME NEW a \in Admin, DecideCreate(a) \/ Insert(a) PROVE LInv'
  BY <1>7, DecideCreateOwned, InsertOwned
<1>8. ASSUME NEW a \in Admin, DecideUpdate(a) \/ Update(a) PROVE LInv'
  BY <1>8, DecideUpdateOwned, UpdateOwned
<1>9. ASSUME NEW a \in Admin, Commit(a) \/ Fail(a) PROVE LInv'
  BY <1>9, AppliedOwned, RefusedOwned DEF Commit, Fail, Answers
<1> QED
  BY <1>2, <1>3, <1>4, <1>5, <1>6, <1>7, <1>8, <1>9 DEF Next

-----------------------------------------------------------------------------
(* The steps of the life cycle.                                            *)

LEMMA AppliedIsHandling ==
  ASSUME LInv, NEW a \in Admin, phase[a] = "flushed", issues' = Applied(a)
  PROVE  Lifecycle!Next
<1> DEFINE i == flushed[a].issue
           row == flushed[a].row
<1>1. i \in Issue /\ row \in Row /\ issues' = [issues EXCEPT ![i] = row]
  BY DEF LInv, IInv, TypeOK, Phased, Applied
<1>2. job[a].kind \in {"create", "update"}
  BY Kinds DEF LInv, IInv, TypeOK, Phased
<1>3. CASE job[a].kind = "create"
  <2> DEFINE f == job[a].feedback
  <2>1. Creating(a, "flushed")
    BY <1>3 DEF Creating
  <2>2. /\ row = [feedback |-> f, content |-> Lifecycle!Fresh] /\ f \in Feedback
        /\ issues[i] = Absent /\ IssuesOf(f) = {}
    BY <2>1 DEF LInv, IInv, Raising
  <2> HIDE DEF i, row, f
  <2>3. Lifecycle!Raise(i, f)
    BY <1>1, <2>2 DEF Lifecycle!Raise, Lifecycle!Of, IssuesOf
  <2> QED
    BY <1>1, <2>2, <2>3 DEF Lifecycle!Next
<1>4. CASE job[a].kind = "update"
  <2>1. Updating(a, "flushed")
    BY <1>4 DEF Updating
  <2>2. i = job[a].issue /\ row.feedback = issues[i].feedback /\ issues[i] # Absent
    BY <2>1 DEF LInv, IInv, Handling, Phased
  <2>3. Lifecycle!MayBecome(issues[i].content, row.content)
    BY <2>1, <2>2 DEF LInv, Current, Due
  <2> HIDE DEF i, row
  <2>4. row = [feedback |-> issues[i].feedback, content |-> row.content]
        /\ row.content \in Lifecycle!Content
    BY <1>1, <2>2 DEF Row, Content
  <2>5. Lifecycle!Handle(i)
    BY <1>1, <2>2, <2>3, <2>4 DEF Lifecycle!Handle
  <2> QED
    BY <1>1, <2>5 DEF Lifecycle!Next
<1> QED
  BY <1>2, <1>3, <1>4

LEMMA Simulation == LInv /\ [Next]_vars => [Lifecycle!Next]_issues
<1> SUFFICES ASSUME LInv, [Next]_vars PROVE [Lifecycle!Next]_issues
  OBVIOUS
<1>1. CASE UNCHANGED vars
  BY <1>1 DEF vars
<1>2. CASE \E f \in Feedback : ChangeMind(f)
  BY <1>2 DEF ChangeMind
<1>3. ASSUME NEW a \in Admin, AskCreate(a) \/ AskUpdate(a) PROVE UNCHANGED issues
  BY <1>3 DEF AskCreate, AskUpdate, Ask
<1>4. ASSUME NEW a \in Admin, RefuseCreate(a) \/ ReturnExisting(a) \/ RefuseUpdate(a)
      PROVE UNCHANGED issues
  BY <1>4 DEF RefuseCreate, ReturnExisting, RefuseUpdate, Refuse
<1>5. ASSUME NEW a \in Admin, DecideCreate(a) \/ Insert(a) \/ DecideUpdate(a) \/ Update(a)
      PROVE UNCHANGED issues
  BY <1>5 DEF DecideCreate, Insert, DecideUpdate, Update, Decide, Flush, Refuse
<1>6. ASSUME NEW a \in Admin, Commit(a) \/ Fail(a) PROVE [Lifecycle!Next]_issues
  BY <1>6, AppliedIsHandling DEF Commit, Fail
<1> QED
  BY <1>1, <1>2, <1>3, <1>4, <1>5, <1>6 DEF Next

\* With one administrator at a time on an issue, issues move along the
\* documented transitions, carry what their status requires, and rest once
\* closed, although each update is decided on a snapshot and writes only the
\* columns it found different (create_issue, update_issue).
THEOREM ImplementsLifecycle ==
  ASSUME Exclusive
  PROVE  Spec => LifecycleSpec
<1>1. Init => Lifecycle!Init
  BY DEF Init, Lifecycle!Init
<1> QED
  BY <1>1, InitiallyOwned, InductiveOwned, Simulation, PTL
     DEF Spec, LifecycleSpec, Lifecycle!Spec
=============================================================================
