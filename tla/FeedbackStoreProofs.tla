------------------------ MODULE FeedbackStoreProofs -------------------------
(***************************************************************************)
(* Theorems about FeedbackStore, for any submissions, visitors, messages   *)
(* and contents.                                                           *)
(***************************************************************************)
EXTENDS FeedbackStore, FiniteSetTheorems, TLAPS

Seen    == [key : Request, content : Feedback]
Written == [key : Request, row : Row]

-----------------------------------------------------------------------------
(* The inductive invariant.                                                *)

\* What a submission has done by the phase it is in.
Phased ==
  \A r \in Request :
    /\ phase[r] = "idle" => form[r] = Absent
    /\ phase[r] # "answered" => answer[r] = "none"
    /\ InFlight(r) => form[r] \in Submission
    /\ phase[r] \in {"looked_up", "flushed"} => form[r].target \in Message
    /\ rows[r] # Absent => phase[r] = "answered"

\* What was read is the owner's row, which stays there.
Read ==
  \A r \in Request :
    phase[r] \in {"looked_up", "flushed"} /\ seen[r] # Absent =>
      /\ seen[r] \in Seen
      /\ rows[seen[r].key] \in Row
      /\ rows[seen[r].key].owner = OwnerOf(r)

\* A written row is the only one of its owner, and nobody else writes one.
Held ==
  \A r \in Request : phase[r] = "flushed" =>
    /\ flushed[r] \in Written
    /\ flushed[r].row.owner = OwnerOf(r)
    /\ flushed[r].key = r \/ rows[flushed[r].key] # Absent
    /\ rows[flushed[r].key] # Absent => rows[flushed[r].key].owner = OwnerOf(r)
    /\ \A k \in Request : rows[k] # Absent /\ rows[k].owner = OwnerOf(r)
                            => k = flushed[r].key
    /\ \A q \in Request : phase[q] = "flushed" /\ OwnerOf(q) = OwnerOf(r) => q = r

IInv == TypeOK /\ Phased /\ Read /\ Held /\ OneActiveRow

LEMMA Initially == Init => IInv
BY DEF Init, IInv, TypeOK, Phases, Answers, Phased, Read, Held, OneActiveRow, InFlight

-----------------------------------------------------------------------------
(* The actions.                                                            *)

\* Normalisation keeps a form in the columns of the table.
LEMMA NormalizedContent ==
  ASSUME NEW f \in Form
  PROVE  Normalized(f) \in Feedback
<1>1. f.type \in {"like", "dislike"} /\ f.reason \in Reason \cup {"none"}
      /\ f.comment \in Comment \cup {"none", "blank"}
  BY DEF Form
<1> QED
  BY <1>1 DEF Normalized, NormalizeComment, Feedback

LEMMA ReceiveStep ==
  ASSUME IInv, NEW r \in Request, Receive(r)
  PROVE  IInv'
<1>1. PICK f \in Form : form' = [form EXCEPT ![r] = [visitor |-> f.visitor,
                                                     target  |-> f.target,
                                                     content |-> Normalized(f)]]
  BY DEF Receive
<1>2. phase[r] = "idle" /\ phase' = [phase EXCEPT ![r] = "received"]
      /\ UNCHANGED <<rows, seen, flushed, answer>>
  BY DEF Receive
<1>3. f.visitor \in Visitor /\ f.target \in Message \cup Misdirected
  BY DEF Form
<1>4. [visitor |-> f.visitor, target |-> f.target, content |-> Normalized(f)] \in Submission
  BY <1>3, NormalizedContent DEF Submission
<1>5. TypeOK'
  BY <1>1, <1>2, <1>4 DEF IInv, TypeOK, Phases
<1>6. form \in [Request -> Submission \cup {Absent}] /\ phase \in [Request -> Phases]
  BY DEF IInv, TypeOK
<1>7. Phased'
  BY <1>1, <1>2, <1>4, <1>6 DEF IInv, Phased, InFlight
<1>8. \A q \in Request : phase'[q] \in {"looked_up", "flushed"} =>
        phase'[q] = phase[q] /\ q # r /\ OwnerOf(q)' = OwnerOf(q)
  BY <1>1, <1>2, <1>6 DEF OwnerOf
<1>9. Read'
  BY <1>2, <1>8 DEF IInv, Read
<1>10. Held'
  BY <1>2, <1>8 DEF IInv, Held
<1> QED
  BY <1>2, <1>5, <1>7, <1>9, <1>10 DEF IInv, OneActiveRow

\* An answer without a change of the table.
LEMMA RefusedStep ==
  ASSUME IInv, NEW r \in Request, NEW a \in Answers, Answer(r, a), UNCHANGED rows
  PROVE  IInv'
<1>1. /\ phase' = [phase EXCEPT ![r] = "answered"] /\ answer' = [answer EXCEPT ![r] = a]
      /\ flushed' = [flushed EXCEPT ![r] = Absent] /\ UNCHANGED <<form, seen, rows>>
  BY DEF Answer
<1>2. TypeOK'
  BY <1>1 DEF IInv, TypeOK, Phases
<1>3. phase \in [Request -> Phases] /\ answer \in [Request -> Answers]
  BY DEF IInv, TypeOK
<1>4. Phased'
  BY <1>1, <1>3 DEF IInv, Phased, InFlight
<1>5. \A q \in Request : OwnerOf(q)' = OwnerOf(q)
  BY <1>1 DEF OwnerOf
<1>6. \A q \in Request : phase'[q] \in {"looked_up", "flushed"} =>
        phase'[q] = phase[q] /\ flushed'[q] = flushed[q]
  BY <1>1, <1>3 DEF IInv, TypeOK
<1>7. Read'
  BY <1>1, <1>5, <1>6 DEF IInv, Read
<1>8. Held'
  BY <1>1, <1>5, <1>6 DEF IInv, Held
<1> QED
  BY <1>1, <1>2, <1>4, <1>7, <1>8 DEF IInv, OneActiveRow

LEMMA LookUpStep ==
  ASSUME IInv, NEW r \in Request, LookUp(r)
  PROVE  IInv'
<1> DEFINE mine == {k \in Request : rows[k] # Absent /\ rows[k].owner = OwnerOf(r)}
           k == CHOOSE k \in mine : TRUE
           read == IF mine = {} THEN Absent ELSE [key |-> k, content |-> rows[k].content]
<1>1. /\ phase[r] = "received" /\ form[r].target \in Message
      /\ seen' = [seen EXCEPT ![r] = read]
      /\ phase' = [phase EXCEPT ![r] = "looked_up"]
      /\ UNCHANGED <<form, rows, flushed, answer>>
  BY DEF LookUp
<1>2. mine # {} => k \in mine
  OBVIOUS
<1>3. mine # {} => k \in Request /\ rows[k] \in Row /\ rows[k].owner = OwnerOf(r)
  <2> HIDE DEF k
  <2> QED
    BY <1>2 DEF IInv, TypeOK
<1>4. read = Absent \/ /\ read \in Seen /\ rows[read.key] \in Row
                       /\ rows[read.key].owner = OwnerOf(r)
  <2> HIDE DEF k, mine
  <2> QED
    BY <1>3 DEF Seen, Row
<1> HIDE DEF read
<1>5. TypeOK'
  BY <1>1, <1>4 DEF IInv, TypeOK, Phases, Seen
<1>6. phase \in [Request -> Phases] /\ DOMAIN seen = Request
  BY DEF IInv, TypeOK
<1>7. Phased'
  BY <1>1, <1>6 DEF IInv, Phased, InFlight
<1>8. \A q \in Request : OwnerOf(q)' = OwnerOf(q)
  BY <1>1 DEF OwnerOf
<1>9. Read'
  <2> SUFFICES ASSUME NEW q \in Request, phase'[q] \in {"looked_up", "flushed"}, seen'[q] # Absent
               PROVE  /\ seen'[q] \in Seen
                      /\ rows[seen'[q].key] \in Row
                      /\ rows[seen'[q].key].owner = OwnerOf(q)
    BY <1>1, <1>8 DEF Read
  <2>1. CASE q = r
    BY <2>1, <1>1, <1>4, <1>6
  <2>2. CASE q # r
    BY <2>2, <1>1, <1>6 DEF IInv, Read
  <2> QED
    BY <2>1, <2>2
<1>10. Held'
  BY <1>1, <1>6, <1>8 DEF IInv, Held
<1> QED
  BY <1>1, <1>5, <1>7, <1>9, <1>10 DEF IInv, OneActiveRow

\* A row is written when nobody else writes one of this owner.
LEMMA FlushStep ==
  ASSUME IInv, NEW r \in Request, phase[r] = "looked_up",
         NEW key \in Request, NEW content \in Feedback,
         Flush(r, key, content), ~ Blocked(r),
         key = r \/ rows[key] # Absent,
         rows[key] # Absent => rows[key].owner = OwnerOf(r),
         \A k \in Request : rows[k] # Absent /\ rows[k].owner = OwnerOf(r) => k = key
  PROVE  IInv'
<1> DEFINE write == [key |-> key, row |-> [owner |-> OwnerOf(r), content |-> content]]
<1>1. /\ flushed' = [flushed EXCEPT ![r] = write]
      /\ phase' = [phase EXCEPT ![r] = "flushed"]
      /\ UNCHANGED <<form, rows, seen, answer>>
  BY DEF Flush
<1>2. OwnerOf(r) \in Owner
  BY DEF IInv, Phased, InFlight, Submission, OwnerOf, Owner
<1>3. write \in Written /\ write.key = key /\ write.row.owner = OwnerOf(r)
  BY <1>2 DEF Written, Row
<1> HIDE DEF write
<1>4. TypeOK'
  BY <1>1, <1>3 DEF IInv, TypeOK, Phases, Written
<1>5. phase \in [Request -> Phases] /\ DOMAIN flushed = Request
  BY DEF IInv, TypeOK
<1>6. Phased'
  BY <1>1, <1>5 DEF IInv, Phased, InFlight
<1>7. \A q \in Request : OwnerOf(q)' = OwnerOf(q)
  BY <1>1 DEF OwnerOf
<1>8. Read'
  BY <1>1, <1>5, <1>7 DEF IInv, Read
<1>9. \A q \in Request : phase[q] = "flushed" /\ OwnerOf(q) = OwnerOf(r) => q = r
  BY DEF Blocked
<1>10. Held'
  <2> SUFFICES ASSUME NEW q \in Request, phase'[q] = "flushed"
               PROVE  /\ flushed'[q] \in Written
                      /\ flushed'[q].row.owner = OwnerOf(q)
                      /\ flushed'[q].key = q \/ rows[flushed'[q].key] # Absent
                      /\ rows[flushed'[q].key] # Absent =>
                           rows[flushed'[q].key].owner = OwnerOf(q)
                      /\ \A k \in Request : rows[k] # Absent /\ rows[k].owner = OwnerOf(q)
                                              => k = flushed'[q].key
                      /\ \A p \in Request : phase'[p] = "flushed" /\ OwnerOf(p) = OwnerOf(q)
                                              => p = q
    BY <1>1, <1>7 DEF Held
  <2>1. CASE q = r
    BY <2>1, <1>1, <1>3, <1>5, <1>9
  <2>2. CASE q # r
    BY <2>2, <1>1, <1>5, <1>9 DEF IInv, Held
  <2> QED
    BY <2>1, <2>2
<1> QED
  BY <1>1, <1>4, <1>6, <1>8, <1>10 DEF IInv, OneActiveRow

LEMMA CreateStep ==
  ASSUME IInv, NEW r \in Request, Create(r)
  PROVE  IInv'
<1>1. phase[r] = "looked_up" /\ ~ Blocked(r) /\ ~ Duplicate(r)
      /\ Flush(r, r, form[r].content)
  BY DEF Create
<1>2. form[r].content \in Feedback /\ rows[r] = Absent
  BY <1>1 DEF IInv, Phased, InFlight, Submission
<1>3. \A k \in Request : ~ (rows[k] # Absent /\ rows[k].owner = OwnerOf(r))
  BY <1>1 DEF Duplicate
<1> QED
  BY <1>1, <1>2, <1>3, FlushStep

\* What the ORM makes of the latest row.
Merged(new, old, now) == [c \in Columns |-> IF new[c] # old[c] THEN new[c] ELSE now[c]]

\* The columns of the latest row or of the form make a row.
LEMMA MergedContent ==
  ASSUME NEW new \in Feedback, NEW old, NEW now \in Feedback
  PROVE  /\ Merged(new, old, now) \in Feedback
         /\ old = now => Merged(new, old, now) = new
<1> DEFINE update == Merged(new, old, now)
<1>1. update = [c \in Columns |-> IF new[c] # old[c] THEN new[c] ELSE now[c]]
  BY DEF Merged
<1> HIDE DEF update
<1>2. \A f \in Feedback :
        /\ f = [c \in Columns |-> f[c]]
        /\ f["type"] \in {"like", "dislike"} /\ f["reason"] \in Reason \cup {"none"}
        /\ f["comment"] \in Comment \cup {"none"}
  BY DEF Feedback, Columns
<1>3. update = [type |-> update["type"], reason |-> update["reason"],
                comment |-> update["comment"]]
  BY <1>1 DEF Columns
<1>4. update["type"] \in {"like", "dislike"} /\ update["reason"] \in Reason \cup {"none"}
      /\ update["comment"] \in Comment \cup {"none"}
  BY <1>1, <1>2 DEF Columns
<1>5. update \in Feedback
  BY <1>3, <1>4 DEF Feedback
<1>6. old = now => \A c \in Columns : update[c] = new[c]
  BY <1>1
<1>7. old = now => update = [c \in Columns |-> new[c]]
  BY <1>1, <1>6
<1> QED
  BY <1>2, <1>5, <1>7 DEF update

LEMMA UpdateStep ==
  ASSUME IInv, NEW r \in Request, Update(r)
  PROVE  IInv'
<1> DEFINE key == seen[r].key
           content == Merged(form[r].content, seen[r].content, rows[key].content)
<1>1. phase[r] = "looked_up" /\ seen[r] # Absent /\ ~ Blocked(r) /\ Flush(r, key, content)
  BY DEF Update, Merged
<1>2. key \in Request /\ rows[key] \in Row /\ rows[key].owner = OwnerOf(r)
  BY <1>1 DEF IInv, Read, Seen
<1>3. form[r].content \in Feedback /\ rows[key].content \in Feedback
  BY <1>1, <1>2 DEF IInv, Phased, InFlight, Submission, Row
<1>4. content \in Feedback
  BY <1>3, MergedContent
<1>5. rows[key] # Absent
  BY <1>2, StoreAssumption
<1>6. \A k \in Request : rows[k] # Absent /\ rows[k].owner = OwnerOf(r) => k = key
  BY <1>2, <1>5 DEF IInv, OneActiveRow
<1> HIDE DEF key, content
<1> QED
  BY <1>1, <1>2, <1>4, <1>5, <1>6, FlushStep

LEMMA AppliedStep ==
  ASSUME IInv, NEW r \in Request, NEW a \in Answers, phase[r] = "flushed",
         rows' = Applied(r), Answer(r, a)
  PROVE  IInv'
<1> DEFINE key == flushed[r].key
           row == flushed[r].row
<1>1. /\ phase' = [phase EXCEPT ![r] = "answered"] /\ answer' = [answer EXCEPT ![r] = a]
      /\ flushed' = [flushed EXCEPT ![r] = Absent] /\ UNCHANGED <<form, seen>>
      /\ rows' = [rows EXCEPT ![key] = row]
  BY DEF Answer, Applied
<1>2. /\ key \in Request /\ row \in Row /\ row.owner = OwnerOf(r)
      /\ key = r \/ rows[key] # Absent
      /\ rows[key] # Absent => rows[key].owner = OwnerOf(r)
      /\ \A k \in Request : rows[k] # Absent /\ rows[k].owner = OwnerOf(r) => k = key
      /\ \A q \in Request : phase[q] = "flushed" /\ OwnerOf(q) = OwnerOf(r) => q = r
  BY DEF IInv, Held, Written
<1> HIDE DEF key, row
<1>3. TypeOK'
  BY <1>1, <1>2 DEF IInv, TypeOK, Phases
<1>4. /\ phase \in [Request -> Phases] /\ answer \in [Request -> Answers]
      /\ rows \in [Request -> Row \cup {Absent}] /\ DOMAIN flushed = Request
  BY DEF IInv, TypeOK
<1>5. Phased'
  BY <1>1, <1>2, <1>4 DEF IInv, Phased, InFlight
<1>6. \A q \in Request : OwnerOf(q)' = OwnerOf(q)
  BY <1>1 DEF OwnerOf
<1>7. \A q \in Request : phase'[q] \in {"looked_up", "flushed"} =>
        q # r /\ phase'[q] = phase[q] /\ flushed'[q] = flushed[q]
  BY <1>1, <1>4
<1>8. row # Absent /\ rows'[key] = row
      /\ \A k \in Request \ {key} : rows'[k] = rows[k]
  BY <1>1, <1>2, <1>4, StoreAssumption
<1>9. Read'
  <2> SUFFICES ASSUME NEW q \in Request, phase'[q] \in {"looked_up", "flushed"}, seen[q] # Absent
               PROVE  /\ seen[q] \in Seen
                      /\ rows'[seen[q].key] \in Row
                      /\ rows'[seen[q].key].owner = OwnerOf(q)
    BY <1>1, <1>6 DEF Read
  <2>1. seen[q] \in Seen /\ rows[seen[q].key] \in Row /\ rows[seen[q].key].owner = OwnerOf(q)
    BY <1>7 DEF IInv, Read
  <2>2. seen[q].key \in Request
    BY <2>1 DEF Seen
  <2>3. CASE seen[q].key = key
    BY <2>1, <2>3, <1>2, <1>8, StoreAssumption
  <2>4. CASE seen[q].key # key
    BY <2>1, <2>2, <2>4, <1>8
  <2> QED
    BY <2>1, <2>3, <2>4
<1>10. Held'
  <2> SUFFICES ASSUME NEW q \in Request, phase'[q] = "flushed"
               PROVE  /\ flushed[q] \in Written
                      /\ flushed[q].row.owner = OwnerOf(q)
                      /\ flushed[q].key = q \/ rows'[flushed[q].key] # Absent
                      /\ rows'[flushed[q].key] # Absent =>
                           rows'[flushed[q].key].owner = OwnerOf(q)
                      /\ \A k \in Request : rows'[k] # Absent /\ rows'[k].owner = OwnerOf(q)
                                              => k = flushed[q].key
                      /\ \A p \in Request : phase'[p] = "flushed" /\ OwnerOf(p) = OwnerOf(q)
                                              => p = q
    BY <1>6, <1>7 DEF Held
  <2>1. /\ flushed[q] \in Written
        /\ flushed[q].row.owner = OwnerOf(q)
        /\ flushed[q].key = q \/ rows[flushed[q].key] # Absent
        /\ rows[flushed[q].key] # Absent => rows[flushed[q].key].owner = OwnerOf(q)
        /\ \A k \in Request : rows[k] # Absent /\ rows[k].owner = OwnerOf(q)
                                => k = flushed[q].key
        /\ \A p \in Request : phase[p] = "flushed" /\ OwnerOf(p) = OwnerOf(q) => p = q
    BY <1>7 DEF IInv, Held
  <2>2. q # r /\ OwnerOf(q) # OwnerOf(r)
    BY <1>2, <1>7
  <2>3. flushed[q].key # key
    BY <2>1, <2>2, <1>2
  <2>4. flushed[q].key \in Request
    BY <2>1 DEF Written
  <2> QED
    BY <2>1, <2>2, <2>3, <2>4, <1>2, <1>7, <1>8
<1>11. OneActiveRow'
  BY <1>2, <1>8 DEF IInv, OneActiveRow
<1> QED
  BY <1>3, <1>5, <1>9, <1>10, <1>11 DEF IInv

LEMMA Inductive == IInv /\ [Next]_vars => IInv'
<1> SUFFICES ASSUME IInv, [Next]_vars PROVE IInv'
  OBVIOUS
<1>1. CASE UNCHANGED vars
  BY <1>1 DEF vars, IInv, TypeOK, Phased, Read, Held, OneActiveRow, InFlight, OwnerOf
<1>2. ASSUME NEW r \in Request, Receive(r) PROVE IInv'
  BY <1>2, ReceiveStep
<1>3. ASSUME NEW r \in Request, RejectForm(r) \/ CreateRefused(r) PROVE IInv'
  BY <1>3, RefusedStep DEF RejectForm, CreateRefused, Answers
<1>4. ASSUME NEW r \in Request, RefuseTarget(r) PROVE IInv'
  BY <1>4, RefusedStep DEF RefuseTarget, Misdirected, Answers
<1>5. ASSUME NEW r \in Request, LookUp(r) PROVE IInv'
  BY <1>5, LookUpStep
<1>6. ASSUME NEW r \in Request, Create(r) \/ Update(r) PROVE IInv'
  BY <1>6, CreateStep, UpdateStep
<1>7. ASSUME NEW r \in Request, Commit(r) \/ Fail(r) PROVE IInv'
  BY <1>7, AppliedStep, RefusedStep DEF Commit, Fail, Answers
<1> QED
  BY <1>1, <1>2, <1>3, <1>4, <1>5, <1>6, <1>7 DEF Next

LEMMA Invariant == Spec => []IInv
BY Initially, Inductive, PTL DEF Spec

\* Every variable keeps its type: a row is only ever made of what was sent,
\* and a stored comment is never blank.
THEOREM TypeCorrect == Spec => []TypeOK
<1>1. IInv => TypeOK
  BY DEF IInv
<1> QED
  BY Invariant, <1>1, PTL

\* However many submissions of a visitor about a message race, fail or are
\* committed without being acknowledged, one row is active
\* (submit_feedback under uk_agent_feedback_active_message_owner).
THEOREM OneRowIsActive == Spec => []OneActiveRow
<1>1. IInv => OneActiveRow
  BY DEF IInv
<1> QED
  BY Invariant, <1>1, PTL

-----------------------------------------------------------------------------
(* FeedbackStore implements FeedbackRegister, for visitors who let no      *)
(* submission overlap once a message is rated, and no more than two before.*)

Together(p, q) == InFlight(p) /\ InFlight(q) /\ OwnerOf(p) = OwnerOf(q)
Taken(o)       == \E k \in Request : rows[k] # Absent /\ rows[k].owner = o

\* Two submissions of an owner are in flight at most, one if a row is there.
Spaced ==
  /\ \A p, q, r \in Request :
       Together(p, q) /\ Together(q, r) => p = q \/ q = r \/ p = r
  /\ \A p, q \in Request : Together(p, q) /\ Taken(OwnerOf(p)) => p = q

\* What was read is still true, and what is written is what was submitted.
Fresh ==
  \A r \in Request :
    /\ phase[r] \in {"looked_up", "flushed"} /\ seen[r] # Absent =>
         seen[r].content = rows[seen[r].key].content
    /\ phase[r] = "flushed" => flushed[r].row.content = form[r].content

SInv == IInv /\ Spaced /\ Fresh

Waiting == ~ Eager /\ Parallel \in 1..2

LEMMA InitiallyFresh == Init => SInv
BY Initially DEF Init, SInv, Spaced, Fresh, Together, InFlight

\* A newcomer finds one rival at most, and none if a row is there.
LEMMA FewRivals ==
  ASSUME Waiting, NEW f \in Form, MaySend(f), NEW p \in Rivals(f), NEW q \in Rivals(f)
  PROVE  /\ ~ Rated(f)
         /\ SInv => p = q
<1>1. Cardinality(Rivals(f)) < Parallel /\ ~ Rated(f)
  BY DEF MaySend, Waiting
<1>2. ASSUME SInv, p # q PROVE FALSE
  <2>1. \A r \in Rivals(f) : r = p \/ r = q
    BY <1>2 DEF SInv, Spaced, Together, Rivals, OwnerOf
  <2>2. Rivals(f) = {p} \cup {q}
    BY <2>1
  <2>3. Cardinality({p}) = 1 /\ IsFiniteSet({p})
    BY FS_Singleton
  <2>4. Cardinality({p} \cup {q}) = 1 + 1
    BY <1>2, <2>3, FS_AddElement
  <2> QED
    BY <1>1, <2>2, <2>4 DEF Waiting
<1> QED
  BY <1>1, <1>2

LEMMA ReceiveSpaced ==
  ASSUME Waiting, SInv, NEW r \in Request, Receive(r)
  PROVE  SInv'
<1>1. PICK f \in Form :
        /\ MaySend(f)
        /\ form' = [form EXCEPT ![r] = [visitor |-> f.visitor, target  |-> f.target,
                                        content |-> Normalized(f)]]
  BY DEF Receive
<1>2. phase[r] = "idle" /\ phase' = [phase EXCEPT ![r] = "received"]
      /\ UNCHANGED <<rows, seen, flushed, answer>>
  BY DEF Receive
<1>3. phase \in [Request -> Phases] /\ form \in [Request -> Submission \cup {Absent}]
  BY DEF SInv, IInv, TypeOK
<1>4. /\ OwnerOf(r)' = <<f.target, f.visitor>> /\ InFlight(r)'
      /\ \A q \in Request \ {r} : OwnerOf(q)' = OwnerOf(q) /\ InFlight(q)' = InFlight(q)
  BY <1>1, <1>2, <1>3 DEF OwnerOf, InFlight
<1>5. \A q \in Request \ {r} : Together(q, r)' => q \in Rivals(f)
  BY <1>3, <1>4 DEF Together, Rivals, OwnerOf
<1>6. \A p, q \in Request \ {r} : Together(p, q)' = Together(p, q)
  BY <1>4 DEF Together
<1>7. \A p, q \in Request : Together(p, q)' = Together(q, p)'
  BY DEF Together
<1>8. \A p, q \in Request \ {r} : Together(p, r)' /\ Together(q, r)' => p = q
  BY <1>1, <1>5, FewRivals
<1>9. \A o : Taken(o)' = Taken(o)
  BY <1>2 DEF Taken
<1>10. \A q \in Request \ {r} : Together(q, r)' => ~ Taken(OwnerOf(r)')
  BY <1>1, <1>4, <1>5, FewRivals DEF Rated, Taken
<1>11. \A p, q \in Request : Together(p, q)' => OwnerOf(p)' = OwnerOf(q)'
  BY DEF Together
<1>12. Spaced'
  <2>1. ASSUME NEW p \in Request, NEW q \in Request, NEW s \in Request,
               Together(p, q)', Together(q, s)'
        PROVE  p = q \/ q = s \/ p = s
    <3>1. CASE p = r \/ q = r \/ s = r
      <4>1. Together(p, s)'
        BY <2>1 DEF Together
      <4> QED
        BY <2>1, <3>1, <4>1, <1>7, <1>8
    <3>2. CASE p # r /\ q # r /\ s # r
      BY <2>1, <3>2, <1>6 DEF SInv, Spaced
    <3> QED
      BY <3>1, <3>2
  <2>2. ASSUME NEW p \in Request, NEW q \in Request, Together(p, q)', Taken(OwnerOf(p)')
        PROVE  p = q
    <3>1. CASE p = r \/ q = r
      BY <2>2, <3>1, <1>7, <1>10, <1>11
    <3>2. CASE p # r /\ q # r
      BY <2>2, <3>2, <1>4, <1>6, <1>9 DEF SInv, Spaced
    <3> QED
      BY <3>1, <3>2
  <2>3. \A p \in Request : Taken(OwnerOf(p))' = Taken(OwnerOf(p)')
    BY <1>2 DEF Taken
  <2> QED
    BY <2>1, <2>2, <2>3 DEF Spaced
<1>13. Fresh'
  BY <1>1, <1>2, <1>3 DEF SInv, Fresh
<1> QED
  BY <1>12, <1>13, ReceiveStep DEF SInv

\* Whoever goes on or leaves gives no owner a second submission.
LEMMA StaySpaced ==
  ASSUME SInv, NEW r \in Request, NEW to \in Phases,
         phase' = [phase EXCEPT ![r] = to], InFlight(r) \/ to = "answered",
         UNCHANGED <<form, rows>>
  PROVE  Spaced'
<1>1. \A q \in Request : OwnerOf(q)' = OwnerOf(q)
  BY DEF OwnerOf
<1>2. \A q \in Request : InFlight(q)' => InFlight(q)
  BY DEF InFlight, SInv, IInv, TypeOK
<1>3. \A p, q \in Request : Together(p, q)' => Together(p, q)
  BY <1>1, <1>2 DEF Together
<1>4. \A q \in Request : Taken(OwnerOf(q))' = Taken(OwnerOf(q))
  BY <1>1 DEF Taken
<1> QED
  BY <1>3, <1>4 DEF SInv, Spaced

LEMMA RefusedSpaced ==
  ASSUME SInv, NEW r \in Request, NEW a \in Answers, Answer(r, a), UNCHANGED rows
  PROVE  SInv'
<1>1. /\ phase' = [phase EXCEPT ![r] = "answered"]
      /\ flushed' = [flushed EXCEPT ![r] = Absent] /\ UNCHANGED <<form, seen, rows>>
  BY DEF Answer
<1>2. Spaced'
  BY <1>1, StaySpaced DEF Phases
<1>3. Fresh'
  BY <1>1 DEF SInv, IInv, TypeOK, Fresh
<1> QED
  BY <1>2, <1>3, RefusedStep DEF SInv

LEMMA LookUpSpaced ==
  ASSUME SInv, NEW r \in Request, LookUp(r)
  PROVE  SInv'
<1> DEFINE mine == {k \in Request : rows[k] # Absent /\ rows[k].owner = OwnerOf(r)}
           k == CHOOSE k \in mine : TRUE
           read == IF mine = {} THEN Absent ELSE [key |-> k, content |-> rows[k].content]
<1>1. /\ phase[r] = "received" /\ seen' = [seen EXCEPT ![r] = read]
      /\ phase' = [phase EXCEPT ![r] = "looked_up"]
      /\ UNCHANGED <<form, rows, flushed, answer>>
  BY DEF LookUp
<1>2. read # Absent => read.content = rows[read.key].content
  <2> HIDE DEF k
  <2> QED
    OBVIOUS
<1> HIDE DEF read
<1>3. Spaced'
  BY <1>1, StaySpaced DEF InFlight, Phases
<1>4. phase \in [Request -> Phases] /\ DOMAIN seen = Request
  BY DEF SInv, IInv, TypeOK
<1>5. Fresh'
  <2> SUFFICES ASSUME NEW q \in Request
               PROVE  /\ phase'[q] \in {"looked_up", "flushed"} /\ seen'[q] # Absent =>
                           seen'[q].content = rows[seen'[q].key].content
                      /\ phase'[q] = "flushed" => flushed[q].row.content = form[q].content
    BY <1>1 DEF Fresh
  <2>1. CASE q = r
    BY <2>1, <1>1, <1>2, <1>4
  <2>2. CASE q # r
    BY <2>2, <1>1, <1>4 DEF SInv, Fresh
  <2> QED
    BY <2>1, <2>2
<1> QED
  BY <1>3, <1>5, LookUpStep DEF SInv

LEMMA FlushSpaced ==
  ASSUME SInv, NEW r \in Request, phase[r] = "looked_up", NEW key,
         Flush(r, key, form[r].content)
  PROVE  Spaced' /\ Fresh'
<1>1. /\ flushed' = [flushed EXCEPT ![r] =
                       [key |-> key, row |-> [owner   |-> OwnerOf(r),
                                              content |-> form[r].content]]]
      /\ phase' = [phase EXCEPT ![r] = "flushed"]
      /\ UNCHANGED <<form, rows, seen, answer>>
  BY DEF Flush
<1>2. phase \in [Request -> Phases] /\ DOMAIN flushed = Request
  BY DEF SInv, IInv, TypeOK
<1>3. Spaced'
  BY <1>1, StaySpaced DEF InFlight, Phases
<1>4. flushed'[r].row.content = form[r].content
  BY <1>1, <1>2
<1>5. \A q \in Request \ {r} : phase'[q] = phase[q] /\ flushed'[q] = flushed[q]
  BY <1>1, <1>2
<1>6. Fresh'
  BY <1>1, <1>4, <1>5 DEF SInv, Fresh
<1> QED
  BY <1>3, <1>6

LEMMA CreateSpaced ==
  ASSUME SInv, NEW r \in Request, Create(r)
  PROVE  SInv'
BY FlushSpaced, CreateStep DEF SInv, Create

LEMMA UpdateSpaced ==
  ASSUME SInv, NEW r \in Request, Update(r)
  PROVE  SInv'
<1> DEFINE key == seen[r].key
           content == Merged(form[r].content, seen[r].content, rows[key].content)
<1>1. phase[r] = "looked_up" /\ seen[r] # Absent /\ Flush(r, key, content)
  BY DEF Update, Merged
<1>2. form[r].content \in Feedback /\ rows[key].content \in Feedback
  BY <1>1 DEF SInv, IInv, Phased, InFlight, Submission, Read, Row
<1>3. seen[r].content = rows[key].content
  BY <1>1 DEF SInv, Fresh
<1>4. content = form[r].content
  BY <1>2, <1>3, MergedContent
<1> HIDE DEF key, content
<1> QED
  BY <1>1, <1>4, FlushSpaced, UpdateStep DEF SInv

LEMMA AppliedSpaced ==
  ASSUME SInv, NEW r \in Request, NEW a \in Answers, phase[r] = "flushed",
         rows' = Applied(r), Answer(r, a)
  PROVE  SInv'
<1> DEFINE key == flushed[r].key
           row == flushed[r].row
<1>1. /\ phase' = [phase EXCEPT ![r] = "answered"]
      /\ flushed' = [flushed EXCEPT ![r] = Absent] /\ UNCHANGED <<form, seen>>
      /\ rows' = [rows EXCEPT ![key] = row]
  BY DEF Answer, Applied
<1>2. /\ key \in Request /\ row \in Row /\ row.owner = OwnerOf(r)
      /\ rows[key] # Absent => rows[key].owner = OwnerOf(r)
  BY DEF SInv, IInv, Held, Written
<1> HIDE DEF key, row
<1>3. phase \in [Request -> Phases] /\ rows \in [Request -> Row \cup {Absent}]
      /\ DOMAIN flushed = Request
  BY DEF SInv, IInv, TypeOK
<1>4. \A q \in Request : OwnerOf(q)' = OwnerOf(q) /\ (InFlight(q)' => InFlight(q) /\ q # r)
  BY <1>1, <1>3 DEF OwnerOf, InFlight
<1>5. \A p, q \in Request : Together(p, q)' => Together(p, q) /\ p # r /\ q # r
  BY <1>4 DEF Together
<1>6. \A o : o # OwnerOf(r) /\ Taken(o)' => Taken(o)
  BY <1>1, <1>2, <1>3 DEF Taken
<1>7. Spaced'
  <2>1. ASSUME NEW p \in Request, NEW q \in Request, Together(p, q)', Taken(OwnerOf(p)), p # q
        PROVE  FALSE
    BY <2>1, <1>5 DEF SInv, Spaced
  <2>2. ASSUME NEW p \in Request, NEW q \in Request, Together(p, q)', OwnerOf(p) = OwnerOf(r)
        PROVE  p = q
    <3>1. InFlight(r)
      BY DEF InFlight
    <3>2. Together(p, q) /\ Together(q, r) /\ p # r /\ q # r
      BY <2>2, <3>1, <1>5 DEF Together
    <3> QED
      BY <3>2 DEF SInv, Spaced
  <2>3. \A p \in Request : Taken(OwnerOf(p))' => Taken(OwnerOf(p)) \/ OwnerOf(p) = OwnerOf(r)
    <3> SUFFICES ASSUME NEW p \in Request, Taken(OwnerOf(p))', OwnerOf(p) # OwnerOf(r)
                 PROVE  Taken(OwnerOf(p))
      OBVIOUS
    <3>1. PICK k \in Request : rows'[k] # Absent /\ rows'[k].owner = OwnerOf(p)
      BY <1>4 DEF Taken
    <3>2. k # key
      BY <3>1, <1>1, <1>2, <1>3
    <3> QED
      BY <3>1, <3>2, <1>1, <1>3 DEF Taken
  <2> QED
    BY <2>1, <2>2, <2>3, <1>5 DEF SInv, Spaced
<1>8. Fresh'
  <2> SUFFICES ASSUME NEW q \in Request, phase'[q] \in {"looked_up", "flushed"}
               PROVE  /\ seen[q] # Absent => seen[q].content = rows'[seen[q].key].content
                      /\ phase'[q] = "flushed" => flushed'[q].row.content = form[q].content
    BY <1>1 DEF Fresh
  <2>1. q # r /\ phase'[q] = phase[q] /\ flushed'[q] = flushed[q]
    BY <1>1, <1>3
  <2>2. ASSUME seen[q] # Absent PROVE seen[q].content = rows'[seen[q].key].content
    <3>1. seen[q] \in Seen /\ rows[seen[q].key] \in Row /\ rows[seen[q].key].owner = OwnerOf(q)
      BY <2>1, <2>2 DEF SInv, IInv, Read
    <3>2. seen[q].key \in Request /\ rows[seen[q].key] # Absent
      BY <3>1, StoreAssumption DEF Seen
    <3>3. InFlight(q) /\ InFlight(r) /\ Taken(OwnerOf(q))
      BY <2>1, <3>1, <3>2 DEF InFlight, Taken
    <3>4. OwnerOf(q) # OwnerOf(r)
      BY <2>1, <3>3 DEF SInv, Spaced, Together
    <3>5. seen[q].key # key
      BY <3>1, <3>2, <3>4, <1>2
    <3> QED
      BY <2>1, <2>2, <3>2, <3>5, <1>1, <1>3 DEF SInv, Fresh
  <2> QED
    BY <2>1, <2>2 DEF SInv, Fresh
<1> QED
  BY <1>7, <1>8, AppliedStep DEF SInv

LEMMA InductiveSpaced ==
  ASSUME Waiting
  PROVE  SInv /\ [Next]_vars => SInv'
<1> SUFFICES ASSUME SInv, [Next]_vars PROVE SInv'
  OBVIOUS
<1>1. CASE UNCHANGED vars
  <2>1. IInv'
    BY <1>1, Inductive DEF SInv
  <2>2. Spaced' /\ Fresh'
    BY <1>1 DEF vars, SInv, Spaced, Fresh, Together, Taken, InFlight, OwnerOf
  <2> QED
    BY <2>1, <2>2 DEF SInv
<1>2. ASSUME NEW r \in Request, Receive(r) PROVE SInv'
  BY <1>2, ReceiveSpaced
<1>3. ASSUME NEW r \in Request, RejectForm(r) \/ CreateRefused(r) PROVE SInv'
  BY <1>3, RefusedSpaced DEF RejectForm, CreateRefused, Answers
<1>4. ASSUME NEW r \in Request, RefuseTarget(r) PROVE SInv'
  BY <1>4, RefusedSpaced DEF RefuseTarget, Misdirected, Answers
<1>5. ASSUME NEW r \in Request, LookUp(r) PROVE SInv'
  BY <1>5, LookUpSpaced
<1>6. ASSUME NEW r \in Request, Create(r) \/ Update(r) PROVE SInv'
  BY <1>6, CreateSpaced, UpdateSpaced
<1>7. ASSUME NEW r \in Request, Commit(r) \/ Fail(r) PROVE SInv'
  BY <1>7, AppliedSpaced, RefusedSpaced DEF Commit, Fail, Answers
<1> QED
  BY <1>1, <1>2, <1>3, <1>4, <1>5, <1>6, <1>7 DEF Next

-----------------------------------------------------------------------------
(* The steps of the register.                                              *)

\* What a table holds for an owner.
Among(table, o)  == {k \in Request : table[k] # Absent /\ table[k].owner = o}
Content(table, o) ==
  IF Among(table, o) = {} THEN Absent ELSE table[CHOOSE k \in Among(table, o) : TRUE].content

LEMMA RegisterIsContent ==
  ASSUME NEW o
  PROVE  RegisterOf(o) = Content(rows, o) /\ RegisterOf(o)' = Content(rows', o)
BY DEF RegisterOf, Content, Among

LEMMA ContentOfOnly ==
  ASSUME NEW table, NEW o, NEW k, Among(table, o) = {k}
  PROVE  Content(table, o) = table[k].content
<1>1. (CHOOSE q \in {k} : TRUE) = k
  OBVIOUS
<1> QED
  BY <1>1 DEF Content

LEMMA ContentOfSame ==
  ASSUME NEW table, NEW table2, NEW o, Among(table2, o) = Among(table, o),
         \A k \in Among(table, o) : table2[k] = table[k]
  PROVE  Content(table2, o) = Content(table, o)
<1> DEFINE chosen == CHOOSE k \in Among(table, o) : TRUE
<1>1. Among(table, o) # {} => chosen \in Among(table, o)
  OBVIOUS
<1>2. Content(table, o) = IF Among(table, o) = {} THEN Absent ELSE table[chosen].content
  BY DEF Content
<1>3. Content(table2, o) = IF Among(table, o) = {} THEN Absent ELSE table2[chosen].content
  BY DEF Content
<1> HIDE DEF chosen
<1> QED
  BY <1>1, <1>2, <1>3

\* A submission that cannot be judged asks for nothing, any other is asked
\* once and for all.
LEMMA StaysUnseen ==
  ASSUME UNCHANGED <<form, rows, answer>>
  PROVE  UNCHANGED Register!vars
<1>1. \A o \in Owner : RegisterOf(o)' = RegisterOf(o)
  BY DEF RegisterOf
<1>2. \A r \in Request : Asked(r)' = Asked(r) /\ Told(r)' = Told(r)
  BY DEF Asked, Told, OwnerOf
<1> QED
  BY <1>1, <1>2 DEF Register!vars

LEMMA ReceiveIsAsk ==
  ASSUME SInv, NEW r \in Request, Receive(r)
  PROVE  Register!Ask(r) \/ UNCHANGED Register!vars
<1>1. PICK f \in Form : form' = [form EXCEPT ![r] = [visitor |-> f.visitor,
                                                     target  |-> f.target,
                                                     content |-> Normalized(f)]]
  BY DEF Receive
<1>2. phase[r] = "idle" /\ phase' = [phase EXCEPT ![r] = "received"]
      /\ UNCHANGED <<rows, seen, flushed, answer>>
  BY DEF Receive
<1>3. /\ f.visitor \in Visitor /\ f.target \in Message \cup Misdirected
      /\ Normalized(f) \in Feedback
  BY NormalizedContent DEF Form
<1>4. form \in [Request -> Submission \cup {Absent}] /\ form[r] = Absent /\ answer[r] = "none"
  BY <1>2 DEF SInv, IInv, TypeOK, Phased
<1> DEFINE sent == [visitor |-> f.visitor, target  |-> f.target, content |-> Normalized(f)]
<1>5. form'[r] = sent /\ \A q \in Request \ {r} : form'[q] = form[q]
  BY <1>1, <1>4
<1>6. sent \in Submission /\ sent # Absent
  BY <1>3, StoreAssumption DEF Submission
<1>7. /\ \A o \in Owner : RegisterOf(o)' = RegisterOf(o)
      /\ \A q \in Request : Told(q)' = Told(q)
      /\ \A q \in Request \ {r} : Asked(q)' = Asked(q)
  BY <1>2, <1>5 DEF RegisterOf, Told, Asked, OwnerOf
<1>8. Asked(r) = Absent /\ Told(r) = "nothing"
  BY <1>4 DEF Asked, Told
<1>9. CASE f.target \in Misdirected
  <2>1. Asked(r)' = Absent
    BY <1>5, <1>9 DEF Asked
  <2> QED
    BY <2>1, <1>7, <1>8 DEF Register!vars
<1>10. CASE f.target \in Message
  <2> DEFINE ask == [owner |-> <<f.target, f.visitor>>, feedback |-> Normalized(f)]
  <2>1. f.target \notin Misdirected
    BY <1>10, StoreAssumption
  <2>2. Asked(r)' = ask
    BY <2>1, <1>5, <1>6 DEF Asked, OwnerOf
  <2>3. ask \in Register!Asking
    BY <1>3, <1>10 DEF Register!Asking, Owner
  <2>4. [q \in Request |-> Asked(q)]' = [[q \in Request |-> Asked(q)] EXCEPT ![r] = ask]
    BY <2>2, <1>7
  <2> HIDE DEF ask
  <2> QED
    BY <2>3, <2>4, <1>7, <1>8 DEF Register!Ask
<1> QED
  BY <1>3, <1>9, <1>10

LEMMA RefusedIsRefuse ==
  ASSUME SInv, NEW r \in Request, phase[r] # "answered", NEW a \in Answers \ {"none", "saved"},
         Answer(r, a), UNCHANGED rows
  PROVE  Register!Refuse(r)
<1>1. answer' = [answer EXCEPT ![r] = a] /\ UNCHANGED <<form, seen, rows>>
  BY DEF Answer
<1>2. answer[r] = "none" /\ answer \in [Request -> Answers]
  BY DEF SInv, IInv, TypeOK, Phased
<1>3. /\ \A o \in Owner : RegisterOf(o)' = RegisterOf(o)
      /\ \A q \in Request : Asked(q)' = Asked(q)
      /\ \A q \in Request \ {r} : Told(q)' = Told(q)
  BY <1>1, <1>2 DEF RegisterOf, Told, Asked, OwnerOf
<1>4. Told(r) = "nothing" /\ Told(r)' \in {"refused", "error"}
  BY <1>1, <1>2 DEF Told, Answers
<1>5. [q \in Request |-> Told(q)]' = [[q \in Request |-> Told(q)] EXCEPT ![r] = Told(r)']
  BY <1>3
<1> QED
  BY <1>3, <1>4, <1>5 DEF Register!Refuse

LEMMA AppliedIsSave ==
  ASSUME SInv, NEW r \in Request, phase[r] = "flushed",
         NEW a \in {"saved", "persistence_error"},
         rows' = Applied(r), Answer(r, a)
  PROVE  Register!Save(r)
<1> DEFINE key == flushed[r].key
           row == flushed[r].row
<1>1. /\ answer' = [answer EXCEPT ![r] = a] /\ UNCHANGED <<form, seen>>
      /\ rows' = [rows EXCEPT ![key] = row]
  BY DEF Answer, Applied
<1>2. /\ key \in Request /\ row \in Row /\ row.owner = OwnerOf(r)
      /\ rows[key] # Absent => rows[key].owner = OwnerOf(r)
      /\ row.content = form[r].content
  BY DEF SInv, IInv, Held, Written, Fresh
<1> HIDE DEF key, row
<1>3. /\ form[r] \in Submission /\ form[r].target \in Message
      /\ answer[r] = "none" /\ answer \in [Request -> Answers]
      /\ rows \in [Request -> Row \cup {Absent}]
  BY DEF SInv, IInv, TypeOK, Phased, InFlight
<1>4. row # Absent /\ form[r] # Absent /\ form[r].target \notin Misdirected
  BY <1>2, <1>3, StoreAssumption
<1>5. Asked(r) = [owner |-> OwnerOf(r), feedback |-> form[r].content]
  BY <1>4 DEF Asked
<1>6. Asked(r) # Absent
  <2>1. OwnerOf(r) \in Owner /\ form[r].content \in Feedback
    BY <1>3 DEF OwnerOf, Owner, Submission
  <2> QED
    BY <2>1, <1>5, StoreAssumption
<1>7. OneActiveRow'
  BY AppliedStep DEF SInv, IInv, Answers
<1>8. /\ rows'[key] = row
      /\ \A k \in Request \ {key} : rows'[k] = rows[k]
  BY <1>1, <1>2, <1>3
<1>9. \A o \in Owner :
        RegisterOf(o)' = IF o = OwnerOf(r) THEN form[r].content ELSE RegisterOf(o)
  <2> SUFFICES ASSUME NEW o \in Owner
               PROVE  Content(rows', o) = IF o = OwnerOf(r) THEN form[r].content
                                          ELSE Content(rows, o)
    BY RegisterIsContent
  <2>1. CASE o = OwnerOf(r)
    <3>1. Among(rows', o) = {key}
      BY <2>1, <1>2, <1>4, <1>7, <1>8 DEF Among, OneActiveRow
    <3> QED
      BY <2>1, <3>1, <1>2, <1>8, ContentOfOnly
  <2>2. CASE o # OwnerOf(r)
    <3>1. Among(rows', o) = Among(rows, o) /\ key \notin Among(rows, o)
      BY <2>2, <1>2, <1>8 DEF Among
    <3>2. \A k \in Among(rows, o) : rows'[k] = rows[k]
      BY <3>1, <1>8 DEF Among
    <3> QED
      BY <2>2, <3>1, <3>2, ContentOfSame
  <2> QED
    BY <2>1, <2>2
<1>11. OwnerOf(r) \in Owner
  BY <1>3 DEF OwnerOf, Owner, Submission
<1>12. [o \in Owner |-> RegisterOf(o)]'
         = [[o \in Owner |-> RegisterOf(o)] EXCEPT ![OwnerOf(r)] = form[r].content]
  BY <1>9, <1>11
<1>13. /\ \A q \in Request : Asked(q)' = Asked(q)
       /\ \A q \in Request \ {r} : Told(q)' = Told(q)
  BY <1>1, <1>3 DEF Asked, OwnerOf, Told
<1>14. Told(r) = "nothing" /\ Told(r)' \in {"saved", "error"}
  BY <1>1, <1>3 DEF Told
<1>15. [q \in Request |-> Told(q)]' = [[q \in Request |-> Told(q)] EXCEPT ![r] = Told(r)']
  BY <1>13
<1>16. Asked(r).owner = OwnerOf(r) /\ Asked(r).feedback = form[r].content
  BY <1>5
<1>17. [q \in Request |-> Told(q)]'
         \in {[[q \in Request |-> Told(q)] EXCEPT ![r] = t] : t \in {"saved", "error"}}
  BY <1>14, <1>15
<1>18. [q \in Request |-> Asked(q)]' = [q \in Request |-> Asked(q)]
  BY <1>13
<1> QED
  BY <1>6, <1>12, <1>14, <1>16, <1>17, <1>18 DEF Register!Save

LEMMA Simulation == SInv /\ [Next]_vars => [Register!Next]_Register!vars
<1> SUFFICES ASSUME SInv, [Next]_vars PROVE [Register!Next]_Register!vars
  OBVIOUS
<1>1. CASE UNCHANGED vars
  BY <1>1, StaysUnseen DEF vars
<1>2. ASSUME NEW r \in Request, Receive(r) PROVE [Register!Next]_Register!vars
  BY <1>2, ReceiveIsAsk DEF Register!Next
<1>3. ASSUME NEW r \in Request, RejectForm(r) \/ CreateRefused(r)
      PROVE [Register!Next]_Register!vars
  <2>1. phase[r] # "answered"
    BY <1>3 DEF RejectForm, CreateRefused
  <2> QED
    BY <1>3, <2>1, RefusedIsRefuse DEF RejectForm, CreateRefused, Answers, Register!Next
<1>4. ASSUME NEW r \in Request, RefuseTarget(r) PROVE [Register!Next]_Register!vars
  BY <1>4, RefusedIsRefuse DEF RefuseTarget, Misdirected, Answers, Register!Next
<1>5. ASSUME NEW r \in Request, LookUp(r) \/ Create(r) \/ Update(r)
      PROVE [Register!Next]_Register!vars
  BY <1>5, StaysUnseen DEF LookUp, Create, Update, Flush
<1>6. ASSUME NEW r \in Request, Commit(r) PROVE [Register!Next]_Register!vars
  BY <1>6, AppliedIsSave DEF Commit, Register!Next
<1>7. ASSUME NEW r \in Request, Fail(r) PROVE [Register!Next]_Register!vars
  BY <1>7, AppliedIsSave, RefusedIsRefuse DEF Fail, InFlight, Answers, Register!Next
<1> QED
  BY <1>1, <1>2, <1>3, <1>4, <1>5, <1>6, <1>7 DEF Next

\* For visitors who wait for an answer once their first rating is stored, and
\* send that one twice at most, the table is a register per owner: a
\* submission replaces the former one as a whole or not at all, although the
\* ORM writes only the columns it found different (submit_feedback).
THEOREM ImplementsRegister ==
  ASSUME Waiting
  PROVE  Spec => RegisterSpec
<1>1. Init => Register!Init
  <2> SUFFICES ASSUME Init PROVE Register!Init
    OBVIOUS
  <2>1. \A o \in Owner : {k \in Request : rows[k] # Absent /\ rows[k].owner = o} = {}
    BY DEF Init
  <2>2. \A o \in Owner : RegisterOf(o) = Absent
    BY <2>1 DEF RegisterOf
  <2>3. \A r \in Request : Asked(r) = Absent /\ Told(r) = "nothing"
    BY DEF Init, Asked, Told
  <2> QED
    BY <2>2, <2>3 DEF Register!Init
<1> QED
  BY <1>1, InitiallyFresh, InductiveSpaced, Simulation, PTL
     DEF Spec, RegisterSpec, Register!Spec
=============================================================================
