------------------------- MODULE IssueConsoleProofs -------------------------
(***************************************************************************)
(* Theorems about IssueConsole, for any amount of feedback, size of pages  *)
(* and number of requests in flight.                                       *)
(***************************************************************************)
EXTENDS IssueConsole, FiniteSetTheorems, TLAPS

Lists   == [rows : SUBSET Feedback, total : Nat]
Details == [feedback : Feedback, issue : Issue \cup {Absent}]

-----------------------------------------------------------------------------
(* The inductive invariants.                                               *)

\* What a request in flight has been answered fits its kind.
Fits(x) ==
  x.state = "answered" =>
    /\ x.request.kind = "list" => x.answer \in Lists
    /\ x.request.kind = "detail" => x.answer \in Details
    /\ x.request.kind \in {"create", "update"} => x.answer \in Issue

Saving(x) == x.request.kind \in {"create", "update"}

\* Without feedback on the page there is no issue on it, and nothing is saved.
Chosen ==
  desk.selected = Absent =>
    desk.issue = Absent /\ \A c \in Call : calls[c] # Absent => ~ Saving(calls[c])

TypeInv == TypeOK /\ Chosen /\ \A c \in Call : calls[c] # Absent => Fits(calls[c])

\* A request a save is waiting for.
Saver(x) ==
  x # Absent /\ (Saving(x) \/ (x.request.kind = "list" /\ x.request.saves))

-----------------------------------------------------------------------------
(* Types.                                                                  *)

LEMMA Counted ==
  ASSUME NEW S, S \subseteq Feedback
  PROVE  Cardinality(S) \in Nat
<1>1. IsFiniteSet(Feedback)
  BY ConsoleAssumption, FS_Interval DEF Feedback
<1> QED
  BY <1>1, FS_Subset, FS_CardinalityType

LEMMA Initially == Init => TypeInv
  BY DEF Init, TypeInv, TypeOK, Chosen

\* Replacing one request in flight by one that fits keeps the invariant.
LEMMA Replaced ==
  ASSUME TypeInv, NEW c \in Call, NEW x,
         x \in Exchange \cup {Absent}, x # Absent => Fits(x),
         calls' = [calls EXCEPT ![c] = x],
         disliked' \subseteq Feedback,
         raised' \subseteq Feedback,
         list' \in [page : Nat \ {0}, rows : SUBSET Feedback, total : Nat, loading : BOOLEAN],
         desk' \in [selected : Feedback \cup {Absent}, issue : Issue \cup {Absent},
                   saving : BOOLEAN],
         desk'.selected = Absent =>
           desk.selected = Absent /\ desk'.issue = Absent /\ (x # Absent => ~ Saving(x))
  PROVE  TypeInv'
<1>1. calls' \in [Call -> Exchange \cup {Absent}]
  BY DEF TypeInv, TypeOK, Exchange
<1>2. \A d \in Call : calls'[d] # Absent => Fits(calls'[d])
  BY DEF TypeInv, TypeOK, Exchange
<1>3. (\A d \in Call : calls[d] # Absent => Fits(calls[d]))'
  BY <1>2 DEF Fits
<1>4. Chosen'
  BY DEF TypeInv, TypeOK, Chosen, Saving
<1> QED
  BY <1>1, <1>3, <1>4 DEF TypeInv, TypeOK, Exchange

\* What is in flight has the type of a call.
LEMMA InFlight ==
  ASSUME TypeInv, NEW c \in Call, calls[c] # Absent
  PROVE  calls[c] \in Exchange /\ Fits(calls[c])
  BY DEF TypeInv, TypeOK, Exchange

\* A request in flight is there.
LEMMA NotACall ==
  ASSUME NEW x \in Exchange
  PROVE  x # Absent
  BY AbsentAssumption

\* The state and the answer of a call, and what the server does with it.
LEMMA Replies ==
  ASSUME TypeInv, NEW c \in Call, calls[c] # Absent, NEW answer \in Answer,
         calls[c].request.kind = "list" => answer \in Lists,
         calls[c].request.kind = "detail" => answer \in Details,
         calls[c].request.kind \in {"create", "update"} => answer \in Issue,
         Reply(c, answer)
  PROVE  \E x \in Exchange : /\ Fits(x) /\ x.request = calls[c].request
                             /\ calls' = [calls EXCEPT ![c] = x]
<1>0. calls[c] \in Exchange /\ calls \in [Call -> Exchange \cup {Absent}]
  BY InFlight DEF TypeInv, TypeOK, Exchange
<1>1. CASE calls' = [calls EXCEPT ![c].state = "answered", ![c].answer = answer]
  <2> DEFINE x == [calls[c] EXCEPT !.state = "answered", !.answer = answer]
  <2>1. x \in Exchange /\ x.request = calls[c].request /\ x.answer = answer
    BY <1>0 DEF Exchange
  <2>2. Fits(x)
    BY <2>1 DEF Fits
  <2>3. calls' = [calls EXCEPT ![c] = x]
    BY <1>0, <1>1
  <2> QED BY <2>1, <2>2, <2>3
<1>2. CASE calls' = [calls EXCEPT ![c].state = "failed"]
  <2> DEFINE x == [calls[c] EXCEPT !.state = "failed"]
  <2>1. x \in Exchange /\ x.request = calls[c].request /\ x.state = "failed"
    BY <1>0 DEF Exchange
  <2>2. Fits(x)
    BY <2>1 DEF Fits
  <2>3. calls' = [calls EXCEPT ![c] = x]
    BY <1>0, <1>2
  <2> QED BY <2>1, <2>2, <2>3
<1> QED
  BY <1>1, <1>2 DEF Reply

LEMMA Asking ==
  ASSUME NEW request \in Request
  PROVE  /\ Sent(request) \in Exchange /\ Fits(Sent(request))
         /\ Sent(request).request = request /\ Sent(request).state = "sent"
  BY DEF Sent, Exchange, Fits, Answer

LEMMA Loads ==
  ASSUME TypeInv, NEW page \in Nat \ {0}, NEW c \in Call, Load(c, page)
  PROVE  TypeInv'
<1>1. PICK filter \in Filters : Send(c, Listing(page, filter, FALSE))
  BY DEF Load
<1>2. Listing(page, filter, FALSE) \in Request
  BY DEF Listing, Request
<1>3. list' \in [page : Nat \ {0}, rows : SUBSET Feedback, total : Nat, loading : BOOLEAN]
  BY DEF Load, Loading, TypeInv, TypeOK
<1>4. /\ Sent(Listing(page, filter, FALSE)) \in Exchange /\ Fits(Sent(Listing(page, filter, FALSE)))
      /\ ~ Saving(Sent(Listing(page, filter, FALSE)))
  BY <1>2, Asking DEF Saving, Listing
<1>5. /\ calls' = [calls EXCEPT ![c] = Sent(Listing(page, filter, FALSE))]
      /\ UNCHANGED <<disliked, raised, desk>>
  BY <1>1 DEF Load, Send
<1> QED
  BY <1>3, <1>4, <1>5, Replaced DEF TypeInv, TypeOK, Chosen

LEMMA Begins ==
  ASSUME TypeInv, NEW request \in Request, NEW c \in Call, SaveWith(c, request),
         desk.selected # Absent
  PROVE  TypeInv'
<1>1. desk' \in [selected : Feedback \cup {Absent}, issue : Issue \cup {Absent},
                saving : BOOLEAN]
  BY DEF SaveWith, TypeInv, TypeOK
<1> QED
  BY <1>1, Asking, Replaced DEF SaveWith, Send, TypeInv, TypeOK

LEMMA SavesRequest ==
  ASSUME TypeInv, NEW c \in Call
  PROVE  /\ CreateIssueForSelected(c) =>
              /\ desk.selected # Absent
              /\ [kind |-> "create", feedback |-> desk.selected] \in Request
         /\ SaveIssue(c) =>
              /\ desk.selected # Absent
              /\ [kind |-> "update", issue |-> desk.issue.of] \in Request
<1>1. desk.selected # Absent => desk.selected \in Feedback
  BY DEF TypeInv, TypeOK
<1>2. desk.issue # Absent => desk.issue.of \in Feedback
  BY DEF TypeInv, TypeOK, Issue
<1> QED
  BY <1>1, <1>2 DEF CreateIssueForSelected, SaveIssue, Request, TypeInv, Chosen

LEMMA Served ==
  ASSUME TypeInv, NEW c \in Call, Serve(c)
  PROVE  TypeInv'
<1> USE DEF Page
<1>0. calls[c] # Absent /\ calls[c] \in Exchange /\ UNCHANGED <<disliked, list, desk>>
  BY InFlight DEF Serve, ServeList, ServeDetail, ServeCreate, ServeUpdate, Refuse, IsSent
<1>t. /\ disliked \subseteq Feedback /\ raised \subseteq Feedback
      /\ list \in [page : Nat \ {0}, rows : SUBSET Feedback, total : Nat, loading : BOOLEAN]
      /\ desk \in [selected : Feedback \cup {Absent}, issue : Issue \cup {Absent},
                   saving : BOOLEAN]
      /\ desk.selected = Absent => desk.issue = Absent /\ ~ Saving(calls[c])
  BY <1>0 DEF TypeInv, TypeOK, Chosen
<1>1. CASE ServeList(c)
  <2> DEFINE r == calls[c].request
             answer == [rows  |-> Rows(r.filter, r.page),
                        total |-> Cardinality(Matching(r.filter))]
  <2>1. Matching(r.filter) \subseteq Feedback /\ Rows(r.filter, r.page) \subseteq Feedback
    BY <1>t DEF Matching, Rows
  <2>2. answer \in Lists
    BY <2>1, Counted DEF Lists
  <2>3. Reply(c, answer) /\ calls[c].request.kind = "list"
    BY <1>1 DEF ServeList, IsSent
  <2>4. answer \in Answer
    BY <2>2 DEF Answer, Lists
  <2> HIDE DEF answer
  <2>5. PICK x \in Exchange : Fits(x) /\ x.request = calls[c].request /\ calls' = [calls EXCEPT ![c] = x]
    BY <1>0, <2>2, <2>3, <2>4, Replies
  <2> QED BY <1>0, <1>1, <1>t, <2>5, Replaced DEF ServeList, Saving
<1>2. CASE ServeDetail(c)
  <2> DEFINE f == calls[c].request.feedback
             answer == [feedback |-> f, issue |-> IssueOf(f)]
  <2>1. f \in Feedback
    BY <1>2, <1>t DEF ServeDetail
  <2>2. IssueOf(f) \in Issue \cup {Absent}
    BY <1>t, <2>1 DEF IssueOf, Issue
  <2>3. answer \in Details /\ answer \in Answer
    BY <2>1, <2>2 DEF Details, Answer
  <2>4. Reply(c, answer) /\ calls[c].request.kind = "detail"
    BY <1>2 DEF ServeDetail, IsSent
  <2> HIDE DEF answer
  <2>5. PICK x \in Exchange : Fits(x) /\ x.request = calls[c].request /\ calls' = [calls EXCEPT ![c] = x]
    BY <1>0, <2>3, <2>4, Replies
  <2> QED BY <1>0, <1>2, <1>t, <2>5, Replaced DEF ServeDetail, Saving
<1>3. CASE ServeCreate(c)
  <2> DEFINE f == calls[c].request.feedback
             answer == [of |-> f]
  <2>1. f \in Feedback
    BY <1>3, <1>t DEF ServeCreate
  <2>3. answer \in Issue /\ answer \in Answer
    BY <2>1 DEF Issue, Answer
  <2>4. Reply(c, answer) /\ calls[c].request.kind = "create" /\ raised' = raised \cup {f}
    BY <1>3 DEF ServeCreate, IsSent
  <2>6. raised' \subseteq Feedback
    BY <1>t, <2>1, <2>4
  <2> HIDE DEF answer
  <2>5. PICK x \in Exchange : Fits(x) /\ x.request = calls[c].request /\ calls' = [calls EXCEPT ![c] = x]
    BY <1>0, <2>3, <2>4, Replies
  <2> QED BY <1>0, <1>t, <2>5, <2>6, Replaced DEF Saving
<1>4. CASE ServeUpdate(c)
  <2> DEFINE r == calls[c].request
             answer == [of |-> r.issue]
  <2>1. Reply(c, answer) /\ r.kind = "update" /\ raised' = raised
    BY <1>4 DEF ServeUpdate, IsSent
  <2>2. r.issue \in Feedback
    BY <1>0, <2>1 DEF Exchange, Request
  <2>3. answer \in Issue /\ answer \in Answer
    BY <2>2 DEF Issue, Answer
  <2> HIDE DEF answer
  <2>5. PICK x \in Exchange : Fits(x) /\ x.request = calls[c].request /\ calls' = [calls EXCEPT ![c] = x]
    BY <1>0, <2>1, <2>3, Replies
  <2> QED BY <1>0, <1>t, <2>1, <2>5, Replaced DEF Saving
<1>5. CASE Refuse(c)
  <2> DEFINE x == [calls[c] EXCEPT !.state = "failed"]
  <2>1. x \in Exchange /\ Fits(x) /\ x.request = calls[c].request
    BY <1>0 DEF Exchange, Fits
  <2>2. calls' = [calls EXCEPT ![c] = x] /\ raised' = raised
    BY <1>5 DEF Refuse, TypeInv, TypeOK
  <2> HIDE DEF x
  <2>3. ~ Saving(calls[c]) => ~ Saving(x)
    BY <2>1 DEF Saving
  <2> QED BY <1>0, <1>t, <2>1, <2>2, <2>3, Replaced
<1> QED
  BY <1>1, <1>2, <1>3, <1>4, <1>5 DEF Serve

LEMMA Arrived ==
  ASSUME TypeInv, NEW c \in Call, Arrive(c)
  PROVE  TypeInv'
<1>0. calls[c] # Absent /\ calls[c] \in Exchange /\ Fits(calls[c]) /\ UNCHANGED <<disliked, raised>>
  BY InFlight DEF Arrive, ListArrives, DetailArrives, ReadFails, SaveArrives, SaveFails, HasEnded
<1>t. /\ disliked \subseteq Feedback /\ raised \subseteq Feedback
      /\ list \in [page : Nat \ {0}, rows : SUBSET Feedback, total : Nat, loading : BOOLEAN]
      /\ desk \in [selected : Feedback \cup {Absent}, issue : Issue \cup {Absent},
                   saving : BOOLEAN]
      /\ desk.selected = Absent => desk.issue = Absent /\ ~ Saving(calls[c])
  BY <1>0 DEF TypeInv, TypeOK, Chosen
<1>e. /\ EndOfSave(c) \in [selected : Feedback \cup {Absent}, issue : Issue \cup {Absent},
                          saving : BOOLEAN]
      /\ EndOfSave(c).selected = desk.selected /\ EndOfSave(c).issue = desk.issue
  BY <1>t DEF EndOfSave
<1>s. ASSUME NEW feedback \in Feedback \cup {Absent}, NEW issue \in Issue \cup {Absent}
      PROVE  /\ Showing(feedback, issue) \in
                  [selected : Feedback \cup {Absent}, issue : Issue \cup {Absent},
                   saving : BOOLEAN]
             /\ Showing(feedback, issue).selected = feedback
  BY <1>t DEF Showing
<1>1. CASE ListArrives(c)
  <2>1. calls[c].answer \in Lists
    BY <1>0, <1>1 DEF ListArrives, HasEnded, Fits
  <2>2. list' \in [page : Nat \ {0}, rows : SUBSET Feedback, total : Nat, loading : BOOLEAN]
    BY <1>1, <1>t, <2>1 DEF ListArrives, Lists
  <2> QED BY <1>0, <1>1, <1>t, <1>e, <2>2, Replaced DEF ListArrives, Ended
<1>2. CASE DetailArrives(c)
  <2>1. calls[c].answer \in Details
    BY <1>0, <1>2 DEF DetailArrives, HasEnded, Fits
  <2>2. /\ desk' \in [selected : Feedback \cup {Absent}, issue : Issue \cup {Absent},
                     saving : BOOLEAN]
        /\ desk'.selected # Absent
    BY <1>2, <1>s, <2>1, ConsoleAssumption DEF DetailArrives, Details
  <2>3. list' \in [page : Nat \ {0}, rows : SUBSET Feedback, total : Nat, loading : BOOLEAN]
    BY <1>2, <1>t DEF DetailArrives
  <2> QED BY <1>0, <1>2, <1>t, <2>2, <2>3, Replaced DEF DetailArrives, Ended
<1>3. CASE ReadFails(c)
  <2>1. list' \in [page : Nat \ {0}, rows : SUBSET Feedback, total : Nat, loading : BOOLEAN]
    BY <1>3, <1>t DEF ReadFails
  <2> QED BY <1>0, <1>3, <1>t, <1>e, <2>1, Replaced DEF ReadFails, Ended
<1>4. CASE SaveArrives(c)
  <2>1. calls[c].answer \in Issue
    BY <1>0, <1>4 DEF SaveArrives, HasEnded, Fits
  <2>2. /\ desk' \in [selected : Feedback \cup {Absent}, issue : Issue \cup {Absent},
                     saving : BOOLEAN]
        /\ desk'.selected # Absent
    BY <1>4, <1>s, <1>t, <2>1 DEF SaveArrives, HasEnded, Saving
  <2>3. list' \in [page : Nat \ {0}, rows : SUBSET Feedback, total : Nat, loading : BOOLEAN]
    BY <1>4, <1>t DEF SaveArrives, Loading
  <2>4. PICK filter \in Filters :
          calls' = [calls EXCEPT ![c] = Sent(Listing(list.page, filter, TRUE))]
    BY <1>4 DEF SaveArrives
  <2>5. Listing(list.page, filter, TRUE) \in Request
    BY <1>t DEF Listing, Request
  <2> QED BY <1>0, <1>t, <2>2, <2>3, <2>4, <2>5, Asking, Replaced
<1>5. CASE SaveFails(c)
  <2>1. /\ desk' \in [selected : Feedback \cup {Absent}, issue : Issue \cup {Absent},
                     saving : BOOLEAN]
        /\ desk'.selected = desk.selected /\ desk'.issue = desk.issue
    BY <1>5, <1>t DEF SaveFails
  <2> QED BY <1>0, <1>5, <1>t, <2>1, Replaced DEF SaveFails, Ended
<1> QED
  BY <1>1, <1>2, <1>3, <1>4, <1>5 DEF Arrive

LEMMA TypesKept == TypeInv /\ [Next]_vars => TypeInv'
<1> SUFFICES ASSUME TypeInv, [Next]_vars PROVE TypeInv'
  OBVIOUS
<1>t. PageSize \in Nat \ {0} /\ list.page \in Nat \ {0}
  BY ConsoleAssumption DEF TypeInv, TypeOK
<1>2. ASSUME NEW c \in Call,
             ShowIssueManager(c) \/ Search(c) \/ NextPage(c) \/ PreviousPage(c)
      PROVE  TypeInv'
  <2>1. PICK page \in Nat \ {0} : Load(c, page)
    BY <1>2, <1>t DEF ShowIssueManager, Search, NextPage, PreviousPage
  <2> QED BY <2>1, Loads
<1>3. ASSUME NEW c \in Call, NEW f \in Feedback, OpenFeedbackDetail(c, f)
      PROVE  TypeInv'
  <2> DEFINE request == [kind |-> "detail", feedback |-> f]
  <2>1. request \in Request /\ Send(c, request)
    BY <1>3 DEF OpenFeedbackDetail, Request
  <2>2. list' \in [page : Nat \ {0}, rows : SUBSET Feedback, total : Nat, loading : BOOLEAN]
    BY <1>3 DEF OpenFeedbackDetail, TypeInv, TypeOK
  <2>3. ~ Saving(Sent(request))
    BY DEF Saving, Sent
  <2>4. calls' = [calls EXCEPT ![c] = Sent(request)] /\ UNCHANGED <<disliked, raised, desk>>
    BY <1>3 DEF OpenFeedbackDetail, Send
  <2> HIDE DEF request
  <2>5. Sent(request) \in Exchange /\ Fits(Sent(request))
    BY <2>1, Asking
  <2> QED BY <2>2, <2>3, <2>4, <2>5, Replaced DEF TypeInv, TypeOK, Chosen
<1>4. ASSUME NEW c \in Call, CreateIssueForSelected(c) \/ SaveIssue(c)
      PROVE  TypeInv'
  BY <1>4, SavesRequest, Begins DEF CreateIssueForSelected, SaveIssue
<1>5. ASSUME NEW f \in Feedback, ChangeMind(f) \/ Elsewhere(f)
      PROVE  TypeInv'
  BY <1>5, <1>t DEF ChangeMind, Elsewhere, TypeInv, TypeOK, Fits, Chosen, Saving
<1>6. CASE UNCHANGED vars
  BY <1>6 DEF vars, TypeInv, TypeOK, Fits, Chosen, Saving
<1> QED
  BY <1>2, <1>3, <1>4, <1>5, <1>6, Served, Arrived, ConsoleAssumption DEF Next

\* Every variable keeps its type, however many requests are in flight.
THEOREM TypeCorrect == Spec => []TypeOK
<1>1. TypeInv => TypeOK
  BY DEF TypeInv
<1> QED
  BY <1>1, Initially, TypesKept, PTL DEF Spec

-----------------------------------------------------------------------------
(* One save at a time.                                                     *)

\* The property, said of the requests in flight.
LEMMA SaveFlies ==
  ASSUME NEW c \in Call
  PROVE  SaveInFlight(c) <=> Saver(calls[c])
  BY DEF SaveInFlight, Saves, Saver, Saving

\* A step that replaces one request: it begins a save, ends one, or neither.
LEMMA Kept ==
  ASSUME TypeInv, OneSaveAtATime, NEW c \in Call, NEW x,
         calls' = [calls EXCEPT ![c] = x],
         \/ (Saver(x) <=> Saver(calls[c])) /\ desk'.saving = desk.saving
         \/ Saver(x) /\ ~ desk.saving /\ desk'.saving = TRUE
         \/ ~ Saver(x) /\ Saver(calls[c]) /\ desk'.saving = FALSE
  PROVE  OneSaveAtATime'
<1>1. \A d \in Call : calls'[d] = IF d = c THEN x ELSE calls[d]
  BY DEF TypeInv, TypeOK
<1>2. /\ desk.saving <=> \E d \in Call : Saver(calls[d])
      /\ \A d, e \in Call : Saver(calls[d]) /\ Saver(calls[e]) => d = e
  BY SaveFlies DEF OneSaveAtATime
<1>3. desk.saving \in BOOLEAN
  BY DEF TypeInv, TypeOK
<1> HIDE DEF Saver
<1>4. /\ desk'.saving <=> \E d \in Call : Saver(calls'[d])
      /\ \A d, e \in Call : Saver(calls'[d]) /\ Saver(calls'[e]) => d = e
  <2>1. CASE (Saver(x) <=> Saver(calls[c])) /\ desk'.saving = desk.saving
    <3>1. \A d \in Call : Saver(calls'[d]) <=> Saver(calls[d])
      BY <1>1, <2>1
    <3> QED BY <1>2, <2>1, <3>1
  <2>2. CASE Saver(x) /\ ~ desk.saving /\ desk'.saving = TRUE
    <3>1. \A d \in Call : Saver(calls'[d]) <=> d = c
      BY <1>1, <1>2, <2>2
    <3> QED BY <2>2, <3>1
  <2>3. CASE ~ Saver(x) /\ Saver(calls[c]) /\ desk'.saving = FALSE
    <3>1. \A d \in Call : ~ Saver(calls'[d])
      BY <1>1, <1>2, <2>3
    <3> QED BY <2>3, <3>1
  <2> QED BY <2>1, <2>2, <2>3
<1>5. \A d \in Call : SaveInFlight(d)' <=> Saver(calls'[d])
  BY DEF SaveInFlight, Saves, Saver, Saving
<1> QED
  BY <1>4, <1>5 DEF OneSaveAtATime

\* A request as it leaves the page.
LEMMA Leaves ==
  ASSUME NEW c \in Call, calls[c] = Absent, NEW request \in Request
  PROVE  /\ ~ Saver(calls[c])
         /\ Saver(Sent(request)) <=>
              \/ request.kind \in {"create", "update"}
              \/ request.kind = "list" /\ request.saves
<1>1. Sent(request).request = request /\ Sent(request) # Absent
  BY Asking, NotACall
<1> QED
  BY <1>1 DEF Saver, Saving

\* A request the server does not refuse has an answer.
LEMMA Answered ==
  ASSUME TypeInv, NEW c \in Call,
         ServeList(c) \/ ServeDetail(c) \/ ServeCreate(c) \/ ServeUpdate(c)
  PROVE  \E answer \in Answer : Reply(c, answer)
<1>0. /\ calls[c] \in Exchange /\ disliked \subseteq Feedback
      /\ raised \subseteq Feedback
  BY InFlight DEF ServeList, ServeDetail, ServeCreate, ServeUpdate, IsSent, TypeInv, TypeOK
<1> DEFINE r == calls[c].request
<1>1. CASE ServeList(c)
  <2>1. Matching(r.filter) \subseteq Feedback /\ Rows(r.filter, r.page) \subseteq Feedback
    BY <1>0 DEF Matching, Rows
  <2>2. Cardinality(Matching(r.filter)) \in Nat
    BY <2>1, Counted
  <2>3. [rows |-> Rows(r.filter, r.page), total |-> Cardinality(Matching(r.filter))] \in Answer
    BY <2>1, <2>2 DEF Answer
  <2> QED BY <1>1, <2>3 DEF ServeList
<1>2. CASE ServeDetail(c)
  <2>1. r.feedback \in Feedback
    BY <1>0, <1>2 DEF ServeDetail
  <2>2. IssueOf(r.feedback) \in Issue \cup {Absent}
    BY <1>0, <2>1 DEF IssueOf, Issue
  <2>3. [feedback |-> r.feedback, issue |-> IssueOf(r.feedback)] \in Answer
    BY <2>1, <2>2 DEF Answer
  <2> QED BY <1>2, <2>3 DEF ServeDetail
<1>3. CASE ServeCreate(c)
  <2>1. r.feedback \in Feedback
    BY <1>0, <1>3 DEF ServeCreate
  <2>3. [of |-> r.feedback] \in Answer
    BY <2>1 DEF Issue, Answer
  <2> QED BY <1>3, <2>3 DEF ServeCreate
<1>4. CASE ServeUpdate(c)
  <2>1. r.issue \in Feedback
    BY <1>0, <1>4 DEF ServeUpdate, IsSent, Exchange, Request
  <2>2. [of |-> r.issue] \in Answer
    BY <2>1 DEF Issue, Answer
  <2> QED BY <1>4, <2>2 DEF ServeUpdate
<1> QED
  BY <1>1, <1>2, <1>3, <1>4

\* The server leaves the request as it was, whatever it answers.
LEMMA ServedSaves ==
  ASSUME TypeInv, OneSaveAtATime, NEW c \in Call, Serve(c)
  PROVE  OneSaveAtATime'
<1>0. calls[c] # Absent /\ calls[c] \in Exchange /\ desk' = desk
  BY InFlight DEF Serve, ServeList, ServeDetail, ServeCreate, ServeUpdate, Refuse, IsSent, Page
<1>1. PICK x : calls' = [calls EXCEPT ![c] = x] /\ x.request = calls[c].request /\ x \in Exchange
  <2>1. ASSUME NEW answer \in Answer, Reply(c, answer)
        PROVE  \E x : calls' = [calls EXCEPT ![c] = x] /\ x.request = calls[c].request /\ x \in Exchange
    <3> DEFINE y == [calls[c] EXCEPT !.state = "answered", !.answer = answer]
               z == [calls[c] EXCEPT !.state = "failed"]
    <3>1. /\ y \in Exchange /\ y.request = calls[c].request
          /\ z \in Exchange /\ z.request = calls[c].request
      BY <1>0 DEF Exchange
    <3>2. calls' = [calls EXCEPT ![c] = y] \/ calls' = [calls EXCEPT ![c] = z]
      BY <2>1 DEF Reply, TypeInv, TypeOK
    <3> HIDE DEF y, z
    <3> QED BY <3>1, <3>2
  <2>2. CASE Refuse(c)
    <3> DEFINE z == [calls[c] EXCEPT !.state = "failed"]
    <3>1. z \in Exchange /\ z.request = calls[c].request
      BY <1>0 DEF Exchange
    <3>2. calls' = [calls EXCEPT ![c] = z]
      BY <2>2 DEF Refuse
    <3> HIDE DEF z
    <3> QED BY <3>1, <3>2
  <2>3. CASE ~ Refuse(c)
    <3>1. PICK answer \in Answer : Reply(c, answer)
      BY <1>0, <2>3, Answered DEF Serve
    <3> QED BY <2>1, <3>1
  <2> QED BY <2>2, <2>3
<1>2. Saver(x) <=> Saver(calls[c])
  BY <1>0, <1>1, NotACall DEF Saver, Saving
<1> HIDE DEF Saver
<1> QED
  BY <1>0, <1>1, <1>2, Kept

\* An answer that ends a save takes the one there was with it.
LEMMA ArrivedSaves ==
  ASSUME TypeInv, OneSaveAtATime, NEW c \in Call, Arrive(c)
  PROVE  OneSaveAtATime'
<1>0. calls[c] # Absent /\ ~ Saver(Absent)
  BY DEF Arrive, ListArrives, DetailArrives, ReadFails, SaveArrives, SaveFails, HasEnded, Saver
<1>d. desk \in [selected : Feedback \cup {Absent}, issue : Issue \cup {Absent},
                saving : BOOLEAN]
  BY DEF TypeInv, TypeOK
<1>1. CASE ListArrives(c) \/ ReadFails(c)
  <2>1. calls' = [calls EXCEPT ![c] = Absent] /\ desk' = EndOfSave(c)
    BY <1>1 DEF ListArrives, ReadFails, Ended
  <2>2. calls[c].request.kind \in {"list", "detail"}
    BY <1>1 DEF ListArrives, ReadFails, HasEnded
  <2>3. Saver(calls[c]) <=> Saves(c)
    BY <1>0, <2>2 DEF Saver, Saving, Saves
  <2>4. IF Saver(calls[c]) THEN desk'.saving = FALSE ELSE desk'.saving = desk.saving
    BY <1>d, <2>1, <2>3 DEF EndOfSave
  <2> QED BY <1>0, <2>1, <2>4, Kept
<1>2. CASE DetailArrives(c)
  <2>1. calls' = [calls EXCEPT ![c] = Absent] /\ desk'.saving = desk.saving
    BY <1>2, <1>d DEF DetailArrives, Ended, Showing
  <2>2. ~ Saver(calls[c])
    BY <1>2 DEF DetailArrives, HasEnded, Saver, Saving
  <2> QED BY <1>0, <2>1, <2>2, Kept
<1>3. CASE SaveArrives(c)
  <2>1. Saver(calls[c]) /\ desk'.saving = desk.saving
    BY <1>0, <1>3, <1>d DEF SaveArrives, HasEnded, Saver, Saving, Showing
  <2>2. PICK filter \in Filters :
          calls' = [calls EXCEPT ![c] = Sent(Listing(list.page, filter, TRUE))]
    BY <1>3 DEF SaveArrives
  <2>3. Listing(list.page, filter, TRUE) \in Request
    BY DEF Listing, Request, TypeInv, TypeOK
  <2>4. Saver(Sent(Listing(list.page, filter, TRUE)))
    BY <2>3, Asking, NotACall DEF Saver, Listing
  <2> QED BY <2>1, <2>2, <2>4, Kept
<1>4. CASE SaveFails(c)
  <2>1. /\ calls' = [calls EXCEPT ![c] = Absent] /\ desk'.saving = FALSE
        /\ Saver(calls[c])
    BY <1>0, <1>4, <1>d DEF SaveFails, Ended, HasEnded, Saver, Saving
  <2> QED BY <1>0, <2>1, Kept
<1> QED
  BY <1>1, <1>2, <1>3, <1>4 DEF Arrive

LEMMA SavesKept == TypeInv /\ OneSaveAtATime /\ [Next]_vars => OneSaveAtATime'
<1> SUFFICES ASSUME TypeInv, OneSaveAtATime, [Next]_vars PROVE OneSaveAtATime'
  OBVIOUS
<1>0. desk \in [selected : Feedback \cup {Absent}, issue : Issue \cup {Absent},
                saving : BOOLEAN]
  BY DEF TypeInv, TypeOK
<1>1. ASSUME desk'.saving = desk.saving, UNCHANGED calls
      PROVE  OneSaveAtATime'
  BY <1>1 DEF OneSaveAtATime, SaveInFlight, Saves
<1>3. ASSUME NEW c \in Call,
             ShowIssueManager(c) \/ Search(c) \/ NextPage(c) \/ PreviousPage(c)
      PROVE  OneSaveAtATime'
  <2>1. PICK page \in Nat \ {0} : Load(c, page)
    BY <1>3, ConsoleAssumption
       DEF ShowIssueManager, Search, NextPage, PreviousPage, TypeInv, TypeOK
  <2>2. PICK filter \in Filters : Send(c, Listing(page, filter, FALSE))
    BY <2>1 DEF Load
  <2> DEFINE request == Listing(page, filter, FALSE)
  <2>3. request \in Request /\ request.kind = "list" /\ ~ request.saves
    BY DEF Listing, Request
  <2> HIDE DEF request
  <2>4. ~ Saver(calls[c]) /\ ~ Saver(Sent(request))
    BY <2>2, <2>3, Leaves DEF Send
  <2>5. calls' = [calls EXCEPT ![c] = Sent(request)] /\ desk'.saving = desk.saving
    BY <2>1, <2>2 DEF Load, Send, request
  <2> QED BY <2>4, <2>5, Kept
<1>4. ASSUME NEW c \in Call, NEW f \in Feedback, OpenFeedbackDetail(c, f)
      PROVE  OneSaveAtATime'
  <2> DEFINE request == [kind |-> "detail", feedback |-> f]
  <2>1. request \in Request /\ request.kind = "detail"
    BY DEF Request
  <2>2. Send(c, request) /\ UNCHANGED desk
    BY <1>4 DEF OpenFeedbackDetail
  <2> HIDE DEF request
  <2>3. ~ Saver(calls[c]) /\ ~ Saver(Sent(request))
    BY <2>1, <2>2, Leaves DEF Send
  <2> QED BY <2>2, <2>3, Kept DEF Send
<1>5. ASSUME NEW c \in Call, NEW request \in Request, request.kind \in {"create", "update"},
             SaveWith(c, request)
      PROVE  OneSaveAtATime'
  <2>1. /\ calls[c] = Absent /\ calls' = [calls EXCEPT ![c] = Sent(request)]
        /\ ~ desk.saving /\ desk'.saving = TRUE
    BY <1>0, <1>5 DEF SaveWith, Send
  <2>2. Saver(Sent(request))
    BY <1>5, <2>1, Leaves
  <2> QED BY <2>1, <2>2, Kept
<1>6. ASSUME NEW c \in Call, CreateIssueForSelected(c)
      PROVE  OneSaveAtATime'
  BY <1>5, <1>6, SavesRequest DEF CreateIssueForSelected
<1>7. ASSUME NEW c \in Call, SaveIssue(c)
      PROVE  OneSaveAtATime'
  BY <1>5, <1>7, SavesRequest DEF SaveIssue
<1>8. ASSUME NEW f \in Feedback, ChangeMind(f) \/ Elsewhere(f)
      PROVE  OneSaveAtATime'
  BY <1>1, <1>8 DEF ChangeMind, Elsewhere
<1>9. CASE UNCHANGED vars
  BY <1>1, <1>9 DEF vars
<1> QED
  BY <1>3, <1>4, <1>6, <1>7, <1>8, <1>9, ServedSaves, ArrivedSaves,
     ConsoleAssumption DEF Next

\* The page saves one thing at a time and disables its buttons exactly as long,
\* whatever overlaps, is lost or is refused (createIssueForSelected, saveIssue).
THEOREM SavesApart == Spec => []OneSaveAtATime
<1>1. Init => TypeInv /\ OneSaveAtATime
  <2>1. Init => OneSaveAtATime
    BY DEF Init, OneSaveAtATime, SaveInFlight
  <2> QED BY <2>1, Initially
<1>2. TypeInv /\ OneSaveAtATime /\ [Next]_vars => (TypeInv /\ OneSaveAtATime)'
  BY TypesKept, SavesKept
<1> QED
  BY <1>1, <1>2, PTL DEF Spec
=============================================================================
