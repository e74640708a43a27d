---------------------------- MODULE IssueConsole ----------------------------
(***************************************************************************)
(* The issue manager of the web page (App.vue) and the routes it calls:    *)
(* an administrator pages through the disliked feedback, opens one, raises *)
(* an issue of it and writes down what was found.  Several requests are in *)
(* flight at once, their answers arrive in any order and some are lost,    *)
(* while visitors and other administrators change what the routes read.    *)
(*                                                                         *)
(* Feedback is numbered in the order of the list, newest first, and an     *)
(* issue is known by the feedback it was raised of.  What the form and the *)
(* messages say is left out, as no property depends on it.                 *)
(***************************************************************************)
EXTENDS Naturals, FiniteSets

CONSTANTS
  N,          \* how much feedback there is
  PageSize,   \* page_size of the list
  Call,       \* requests that may be in flight together
  Filters,    \* the filters in use
  Fickle,     \* feedback whose visitors change their minds
  Shared,     \* feedback of which other administrators raise issues as well
  Absent      \* in place of a request, a selection or an issue that is not there

Feedback == 1 .. N

ASSUME ConsoleAssumption ==
  /\ N \in Nat /\ PageSize \in Nat \ {0} /\ Filters \subseteq {"all", "raised", "unraised"}
  /\ Fickle \subseteq Feedback /\ Shared \subseteq Feedback /\ Absent \notin Feedback

VARIABLES
  disliked,   \* the feedback that is a dislike at present
  raised,     \* the feedback that has an issue
  list,       \* the list on the page and its state
  desk,       \* the feedback on the page and the issue under it
  calls       \* the requests in flight, with their answers

vars == <<disliked, raised, list, desk, calls>>

Issue == [of : Feedback]

Request ==
  [kind : {"list"}, page : Nat \ {0}, filter : Filters, saves : BOOLEAN]
    \cup [kind : {"detail", "create"}, feedback : Feedback]
    \cup [kind : {"update"}, issue : Feedback]

Answer ==
  [rows : SUBSET Feedback, total : Nat]
    \cup [feedback : Feedback, issue : Issue \cup {Absent}] \cup Issue \cup {Absent}

\* A request in flight and what has become of it.
Exchange == [request : Request, state : {"sent", "answered", "failed"}, answer : Answer]

ASSUME AbsentAssumption == Absent \notin Exchange

Init ==
  /\ disliked = Feedback
  /\ raised = {}
  /\ list = [page |-> 1, rows |-> {}, total |-> 0, loading |-> FALSE]
  /\ desk = [selected |-> Absent, issue |-> Absent, saving |-> FALSE]
  /\ calls = [c \in Call |-> Absent]

-----------------------------------------------------------------------------
(* The page sends requests.                                                *)

Sent(request) == [request |-> request, state |-> "sent", answer |-> Absent]

Send(c, request) ==
  /\ calls[c] = Absent
  /\ calls' = [calls EXCEPT ![c] = Sent(request)]
  /\ UNCHANGED <<disliked, raised>>

\* The filters may be changed at any time and are read when a list is asked for.
Listing(page, filter, saves) ==
  [kind |-> "list", page |-> page, filter |-> filter, saves |-> saves]

\* loadDislikedFeedbacks up to its await
Loading(page) == [list EXCEPT !.page = page, !.loading = TRUE]

Load(c, page) ==
  /\ list' = Loading(page)
  /\ \E filter \in Filters : Send(c, Listing(page, filter, FALSE))
  /\ UNCHANGED desk

ShowIssueManager(c) == list.rows = {} /\ Load(c, 1)
Search(c)           == ~ list.loading /\ Load(c, 1)
NextPage(c)         == list.page * PageSize < list.total /\ Load(c, list.page + 1)

\* Mutation: the button for the previous page is never disabled.
PreviousPageAlways(c) == list.page > 0 /\ Load(c, list.page - 1)

PreviousPage(c)     == list.page > 1 /\ Load(c, list.page - 1)

OpenFeedbackDetail(c, f) ==
  /\ f \in list.rows
  /\ list' = [list EXCEPT !.loading = TRUE]
  /\ Send(c, [kind |-> "detail", feedback |-> f])
  /\ UNCHANGED desk

SaveWith(c, request) ==
  /\ ~ desk.saving
  /\ desk' = [desk EXCEPT !.saving = TRUE]
  /\ Send(c, request)
  /\ UNCHANGED list

CreateIssueForSelected(c) ==
  /\ desk.selected # Absent /\ desk.issue = Absent
  /\ SaveWith(c, [kind |-> "create", feedback |-> desk.selected])

SaveIssue(c) ==
  /\ desk.issue # Absent
  /\ SaveWith(c, [kind |-> "update", issue |-> desk.issue.of])

-----------------------------------------------------------------------------
(* The server handles them.                                                *)

IsSent(c, kind) ==
  calls[c] # Absent /\ calls[c].state = "sent" /\ calls[c].request.kind = kind

\* The answer arrives, or is lost on its way.
Reply(c, answer) ==
  \/ calls' = [calls EXCEPT ![c].state = "answered", ![c].answer = answer]
  \/ calls' = [calls EXCEPT ![c].state = "failed"]

Page == UNCHANGED <<disliked, list, desk>>

\* _apply_disliked_filters
Matching(filter) ==
  {f \in disliked : CASE filter = "all"      -> TRUE
                      [] filter = "raised"   -> f \in raised
                      [] filter = "unraised" -> f \notin raised}

\* The rows of a page: those with the right number of matching ones before.
Rows(filter, page) ==
  {f \in Matching(filter) :
     LET before == Cardinality({g \in Matching(filter) : g < f})
     IN  (page - 1) * PageSize <= before /\ before < page * PageSize}

ServeList(c) ==
  /\ IsSent(c, "list")
  /\ LET r == calls[c].request
     IN  Reply(c, [rows  |-> Rows(r.filter, r.page),
                   total |-> Cardinality(Matching(r.filter))])
  /\ UNCHANGED raised

IssueOf(f) == IF f \in raised THEN [of |-> f] ELSE Absent

ServeDetail(c) ==
  /\ IsSent(c, "detail")
  /\ calls[c].request.feedback \in disliked
  /\ LET f == calls[c].request.feedback
     IN  Reply(c, [feedback |-> f, issue |-> IssueOf(f)])
  /\ UNCHANGED raised

\* An issue that is there already is answered as it is.
ServeCreate(c) ==
  /\ IsSent(c, "create")
  /\ calls[c].request.feedback \in disliked
  /\ raised' = raised \cup {calls[c].request.feedback}
  /\ Reply(c, [of |-> calls[c].request.feedback])

ServeUpdate(c) ==
  /\ IsSent(c, "update")
  /\ Reply(c, [of |-> calls[c].request.issue])
  /\ UNCHANGED raised

\* The request gets lost, or is refused: feedback that is no dislike any
\* more, a transition or an edit the tracker does not admit, a database error.
Refuse(c) ==
  /\ calls[c] # Absent /\ calls[c].state = "sent"
  /\ calls' = [calls EXCEPT ![c].state = "failed"]
  /\ UNCHANGED raised

Serve(c) ==
  /\ ServeList(c) \/ ServeDetail(c) \/ ServeCreate(c) \/ ServeUpdate(c) \/ Refuse(c)
  /\ Page

-----------------------------------------------------------------------------
(* Answers arrive at the page.                                             *)

Ended(c) == calls' = [calls EXCEPT ![c] = Absent]

HasEnded(c, state, kinds) ==
  /\ calls[c] # Absent
  /\ calls[c].state = state /\ calls[c].request.kind \in kinds
  /\ UNCHANGED <<disliked, raised>>

Saves(c) == calls[c].request.kind = "list" /\ calls[c].request.saves

\* Mutation: a save whose list could not be loaded is never over.
EndOfSaveUnlessFailed(c) ==
  IF Saves(c) /\ calls[c].state = "answered" THEN [desk EXCEPT !.saving = FALSE] ELSE desk

\* A save is over when the list it reloads has been dealt with.
EndOfSave(c) == IF Saves(c) THEN [desk EXCEPT !.saving = FALSE] ELSE desk

ListArrives(c) ==
  /\ HasEnded(c, "answered", {"list"})
  /\ list' = [list EXCEPT !.rows = calls[c].answer.rows, !.loading = FALSE,
                          !.total = calls[c].answer.total]
  /\ desk' = EndOfSave(c)
  /\ Ended(c)

Showing(feedback, issue) == [desk EXCEPT !.selected = feedback, !.issue = issue]

DetailArrives(c) ==
  /\ HasEnded(c, "answered", {"detail"})
  /\ list' = [list EXCEPT !.loading = FALSE]
  /\ desk' = Showing(calls[c].answer.feedback, calls[c].answer.issue)
  /\ Ended(c)

ReadFails(c) ==
  /\ HasEnded(c, "failed", {"list", "detail"})
  /\ list' = [list EXCEPT !.loading = FALSE]
  /\ desk' = EndOfSave(c)
  /\ Ended(c)

\* Mutation: the buttons are enabled as soon as the answer is there, and once
\* more when the list has been loaded.
SaveArrivesEnabling(c) ==
  /\ HasEnded(c, "answered", {"create", "update"})
  /\ desk' = [Showing(desk.selected, calls[c].answer) EXCEPT !.saving = FALSE]
  /\ list' = Loading(list.page)
  /\ \E filter \in Filters :
       calls' = [calls EXCEPT ![c] = Sent(Listing(list.page, filter, TRUE))]

\* The issue is put under whatever feedback is selected by now, and the list
\* is loaded again before the save is over.
SaveArrives(c) ==
  /\ HasEnded(c, "answered", {"create", "update"})
  /\ desk' = Showing(desk.selected, calls[c].answer)
  /\ list' = Loading(list.page)
  /\ \E filter \in Filters :
       calls' = [calls EXCEPT ![c] = Sent(Listing(list.page, filter, TRUE))]

SaveFails(c) ==
  /\ HasEnded(c, "failed", {"create", "update"})
  /\ desk' = [desk EXCEPT !.saving = FALSE]
  /\ Ended(c)
  /\ UNCHANGED list

Arrive(c) ==
  \/ ListArrives(c) \/ DetailArrives(c) \/ ReadFails(c)
  \/ SaveArrives(c) \/ SaveFails(c)

-----------------------------------------------------------------------------
(* Everyone else.                                                          *)

\* A visitor replaces a dislike by a like or the reverse.
ChangeMind(f) ==
  /\ disliked' = IF f \in disliked THEN disliked \ {f} ELSE disliked \cup {f}
  /\ UNCHANGED <<raised, list, desk, calls>>

\* Another administrator raises the issue of a dislike.
Elsewhere(f) ==
  /\ f \in disliked
  /\ raised' = raised \cup {f}
  /\ UNCHANGED <<disliked, list, desk, calls>>

Next ==
  \/ \E c \in Call :
       \/ ShowIssueManager(c) \/ Search(c) \/ NextPage(c) \/ PreviousPage(c)
       \/ \E f \in Feedback : OpenFeedbackDetail(c, f)
       \/ CreateIssueForSelected(c) \/ SaveIssue(c)
       \/ Serve(c) \/ Arrive(c)
  \/ \E f \in Fickle : ChangeMind(f)
  \/ \E f \in Shared : Elsewhere(f)

Spec == Init /\ [][Next]_vars

\* MySQL is taken to answer the handlers, whose statements have no timeout, and
\* the network to deliver an answer or an error, as the page has none either;
\* the browser then runs what waits for the answer.
FairSpec == Spec /\ \A c \in Call : WF_vars(Serve(c)) /\ WF_vars(Arrive(c))

-----------------------------------------------------------------------------
(* Properties                                                              *)

\* Every variable stays in its type; pages are numbered from 1, as the route
\* requires.
TypeOK ==
  /\ disliked \subseteq Feedback
  /\ raised \subseteq Feedback
  /\ list \in [page : Nat \ {0}, rows : SUBSET Feedback, total : Nat,
               loading : BOOLEAN]
  /\ desk \in [selected : Feedback \cup {Absent}, issue : Issue \cup {Absent},
               saving : BOOLEAN]
  /\ calls \in [Call -> Exchange \cup {Absent}]

SaveInFlight(c) ==
  calls[c] # Absent /\ (calls[c].request.kind \in {"create", "update"} \/ Saves(c))

\* The page saves one thing at a time, the reload of the list included: no two
\* of its forms are on their way to the tracker, and the buttons are disabled
\* just as long (issueSaving, over two awaits and whatever fails or overlaps in
\* between).
OneSaveAtATime ==
  /\ desk.saving <=> \E c \in Call : SaveInFlight(c)
  /\ \A c, d \in Call : SaveInFlight(c) /\ SaveInFlight(d) => c = d

\* The issue on the page is that of the feedback on the page: "Disliked
\* feedback detail joins: agent_feedback -> ... -> optional agent_issue"
\* (docs/disliked-feedback-issue-flow.md:128-137).  createIssueForSelected and
\* saveIssue put theirs under whatever is selected when it arrives.
IssueIsOfFeedback == desk.issue # Absent => desk.issue.of = desk.selected

\* A save that was begun comes to an end, so that the page can save again
\* (issueSaving is reset after the list is reloaded, whatever failed).
SavesEnd == desk.saving ~> ~ desk.saving
=============================================================================
