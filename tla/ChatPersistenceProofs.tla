----------------------- MODULE ChatPersistenceProofs ------------------------
(***************************************************************************)
(* Theorems about ChatPersistence, for every set of requests, every pool   *)
(* size and any number of crashes.                                         *)
(***************************************************************************)
EXTENDS ChatPersistence, FiniteSetTheorems, TLAPS

-----------------------------------------------------------------------------
(* The inductive invariant: what the database and the open session of a    *)
(* chat hold is determined by the stage of its handler.                    *)

Ended == Errors \cup {"answer"}

StartedRows ==
  [conversation |-> [status |-> "active", count |-> 1],
   messages     |-> {"user"},
   call         |-> [status |-> "calling", reply |-> "none",
                     error |-> "none"]]

SettledCall(o) ==
  IF o = "answer"
  THEN [status |-> "success", reply |-> "assistant", error |-> "none"]
  ELSE [status |-> IF o = "timeout" THEN "timeout" ELSE "failed",
        reply |-> "none", error |-> o]

SettledMessages(o) == IF o = "answer" THEN {"user", "assistant"} ELSE {"user"}

SettledRows(o) ==
  [conversation |-> [status |-> "ended",
                     count  |-> IF o = "answer" THEN 2 ELSE 1],
   messages     |-> SettledMessages(o),
   call         |-> SettledCall(o)]

\* What the session of a handler at stage s has flushed so far.
ViewAt(s, o) ==
  CASE s = "insert_conversation" -> NoRows
    [] s \in {"insert_user", "insert_call", "summarize"} ->
         [conversation |-> [status |-> "active", count |-> 0],
          messages     |-> IF s = "insert_user" THEN {} ELSE {"user"},
          call         |-> IF s = "summarize" THEN StartedRows.call
                                              ELSE NoRows.call]
    [] s \in {"commit_start", "insert_assistant"} -> StartedRows
    [] s \in {"update_call", "end_conversation"} ->
         [conversation |-> StartedRows.conversation,
          messages     |-> SettledMessages(o),
          call         |-> IF s = "update_call" THEN StartedRows.call
                                                ELSE SettledCall(o)]
    [] OTHER -> SettledRows(o)

RowsMatchStage(r) ==
  /\ stage[r] \in {"idle", "init"} \cup InitStages => db[r] = NoRows
  /\ stage[r] \in {"calling", "save"} \cup ResultStages => db[r] = StartedRows
  /\ stage[r] = "respond" => db[r] = SettledRows(outcome[r])
  /\ stage[r] = "done" =>
       \/ db[r] \in {NoRows, StartedRows}
       \/ outcome[r] \in Ended /\ db[r] = SettledRows(outcome[r])

OutcomeMatchesStage(r) ==
  /\ stage[r] \in {"save", "respond"} \cup ResultStages => outcome[r] \in Ended
  /\ stage[r] = "insert_assistant" => outcome[r] = "answer"

AnswerMatchesRows(r) ==
  /\ stage[r] # "done" <=> answer[r] = "none"
  /\ answer[r] \in Ended => /\ answer[r] = outcome[r]
                            /\ db[r] = SettledRows(outcome[r])

SessionMatchesStage(r) ==
  /\ r \in open <=> stage[r] \in InSession
  /\ stage[r] \in InSession => view[r] = ViewAt(stage[r], outcome[r])

ChatInv(r) == /\ RowsMatchStage(r) /\ OutcomeMatchesStage(r)
              /\ AnswerMatchesRows(r) /\ SessionMatchesStage(r)

PoolInv == IsFiniteSet(open) /\ Cardinality(open) <= PoolSize

IInv == TypeOK /\ PoolInv /\ \A r \in Request : ChatInv(r)

-----------------------------------------------------------------------------
(* Type correctness: one lemma for each kind of step, then the actions.    *)

\* Whatever happens on the wire is given a name the chat service knows.
LEMMA ClassifyType == \A w \in Wire : Classify(w) \in Outcome
  BY DEF Wire, Classify, OfResponse, Outcome, Errors, Successful

LEMMA NoRowsType == NoRows \in Rows
  BY DEF NoRows, Rows, ConversationRows, CallRows

LEMMA TypeInit == Init => TypeOK
  BY NoRowsType, PoolAssumption DEF Init, TypeOK, Stages, Unanswered, Answers

LEMMA BeginType ==
  ASSUME TypeOK, NEW r \in Request, NEW s, NEW t \in Stages, Begin(r, s, t)
  PROVE  TypeOK'
  BY DEF TypeOK, Begin

LEMMA FlushType ==
  ASSUME TypeOK, NEW r \in Request, NEW s, NEW t \in Stages, NEW w \in Rows,
         Flush(r, s, t, w)
  PROVE  TypeOK'
  BY DEF TypeOK, Flush

LEMMA CommitType ==
  ASSUME TypeOK, NEW r \in Request, NEW s, NEW t \in Stages, Commit(r, s, t)
  PROVE  TypeOK'
  BY NoRowsType DEF TypeOK, Commit, EndSession

LEMMA RespondType ==
  ASSUME TypeOK, NEW r \in Request, NEW a \in Answers, Respond(r, a),
         db' \in [Request -> Rows], view' \in [Request -> Rows],
         open' \subseteq Request
  PROVE  TypeOK'
  BY DEF TypeOK, Respond, Stages

\* A failed transaction ends like a committed one: with a well-typed response.
LEMMA FailureType ==
  ASSUME TypeOK, NEW r \in Request, NEW S, NEW s, NEW t, NEW a \in Answers,
         RollBack(r, S, a) \/ LoseAck(r, s, a) \/ PoolExhausted(r, t, a)
  PROVE  TypeOK'
<1>1. Respond(r, a)
  BY DEF RollBack, LoseAck, PoolExhausted
<1>2. /\ db' \in [Request -> Rows]
      /\ view' \in [Request -> Rows]
      /\ open' \subseteq Request
  BY NoRowsType DEF TypeOK, RollBack, LoseAck, PoolExhausted, EndSession
<1>. QED
  BY <1>1, <1>2, RespondType

\* No step of a handler, of the provider or of a crash leaves the types.
LEMMA TypeStep == TypeOK /\ [Next]_vars => TypeOK'
<1> SUFFICES ASSUME TypeOK, [Next]_vars PROVE TypeOK'
  OBVIOUS
<1> USE DEF Stages, Unanswered, InSession, InitStages, ResultStages
<1>r. ASSUME NEW r \in Request
      PROVE  /\ view[r] \in Rows
             /\ outcome[r] \in Outcome \cup {"none"}
  BY DEF TypeOK
<1>1. ASSUME NEW r \in Request, Submit(r) PROVE TypeOK'
  BY <1>1 DEF Submit, TypeOK
<1>2. ASSUME NEW r \in Request, Start(r) PROVE TypeOK'
  <2>1. CASE BeginStart(r)
    BY <2>1, BeginType DEF BeginStart
  <2>2. CASE InsertConversation(r)
    <3>1. [view[r] EXCEPT !.conversation = [status |-> "active",
                                            count |-> 0]] \in Rows
      BY <1>r DEF Rows, ConversationRows
    <3>. QED
      BY <2>2, <3>1, FlushType DEF InsertConversation, TypeOK
  <2>3. CASE InsertUserMessage(r)
    <3>1. [view[r] EXCEPT !.messages = view[r].messages \cup {"user"}] \in Rows
      BY <1>r DEF Rows
    <3>. QED
      BY <2>3, <3>1, FlushType DEF InsertUserMessage, TypeOK
  <2>4. CASE InsertModelCall(r)
    <3>1. [view[r] EXCEPT !.call = [status |-> "calling", reply |-> "none",
                                    error |-> "none"]] \in Rows
      BY <1>r DEF Rows, CallRows
    <3>. QED
      BY <2>4, <3>1, FlushType DEF InsertModelCall, TypeOK
  <2>5. CASE SummarizeStart(r)
    <3>1. [view[r].conversation EXCEPT !.count = 1] \in ConversationRows
      BY <1>r DEF Rows, ConversationRows
    <3>2. [view[r] EXCEPT !.conversation =
             [view[r].conversation EXCEPT !.count = 1]] \in Rows
      BY <1>r, <3>1 DEF Rows
    <3>. QED
      BY <2>5, <3>2, FlushType DEF SummarizeStart
  <2>6. CASE CommitStart(r)
    BY <2>6, CommitType DEF CommitStart
  <2>7. CASE StartFails(r)
    BY <2>7, FailureType DEF StartFails, Answers
  <2>. QED
    BY <1>2, <2>1, <2>2, <2>3, <2>4, <2>5, <2>6, <2>7 DEF Start
<1>3. ASSUME NEW r \in Request, CallProvider(r) PROVE TypeOK'
  <2>1. CASE ProviderReturns(r)
    BY <2>1, ClassifyType DEF ProviderReturns, TypeOK
  <2>2. CASE ProviderCallEscapes(r)
    <3>1. "unhandled" \in Answers
      BY DEF Answers, Outcome
    <3>. QED
      BY <2>2, <3>1, RespondType DEF ProviderCallEscapes, TypeOK
  <2>. QED
    BY <1>3, <2>1, <2>2 DEF CallProvider
<1>4. ASSUME NEW r \in Request, SaveResult(r) PROVE TypeOK'
  <2>1. CASE BeginResult(r)
    BY <2>1, BeginType DEF BeginResult
  <2>2. CASE InsertAssistantMessage(r)
    <3>1. [view[r] EXCEPT !.messages = view[r].messages \cup {"assistant"}]
            \in Rows
      BY <1>r DEF Rows
    <3>. QED
      BY <2>2, <3>1, FlushType DEF InsertAssistantMessage, TypeOK
  <2>3. CASE UpdateCallSuccess(r)
    <3>1. [view[r] EXCEPT !.call = [status |-> "success",
                                    reply |-> "assistant",
                                    error |-> "none"]] \in Rows
      BY <1>r DEF Rows, CallRows
    <3>. QED
      BY <2>3, <3>1, FlushType DEF UpdateCallSuccess, TypeOK
  <2>4. CASE UpdateCallFailure(r)
    <3> DEFINE c == [status |-> IF outcome[r] = "timeout" THEN "timeout"
                                                          ELSE "failed",
                     reply |-> "none", error |-> outcome[r]]
    <3>1. c \in CallRows
      BY <1>r DEF CallRows
    <3>2. [view[r] EXCEPT !.call = c] \in Rows
      BY <1>r, <3>1 DEF Rows
    <3>. QED
      BY <2>4, <3>2, FlushType DEF UpdateCallFailure, TypeOK
  <2>5. CASE EndConversation(r)
    <3> DEFINE c == [status |-> "ended",
                     count |-> IF outcome[r] = "answer" THEN 2 ELSE 1]
    <3>1. c \in ConversationRows
      BY DEF ConversationRows
    <3>2. [view[r] EXCEPT !.conversation = c] \in Rows
      BY <1>r, <3>1 DEF Rows
    <3>. QED
      BY <2>5, <3>2, FlushType DEF EndConversation
  <2>6. CASE CommitResult(r)
    BY <2>6, CommitType DEF CommitResult
  <2>7. CASE ResultFails(r)
    BY <2>7, FailureType DEF ResultFails, Answers
  <2>8. CASE SendResponse(r)
    <3>1. outcome[r] \in Answers
      BY <1>r DEF Answers
    <3>. QED
      BY <2>8, <3>1, RespondType DEF SendResponse, TypeOK
  <2>. QED
    BY <1>4, <2>1, <2>2, <2>3, <2>4, <2>5, <2>6, <2>7, <2>8 DEF SaveResult
<1>5. CASE Crash
  BY <1>5, NoRowsType, PoolAssumption DEF Crash, TypeOK, Answers
<1>6. CASE UNCHANGED vars
  BY <1>6 DEF vars, TypeOK
<1>. QED
  BY <1>1, <1>2, <1>3, <1>4, <1>5, <1>6 DEF Next, Quiescent

\* Every variable of the chat flow keeps its type in every reachable state.
THEOREM TypeCorrect == Spec => []TypeOK
  BY TypeInit, TypeStep, PTL DEF Spec

-----------------------------------------------------------------------------
(* Each step of a handler, at its own chat and at the others.              *)

\* A step of one handler leaves everything about chat q as it was.
Same(q) ==
  /\ stage'[q] = stage[q] /\ outcome'[q] = outcome[q] /\ db'[q] = db[q]
  /\ view'[q] = view[q] /\ answer'[q] = answer[q]
  /\ q \in open' <=> q \in open

\* Handlers touch their own rows only, so the others' invariants carry over.
LEMMA OthersUntouched ==
  ASSUME TypeOK, NEW r \in Request, NEW q \in Request, q # r,
         Submit(r) \/ Start(r) \/ CallProvider(r) \/ SaveResult(r)
  PROVE  Same(q)
<1> USE DEF TypeOK, Same
<1>1. CASE Submit(r)
  BY <1>1 DEF Submit
<1>2. CASE Start(r)
  BY <1>2 DEF Start, BeginStart, Begin, InsertConversation, InsertUserMessage,
     InsertModelCall, SummarizeStart, Flush, CommitStart, Commit, EndSession,
     StartFails, RollBack, LoseAck, PoolExhausted, Respond
<1>3. CASE CallProvider(r)
  BY <1>3 DEF CallProvider, ProviderReturns, ProviderCallEscapes, Respond
<1>4. CASE SaveResult(r)
  BY <1>4 DEF SaveResult, BeginResult, Begin, InsertAssistantMessage,
     UpdateCallSuccess, UpdateCallFailure, EndConversation, Flush,
     CommitResult, Commit, EndSession, ResultFails, RollBack, LoseAck,
     PoolExhausted, SendResponse, Respond
<1>. QED
  BY <1>1, <1>2, <1>3, <1>4

LEMMA SameInv ==
  ASSUME NEW q \in Request, ChatInv(q), Same(q)
  PROVE  ChatInv(q)'
  BY DEF ChatInv, Same, RowsMatchStage, OutcomeMatchesStage, AnswerMatchesRows,
         SessionMatchesStage

\* What the building blocks do to the handler's own chat.
LEMMA BeginAt ==
  ASSUME TypeOK, NEW r \in Request, NEW s, NEW t, Begin(r, s, t)
  PROVE  /\ stage[r] = s /\ stage'[r] = t /\ view'[r] = db[r] /\ r \in open'
         /\ db'[r] = db[r] /\ outcome'[r] = outcome[r]
         /\ answer'[r] = answer[r]
  BY DEF TypeOK, Begin

LEMMA FlushAt ==
  ASSUME TypeOK, NEW r \in Request, NEW s, NEW t, NEW w, Flush(r, s, t, w)
  PROVE  /\ stage[r] = s /\ stage'[r] = t /\ view'[r] = w
         /\ open' = open /\ db'[r] = db[r] /\ outcome'[r] = outcome[r]
         /\ answer'[r] = answer[r]
  BY DEF TypeOK, Flush

LEMMA CommitAt ==
  ASSUME TypeOK, NEW r \in Request, NEW s, NEW t, Commit(r, s, t)
  PROVE  /\ stage[r] = s /\ stage'[r] = t /\ db'[r] = view[r]
         /\ r \notin open' /\ outcome'[r] = outcome[r]
         /\ answer'[r] = answer[r]
  BY DEF TypeOK, Commit, EndSession

\* A request that fails is done; its rows are what they were, or what its
\* session had flushed before the commit whose acknowledgement was lost.
LEMMA RollBackAt ==
  ASSUME TypeOK, NEW r \in Request, NEW S, NEW a, RollBack(r, S, a)
  PROVE  /\ stage[r] \in S /\ stage'[r] = "done" /\ answer'[r] = a
         /\ r \notin open' /\ outcome'[r] = outcome[r] /\ db'[r] = db[r]
  BY DEF TypeOK, RollBack, EndSession, Respond

LEMMA LoseAckAt ==
  ASSUME TypeOK, NEW r \in Request, NEW s, NEW a, LoseAck(r, s, a)
  PROVE  /\ stage[r] = s /\ stage'[r] = "done" /\ answer'[r] = a
         /\ r \notin open' /\ outcome'[r] = outcome[r] /\ db'[r] = view[r]
  BY DEF TypeOK, LoseAck, EndSession, Respond

LEMMA PoolExhaustedAt ==
  ASSUME TypeOK, NEW r \in Request, NEW s, NEW a, PoolExhausted(r, s, a)
  PROVE  /\ stage[r] = s /\ stage'[r] = "done" /\ answer'[r] = a
         /\ open' = open /\ outcome'[r] = outcome[r] /\ db'[r] = db[r]
  BY DEF TypeOK, PoolExhausted, Respond

-----------------------------------------------------------------------------
(* The invariant is inductive.                                             *)

LEMMA SubmitKeepsInv ==
  ASSUME TypeOK, NEW r \in Request, ChatInv(r), Submit(r)
  PROVE  ChatInv(r)'
  BY DEF Submit, TypeOK, ChatInv, RowsMatchStage, OutcomeMatchesStage,
     AnswerMatchesRows, SessionMatchesStage, InitStages, ResultStages,
     InSession, Ended, Errors

LEMMA StartKeepsInv ==
  ASSUME TypeOK, NEW r \in Request, ChatInv(r), Start(r)
  PROVE  ChatInv(r)'
<1> USE DEF ChatInv, RowsMatchStage, OutcomeMatchesStage, AnswerMatchesRows,
            SessionMatchesStage, InitStages, ResultStages, InSession, Ended,
            Errors
<1>1. CASE BeginStart(r)
  BY <1>1, BeginAt DEF BeginStart, ViewAt
<1>2. CASE InsertConversation(r)
  <2>1. view[r] = NoRows
    BY <1>2, FlushAt DEF InsertConversation, ViewAt
  <2>2. [view[r] EXCEPT !.conversation = [status |-> "active", count |-> 0]]
          = ViewAt("insert_user", outcome[r])
    BY <2>1 DEF NoRows, ViewAt
  <2>. QED
    BY <1>2, <2>2, FlushAt DEF InsertConversation
<1>3. CASE InsertUserMessage(r)
  <2>1. view[r] = ViewAt("insert_user", outcome[r])
    BY <1>3, FlushAt DEF InsertUserMessage
  <2>2. [view[r] EXCEPT !.messages = view[r].messages \cup {"user"}]
          = ViewAt("insert_call", outcome[r])
    BY <2>1 DEF NoRows, ViewAt
  <2>. QED
    BY <1>3, <2>2, FlushAt DEF InsertUserMessage
<1>4. CASE InsertModelCall(r)
  <2>1. view[r] = ViewAt("insert_call", outcome[r])
    BY <1>4, FlushAt DEF InsertModelCall
  <2>2. [view[r] EXCEPT !.call = [status |-> "calling", reply |-> "none",
                                  error |-> "none"]]
          = ViewAt("summarize", outcome[r])
    BY <2>1 DEF StartedRows, ViewAt
  <2>. QED
    BY <1>4, <2>2, FlushAt DEF InsertModelCall
<1>5. CASE SummarizeStart(r)
  <2>1. view[r] = ViewAt("summarize", outcome[r])
    BY <1>5, FlushAt DEF SummarizeStart
  <2> DEFINE c == [view[r].conversation EXCEPT !.count = 1]
  <2>2. c = [status |-> "active", count |-> 1]
    BY <2>1 DEF ViewAt
  <2>3. [view[r] EXCEPT !.conversation = c] = StartedRows
    <3> HIDE DEF c
    <3>. QED
      BY <2>1, <2>2 DEF StartedRows, ViewAt
  <2>. QED
    BY <1>5, <2>3, FlushAt DEF SummarizeStart, ViewAt
<1>6. CASE CommitStart(r)
  BY <1>6, CommitAt DEF CommitStart, ViewAt
<1>7. CASE StartFails(r)
  <2>1. CASE RollBack(r, InitStages \cup {"init"}, "no_record")
    BY <2>1, RollBackAt
  <2>2. CASE LoseAck(r, "commit_start", "no_record")
    BY <2>2, LoseAckAt DEF ViewAt
  <2>3. CASE PoolExhausted(r, "init", "no_record")
    BY <2>3, PoolExhaustedAt
  <2>. QED
    BY <1>7, <2>1, <2>2, <2>3 DEF StartFails
<1>. QED
  BY <1>1, <1>2, <1>3, <1>4, <1>5, <1>6, <1>7 DEF Start

LEMMA ProviderKeepsInv ==
  ASSUME TypeOK, NEW r \in Request, ChatInv(r), CallProvider(r)
  PROVE  ChatInv(r)'
<1> USE DEF ChatInv, RowsMatchStage, OutcomeMatchesStage, AnswerMatchesRows,
            SessionMatchesStage, InitStages, ResultStages, InSession
<1>1. CASE ProviderReturns(r)
  <2>1. outcome'[r] \in Ended
    BY <1>1, ClassifyType DEF ProviderReturns, Ended, Outcome, TypeOK
  <2>2. /\ stage[r] = "calling" /\ stage'[r] = "save" /\ db'[r] = db[r]
        /\ answer'[r] = answer[r] /\ (r \in open' <=> r \in open)
    BY <1>1 DEF ProviderReturns, TypeOK
  <2>. QED
    BY <2>1, <2>2 DEF Ended, Errors
<1>2. CASE ProviderCallEscapes(r)
  BY <1>2 DEF ProviderCallEscapes, Respond, TypeOK, Ended, Errors
<1>. QED
  BY <1>1, <1>2 DEF CallProvider

LEMMA SaveKeepsInv ==
  ASSUME TypeOK, NEW r \in Request, ChatInv(r), SaveResult(r)
  PROVE  ChatInv(r)'
<1> USE DEF ChatInv, RowsMatchStage, OutcomeMatchesStage, AnswerMatchesRows,
            SessionMatchesStage, InitStages, ResultStages, InSession, Ended,
            Errors
<1>1. CASE BeginResult(r)
  <2>1. CASE outcome[r] = "answer"
    BY <1>1, <2>1, BeginAt DEF BeginResult, ViewAt
  <2>2. CASE outcome[r] # "answer"
    <3>1. stage[r] = "save" /\ stage'[r] = "update_call" /\ view'[r] = db[r]
      BY <1>1, <2>2, BeginAt DEF BeginResult
    <3>2. ViewAt("update_call", outcome[r]) = StartedRows
      BY <2>2 DEF ViewAt, StartedRows, SettledMessages
    <3>. QED
      BY <1>1, <2>2, <3>1, <3>2, BeginAt DEF BeginResult
  <2>. QED
    BY <2>1, <2>2
<1>2. CASE InsertAssistantMessage(r)
  <2>1. view[r] = StartedRows /\ outcome[r] = "answer"
    BY <1>2, FlushAt DEF InsertAssistantMessage, ViewAt
  <2>2. [view[r] EXCEPT !.messages = view[r].messages \cup {"assistant"}]
          = ViewAt("update_call", outcome[r])
    BY <2>1, SMTT(40) DEF StartedRows, SettledMessages, ViewAt
  <2>. QED
    BY <1>2, <2>2, FlushAt DEF InsertAssistantMessage
<1>3. CASE UpdateCallSuccess(r)
  <2>1. view[r] = ViewAt("update_call", outcome[r]) /\ outcome[r] = "answer"
    BY <1>3, FlushAt DEF UpdateCallSuccess
  <2>2. [view[r] EXCEPT !.call = [status |-> "success", reply |-> "assistant",
                                  error |-> "none"]]
          = ViewAt("end_conversation", outcome[r])
    BY <2>1 DEF SettledCall, ViewAt
  <2>. QED
    BY <1>3, <2>2, FlushAt DEF UpdateCallSuccess
<1>4. CASE UpdateCallFailure(r)
  <2> DEFINE c == [status |-> IF outcome[r] = "timeout" THEN "timeout"
                                                        ELSE "failed",
                   reply |-> "none", error |-> outcome[r]]
  <2>1. view[r] = ViewAt("update_call", outcome[r]) /\ outcome[r] # "answer"
    BY <1>4, FlushAt DEF UpdateCallFailure
  <2>2. c = SettledCall(outcome[r])
    BY <2>1 DEF SettledCall
  <2>3. [view[r] EXCEPT !.call = c] = ViewAt("end_conversation", outcome[r])
    <3> HIDE DEF c
    <3>. QED
      BY <2>1, <2>2 DEF ViewAt
  <2>. QED
    BY <1>4, <2>3, FlushAt DEF UpdateCallFailure
<1>5. CASE EndConversation(r)
  <2> DEFINE c == [status |-> "ended",
                   count |-> IF outcome[r] = "answer" THEN 2 ELSE 1]
  <2>1. view[r] = ViewAt("end_conversation", outcome[r])
    BY <1>5, FlushAt DEF EndConversation
  <2>2. [view[r] EXCEPT !.conversation = c] = SettledRows(outcome[r])
    BY <2>1 DEF ViewAt, SettledRows
  <2>. QED
    BY <1>5, <2>2, FlushAt DEF EndConversation, ViewAt
<1>6. CASE CommitResult(r)
  BY <1>6, CommitAt DEF CommitResult, ViewAt
<1>7. CASE ResultFails(r)
  <2>1. CASE RollBack(r, ResultStages \cup {"save"}, "no_result")
    BY <2>1, RollBackAt
  <2>2. CASE LoseAck(r, "commit_result", "no_result")
    BY <2>2, LoseAckAt DEF ViewAt
  <2>3. CASE PoolExhausted(r, "save", "no_result")
    BY <2>3, PoolExhaustedAt
  <2>. QED
    BY <1>7, <2>1, <2>2, <2>3 DEF ResultFails
<1>8. CASE SendResponse(r)
  BY <1>8 DEF SendResponse, Respond, TypeOK
<1>. QED
  BY <1>1, <1>2, <1>3, <1>4, <1>5, <1>6, <1>7, <1>8 DEF SaveResult

LEMMA CrashKeepsInv ==
  ASSUME TypeOK, NEW r \in Request, ChatInv(r), Crash
  PROVE  ChatInv(r)'
<1> USE DEF ChatInv, RowsMatchStage, OutcomeMatchesStage, AnswerMatchesRows,
            SessionMatchesStage, InitStages, ResultStages, InSession, Ended,
            Errors
<1>1. /\ stage'[r]  = IF stage[r] \in Unanswered THEN "done" ELSE stage[r]
      /\ answer'[r] = IF stage[r] \in Unanswered THEN "lost" ELSE answer[r]
      /\ db'[r] = db[r] /\ outcome'[r] = outcome[r] /\ r \notin open'
  BY DEF Crash, TypeOK
<1>2. CASE stage[r] \in Unanswered
  BY <1>1, <1>2 DEF Unanswered
<1>3. CASE stage[r] \notin Unanswered
  <2>1. stage[r] \in {"idle", "done"}
    BY <1>3 DEF TypeOK, Stages
  <2>. QED
    BY <1>1, <1>3, <2>1
<1>. QED
  BY <1>2, <1>3

\* A session is opened only while the pool has a connection to give.
LEMMA PoolKept ==
  ASSUME TypeOK, PoolInv, Next
  PROVE  PoolInv'
<1> USE DEF PoolInv
<1>1. CASE open' = open
  BY <1>1
<1>2. ASSUME NEW r \in Request, open' = open \ {r}
      PROVE  PoolInv'
  <2>1. /\ IsFiniteSet(open \ {r}) 
        /\ Cardinality(open \ {r}) =
             IF r \in open THEN Cardinality(open) - 1 ELSE Cardinality(open)
    BY FS_RemoveElement
  <2>2. Cardinality(open) \in Nat
    BY FS_CardinalityType
  <2>. QED
    BY <1>2, <2>1, <2>2, PoolAssumption
<1>3. ASSUME NEW r \in Request, open' = open \cup {r},
             Cardinality(open) < PoolSize
      PROVE  PoolInv'
  <2>1. /\ IsFiniteSet(open \cup {r})
        /\ Cardinality(open \cup {r}) =
             IF r \in open THEN Cardinality(open) ELSE Cardinality(open) + 1
    BY FS_AddElement
  <2>2. Cardinality(open) \in Nat
    BY FS_CardinalityType
  <2>. QED
    BY <1>3, <2>1, <2>2, PoolAssumption
<1>4. CASE open' = {}
  BY <1>4, FS_EmptySet, PoolAssumption
<1>5. ASSUME NEW r \in Request, Submit(r) \/ Start(r) \/ CallProvider(r)
                                           \/ SaveResult(r)
      PROVE  \/ open' = open \/ open' = open \ {r}
             \/ open' = open \cup {r} /\ Cardinality(open) < PoolSize
  BY <1>5 DEF Submit, Start, BeginStart, Begin, InsertConversation,
     InsertUserMessage, InsertModelCall, SummarizeStart, Flush, CommitStart,
     Commit, EndSession, StartFails, RollBack, LoseAck, PoolExhausted,
     CallProvider, ProviderReturns, ProviderCallEscapes, SaveResult,
     BeginResult, InsertAssistantMessage, UpdateCallSuccess, UpdateCallFailure,
     EndConversation, CommitResult, ResultFails, SendResponse
<1>. QED
  BY <1>1, <1>2, <1>3, <1>4, <1>5 DEF Next, Crash, Quiescent, vars

LEMMA InvInit == Init => IInv
<1> SUFFICES ASSUME Init PROVE IInv
  OBVIOUS
<1>1. TypeOK
  BY TypeInit
<1>2. PoolInv
  BY FS_EmptySet, PoolAssumption DEF Init, PoolInv
<1>3. ASSUME NEW r \in Request PROVE ChatInv(r)
  BY DEF Init, ChatInv, RowsMatchStage, OutcomeMatchesStage, AnswerMatchesRows,
     SessionMatchesStage, InitStages, ResultStages, InSession, Ended, Errors
<1>. QED
  BY <1>1, <1>2, <1>3 DEF IInv

LEMMA InvStep == IInv /\ [Next]_vars => IInv'
<1> SUFFICES ASSUME IInv, [Next]_vars PROVE IInv'
  OBVIOUS
<1> USE DEF IInv
<1>1. TypeOK'
  BY TypeStep
<1>2. CASE UNCHANGED vars
  BY <1>1, <1>2, SameInv DEF vars, PoolInv, Same
<1>3. CASE Next /\ ~ UNCHANGED vars
  <2>1. PoolInv'
    BY <1>3, PoolKept
  <2>2. ASSUME NEW q \in Request PROVE ChatInv(q)'
    <3>1. CASE Crash
      BY <3>1, CrashKeepsInv
    <3>2. ASSUME NEW r \in Request,
                 Submit(r) \/ Start(r) \/ CallProvider(r) \/ SaveResult(r)
          PROVE  ChatInv(q)'
      <4>1. CASE q # r
        BY <3>2, <4>1, OthersUntouched, SameInv
      <4>2. CASE q = r /\ Submit(r)
        BY <4>2, SubmitKeepsInv
      <4>3. CASE q = r /\ Start(r)
        BY <4>3, StartKeepsInv
      <4>4. CASE q = r /\ CallProvider(r)
        BY <4>4, ProviderKeepsInv
      <4>5. CASE q = r /\ SaveResult(r)
        BY <4>5, SaveKeepsInv
      <4>. QED
        BY <3>2, <4>1, <4>2, <4>3, <4>4, <4>5
    <3>. QED
      BY <1>3, <3>1, <3>2 DEF Next, Quiescent
  <2>. QED
    BY <1>1, <2>1, <2>2
<1>. QED
  BY <1>2, <1>3

\* The strengthening that the safety theorems below rest on.
THEOREM Invariance == Spec => []IInv
  BY InvInit, InvStep, PTL DEF Spec

-----------------------------------------------------------------------------
(* The properties follow.                                                  *)

\* The rows a chat can have at rest, and what they say of it.
LEMMA RowsAtRest ==
  ASSUME NEW r \in Request, TypeOK, ChatInv(r)
  PROVE  \/ db[r] \in {NoRows, StartedRows} /\ answer[r] \notin Ended
         \/ /\ outcome[r] \in Ended /\ db[r] = SettledRows(outcome[r])
            /\ answer[r] \in Ended => answer[r] = outcome[r]
<1> USE DEF ChatInv, RowsMatchStage, OutcomeMatchesStage, AnswerMatchesRows
<1>1. stage[r] \in Stages
  BY DEF TypeOK
<1>2. CASE stage[r] = "done"
  <2>1. SettledRows(outcome[r]) \notin {NoRows, StartedRows}
    <3>1. SettledRows(outcome[r]).conversation.status = "ended"
      BY DEF SettledRows
    <3>. QED
      BY <3>1 DEF NoRows, StartedRows
  <2>. QED
    BY <1>2, <2>1
<1>3. CASE stage[r] # "done"
  <2>1. answer[r] \notin Ended
    BY <1>3 DEF Ended, Errors
  <2>. QED
    BY <1>1, <1>3, <2>1 DEF Stages, Unanswered, InSession, InitStages,
       ResultStages
<1>. QED
  BY <1>2, <1>3

LEMMA NoRowsWhole ==
  ASSUME NEW r \in Request, db[r] = NoRows PROVE ChatIsWhole(r)
  BY FS_EmptySet DEF ChatIsWhole, NoRows, CallSettled

LEMMA StartedRowsWhole ==
  ASSUME NEW r \in Request, db[r] = StartedRows PROVE ChatIsWhole(r)
<1>1. Cardinality({"user"}) = 1
  BY FS_Singleton
<1>2. /\ db[r].conversation.count = 1 /\ db[r].messages = {"user"}
      /\ db[r].conversation.status = "active"
      /\ db[r].call.status = "calling" /\ db[r].call.reply = "none"
      /\ db[r].call.error = "none"
  BY DEF StartedRows
<1>. QED
  BY <1>1, <1>2 DEF ChatIsWhole, CallSettled

LEMMA SettledRowsWhole ==
  ASSUME NEW r \in Request, NEW o \in Ended, db[r] = SettledRows(o)
  PROVE  ChatIsWhole(r)
<1>1. Cardinality({"user"}) = 1
  BY FS_Singleton
<1>2. Cardinality({"user", "assistant"}) = 2
  <2>1. {"user", "assistant"} = {"user"} \cup {"assistant"}
    OBVIOUS
  <2>2. IsFiniteSet({"user"}) /\ "assistant" \notin {"user"}
    BY FS_Singleton
  <2>3. Cardinality({"user"} \cup {"assistant"}) = Cardinality({"user"}) + 1
    BY <2>2, FS_AddElement
  <2>. QED
    BY <1>1, <2>1, <2>3
<1>3. db[r].conversation.status = "ended"
  BY DEF SettledRows
<1>4. CASE o = "answer"
  <2>1. /\ db[r].conversation.count = 2 /\ db[r].messages = {"user", "assistant"}
        /\ db[r].call.status = "success" /\ db[r].call.reply = "assistant"
        /\ db[r].call.error = "none"
    BY <1>4 DEF SettledRows, SettledCall, SettledMessages
  <2>. QED
    BY <1>2, <1>3, <2>1 DEF ChatIsWhole, CallSettled
<1>5. CASE o # "answer"
  <2>1. /\ db[r].conversation.count = 1 /\ db[r].messages = {"user"}
        /\ db[r].call.status \in {"failed", "timeout"}
        /\ db[r].call.reply = "none" /\ db[r].call.error = o
    BY <1>5 DEF SettledRows, SettledCall, SettledMessages
  <2>2. o # "none"
    BY DEF Ended, Errors
  <2>. QED
    BY <1>1, <1>3, <2>1, <2>2 DEF ChatIsWhole, CallSettled
<1>. QED
  BY <1>4, <1>5

\* Whatever fails, and however often the process dies, the database holds
\* every chat whole: conversation, messages and model call agree.
THEOREM WholeChats == Spec => []ChatsAreWhole
<1>1. IInv => ChatsAreWhole
  BY RowsAtRest, NoRowsWhole, StartedRowsWhole, SettledRowsWhole
     DEF IInv, ChatsAreWhole
<1>. QED
  BY <1>1, Invariance, PTL

\* A result or an error reaches a client only if the database holds it.
THEOREM HonestAnswers == Spec => []ToldIsStored
<1>1. ASSUME TypeOK, NEW r \in Request, ChatInv(r), answer[r] \in Ended
      PROVE  outcome[r] = answer[r] /\ db[r] = SettledRows(answer[r])
  BY <1>1, RowsAtRest DEF ChatInv, AnswerMatchesRows
<1>2. ASSUME TypeOK, NEW r \in Request, ChatInv(r)
      PROVE  ToldStored(r)
  <2>1. CASE answer[r] = "answer"
    <3>1. db[r].call = SettledCall("answer")
      <4>1. answer[r] \in Ended
        BY <2>1 DEF Ended
      <4>2. db[r] = SettledRows(answer[r])
        BY <1>1, <1>2, <4>1
      <4>. QED
        BY <2>1, <4>2 DEF SettledRows
    <3>. QED
      BY <2>1, <3>1 DEF ToldStored, SettledCall, Errors, HttpStatus
  <2>2. CASE answer[r] \in Errors
    <3>1. db[r].call = SettledCall(answer[r]) /\ answer[r] # "answer"
      <4>1. answer[r] \in Ended /\ answer[r] # "answer"
        BY <2>2 DEF Ended, Errors
      <4>2. db[r] = SettledRows(answer[r])
        BY <1>1, <1>2, <4>1
      <4>. QED
        BY <4>1, <4>2 DEF SettledRows
    <3>. QED
      BY <2>2, <3>1 DEF ToldStored, SettledCall, Errors, HttpStatus
  <2>3. CASE answer[r] \notin Ended
    BY <2>3 DEF ToldStored, Ended, Errors, HttpStatus
  <2>. QED
    BY <2>1, <2>2, <2>3 DEF Ended
<1>3. IInv => ToldIsStored
  BY <1>2 DEF IInv, ToldIsStored
<1>. QED
  BY <1>3, Invariance, PTL

\* Connections are held exactly by the transactions under way, and there are
\* never more of them than the pool may hand out.
THEOREM BoundedPool == Spec => []ConnectionsAccounted
<1>1. IInv => ConnectionsAccounted
  BY DEF IInv, TypeOK, PoolInv, ChatInv, SessionMatchesStage,
     ConnectionsAccounted
<1>. QED
  BY <1>1, Invariance, PTL

\* Once a chat is settled its handler only has the response left to send.
LEMMA SettledStage ==
  ASSUME NEW r \in Request, TypeOK, ChatInv(r),
         CallSettled(db[r]) \/ answer[r] # "none"
  PROVE  stage[r] \in {"respond", "done"}
<1>1. CASE answer[r] # "none"
  BY <1>1 DEF ChatInv, AnswerMatchesRows
<1>2. CASE CallSettled(db[r])
  <2>1. db[r] \notin {NoRows, StartedRows}
    BY <1>2 DEF CallSettled, NoRows, StartedRows
  <2>. QED
    BY <2>1 DEF TypeOK, Stages, Unanswered, InSession, InitStages,
       ResultStages, ChatInv, RowsMatchStage
<1>. QED
  BY <1>1, <1>2

\* A settled model call is never written again, and no row of a chat changes
\* once its client has been answered.
THEOREM FinalResults == Spec => ResultsAreFinal
<1>1. ASSUME IInv, [Next]_vars, NEW q \in Request,
             CallSettled(db[q]) \/ answer[q] # "none"
      PROVE  db'[q] = db[q]
  <2> USE DEF IInv
  <2>1. stage[q] \in {"respond", "done"}
    BY <1>1, SettledStage
  <2>2. CASE UNCHANGED vars \/ Crash
    BY <2>2 DEF vars, Crash
  <2>3. ASSUME NEW r \in Request,
               Submit(r) \/ Start(r) \/ CallProvider(r) \/ SaveResult(r)
        PROVE  db'[q] = db[q]
    <3>1. CASE r # q
      BY <1>1, <2>3, <3>1, OthersUntouched DEF Same
    <3>2. CASE r = q
      BY <2>1, <2>3, <3>2
         DEF Submit, Start, BeginStart, Begin, InsertConversation,
             InsertUserMessage, InsertModelCall, SummarizeStart, Flush,
             CommitStart, Commit, EndSession, StartFails, RollBack, LoseAck,
             PoolExhausted, CallProvider, ProviderReturns, ProviderCallEscapes,
             SaveResult, BeginResult, InsertAssistantMessage, UpdateCallSuccess,
             UpdateCallFailure, EndConversation, CommitResult, ResultFails,
             SendResponse, InitStages, ResultStages
    <3>. QED
      BY <3>1, <3>2
  <2>. QED
    BY <1>1, <2>2, <2>3 DEF Next, Quiescent
<1>2. IInv /\ [Next]_vars =>
        [\A r \in Request : CallSettled(db[r]) \/ answer[r] # "none"
                               => db'[r] = db[r]]_vars
  BY <1>1
<1>. QED
  BY <1>2, Invariance, PTL DEF Spec, ResultsAreFinal

-----------------------------------------------------------------------------
(* The refinement of ChatLedger: what the entry of one chat and the client *)
(* of that chat can see of a step of its handler.                          *)

Opens(r) ==
  /\ db[r] = NoRows /\ db'[r] = StartedRows
  /\ answer[r] = "none" /\ answer'[r] \in {"none", "no_record"}

Settles(r) ==
  /\ db[r] = StartedRows
  /\ \E o \in Ended : db'[r] = SettledRows(o)
  /\ answer[r] = "none" /\ answer'[r] \in {"none", "no_result"}

Reports(r) ==
  /\ db'[r] = db[r]
  /\ answer[r] = "none" /\ answer'[r] \in Ended
  /\ db[r] = SettledRows(answer'[r])

GivesUp(r) ==
  /\ db'[r] = db[r]
  /\ answer[r] = "none" /\ answer'[r] \in {"no_record", "no_result", "unhandled"}

Silent(r) == db'[r] = db[r] /\ answer'[r] = answer[r]

LEMMA StartSeen ==
  ASSUME TypeOK, NEW r \in Request, ChatInv(r), Start(r)
  PROVE  Silent(r) \/ Opens(r) \/ GivesUp(r)
<1> USE DEF ChatInv, InSession, InitStages
<1>1. CASE BeginStart(r)
  BY <1>1, BeginAt DEF BeginStart, Silent
<1>2. CASE \/ InsertConversation(r) \/ InsertUserMessage(r)
           \/ InsertModelCall(r) \/ SummarizeStart(r)
  BY <1>2, FlushAt DEF InsertConversation, InsertUserMessage,
     InsertModelCall, SummarizeStart, Silent
<1>3. CASE CommitStart(r)
  <2>1. /\ stage[r] = "commit_start" /\ db'[r] = view[r]
        /\ answer'[r] = answer[r]
    BY <1>3, CommitAt DEF CommitStart
  <2>2. answer[r] = "none" /\ db[r] = NoRows /\ view[r] = StartedRows
    BY <2>1 DEF RowsMatchStage, AnswerMatchesRows, SessionMatchesStage, ViewAt
  <2>. QED
    BY <2>1, <2>2 DEF Opens
<1>4. CASE StartFails(r)
  <2>1. CASE RollBack(r, InitStages \cup {"init"}, "no_record")
    BY <2>1, RollBackAt DEF AnswerMatchesRows, GivesUp
  <2>2. CASE PoolExhausted(r, "init", "no_record")
    BY <2>2, PoolExhaustedAt DEF AnswerMatchesRows, GivesUp
  <2>3. CASE LoseAck(r, "commit_start", "no_record")
    <3>1. /\ stage[r] = "commit_start" /\ db'[r] = view[r]
          /\ answer'[r] = "no_record"
      BY <2>3, LoseAckAt
    <3>. QED
      BY <3>1 DEF RowsMatchStage, OutcomeMatchesStage, AnswerMatchesRows,
         SessionMatchesStage, ViewAt, Opens
  <2>. QED
    BY <1>4, <2>1, <2>2, <2>3 DEF StartFails
<1>. QED
  BY <1>1, <1>2, <1>3, <1>4 DEF Start

LEMMA ProviderSeen ==
  ASSUME TypeOK, NEW r \in Request, ChatInv(r), CallProvider(r)
  PROVE  Silent(r) \/ GivesUp(r)
  BY DEF CallProvider, ProviderReturns, ProviderCallEscapes, Respond, Silent,
     GivesUp, TypeOK, ChatInv, AnswerMatchesRows

LEMMA SaveSeen ==
  ASSUME TypeOK, NEW r \in Request, ChatInv(r), SaveResult(r)
  PROVE  Silent(r) \/ Settles(r) \/ Reports(r) \/ GivesUp(r)
<1> USE DEF ChatInv, InSession, ResultStages
<1>1. CASE BeginResult(r)
  BY <1>1, BeginAt DEF BeginResult, Silent
<1>2. CASE \/ InsertAssistantMessage(r) \/ UpdateCallSuccess(r)
           \/ UpdateCallFailure(r) \/ EndConversation(r)
  BY <1>2, FlushAt DEF InsertAssistantMessage, UpdateCallSuccess,
     UpdateCallFailure, EndConversation, Silent
<1>3. CASE CommitResult(r)
  <2>1. /\ stage[r] = "commit_result" /\ db'[r] = view[r]
        /\ answer'[r] = answer[r]
    BY <1>3, CommitAt DEF CommitResult
  <2>2. /\ answer[r] = "none" /\ db[r] = StartedRows
        /\ outcome[r] \in Ended /\ view[r] = SettledRows(outcome[r])
    BY <2>1 DEF RowsMatchStage, OutcomeMatchesStage, AnswerMatchesRows,
       SessionMatchesStage, ViewAt
  <2>. QED
    BY <2>1, <2>2 DEF Settles
<1>4. CASE ResultFails(r)
  <2>1. CASE RollBack(r, ResultStages \cup {"save"}, "no_result")
    BY <2>1, RollBackAt DEF AnswerMatchesRows, GivesUp
  <2>2. CASE PoolExhausted(r, "save", "no_result")
    BY <2>2, PoolExhaustedAt DEF AnswerMatchesRows, GivesUp
  <2>3. CASE LoseAck(r, "commit_result", "no_result")
    <3>1. /\ stage[r] = "commit_result" /\ db'[r] = view[r]
          /\ answer'[r] = "no_result"
      BY <2>3, LoseAckAt
    <3>. QED
      BY <3>1 DEF RowsMatchStage, OutcomeMatchesStage, AnswerMatchesRows,
         SessionMatchesStage, ViewAt, Settles
  <2>. QED
    BY <1>4, <2>1, <2>2, <2>3 DEF ResultFails
<1>5. CASE SendResponse(r)
  <2>1. stage[r] = "respond" /\ answer'[r] = outcome[r] /\ db'[r] = db[r]
    BY <1>5 DEF SendResponse, Respond, TypeOK
  <2>. QED
    BY <2>1 DEF RowsMatchStage, OutcomeMatchesStage, AnswerMatchesRows, Reports
<1>. QED
  BY <1>1, <1>2, <1>3, <1>4, <1>5 DEF SaveResult

-----------------------------------------------------------------------------
(* The same steps, as steps of the ledger.                                 *)

EntryOf(rows) ==
  IF rows.call.status = "none" THEN "absent" ELSE rows.call.status

ToldOf(a) ==
  CASE a = "none"    -> "nothing"
    [] a = "timeout" -> "timed_out"
    [] a \in Errors \ {"timeout"} -> "error"
    [] OTHER         -> a

Entries(rows) == [r \in Request |-> EntryOf(rows[r])]
Tales(told)   == [r \in Request |-> ToldOf(told[r])]

LEMMA EntryValues ==
  /\ EntryOf(NoRows) = "absent"
  /\ EntryOf(StartedRows) = "calling"
  /\ \A o \in Ended : EntryOf(SettledRows(o)) = Ledger!Backing[ToldOf(o)]
  /\ \A o \in Ended : EntryOf(SettledRows(o)) \in Ledger!Settled
<1>1. EntryOf(NoRows) = "absent" /\ EntryOf(StartedRows) = "calling"
  BY DEF EntryOf, NoRows, StartedRows
<1>2. ASSUME NEW o \in Ended
      PROVE  /\ EntryOf(SettledRows(o)) = Ledger!Backing[ToldOf(o)]
             /\ EntryOf(SettledRows(o)) \in Ledger!Settled
  <2>1. SettledRows(o).call = SettledCall(o)
    BY DEF SettledRows
  <2>2. SettledCall(o).status = IF o = "answer" THEN "success"
                                ELSE IF o = "timeout" THEN "timeout"
                                ELSE "failed"
    BY DEF SettledCall
  <2>3. ToldOf(o) = IF o = "answer" THEN "answer"
                    ELSE IF o = "timeout" THEN "timed_out" ELSE "error"
    BY DEF ToldOf, Ended, Errors
  <2>. QED
    BY <2>1, <2>2, <2>3 DEF EntryOf, Ledger!Backing, Ledger!Settled
<1>. QED
  BY <1>1, <1>2

LEMMA TaleValues ==
  /\ ToldOf("none") = "nothing"
  /\ \A a \in {"no_record", "no_result", "unhandled", "lost"} : ToldOf(a) = a
  /\ \A o \in Ended : ToldOf(o) \in Ledger!Results
  BY DEF ToldOf, Errors, Ended, Ledger!Results

\* The mapped variables, before and after a step.
LEMMA Mapped ==
  /\ [r \in Request |-> LedgerEntry(r)] = Entries(db)
  /\ [r \in Request |-> ToldClient(r)] = Tales(answer)
  /\ [r \in Request |-> LedgerEntry(r)]' = Entries(db')
  /\ [r \in Request |-> ToldClient(r)]' = Tales(answer')
  BY DEF Entries, Tales, EntryOf, ToldOf, LedgerEntry, ToldClient

\* A step of one chat changes at most that chat's place in the mapping.
LEMMA MappedAt ==
  ASSUME TypeOK, TypeOK', NEW r \in Request,
         \A q \in Request : q # r => db'[q] = db[q] /\ answer'[q] = answer[q]
  PROVE  /\ Entries(db') = [Entries(db) EXCEPT ![r] = EntryOf(db'[r])]
         /\ Tales(answer') = [Tales(answer) EXCEPT ![r] = ToldOf(answer'[r])]
         /\ Entries(db)[r] = EntryOf(db[r])
         /\ Tales(answer)[r] = ToldOf(answer[r])
  BY DEF Entries, Tales

LEMMA OpensIsOpen ==
  ASSUME TypeOK, TypeOK', NEW r \in Request, Opens(r),
         \A q \in Request : q # r => db'[q] = db[q] /\ answer'[q] = answer[q]
  PROVE  Ledger!Open(r)
<1>1. /\ Entries(db') = [Entries(db) EXCEPT ![r] = "calling"]
      /\ Entries(db)[r] = "absent" /\ Tales(answer)[r] = "nothing"
  BY MappedAt, EntryValues, TaleValues DEF Opens
<1>2. Tales(answer') \in {Tales(answer), [Tales(answer) EXCEPT ![r] = "no_record"]}
  <2>1. CASE answer'[r] = "no_record"
    BY <2>1, MappedAt, TaleValues
  <2>2. CASE answer'[r] = "none"
    <3>1. ToldOf(answer'[r]) = Tales(answer)[r]
      BY <1>1, <2>2, TaleValues
    <3>2. [Tales(answer) EXCEPT ![r] = Tales(answer)[r]] = Tales(answer)
      BY DEF Tales
    <3>. QED
      BY <3>1, <3>2, MappedAt
  <2>. QED
    BY <2>1, <2>2 DEF Opens
<1>. QED
  BY <1>1, <1>2, Mapped DEF Ledger!Open

LEMMA SettlesIsSettle ==
  ASSUME TypeOK, TypeOK', NEW r \in Request, Settles(r),
         \A q \in Request : q # r => db'[q] = db[q] /\ answer'[q] = answer[q]
  PROVE  Ledger!Settle(r)
<1>1. /\ Entries(db)[r] = "calling" /\ Tales(answer)[r] = "nothing"
      /\ EntryOf(db'[r]) \in Ledger!Settled
      /\ Entries(db') = [Entries(db) EXCEPT ![r] = EntryOf(db'[r])]
  BY MappedAt, EntryValues, TaleValues DEF Settles
<1>2. Tales(answer') \in {Tales(answer), [Tales(answer) EXCEPT ![r] = "no_result"]}
  <2>1. CASE answer'[r] = "no_result"
    BY <2>1, MappedAt, TaleValues
  <2>2. CASE answer'[r] = "none"
    <3>1. ToldOf(answer'[r]) = Tales(answer)[r]
      BY <1>1, <2>2, TaleValues
    <3>2. [Tales(answer) EXCEPT ![r] = Tales(answer)[r]] = Tales(answer)
      BY DEF Tales
    <3>. QED
      BY <3>1, <3>2, MappedAt
  <2>. QED
    BY <2>1, <2>2 DEF Settles
<1>. QED
  BY <1>1, <1>2, Mapped DEF Ledger!Settle

LEMMA ReportsIsReport ==
  ASSUME TypeOK, TypeOK', NEW r \in Request, Reports(r),
         \A q \in Request : q # r => db'[q] = db[q] /\ answer'[q] = answer[q]
  PROVE  Ledger!Report(r)
<1>1. /\ Tales(answer)[r] = "nothing"
      /\ ToldOf(answer'[r]) \in Ledger!Results
      /\ Entries(db)[r] = Ledger!Backing[ToldOf(answer'[r])]
      /\ Tales(answer') = [Tales(answer) EXCEPT ![r] = ToldOf(answer'[r])]
  BY MappedAt, EntryValues, TaleValues DEF Reports
<1>2. Entries(db') = Entries(db)
  BY DEF Entries, Reports
<1>. QED
  BY <1>1, <1>2, Mapped DEF Ledger!Report

\* Chats given up together, by one failed request or by a crash.
LEMMA GiveUpTogether ==
  ASSUME NEW S \in SUBSET Request,
         NEW a \in {"no_record", "no_result", "unhandled", "lost"},
         \A q \in Request : db'[q] = db[q],
         \A q \in S : answer[q] = "none" /\ answer'[q] = a,
         \A q \in Request \ S : answer'[q] = answer[q]
  PROVE  Ledger!GiveUp
<1>1. \A q \in S : Tales(answer)[q] = "nothing"
  BY TaleValues DEF Tales
<1>2. Tales(answer') = [q \in Request |-> IF q \in S THEN a ELSE Tales(answer)[q]]
  BY TaleValues DEF Tales
<1>3. Entries(db') = Entries(db)
  BY DEF Entries
<1>4. a \in Ledger!Apology
  BY DEF Ledger!Apology
<1>. QED
  BY <1>1, <1>2, <1>3, <1>4, Mapped DEF Ledger!GiveUp

LEMMA CrashIsGiveUp ==
  ASSUME IInv, Crash
  PROVE  Ledger!GiveUp
<1> DEFINE S == {q \in Request : stage[q] \in Unanswered}
<1>1. S \in SUBSET Request /\ db' = db
  BY DEF Crash
<1>2. \A q \in S : answer[q] = "none" /\ answer'[q] = "lost"
  <2>1. "done" \notin Unanswered
    BY DEF Unanswered, InSession, InitStages, ResultStages
  <2>. QED
    BY <2>1 DEF Crash, IInv, ChatInv, AnswerMatchesRows
<1>3. \A q \in Request \ S : answer'[q] = answer[q]
  BY DEF Crash
<1> HIDE DEF S
<1>. QED
  BY <1>1, <1>2, <1>3, GiveUpTogether

LEMMA LedgerStutters ==
  ASSUME \A q \in Request : db'[q] = db[q] /\ answer'[q] = answer[q]
  PROVE  UNCHANGED Ledger!vars
<1>1. Entries(db') = Entries(db) /\ Tales(answer') = Tales(answer)
  BY DEF Entries, Tales
<1>. QED
  BY <1>1, Mapped DEF Ledger!vars

LEMMA LedgerStep == IInv /\ [Next]_vars => [Ledger!Next]_(Ledger!vars)
<1> SUFFICES ASSUME IInv, [Next]_vars PROVE Ledger!Next \/ UNCHANGED Ledger!vars
  OBVIOUS
<1> USE DEF IInv
<1>1. TypeOK'
  BY TypeStep
<1>2. CASE UNCHANGED vars
  BY <1>2, LedgerStutters DEF vars
<1>3. CASE Crash
  BY <1>3, CrashIsGiveUp DEF Ledger!Next
<1>4. ASSUME NEW r \in Request,
             Submit(r) \/ Start(r) \/ CallProvider(r) \/ SaveResult(r)
      PROVE  Ledger!Next \/ UNCHANGED Ledger!vars
  <2>1. \A q \in Request : q # r => db'[q] = db[q] /\ answer'[q] = answer[q]
    BY <1>4, OthersUntouched DEF Same
  <2>2. \/ Silent(r) \/ Opens(r) \/ Settles(r) \/ Reports(r) \/ GivesUp(r)
    <3>1. CASE Submit(r)
      BY <3>1 DEF Submit, Silent
    <3>. QED
      BY <1>4, <3>1, StartSeen, ProviderSeen, SaveSeen
  <2>3. CASE Silent(r)
    BY <2>1, <2>3, LedgerStutters DEF Silent
  <2>4. CASE Opens(r)
    BY <1>1, <2>1, <2>4, OpensIsOpen DEF Ledger!Next
  <2>5. CASE Settles(r)
    BY <1>1, <2>1, <2>5, SettlesIsSettle DEF Ledger!Next
  <2>6. CASE Reports(r)
    BY <1>1, <2>1, <2>6, ReportsIsReport DEF Ledger!Next
  <2>7. CASE GivesUp(r)
    <3>1. \A q \in {r} : answer[q] = "none" /\ answer'[q] = answer'[r]
      BY <2>7 DEF GivesUp
    <3>2. \A q \in Request \ {r} : answer'[q] = answer[q]
      BY <2>1
    <3>3. \A q \in Request : db'[q] = db[q]
      BY <2>1, <2>7 DEF GivesUp
    <3>4. answer'[r] \in {"no_record", "no_result", "unhandled", "lost"}
      BY <2>7 DEF GivesUp
    <3>5. Ledger!GiveUp
      BY <3>1, <3>2, <3>3, <3>4, {r} \in SUBSET Request, GiveUpTogether
    <3>. QED
      BY <3>5 DEF Ledger!Next
  <2>. QED
    BY <2>2, <2>3, <2>4, <2>5, <2>6, <2>7
<1>. QED
  BY <1>2, <1>3, <1>4 DEF Next, Quiescent

LEMMA LedgerInit == Init => Ledger!Init
<1> SUFFICES ASSUME Init PROVE Ledger!Init
  OBVIOUS
<1>1. /\ Entries(db) = [r \in Request |-> "absent"]
      /\ Tales(answer) = [r \in Request |-> "nothing"]
  BY EntryValues, TaleValues DEF Init, Entries, Tales
<1>. QED
  BY <1>1, Mapped DEF Ledger!Init

\* The persisted chats implement the ledger: an entry is opened, settled at
\* most once and reported only when it is settled, whatever statement fails,
\* whichever acknowledgement is lost and whenever the process dies.
THEOREM ImplementsLedger == Spec => LedgerSpec
  BY LedgerInit, LedgerStep, Invariance, PTL
     DEF Spec, LedgerSpec, Ledger!Spec
=============================================================================
