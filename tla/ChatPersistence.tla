-------------------------- MODULE ChatPersistence ---------------------------
(***************************************************************************)
(* POST /api/chat: ChatApplicationService.chat over                        *)
(* ChatPersistenceService.  A first transaction opens a conversation, its  *)
(* user message and a model call; the provider is then called without any  *)
(* open session; a second transaction stores the answer or the failure.    *)
(*                                                                         *)
(* The rows of one chat (one agent_conversation, at most two agent_message *)
(* rows, one agent_model_call) carry fresh keys, so no two chats write the *)
(* same row: db[r] is what MySQL has committed for chat r, and view[r] is  *)
(* what the session of r has flushed on top of it.  The chats share the    *)
(* connection pool and the server process.                                 *)
(***************************************************************************)
EXTENDS Naturals, FiniteSets, DeepSeekClient

CONSTANTS
  Request,     \* the chat requests that may ever arrive
  PoolSize,    \* pool_size + max_overflow of the engine
  MaxCrashes   \* how often the server process may die (bounds the model)

ASSUME PoolAssumption == PoolSize \in Nat \ {0} /\ MaxCrashes \in Nat

VARIABLES
  stage,      \* how far the handler of each request has come
  outcome,    \* how the provider call of each request ended
  db,         \* the committed rows of each chat
  view,       \* the rows as the request's open session sees them
  open,       \* the requests whose session holds a pooled connection
  answer,     \* what the client of each request received
  crashes

vars == <<stage, outcome, db, view, open, answer, crashes>>

\* The columns of agent_conversation, agent_message and agent_model_call that
\* control depends on; "none" is the status of a row that does not exist.
NoRows == [conversation |-> [status |-> "none", count |-> 0],
           messages     |-> {},
           call         |-> [status |-> "none", reply |-> "none",
                             error |-> "none"]]

ConversationRows == [status : {"none", "active", "ended"}, count : 0..2]

CallRows == [status : {"none", "calling", "success", "failed", "timeout"},
             reply  : {"none", "assistant"},     \* response_message_id
             error  : Outcome \cup {"none"}]

Rows == [conversation : ConversationRows,
         messages     : SUBSET {"user", "assistant"},
         call         : CallRows]

InitStages   == {"insert_conversation", "insert_user", "insert_call",
                 "summarize", "commit_start"}
ResultStages == {"insert_assistant", "update_call", "end_conversation",
                 "commit_result"}
InSession    == InitStages \cup ResultStages
Unanswered   == InSession \cup {"init", "calling", "save", "respond"}
Stages       == Unanswered \cup {"idle", "done"}
Answers      == Outcome \cup {"none", "no_record", "no_result", "lost"}

Init ==
  /\ stage   = [r \in Request |-> "idle"]
  /\ outcome = [r \in Request |-> "none"]
  /\ db      = [r \in Request |-> NoRows]
  /\ view    = [r \in Request |-> NoRows]
  /\ open    = {}
  /\ answer  = [r \in Request |-> "none"]
  /\ crashes = 0

-----------------------------------------------------------------------------
(* Steps every transaction is made of.                                     *)

\* The first statement of a session checks a connection out of the pool.
Begin(r, from, to) ==
  /\ stage[r] = from
  /\ Cardinality(open) < PoolSize
  /\ open'  = open \cup {r}
  /\ view'  = [view EXCEPT ![r] = db[r]]
  /\ stage' = [stage EXCEPT ![r] = to]
  /\ UNCHANGED <<outcome, db, answer, crashes>>

\* A flushed INSERT or UPDATE: visible to this session alone.
Flush(r, from, to, rows) ==
  /\ stage[r] = from
  /\ view'  = [view EXCEPT ![r] = rows]
  /\ stage' = [stage EXCEPT ![r] = to]
  /\ UNCHANGED <<outcome, db, open, answer, crashes>>

EndSession(r) ==
  /\ open' = open \ {r}
  /\ view' = [view EXCEPT ![r] = NoRows]

Commit(r, from, to) ==
  /\ stage[r] = from
  /\ db'    = [db EXCEPT ![r] = view[r]]
  /\ stage' = [stage EXCEPT ![r] = to]
  /\ EndSession(r)
  /\ UNCHANGED <<outcome, answer, crashes>>

Respond(r, a) ==
  /\ stage'  = [stage EXCEPT ![r] = "done"]
  /\ answer' = [answer EXCEPT ![r] = a]
  /\ UNCHANGED <<outcome, crashes>>

\* Mutation: session_scope commits on its way out, whatever was raised.
RollBackCommitting(r, stages, a) ==
  /\ stage[r] \in stages
  /\ db' = [db EXCEPT ![r] = view[r]]
  /\ EndSession(r)
  /\ Respond(r, a)

\* A statement, or the commit, raises SQLAlchemyError: roll back and report.
RollBack(r, stages, a) ==
  /\ stage[r] \in stages
  /\ EndSession(r)
  /\ Respond(r, a)
  /\ UNCHANGED db

\* COMMIT took effect, but its acknowledgement was lost with the connection.
LoseAck(r, from, a) ==
  /\ stage[r] = from
  /\ db' = [db EXCEPT ![r] = view[r]]
  /\ EndSession(r)
  /\ Respond(r, a)

\* Every connection stayed checked out for the whole pool timeout.
PoolExhausted(r, from, a) ==
  /\ stage[r] = from
  /\ Cardinality(open) >= PoolSize
  /\ Respond(r, a)
  /\ UNCHANGED <<db, view, open>>

-----------------------------------------------------------------------------
(* ChatPersistenceService.initialize_chat                                  *)

Submit(r) ==
  /\ stage[r] = "idle"
  /\ stage' = [stage EXCEPT ![r] = "init"]
  /\ UNCHANGED <<outcome, db, view, open, answer, crashes>>

BeginStart(r) == Begin(r, "init", "insert_conversation")

InsertConversation(r) ==
  /\ Flush(r, "insert_conversation", "insert_user",
           [view[r] EXCEPT !.conversation = [status |-> "active",
                                             count  |-> 0]])

InsertUserMessage(r) ==
  /\ Flush(r, "insert_user", "insert_call", [view[r] EXCEPT !.messages = @ \cup {"user"}])

InsertModelCall(r) ==
  /\ Flush(r, "insert_call", "summarize",
           [view[r] EXCEPT !.call = [status |-> "calling", reply |-> "none",
                                     error |-> "none"]])

\* update_message_summary
SummarizeStart(r) ==
  /\ Flush(r, "summarize", "commit_start",
           [view[r] EXCEPT !.conversation =
                                [view[r].conversation EXCEPT !.count = 1]])

\* Mutation: the session of the first transaction stays open.
CommitStartKeepingSession(r) ==
  /\ stage[r] = "commit_start"
  /\ db'    = [db EXCEPT ![r] = view[r]]
  /\ stage' = [stage EXCEPT ![r] = "calling"]
  /\ UNCHANGED <<outcome, view, open, answer, crashes>>

CommitStart(r) == Commit(r, "commit_start", "calling")

StartFails(r) ==
  \/ RollBack(r, InitStages \cup {"init"}, "no_record")
  \/ LoseAck(r, "commit_start", "no_record")
  \/ PoolExhausted(r, "init", "no_record")

-----------------------------------------------------------------------------
(* The call of the provider, with no session open.                         *)

\* Mutation: what may pass is retried for as long as it does not.
ProviderReturnsRetrying(r) ==
  /\ stage[r] = "calling"
  /\ \E o \in {Classify(w) : w \in Wire} \ {"unhandled"} :
       /\ outcome' = [outcome EXCEPT ![r] = o]
       /\ stage' = IF o \in {"timeout", "unavailable"}
                   THEN stage ELSE [stage EXCEPT ![r] = "save"]
  /\ UNCHANGED <<db, view, open, answer, crashes>>

ProviderReturns(r) ==
  /\ stage[r] = "calling"
  /\ \E w \in Wire :
       /\ Classify(w) # "unhandled"
       /\ outcome' = [outcome EXCEPT ![r] = Classify(w)]
  /\ stage' = [stage EXCEPT ![r] = "save"]
  /\ UNCHANGED <<db, view, open, answer, crashes>>

\* chat() catches the six LLM errors only; anything else leaves the handler.
ProviderCallEscapes(r) ==
  /\ stage[r] = "calling"
  /\ \E w \in Wire : Classify(w) = "unhandled"
  /\ Respond(r, "unhandled")
  /\ UNCHANGED <<db, view, open>>

-----------------------------------------------------------------------------
(* ChatPersistenceService.save_success and save_failure                    *)

BeginResult(r) ==
  Begin(r, "save",
        IF outcome[r] = "answer" THEN "insert_assistant" ELSE "update_call")

InsertAssistantMessage(r) ==
  /\ Flush(r, "insert_assistant", "update_call",
           [view[r] EXCEPT !.messages = @ \cup {"assistant"}])

\* update_success
UpdateCallSuccess(r) ==
  /\ outcome[r] = "answer"
  /\ Flush(r, "update_call", "end_conversation",
           [view[r] EXCEPT !.call = [status |-> "success",
                                     reply |-> "assistant", error |-> "none"]])

\* Mutation: timed_out is not passed on.
UpdateCallFailureUntimed(r) ==
  /\ outcome[r] # "answer"
  /\ Flush(r, "update_call", "end_conversation",
           [view[r] EXCEPT !.call = [status |-> "failed", reply |-> "none",
                                     error |-> outcome[r]]])

\* update_failure: timed_out decides between TIMEOUT and FAILED.
UpdateCallFailure(r) ==
  /\ outcome[r] # "answer"
  /\ Flush(r, "update_call", "end_conversation",
           [view[r] EXCEPT !.call =
              [status |-> IF outcome[r] = "timeout" THEN "timeout" ELSE "failed",
               reply |-> "none", error |-> outcome[r]]])

\* Mutation: the messages of the chat are added to the count once more.
EndConversationAdding(r) ==
  LET n == view[r].conversation.count IN
  /\ Flush(r, "end_conversation", "commit_result",
           [view[r] EXCEPT !.conversation =
              [status |-> "ended", count |-> n + Cardinality(view[r].messages)]])

EndConversation(r) ==
  LET answered == outcome[r] = "answer" IN
  /\ Flush(r, "end_conversation", "commit_result",
           [view[r] EXCEPT !.conversation =
              [status |-> "ended", count |-> IF answered THEN 2 ELSE 1]])

CommitResult(r) == Commit(r, "commit_result", "respond")

\* Mutation: the persistence error is swallowed and the result returned.
ResultFailsSilently(r) ==
  \/ RollBack(r, ResultStages \cup {"save"}, outcome[r])
  \/ LoseAck(r, "commit_result", outcome[r])
  \/ PoolExhausted(r, "save", outcome[r])

\* Mutation: a failed save_success is recorded by save_failure.
ResultFailsRecorded(r) ==
  \/ RollBack(r, ResultStages \cup {"save"}, "no_result")
  \/ /\ stage[r] = "commit_result" /\ outcome[r] = "answer"
     /\ db' = [db EXCEPT ![r] = view[r]]
     /\ EndSession(r)
     /\ outcome' = [outcome EXCEPT ![r] = "call"]
     /\ stage'   = [stage EXCEPT ![r] = "save"]
     /\ UNCHANGED <<answer, crashes>>
  \/ PoolExhausted(r, "save", "no_result")

ResultFails(r) ==
  \/ RollBack(r, ResultStages \cup {"save"}, "no_result")
  \/ LoseAck(r, "commit_result", "no_result")
  \/ PoolExhausted(r, "save", "no_result")

\* The API layer turns the result, or the re-raised error, into a response.
SendResponse(r) ==
  /\ stage[r] = "respond"
  /\ Respond(r, outcome[r])
  /\ UNCHANGED <<db, view, open>>

-----------------------------------------------------------------------------
\* The process dies: MySQL rolls open transactions back, the clients of the
\* requests in flight get no response, and a restart resumes none of them.
Crash ==
  /\ crashes < MaxCrashes
  /\ crashes' = crashes + 1
  /\ \E r \in Request : stage[r] \in Unanswered
  /\ stage'  = [r \in Request |-> IF stage[r] \in Unanswered THEN "done"
                                                             ELSE stage[r]]
  /\ answer' = [r \in Request |-> IF stage[r] \in Unanswered THEN "lost"
                                                             ELSE answer[r]]
  /\ open' = {}
  /\ view' = [r \in Request |-> NoRows]
  /\ UNCHANGED <<outcome, db>>

Start(r) == \/ BeginStart(r)      \/ InsertConversation(r)
            \/ InsertUserMessage(r) \/ InsertModelCall(r)
            \/ SummarizeStart(r)  \/ CommitStart(r) \/ StartFails(r)

CallProvider(r) == ProviderReturns(r) \/ ProviderCallEscapes(r)

SaveResult(r) == \/ BeginResult(r)       \/ InsertAssistantMessage(r)
                 \/ UpdateCallSuccess(r) \/ UpdateCallFailure(r)
                 \/ EndConversation(r)   \/ CommitResult(r)
                 \/ ResultFails(r)       \/ SendResponse(r)

\* All chats answered, nothing left to submit.
Quiescent == (\A r \in Request : stage[r] = "done") /\ UNCHANGED vars

Next ==
  \/ \E r \in Request : Submit(r) \/ Start(r) \/ CallProvider(r) \/ SaveResult(r)
  \/ Crash
  \/ Quiescent

Spec == Init /\ [][Next]_vars

\* A handler thread keeps running, the pool times out, MySQL, whose statements
\* have no timeout, is taken to answer or to break off, and httpx ends every provider call within LLM_TIMEOUT_SECONDS.
FairSpec == Spec /\ \A r \in Request : /\ WF_vars(Start(r))
                                       /\ WF_vars(CallProvider(r))
                                       /\ WF_vars(SaveResult(r))

-----------------------------------------------------------------------------
(* Properties                                                              *)

\* Every variable stays in its type.
TypeOK ==
  /\ stage \in [Request -> Stages]
  /\ outcome \in [Request -> Outcome \cup {"none"}]
  /\ db \in [Request -> Rows]
  /\ view \in [Request -> Rows]
  /\ open \subseteq Request
  /\ answer \in [Request -> Answers]
  /\ crashes \in 0..MaxCrashes

CallSettled(rows) == rows.call.status \in {"success", "failed", "timeout"}

ChatIsWhole(r) ==
  LET rows == db[r] IN
  /\ rows.conversation.count = Cardinality(rows.messages)
  /\ "user" \in rows.messages <=> rows.conversation.status # "none"
  /\ "user" \in rows.messages <=> rows.call.status # "none"
  /\ CallSettled(rows) <=> rows.conversation.status = "ended"
  /\ rows.call.status = "success" <=> "assistant" \in rows.messages
  /\ rows.call.reply = "assistant" <=> "assistant" \in rows.messages
  /\ rows.call.status \in {"failed", "timeout"} <=> rows.call.error # "none"

\* Whatever statement fails, whenever the process dies and however a commit
\* ends, a reader of the database finds each chat whole: message_count counts
\* its messages, the conversation is ended exactly when its model call is
\* settled, and a call is SUCCESS exactly when its assistant message exists
\* and is the one it refers to (the two transactions of chat_persistence).
ChatsAreWhole == \A r \in Request : ChatIsWhole(r)

ToldStored(r) ==
  /\ answer[r] = "answer" => /\ db[r].call.status = "success"
                             /\ db[r].call.reply = "assistant"
  /\ answer[r] \in Errors => db[r].call.error = answer[r]
  /\ (db[r].call.status = "timeout" /\ answer[r] \in Errors)
       <=> HttpStatus(answer[r]) = 504

\* A client that received an answer, or one of the errors of the model call,
\* was told exactly what the database holds, the error code and the choice
\* between FAILED and TIMEOUT included: nothing is reported before its commit.
ToldIsStored == \A r \in Request : ToldStored(r)

\* A pooled connection is held by the requests inside a transaction and by
\* no other: none leaks on an error path, and none is held while the model
\* is being called ("no long transaction during the model call"), however
\* slow the provider is.
ConnectionsAccounted ==
  /\ open = {r \in Request : stage[r] \in InSession}
  /\ Cardinality(open) <= PoolSize

\* The result of a chat is written once: a settled call is never written
\* again, and no row of a chat changes after its client has been answered.
ResultsAreFinal ==
  [][\A r \in Request :
       CallSettled(db[r]) \/ answer[r] # "none" => db'[r] = db[r]]_vars

\* Every request that arrives is answered, or dies with the process: no
\* error path, exhausted pool or provider failure leaves a handler waiting.
EveryChatEnds ==
  \A r \in Request : stage[r] = "init" ~> stage[r] = "done"

-----------------------------------------------------------------------------
\* The chat as an entry of a ledger that its client can rely on.
LedgerEntry(r) ==
  IF db[r].call.status = "none" THEN "absent" ELSE db[r].call.status

ToldClient(r) ==
  CASE answer[r] = "none"    -> "nothing"
    [] answer[r] = "timeout" -> "timed_out"
    [] answer[r] \in Errors \ {"timeout"} -> "error"
    [] OTHER                 -> answer[r]

Ledger == INSTANCE ChatLedger
            WITH ledger <- [r \in Request |-> LedgerEntry(r)],
                 told   <- [r \in Request |-> ToldClient(r)]

\* The persisted chats implement the ledger: an entry is settled at most
\* once, a reported result is backed by a settled entry, and nothing is
\* rewritten after the client was told.
LedgerSpec == Ledger!Spec
=============================================================================
