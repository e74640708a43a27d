--------------------------- MODULE DeepSeekClient ---------------------------
(***************************************************************************)
(* How DeepSeekLlmClient.chat turns what happened on the wire into either  *)
(* an answer or one of the provider independent errors, and which error    *)
(* code and HTTP status the chat endpoint makes of each of them.           *)
(***************************************************************************)
EXTENDS Naturals

CONSTANTS
  Status,   \* the HTTP statuses the provider may answer with
  Defect    \* the ways a response body can differ from what is expected

ASSUME StatusAssumption == Status \subseteq 100..599

Errors == {"authentication", "timeout", "unavailable", "call", "format",
           "configuration"}

\* "unhandled" is an exception the client does not translate: the shared
\* httpx client was closed, or the configured URL cannot be parsed.
Outcome == Errors \cup {"answer", "unhandled"}

Wire ==
  [event : {"response"}, status : Status, defects : SUBSET Defect]
    \cup [event : {"timeout_exception", "http_error", "other_exception"}]

Successful(status) == status \in 200..299

\* _raise_for_status, then response.json() and _parse_response.
OfResponse(status, defects) ==
  CASE status \in {401, 403}           -> "authentication"
    [] status \in {408, 504}           -> "timeout"
    [] status \in {429, 500, 502, 503} -> "unavailable"
    [] OTHER -> IF ~ Successful(status) THEN "call"
                ELSE IF defects # {} THEN "format" ELSE "answer"

\* DeepSeekLlmClient.chat
Classify(w) ==
  CASE w.event = "response"          -> OfResponse(w.status, w.defects)
    [] w.event = "timeout_exception" -> "timeout"
    [] w.event = "http_error"        -> "call"
    [] w.event = "other_exception"   -> "unhandled"

\* The status of POST /api/chat for a chat that ended with this outcome.
HttpStatus(outcome) ==
  CASE outcome = "answer"                  -> 200
    [] outcome = "authentication"          -> 401
    [] outcome = "timeout"                 -> 504
    [] outcome = "unavailable"             -> 503
    [] outcome \in {"format", "call"}      -> 502
    [] OTHER                               -> 500
=============================================================================
