--------------------------- MODULE MesAgentProofs ---------------------------
(***************************************************************************)
(* Theorems about MesAgent, for any catalogs, reasoning results, queries,  *)
(* numbers of runs and of crashes.                                         *)
(***************************************************************************)
EXTENDS MesAgent, TLAPS

-----------------------------------------------------------------------------
(* The inductive invariant: what a run holds, by how far it has come.      *)

Active == {"tool", "generate", "generate_plain", "validate", "run_sql"}
Done   == {"responded", "finished", "answered"}

Statuses(r) ==
  IF calls[r] = <<>> THEN {"clarification_required", "error"} ELSE {"success", "error"}

Asked(r) ==
  /\ calls[r] = <<>> \/ \E c \in HeatTreatment : calls[r] = <<c>>
  /\ stage[r] \in {"idle", "reason", "reason_plain", "reasoned"} => calls[r] = <<>>
  /\ stage[r] \in Active \cup {"reasoned"} => reasoning[r] \in Results
  /\ stage[r] \in Active => Selected(r) \in HeatTreatment /\ calls[r] = <<Selected(r)>>

Queried(r) == stage[r] \in {"validate", "run_sql"} => query[r] \in Queries

Told(r) ==
  /\ stage[r] \in Done => response[r] \in Response /\ response[r].status \in Statuses(r)
  /\ events[r] # <<>> <=> stage[r] \in InProgress \ {"finished"}
  /\ stage[r] = "answered" => stored[r] = response[r] \/ (stored[r] = Absent /\ r \in warned)
  /\ stored[r] # Absent => stage[r] \in Ended

RunInv(r) == Asked(r) /\ Queried(r) /\ Told(r)

IInv == TypeOK /\ \A r \in Request : RunInv(r)

\* Nothing of the other runs changes.
Alone(r) ==
  /\ catalog' = catalog
  /\ \A s \in Request \ {r} :
       /\ stage'[s] = stage[s] /\ reasoning'[s] = reasoning[s] /\ query'[s] = query[s]
       /\ calls'[s] = calls[s] /\ events'[s] = events[s] /\ response'[s] = response[s]
       /\ stored'[s] = stored[s] /\ (s \in warned' <=> s \in warned)

LEMMA Frame ==
  ASSUME IInv, NEW r \in Request, Alone(r), RunInv(r)', TypeOK'
  PROVE  IInv'
<1> SUFFICES ASSUME NEW s \in Request, s # r PROVE RunInv(s)'
  BY DEF IInv
<1>1. RunInv(s)
  BY DEF IInv
<1>2. /\ catalog' = catalog
      /\ stage'[s] = stage[s] /\ reasoning'[s] = reasoning[s] /\ query'[s] = query[s]
      /\ calls'[s] = calls[s] /\ events'[s] = events[s] /\ response'[s] = response[s]
      /\ stored'[s] = stored[s] /\ (s \in warned' <=> s \in warned)
  BY DEF Alone
<1>3. Asked(s)'
  BY <1>1, <1>2 DEF RunInv, Asked, Results, Available, Selected
<1>4. Queried(s)'
  BY <1>1, <1>2 DEF RunInv, Queried
<1>5. Told(s)'
  <2>1. Event' = Event
    BY <1>2 DEF Event, Results, Available
  <2>2. Response' = Response
    BY <2>1 DEF Response
  <2> QED
    BY <1>1, <1>2, <2>2 DEF RunInv, Told, Statuses
<1> QED
  BY <1>3, <1>4, <1>5 DEF RunInv

LEMMA EventsStay ==
  ASSUME catalog' = catalog
  PROVE  Results' = Results /\ Event' = Event /\ Response' = Response
  BY DEF Results, Available, Event, Response

LEMMA Initially == Init => IInv
<1> SUFFICES ASSUME Init PROVE IInv
  OBVIOUS
<1>1. TypeOK
  BY AgentAssumption DEF Init, TypeOK, Stages
<1>2. \A r \in Request : RunInv(r)
  BY DEF Init, RunInv, Asked, Queried, Told, Active, Done, InProgress, Ended, Stages
<1> QED
  BY <1>1, <1>2 DEF IInv

-----------------------------------------------------------------------------
(* Every action preserves it.                                              *)

LEMMA EventTypes ==
  /\ <<"request">> \in Event /\ <<"agent_router">> \in Event /\ Failure \in Event
  /\ \A m \in Results : <<"reasoning", m>> \in Event
  /\ \A c \in HeatTreatment : <<"capability", c, "validated">> \in Event
  /\ \A c \in HeatTreatment : <<"execution", c>> \in Event
  /\ \A st \in {"success", "clarification_required", "error"} : <<"result", st>> \in Event
  BY DEF Event, Failure

LEMMA Extending ==
  ASSUME NEW S, NEW s \in Seq(S), NEW t \in Seq(S), s # <<>> \/ t # <<>>
  PROVE  s \o t \in Seq(S) /\ s \o t # <<>>
<1>1. Len(s) > 0 \/ Len(t) > 0
  OBVIOUS
<1>2. s \o t \in Seq(S) /\ Len(s \o t) = Len(s) + Len(t)
  OBVIOUS
<1>3. Len(s \o t) > 0
  BY <1>1, <1>2
<1> QED
  BY <1>2, <1>3

LEMMA RespondStep ==
  ASSUME IInv, NEW r \in Request, NEW from \in Active \cup {"reason", "reason_plain", "reasoned"},
         NEW status \in Statuses(r), NEW capability \in HeatTreatment \cup {Absent},
         NEW data \in {"none", "found", "not_found", "rows", "rejected", "failed"},
         NEW new \in Seq(Event),
         Respond(r, from, status, capability, data, new), UNCHANGED calls
  PROVE  IInv'
<1> DEFINE x == [status |-> status, capability |-> capability, data |-> data, trace |-> <<>>]
<1>1. /\ stage[r] = from
      /\ stage' = [stage EXCEPT ![r] = "responded"]
      /\ events' = [events EXCEPT ![r] = @ \o new]
      /\ response' = [response EXCEPT ![r] = x]
      /\ reasoning' = [reasoning EXCEPT ![r] = Absent]
      /\ query' = [query EXCEPT ![r] = Absent]
      /\ UNCHANGED <<catalog, stored, warned, crashes, calls>>
  BY DEF Respond, Goto, Record
<1>2. TypeOK /\ RunInv(r)
  BY DEF IInv
<1>3. Results' = Results /\ Event' = Event /\ Response' = Response
  BY <1>1, EventsStay
<1>4. x \in Response
  <2>1. status \in {"success", "clarification_required", "error"}
    BY DEF Statuses
  <2>2. <<>> \in Seq(Event)
    OBVIOUS
  <2> QED
    BY <2>1, <2>2 DEF Response
<1>5. events[r] \in Seq(Event) /\ events[r] # <<>>
  BY <1>1, <1>2 DEF TypeOK, RunInv, Told, Active, InProgress, Ended, Stages
<1>6. events[r] \o new \in Seq(Event) /\ events[r] \o new # <<>>
  BY <1>5, Extending
<1>7. TypeOK'
  <2>1. events' \in [Request -> Seq(Event)]
    BY <1>1, <1>2, <1>6 DEF TypeOK
  <2>2. response' \in [Request -> Response \cup {Absent}]
    BY <1>1, <1>2, <1>4 DEF TypeOK
  <2>3. stage' \in [Request -> Stages]
    BY <1>1, <1>2 DEF TypeOK, Stages
  <2>4. /\ reasoning' \in [Request -> Results \cup {Absent}]
        /\ query' \in [Request -> Queries \cup {Absent}]
    BY <1>1, <1>2 DEF TypeOK
  <2> QED
    BY <1>1, <1>2, <1>3, <2>1, <2>2, <2>3, <2>4 DEF TypeOK
<1>8. /\ stage'[r] = "responded" /\ response'[r] = x /\ events'[r] = events[r] \o new
      /\ calls'[r] = calls[r] /\ stored'[r] = stored[r]
  BY <1>1, <1>2 DEF TypeOK
<1>9. Asked(r)'
  BY <1>2, <1>8 DEF RunInv, Asked, Active
<1>10. Queried(r)'
  BY <1>8 DEF Queried
<1>11. Told(r)'
  <2>1. Statuses(r)' = Statuses(r) /\ x.status = status
    BY <1>8 DEF Statuses
  <2>2. stored[r] = Absent
    BY <1>1, <1>2 DEF RunInv, Told, Ended, Active
  <2> QED
    BY <1>3, <1>4, <1>6, <1>8, <2>1, <2>2 DEF Told, Done, InProgress, Ended, Stages
<1>12. Alone(r)
  BY <1>1, <1>2 DEF Alone, TypeOK
<1> QED
  BY <1>7, <1>9, <1>10, <1>11, <1>12, Frame DEF RunInv

LEMMA RaiseStep ==
  ASSUME IInv, NEW r \in Request, NEW from \in Active \cup {"reason", "reason_plain"},
         Raise(r, from)
  PROVE  IInv'
<1>1. << Failure >> \in Seq(Event)
  BY EventTypes
<1>2. "error" \in Statuses(r)
  BY DEF Statuses
<1> QED
  BY <1>1, <1>2, RespondStep DEF Raise

LEMMA SucceedStep ==
  ASSUME IInv, NEW r \in Request, NEW from \in Active,
         NEW data \in {"none", "found", "not_found", "rows", "rejected", "failed"},
         Succeed(r, from, data)
  PROVE  IInv'
<1>1. stage[r] = from
  BY DEF Succeed, Respond, Goto
<1>2. Selected(r) \in HeatTreatment /\ calls[r] = <<Selected(r)>>
  BY <1>1 DEF IInv, RunInv, Asked
<1>3. << <<"execution", Selected(r)>> >> \in Seq(Event)
  BY <1>2, EventTypes
<1>4. "success" \in Statuses(r)
  BY <1>2 DEF Statuses
<1> QED
  BY <1>2, <1>3, <1>4, RespondStep DEF Succeed

LEMMA StartStep ==
  ASSUME IInv, NEW r \in Request, Start(r)
  PROVE  IInv'
<1> DEFINE new == << <<"request">>, <<"agent_router">> >>
<1>1. /\ stage[r] = "idle"
      /\ stage' = [stage EXCEPT ![r] = "reason"]
      /\ events' = [events EXCEPT ![r] = new]
      /\ UNCHANGED <<catalog, reasoning, query, calls, response, stored, warned, crashes>>
  BY DEF Start, Goto
<1>2. TypeOK /\ RunInv(r)
  BY DEF IInv
<1>3. Results' = Results /\ Event' = Event /\ Response' = Response
  BY <1>1, EventsStay
<1>4. new \in Seq(Event) /\ new # <<>>
  BY EventTypes
<1>5. TypeOK'
  BY <1>1, <1>2, <1>3, <1>4 DEF TypeOK, Stages
<1>6. stage'[r] = "reason" /\ events'[r] = new
  BY <1>1, <1>2 DEF TypeOK
<1>7. RunInv(r)'
  BY <1>1, <1>2, <1>4, <1>6 DEF RunInv, Asked, Queried, Told, Active, Done, InProgress, Ended, Stages
<1> QED
  BY <1>1, <1>2, <1>5, <1>7, Frame DEF Alone, TypeOK

LEMMA AdaptedTypes ==
  ASSUME NEW m \in Reasonings
  PROVE  Adapted(m) \in Results
<1>1. m \in [selected : {m.selected}, entities : SUBSET Entities, need_clarification : BOOLEAN]
  BY AgentAssumption
<1>2. CASE m.selected \in Available \cup {Absent}
  BY <1>1, <1>2 DEF Adapted, Results
<1>3. CASE m.selected \notin Available \cup {Absent}
  BY <1>1, <1>3 DEF Adapted, Results
<1> QED
  BY <1>2, <1>3

LEMMA ReasonedStep ==
  ASSUME IInv, NEW r \in Request, NEW from \in {"reason", "reason_plain"}, Reasoned(r, from)
  PROVE  IInv'
<1>1. PICK m \in Reasonings :
        /\ reasoning' = [reasoning EXCEPT ![r] = Adapted(m)]
        /\ events' = [events EXCEPT ![r] = @ \o << <<"reasoning", Adapted(m)>> >>]
  BY DEF Reasoned, Record
<1> DEFINE a == Adapted(m)
           new == << <<"reasoning", a>> >>
<1>2. /\ stage[r] = from
      /\ stage' = [stage EXCEPT ![r] = "reasoned"]
      /\ UNCHANGED <<catalog, query, calls, response, stored, warned, crashes>>
  BY DEF Reasoned, Goto
<1>3. TypeOK /\ RunInv(r)
  BY DEF IInv
<1>4. Results' = Results /\ Event' = Event /\ Response' = Response
  BY <1>2, EventsStay
<1>5. a \in Results
  BY AdaptedTypes
<1>6. new \in Seq(Event) /\ new # <<>>
  BY <1>5, EventTypes
<1>7. events[r] \o new \in Seq(Event) /\ events[r] \o new # <<>>
  BY <1>3, <1>6, Extending DEF TypeOK
<1>8. TypeOK'
  <2>1. reasoning' \in [Request -> Results \cup {Absent}] /\ events' \in [Request -> Seq(Event)]
    BY <1>1, <1>3, <1>5, <1>7 DEF TypeOK
  <2> QED
    BY <1>2, <1>3, <1>4, <2>1 DEF TypeOK, Stages
<1>9. stage'[r] = "reasoned" /\ reasoning'[r] = a /\ events'[r] = events[r] \o new
  BY <1>1, <1>2, <1>3 DEF TypeOK
<1>10. Asked(r)'
  BY <1>2, <1>3, <1>4, <1>5, <1>9 DEF RunInv, Asked, Active
<1>11. Queried(r)' /\ Told(r)'
  BY <1>2, <1>3, <1>7, <1>9 DEF RunInv, Queried, Told, Done, InProgress, Ended, Stages
<1> QED
  BY <1>1, <1>2, <1>3, <1>8, <1>10, <1>11, Frame DEF Alone, TypeOK, RunInv

LEMMA RetryStep ==
  ASSUME IInv, NEW r \in Request,
         Retry(r, "reason", "reason_plain") \/ Retry(r, "generate", "generate_plain")
  PROVE  IInv'
<1>1. PICK from \in {"reason", "generate"}, to \in {"reason_plain", "generate_plain"} :
        /\ from = "reason" <=> to = "reason_plain"
        /\ stage[r] = from /\ stage' = [stage EXCEPT ![r] = to]
        /\ UNCHANGED <<catalog, reasoning, query, calls, events, response, stored, warned, crashes>>
  BY DEF Retry, Goto
<1>2. TypeOK /\ RunInv(r)
  BY DEF IInv
<1>3. Results' = Results /\ Event' = Event /\ Response' = Response
  BY <1>1, EventsStay
<1>4. TypeOK'
  BY <1>1, <1>2, <1>3 DEF TypeOK, Stages
<1>5. stage'[r] = to
  BY <1>1, <1>2 DEF TypeOK
<1>6. Asked(r)'
  BY <1>1, <1>2, <1>3, <1>5 DEF RunInv, Asked, Active, Selected
<1>7. Queried(r)' /\ Told(r)'
  BY <1>1, <1>2, <1>5 DEF RunInv, Queried, Told, Done, InProgress, Ended, Stages
<1> QED
  BY <1>1, <1>2, <1>4, <1>6, <1>7, Frame DEF Alone, TypeOK, RunInv

LEMMA ClarifyStep ==
  ASSUME IInv, NEW r \in Request, Clarify(r)
  PROVE  IInv'
<1> DEFINE v == Validation(reasoning[r])
<1>1. v \in {"need_clarification", "missing_required_entities", "capability_not_executable",
             "matched"}
  BY DEF Validation
<1>2. Selected(r) \in HeatTreatment \cup {Absent}
  BY DEF Selected
<1>3. << <<"capability", Selected(r), v>> >> \in Seq(Event)
  BY <1>1, <1>2 DEF Event
<1>4. "clarification_required" \in Statuses(r)
  BY DEF IInv, RunInv, Asked, Clarify, Statuses
<1> QED
  BY <1>2, <1>3, <1>4, RespondStep DEF Clarify

LEMMA MatchedSelection ==
  ASSUME NEW r \in Request, Matched(r)
  PROVE  Selected(r) \in HeatTreatment
  BY DEF Matched, Selected

LEMMA RefuseStep ==
  ASSUME IInv, NEW r \in Request, RefuseToExecute(r)
  PROVE  IInv'
<1>1. <<Validated(r), Failure>> \in Seq(Event)
  BY MatchedSelection, EventTypes DEF RefuseToExecute, Validated
<1>2. "error" \in Statuses(r)
  BY DEF Statuses
<1> QED
  BY <1>1, <1>2, RespondStep DEF RefuseToExecute

LEMMA CallStep ==
  ASSUME IInv, NEW r \in Request, Call(r)
  PROVE  IInv'
<1> DEFINE c == Selected(r)
           new == <<Validated(r)>>
<1>1. PICK to \in {"generate", "tool"} :
        /\ stage[r] = "reasoned"
        /\ stage' = [stage EXCEPT ![r] = to]
        /\ events' = [events EXCEPT ![r] = @ \o new]
        /\ calls' = [calls EXCEPT ![r] = Append(@, c)]
        /\ UNCHANGED <<catalog, reasoning, query, response, stored, warned, crashes>>
  BY DEF Call, Goto, Record
<1>2. TypeOK /\ RunInv(r)
  BY DEF IInv
<1>3. Results' = Results /\ Event' = Event /\ Response' = Response
  BY <1>1, EventsStay
<1>4. c \in HeatTreatment
  BY MatchedSelection DEF Call
<1>5. new \in Seq(Event) /\ new # <<>>
  BY <1>4, EventTypes DEF Validated
<1>6. events[r] \o new \in Seq(Event) /\ events[r] \o new # <<>>
  BY <1>2, <1>5, Extending DEF TypeOK
<1>7. calls[r] = <<>> /\ Append(calls[r], c) = <<c>>
  <2>1. calls[r] = <<>>
    BY <1>1, <1>2 DEF RunInv, Asked
  <2>2. Append(<<>>, c) = <<c>>
    OBVIOUS
  <2> QED
    BY <2>1, <2>2
<1>8. TypeOK'
  <2>1. events' \in [Request -> Seq(Event)] /\ calls' \in [Request -> Seq(HeatTreatment)]
    BY <1>1, <1>2, <1>4, <1>6, <1>7 DEF TypeOK
  <2> QED
    BY <1>1, <1>2, <1>3, <2>1 DEF TypeOK, Stages
<1>9. stage'[r] = to /\ calls'[r] = <<c>> /\ events'[r] = events[r] \o new
  BY <1>1, <1>2, <1>7 DEF TypeOK
<1>10. Asked(r)'
  <2>1. Selected(r)' = c
    BY <1>1 DEF Selected
  <2> QED
    BY <1>1, <1>2, <1>3, <1>4, <1>9, <2>1 DEF RunInv, Asked, Active
<1>11. Queried(r)' /\ Told(r)'
  BY <1>1, <1>2, <1>6, <1>9 DEF RunInv, Queried, Told, Done, InProgress, Ended, Stages
<1> QED
  BY <1>1, <1>2, <1>8, <1>10, <1>11, Frame DEF Alone, TypeOK, RunInv

\* A run that has a query moves on with it.
LEMMA QueryStep ==
  ASSUME IInv, NEW r \in Request, NEW from \in Active, NEW to \in {"validate", "run_sql"},
         NEW q \in Queries, Goto(r, from, to), query' = [query EXCEPT ![r] = q],
         UNCHANGED <<catalog, reasoning, calls, events, response, stored, warned, crashes>>
  PROVE  IInv'
<1>1. stage[r] = from /\ stage' = [stage EXCEPT ![r] = to]
  BY DEF Goto
<1>2. TypeOK /\ RunInv(r)
  BY DEF IInv
<1>3. Results' = Results /\ Event' = Event /\ Response' = Response
  BY EventsStay
<1>4. TypeOK'
  BY <1>1, <1>2, <1>3 DEF TypeOK, Stages
<1>5. stage'[r] = to /\ query'[r] = q
  BY <1>1, <1>2 DEF TypeOK
<1>6. Asked(r)'
  BY <1>1, <1>2, <1>3, <1>5 DEF RunInv, Asked, Active, Selected
<1>7. Queried(r)'
  BY <1>5 DEF Queried
<1>8. Told(r)'
  BY <1>1, <1>2, <1>5 DEF RunInv, Told, Done, InProgress, Ended, Stages, Active
<1> QED
  BY <1>1, <1>2, <1>4, <1>6, <1>7, <1>8, Frame DEF Alone, TypeOK, RunInv

LEMMA GeneratedStep ==
  ASSUME IInv, NEW r \in Request, NEW from \in {"generate", "generate_plain"}, Generated(r, from)
  PROVE  IInv'
<1>1. PICK q \in Query : query' = [query EXCEPT ![r] = q]
  BY DEF Generated
<1>2. q \in Queries
  BY AgentAssumption
<1>3. /\ Goto(r, from, "validate") /\ from \in Active
      /\ UNCHANGED <<catalog, reasoning, calls, events, response, stored, warned, crashes>>
  BY DEF Generated, Active
<1> QED
  BY <1>1, <1>2, <1>3, QueryStep

LEMMA ValidateStep ==
  ASSUME IInv, NEW r \in Request, ValidateSql(r)
  PROVE  IInv'
<1>1. CASE Rejections(query[r]) # {} /\ Succeed(r, "validate", "rejected")
  BY <1>1, SucceedStep DEF Active
<1>2. CASE Raise(r, "validate")
  BY <1>2, RaiseStep DEF Active
<1>3. CASE /\ Rejections(query[r]) = {}
           /\ Goto(r, "validate", "run_sql")
           /\ query' = [query EXCEPT ![r].limit = Enforced(@)]
           /\ UNCHANGED <<catalog, reasoning, calls, events, response, stored, warned, crashes>>
  <2> DEFINE q == [query[r] EXCEPT !.limit = Enforced(@)]
  <2>1. query[r] \in Queries
    BY <1>3 DEF IInv, RunInv, Queried, Goto
  <2>2. Enforced(query[r].limit) \in Nat
    BY LimitAssumption DEF Enforced
  <2>3. q \in Queries
    BY <2>1, <2>2 DEF Queries
  <2>4. query' = [query EXCEPT ![r] = q]
    BY <1>3
  <2> QED
    BY <1>3, <2>3, <2>4, QueryStep DEF Active
<1> QED
  BY <1>1, <1>2, <1>3 DEF ValidateSql

LEMMA FinishStep ==
  ASSUME IInv, NEW r \in Request, Finish(r)
  PROVE  IInv'
<1> DEFINE all == Append(events[r], <<"result", response[r].status>>)
           x == [response[r] EXCEPT !.trace = all]
<1>1. /\ stage[r] = "responded"
      /\ stage' = [stage EXCEPT ![r] = "finished"]
      /\ response' = [response EXCEPT ![r] = x]
      /\ events' = [events EXCEPT ![r] = <<>>]
      /\ UNCHANGED <<catalog, reasoning, query, calls, stored, warned, crashes>>
  BY DEF Finish, Goto
<1>2. TypeOK /\ RunInv(r)
  BY DEF IInv
<1>3. Results' = Results /\ Event' = Event /\ Response' = Response
  BY <1>1, EventsStay
<1>4. response[r] \in Response /\ response[r].status \in Statuses(r)
  BY <1>1, <1>2 DEF RunInv, Told, Done
<1>5. all \in Seq(Event)
  <2>1. <<"result", response[r].status>> \in Event
    BY <1>4, EventTypes DEF Statuses
  <2> QED
    BY <1>2, <2>1 DEF TypeOK
<1>6. x \in Response /\ x.status = response[r].status
  BY <1>4, <1>5 DEF Response
<1>7. TypeOK'
  <2>1. response' \in [Request -> Response \cup {Absent}] /\ events' \in [Request -> Seq(Event)]
    BY <1>1, <1>2, <1>6 DEF TypeOK
  <2> QED
    BY <1>1, <1>2, <1>3, <2>1 DEF TypeOK, Stages
<1>8. stage'[r] = "finished" /\ response'[r] = x /\ events'[r] = <<>>
  BY <1>1, <1>2 DEF TypeOK
<1>9. Asked(r)' /\ Queried(r)'
  BY <1>1, <1>2, <1>8 DEF RunInv, Asked, Queried, Active
<1>10. Told(r)'
  <2>1. Statuses(r)' = Statuses(r)
    BY <1>1 DEF Statuses
  <2> QED
    BY <1>1, <1>2, <1>3, <1>4, <1>6, <1>8, <2>1 DEF RunInv, Told, Done, InProgress, Ended, Stages
<1> QED
  BY <1>1, <1>2, <1>7, <1>9, <1>10, Frame DEF Alone, TypeOK, RunInv

LEMMA AuditStep ==
  ASSUME IInv, NEW r \in Request, AuditStores(r) \/ AuditFails(r)
  PROVE  IInv'
<1>1. /\ stage[r] = "finished"
      /\ stage' = [stage EXCEPT ![r] = "answered"]
      /\ UNCHANGED <<catalog, reasoning, query, calls, events, response, crashes>>
  BY DEF AuditStores, AuditFails, Answer, Goto
<1>2. TypeOK /\ RunInv(r)
  BY DEF IInv
<1>3. \/ stored' = [stored EXCEPT ![r] = response[r]] /\ warned' = warned
      \/ stored' = [stored EXCEPT ![r] = response[r]] /\ warned' = warned \cup {r}
      \/ stored' = stored /\ warned' = warned \cup {r}
  BY DEF AuditStores, AuditFails
<1>4. stored[r] = Absent
  BY <1>1, <1>2 DEF RunInv, Told, Ended
<1>5. Results' = Results /\ Event' = Event /\ Response' = Response
  BY <1>1, EventsStay
<1>6. TypeOK'
  <2>1. stored' \in [Request -> Response \cup {Absent}] /\ warned' \subseteq Request
    BY <1>2, <1>3 DEF TypeOK
  <2> QED
    BY <1>1, <1>2, <1>5, <2>1 DEF TypeOK, Stages
<1>7. stage'[r] = "answered"
  BY <1>1, <1>2 DEF TypeOK
<1>8. stored'[r] = response[r] \/ (stored'[r] = Absent /\ r \in warned')
  BY <1>2, <1>3, <1>4 DEF TypeOK
<1>9. Asked(r)' /\ Queried(r)'
  BY <1>1, <1>2, <1>7 DEF RunInv, Asked, Queried, Active
<1>10. Told(r)'
  <2>1. Statuses(r)' = Statuses(r)
    BY <1>1 DEF Statuses
  <2> QED
    BY <1>1, <1>2, <1>5, <1>7, <1>8, <2>1 DEF RunInv, Told, Done, InProgress, Ended, Stages
<1>11. Alone(r)
  BY <1>1, <1>2, <1>3 DEF Alone, TypeOK
<1> QED
  BY <1>6, <1>9, <1>10, <1>11, Frame DEF RunInv

LEMMA CrashStep ==
  ASSUME IInv, Crash
  PROVE  IInv'
<1> DEFINE lost == {r \in Request : stage[r] \in InProgress}
<1>1. PICK sent \in SUBSET {r \in lost : stage[r] = "finished"} :
        stored' = [r \in Request |-> IF r \in sent THEN response[r] ELSE stored[r]]
  BY DEF Crash
<1>2. /\ stage'     = [r \in Request |-> IF r \in lost THEN "lost" ELSE stage[r]]
      /\ reasoning' = [r \in Request |-> IF r \in lost THEN Absent ELSE reasoning[r]]
      /\ query'     = [r \in Request |-> IF r \in lost THEN Absent ELSE query[r]]
      /\ events'    = [r \in Request |-> IF r \in lost THEN <<>> ELSE events[r]]
      /\ response'  = [r \in Request |-> IF r \in lost THEN Absent ELSE response[r]]
      /\ crashes < MaxCrashes /\ crashes' = crashes + 1
      /\ UNCHANGED <<catalog, calls, warned>>
  BY DEF Crash
<1>3. TypeOK /\ \A r \in Request : RunInv(r)
  BY DEF IInv
<1>4. Results' = Results /\ Event' = Event /\ Response' = Response
  BY <1>2, EventsStay
<1>5. TypeOK'
  <2>1. crashes' \in 0..MaxCrashes
    BY <1>2, <1>3, AgentAssumption DEF TypeOK
  <2>2. stage' \in [Request -> Stages] /\ events' \in [Request -> Seq(Event)]
    BY <1>2, <1>3 DEF TypeOK, Stages
  <2>3. /\ reasoning' \in [Request -> Results \cup {Absent}]
        /\ query' \in [Request -> Queries \cup {Absent}]
        /\ response' \in [Request -> Response \cup {Absent}]
        /\ stored' \in [Request -> Response \cup {Absent}]
    BY <1>1, <1>2, <1>3 DEF TypeOK
  <2> QED
    BY <1>2, <1>3, <1>4, <2>1, <2>2, <2>3 DEF TypeOK
<1>6. ASSUME NEW r \in Request PROVE RunInv(r)'
  <2>1. CASE r \in lost
    <3>1. stage'[r] = "lost" /\ events'[r] = <<>> /\ calls'[r] = calls[r]
      BY <1>2, <2>1
    <3>2. Asked(r)' /\ Queried(r)'
      BY <1>3, <3>1 DEF RunInv, Asked, Queried, Active
    <3>3. Told(r)'
      BY <3>1 DEF Told, Done, InProgress, Ended, Stages
    <3> QED
      BY <3>2, <3>3 DEF RunInv
  <2>2. CASE r \notin lost
    <3>1. /\ stage'[r] = stage[r] /\ stage[r] \notin InProgress
          /\ events'[r] = events[r] /\ response'[r] = response[r]
          /\ stored'[r] = stored[r] /\ calls'[r] = calls[r] /\ warned' = warned
      BY <1>1, <1>2, <2>2
    <3>2. stage[r] \in {"idle", "answered", "lost"}
      BY <1>3, <3>1 DEF TypeOK, InProgress, Ended, Stages
    <3>3. Asked(r)' /\ Queried(r)'
      BY <1>3, <3>1, <3>2 DEF RunInv, Asked, Queried, Active
    <3>4. Statuses(r)' = Statuses(r)
      BY <3>1 DEF Statuses
    <3>5. Told(r)'
      BY <1>3, <1>4, <3>1, <3>2, <3>4 DEF RunInv, Told
    <3> QED
      BY <3>3, <3>5 DEF RunInv
  <2> QED
    BY <2>1, <2>2
<1> QED
  BY <1>5, <1>6 DEF IInv

LEMMA StutterStep ==
  ASSUME IInv, UNCHANGED vars
  PROVE  IInv'
<1>1. UNCHANGED <<catalog, stage, reasoning, query, calls, events, response, stored, warned, crashes>>
  BY DEF vars
<1>2. Results' = Results /\ Event' = Event /\ Response' = Response
  BY <1>1, EventsStay
<1>3. TypeOK'
  BY <1>1, <1>2 DEF IInv, TypeOK
<1>4. ASSUME NEW r \in Request PROVE RunInv(r)'
  <2>1. RunInv(r)
    BY DEF IInv
  <2> QED
    BY <1>1, <1>2, <2>1 DEF RunInv, Asked, Queried, Told, Selected, Statuses
<1> QED
  BY <1>3, <1>4 DEF IInv

LEMMA Step == IInv /\ [Next]_vars => IInv'
<1> SUFFICES ASSUME IInv, [Next]_vars PROVE IInv'
  OBVIOUS
<1>1. CASE UNCHANGED vars
  BY <1>1, StutterStep
<1>2. CASE Crash
  BY <1>2, CrashStep
<1>3. ASSUME NEW r \in Request, Start(r) \/ Think(r) \/ UseTool(r) \/ UseSql(r) \/ Close(r)
      PROVE  IInv'
  <2>1. CASE Start(r)
    BY <2>1, StartStep
  <2>2. CASE ReasonStructured(r)
    BY <2>2, ReasonedStep, RetryStep, RaiseStep DEF ReasonStructured
  <2>3. CASE ReasonPlain(r)
    BY <2>3, ReasonedStep, RaiseStep DEF ReasonPlain
  <2>4. CASE Clarify(r)
    BY <2>4, ClarifyStep
  <2>5. CASE RefuseToExecute(r)
    BY <2>5, RefuseStep
  <2>6. CASE Call(r)
    BY <2>6, CallStep
  <2>7. CASE ToolReturns(r)
    BY <2>7, SucceedStep DEF ToolReturns, Active
  <2>8. CASE ToolRaises(r)
    BY <2>8, RaiseStep DEF ToolRaises, Active
  <2>9. CASE GenerateStructured(r)
    BY <2>9, GeneratedStep, RetryStep DEF GenerateStructured
  <2>10. CASE GeneratePlain(r)
    BY <2>10, GeneratedStep, SucceedStep DEF GeneratePlain, Active
  <2>11. CASE ValidateSql(r)
    BY <2>11, ValidateStep
  <2>12. CASE RunSql(r)
    BY <2>12, SucceedStep, RaiseStep DEF RunSql, Active
  <2>13. CASE Finish(r)
    BY <2>13, FinishStep
  <2>14. CASE AuditStores(r) \/ AuditFails(r)
    BY <2>14, AuditStep
  <2> QED
    BY <1>3, <2>1, <2>2, <2>3, <2>4, <2>5, <2>6, <2>7, <2>8, <2>9, <2>10, <2>11, <2>12,
       <2>13, <2>14 DEF Think, UseTool, UseSql, Close
<1> QED
  BY <1>1, <1>2, <1>3 DEF Next

-----------------------------------------------------------------------------
(* The theorems.                                                           *)

\* The invariant holds of every run of the specification.
THEOREM Invariance == Spec => []IInv
<1> QED
  BY Initially, Step, PTL DEF Spec

\* Every variable keeps its type: a reasoning result that is acted upon selects
\* nothing the model was not offered, whatever it answered.
THEOREM TypeCorrect == Spec => []TypeOK
<1>1. IInv => TypeOK
  BY DEF IInv
<1> QED
  BY <1>1, Invariance, PTL

\* The dictionary of the trace runtime holds the runs in progress only.
THEOREM NoTraceLeaks == Spec => []TracesReleased
<1>1. IInv => TracesReleased
  BY DEF IInv, RunInv, Told, TracesReleased
<1> QED
  BY <1>1, Invariance, PTL

\* An answer is on record as it was sent, or its loss is in the log.
THEOREM Audited == Spec => []AnswersAreAudited
<1>1. IInv => AnswersAreAudited
  BY DEF IInv, RunInv, Told, AnswersAreAudited
<1> QED
  BY <1>1, Invariance, PTL

-----------------------------------------------------------------------------
(* MesAgent implements AgentContract.                                      *)

\* A step that calls nothing and ends nothing is invisible.
LEMMA Unseen ==
  ASSUME TypeOK, NEW r \in Request, stage[r] \notin Ended, NEW to \in Stages \ Ended,
         stage' = [stage EXCEPT ![r] = to],
         \A s \in Request \ {r} : response'[s] = response[s],
         UNCHANGED calls
  PROVE  UNCHANGED Contract!vars
<1>1. ASSUME NEW s \in Request PROVE ClientView'[s] = ClientView[s]
  <2>1. CASE s = r
    <3>1. stage'[s] = to
      BY <2>1 DEF TypeOK
    <3> QED
      BY <2>1, <3>1 DEF ClientView, Ended
  <2>2. CASE s # r
    BY <2>2 DEF TypeOK, ClientView
  <2> QED
    BY <2>1, <2>2
<1>2. ClientView' = ClientView
  BY <1>1 DEF ClientView
<1> QED
  BY <1>2 DEF Contract!vars

LEMMA CallIsUse ==
  ASSUME IInv, NEW r \in Request, Call(r)
  PROVE  Contract!Use(r)
<1>1. /\ stage[r] = "reasoned"
      /\ calls' = [calls EXCEPT ![r] = Append(@, Selected(r))]
      /\ response' = response
  BY DEF Call
<1>2. PICK to \in {"generate", "tool"} : stage' = [stage EXCEPT ![r] = to]
  BY DEF Call, Goto
<1>3. TypeOK /\ Selected(r) \in HeatTreatment
  BY MatchedSelection DEF IInv, Call
<1>4. calls[r] = <<>>
  BY <1>1 DEF IInv, RunInv, Asked
<1>5. Append(<<>>, Selected(r)) = <<Selected(r)>>
  OBVIOUS
<1>6. calls' = [calls EXCEPT ![r] = <<Selected(r)>>]
  BY <1>1, <1>4, <1>5
<1>7. ASSUME NEW s \in Request PROVE ClientView'[s] = ClientView[s]
  <2>1. CASE s = r
    BY <1>1, <1>2, <1>3, <2>1 DEF ClientView, TypeOK
  <2>2. CASE s # r
    BY <1>1, <1>2, <1>3, <2>2 DEF ClientView, TypeOK
  <2> QED
    BY <2>1, <2>2
<1>8. ClientView' = ClientView /\ ClientView[r] = "nothing"
  BY <1>1, <1>7 DEF ClientView
<1> QED
  BY <1>3, <1>4, <1>6, <1>8 DEF Contract!Use

LEMMA AuditIsTell ==
  ASSUME IInv, NEW r \in Request, AuditStores(r) \/ AuditFails(r)
  PROVE  Contract!TellUsed(r) \/ Contract!TellUnused(r)
<1>1. /\ stage[r] = "finished"
      /\ stage' = [stage EXCEPT ![r] = "answered"]
      /\ UNCHANGED <<calls, response>>
  BY DEF AuditStores, AuditFails, Answer, Goto
<1>2. TypeOK /\ response[r].status \in Statuses(r)
  BY <1>1 DEF IInv, RunInv, Told, Done
<1> DEFINE st == response[r].status
<1>3. ASSUME NEW s \in Request
      PROVE  ClientView'[s] = [ClientView EXCEPT ![r] = st][s]
  <2>1. CASE s = r
    <3>1. stage'[s] = "answered"
      BY <1>1, <1>2, <2>1 DEF TypeOK
    <3>2. ClientView'[s] = st
      BY <1>1, <2>1, <3>1 DEF ClientView
    <3> QED
      BY <2>1, <3>2 DEF ClientView
  <2>2. CASE s # r
    BY <1>1, <1>2, <2>2 DEF ClientView, TypeOK
  <2> QED
    BY <2>1, <2>2
<1>4. ClientView' = [ClientView EXCEPT ![r] = st]
  BY <1>3 DEF ClientView
<1>5. ClientView[r] = "nothing"
  BY <1>1 DEF ClientView
<1>6. CASE calls[r] = <<>>
  BY <1>1, <1>2, <1>4, <1>5, <1>6 DEF Statuses, Contract!TellUnused, Contract!Tell
<1>7. CASE calls[r] # <<>>
  BY <1>1, <1>2, <1>4, <1>5, <1>7 DEF Statuses, Contract!TellUsed, Contract!Tell
<1> QED
  BY <1>6, <1>7

LEMMA CrashIsLose ==
  ASSUME IInv, Crash
  PROVE  Contract!Lose
<1> DEFINE lost == {r \in Request : stage[r] \in InProgress}
<1>1. /\ stage' = [r \in Request |-> IF r \in lost THEN "lost" ELSE stage[r]]
      /\ response' = [r \in Request |-> IF r \in lost THEN Absent ELSE response[r]]
      /\ UNCHANGED calls
  BY DEF Crash
<1>2. lost \in SUBSET {r \in Request : ClientView[r] = "nothing"}
  BY DEF ClientView, InProgress, Ended, Stages
<1>3. ASSUME NEW r \in Request
      PROVE  ClientView'[r] = IF r \in lost THEN "lost" ELSE ClientView[r]
  BY <1>1 DEF ClientView
<1>4. ClientView' = [r \in Request |-> IF r \in lost THEN "lost" ELSE ClientView[r]]
  BY <1>3 DEF ClientView
<1> QED
  BY <1>1, <1>2, <1>4 DEF Contract!Lose

\* The moves between two stages that are no end, and that call nothing.
Inner(r) ==
  \E from, to \in Stages \ Ended :
    /\ Goto(r, from, to)
    /\ \A s \in Request \ {r} : response'[s] = response[s]
    /\ UNCHANGED calls

LEMMA InnerIsUnseen ==
  ASSUME TypeOK, NEW r \in Request, Inner(r)
  PROVE  UNCHANGED Contract!vars
<1>1. PICK from \in Stages \ Ended, to \in Stages \ Ended :
        /\ Goto(r, from, to)
        /\ \A s \in Request \ {r} : response'[s] = response[s]
        /\ UNCHANGED calls
  BY DEF Inner
<1>2. stage[r] \notin Ended /\ stage' = [stage EXCEPT ![r] = to]
  BY <1>1 DEF Goto
<1> QED
  BY <1>1, <1>2, Unseen

LEMMA RespondIsInner ==
  ASSUME TypeOK, NEW r \in Request, NEW from \in Stages \ Ended, NEW status, NEW capability,
         NEW data, NEW new, Respond(r, from, status, capability, data, new), UNCHANGED calls
  PROVE  Inner(r)
<1>1. Goto(r, from, "responded")
  BY DEF Respond
<1>2. \A s \in Request \ {r} : response'[s] = response[s]
  BY DEF Respond, TypeOK
<1> QED
  BY <1>1, <1>2 DEF Inner, Stages, Ended

LEMMA Simulation == IInv /\ [Next]_vars => [Contract!Next]_Contract!vars
<1> SUFFICES ASSUME IInv, [Next]_vars PROVE [Contract!Next]_Contract!vars
  OBVIOUS
<1>0. TypeOK
  BY DEF IInv
<1>1. CASE UNCHANGED vars
  BY <1>1 DEF vars, Contract!vars, ClientView
<1>2. CASE Crash
  BY <1>2, CrashIsLose DEF Contract!Next
<1>3. ASSUME NEW r \in Request, Start(r) \/ Think(r) \/ UseTool(r) \/ UseSql(r) \/ Close(r)
      PROVE  [Contract!Next]_Contract!vars
  <2>1. CASE Call(r)
    BY <2>1, CallIsUse DEF Contract!Next
  <2>2. CASE AuditStores(r) \/ AuditFails(r)
    BY <2>2, AuditIsTell DEF Contract!Next
  <2>3. CASE Inner(r)
    BY <1>0, <2>3, InnerIsUnseen
  <2>4. \A from \in Stages \ Ended : Raise(r, from) => Inner(r)
    BY <1>0, RespondIsInner DEF Raise
  <2>5. \A from \in Stages \ Ended : \A data : Succeed(r, from, data) => Inner(r)
    BY <1>0, RespondIsInner DEF Succeed
  <2>6. Clarify(r) \/ RefuseToExecute(r) => Inner(r)
    BY <1>0, RespondIsInner DEF Clarify, RefuseToExecute, Stages, Ended
  <2>7. Start(r) \/ Finish(r) => Inner(r)
    BY <1>0 DEF Start, Finish, Inner, Stages, Ended, TypeOK
  <2>8. \A from \in {"reason", "reason_plain"} : Reasoned(r, from) => Inner(r)
    BY DEF Reasoned, Inner, Stages, Ended
  <2>9. \A from \in {"generate", "generate_plain"} : Generated(r, from) => Inner(r)
    BY DEF Generated, Inner, Stages, Ended
  <2>10. Retry(r, "reason", "reason_plain") \/ Retry(r, "generate", "generate_plain") => Inner(r)
    BY DEF Retry, Inner, Stages, Ended
  <2>11. ReasonStructured(r) \/ ReasonPlain(r) => Inner(r)
    BY <2>4, <2>8, <2>10 DEF ReasonStructured, ReasonPlain, Stages, Ended
  <2>12. UseTool(r) => Inner(r)
    BY <2>4, <2>5 DEF UseTool, ToolReturns, ToolRaises, Stages, Ended
  <2>13. GenerateStructured(r) \/ GeneratePlain(r) => Inner(r)
    BY <2>5, <2>9, <2>10 DEF GenerateStructured, GeneratePlain, Stages, Ended
  <2>14. ValidateSql(r) \/ RunSql(r) => Inner(r)
    <3>1. Goto(r, "validate", "run_sql")
             /\ UNCHANGED <<catalog, reasoning, calls, events, response, stored, warned, crashes>>
          => Inner(r)
      BY DEF Inner, Stages, Ended
    <3> QED
      BY <2>4, <2>5, <3>1 DEF ValidateSql, RunSql, Stages, Ended
  <2> QED
    BY <1>3, <2>1, <2>2, <2>3, <2>6, <2>7, <2>11, <2>12, <2>13, <2>14
       DEF Think, UseSql, Close
<1> QED
  BY <1>1, <1>2, <1>3 DEF Next

\* Each run calls one capability at most, answers success only after it called
\* one, and asks for clarification only if it called none.
THEOREM Implements == Spec => ContractSpec
<1>1. Init => Contract!Init
  BY DEF Init, Contract!Init, ClientView
<1> QED
  BY <1>1, Simulation, Invariance, PTL DEF Spec, ContractSpec, Contract!Spec

-----------------------------------------------------------------------------
(* The traces: what a client reads there is what happened, and what was    *)
(* executed is what the model asked for.                                   *)

(* What sequences contain.                                                 *)

LEMMA RangeCat ==
  ASSUME NEW S, NEW s \in Seq(S), NEW t \in Seq(S)
  PROVE  Range(s \o t) = Range(s) \cup Range(t)
<1>1. Len(s \o t) = Len(s) + Len(t) /\ s \o t \in Seq(S)
  OBVIOUS
<1>2. ASSUME NEW i \in DOMAIN (s \o t) PROVE (s \o t)[i] \in Range(s) \cup Range(t)
  <2>1. CASE i <= Len(s)
    BY <1>1, <2>1 DEF Range
  <2>2. CASE i > Len(s)
    <3>1. i - Len(s) \in 1..Len(t) /\ (s \o t)[i] = t[i - Len(s)]
      BY <1>1, <2>2
    <3> QED
      BY <3>1 DEF Range
  <2> QED
    BY <1>1, <2>1, <2>2
<1>3. ASSUME NEW i \in DOMAIN s PROVE s[i] \in Range(s \o t)
  <2>1. i \in DOMAIN (s \o t) /\ (s \o t)[i] = s[i]
    BY <1>1
  <2> QED
    BY <2>1 DEF Range
<1>4. ASSUME NEW i \in DOMAIN t PROVE t[i] \in Range(s \o t)
  <2>1. i + Len(s) \in DOMAIN (s \o t) /\ (s \o t)[i + Len(s)] = t[i]
    BY <1>1
  <2> QED
    BY <2>1 DEF Range
<1> QED
  BY <1>2, <1>3, <1>4 DEF Range

LEMMA RangeOne ==
  ASSUME NEW a
  PROVE  Range(<<a>>) = {a}
  BY DEF Range

LEMMA RangeTwo ==
  ASSUME NEW a, NEW b
  PROVE  Range(<<a, b>>) = {a, b}
<1>1. DOMAIN <<a, b>> = {1, 2}
  OBVIOUS
<1> QED
  BY <1>1 DEF Range

LEMMA RangeAppend ==
  ASSUME NEW S, NEW s \in Seq(S), NEW a \in S
  PROVE  /\ Range(Append(s, a)) = Range(s) \cup {a}
         /\ Append(s, a)[Len(Append(s, a))] = a
<1>1. Append(s, a) = s \o <<a>> /\ <<a>> \in Seq(S)
  OBVIOUS
<1>2. Append(s, a)[Len(Append(s, a))] = a
  OBVIOUS
<1>3. Range(s \o <<a>>) = Range(s) \cup Range(<<a>>)
  BY <1>1, RangeCat, SMTT(40)
<1>4. Range(<<a>>) = {a}
  BY RangeOne
<1> QED
  BY <1>1, <1>2, <1>3, <1>4

-----------------------------------------------------------------------------
(* What the trace says, by how far the run has come.                       *)

\* The model of this run selected c with all its entities, and the trace says
\* that c was validated.
Backed(r, c) ==
  /\ <<"capability", c, "validated">> \in Trail(r)
  /\ \E m \in Results : /\ <<"reasoning", m>> \in Trail(r)
                        /\ m.selected = c /\ catalog[c].needs \subseteq m.entities

Executed(r, c) == response[r].status = "success" /\ response[r].capability = c

TrailInv(r) ==
  /\ stage[r] \in Active \cup {"reasoned"} => <<"reasoning", reasoning[r]>> \in Trail(r)
  /\ \A c \in Range(calls[r]) : catalog[c].status = "enabled"
  /\ stage[r] # "lost" => \A c \in Range(calls[r]) : Backed(r, c)
  /\ stage[r] \notin Done => \A c : <<"execution", c>> \notin Trail(r)
  /\ stage[r] \in Done =>
       /\ \A c \in HeatTreatment : <<"execution", c>> \in Trail(r) <=> Executed(r, c)
       /\ response[r].status = "success" => calls[r] = <<response[r].capability>>
  /\ stage[r] \in {"finished", "answered"} =>
       LET t == response[r].trace IN t[Len(t)] = <<"result", response[r].status>>

LEMMA TrailStays ==
  ASSUME NEW r \in Request, TrailInv(r), catalog' = catalog,
         stage'[r] = stage[r], reasoning'[r] = reasoning[r], calls'[r] = calls[r],
         events'[r] = events[r], response'[r] = response[r]
  PROVE  TrailInv(r)'
<1>1. Trail(r)' = Trail(r) /\ Results' = Results
  BY EventsStay DEF Trail
<1>2. \A c : Backed(r, c)' <=> Backed(r, c)
  BY <1>1 DEF Backed
<1>3. \A c : Executed(r, c)' <=> Executed(r, c)
  BY DEF Executed
<1> QED
  BY <1>1, <1>2, <1>3 DEF TrailInv

LEMMA TrailInitially == Init => \A r \in Request : TrailInv(r)
<1> SUFFICES ASSUME Init, NEW r \in Request PROVE TrailInv(r)
  OBVIOUS
<1>1. stage[r] = "idle" /\ calls[r] = <<>> /\ events[r] = <<>>
  BY DEF Init
<1>2. Range(<<>>) = {}
  BY DEF Range
<1> QED
  BY <1>1, <1>2 DEF TrailInv, Trail, Active, Done

-----------------------------------------------------------------------------
(* Every action preserves it.                                              *)

LEMMA TrailGrows ==
  ASSUME TypeOK, NEW r \in Request, NEW new \in Seq(Event),
         events'[r] = events[r] \o new,
         stage[r] \notin {"finished", "answered"}, stage'[r] \notin {"finished", "answered"}
  PROVE  Trail(r)' = Trail(r) \cup Range(new)
<1>1. Range(events[r] \o new) = Range(events[r]) \cup Range(new)
  BY RangeCat DEF TypeOK
<1> QED
  BY <1>1 DEF Trail

LEMMA TrailRespond ==
  ASSUME IInv, NEW r \in Request, TrailInv(r),
         NEW from \in Active \cup {"reason", "reason_plain", "reasoned"},
         NEW status, NEW capability, NEW data, NEW new \in Seq(Event),
         Respond(r, from, status, capability, data, new), UNCHANGED calls,
         \/ /\ status = "success" /\ calls[r] = <<capability>>
            /\ new = << <<"execution", capability>> >>
         \/ status # "success" /\ \A c : <<"execution", c>> \notin Range(new)
  PROVE  TrailInv(r)'
<1> DEFINE x == [status |-> status, capability |-> capability, data |-> data, trace |-> <<>>]
<1>1. TypeOK /\ stage[r] = from
  BY DEF IInv, Respond, Goto
<1>2. /\ stage'[r] = "responded" /\ response'[r] = x /\ events'[r] = events[r] \o new
      /\ calls' = calls /\ catalog' = catalog
  BY <1>1 DEF Respond, Goto, Record, TypeOK
<1>3. Trail(r)' = Trail(r) \cup Range(new)
  BY <1>1, <1>2, TrailGrows DEF Active
<1>4. Results' = Results
  BY <1>2, EventsStay
<1>5. \A c \in Range(calls[r]) : Backed(r, c)'
  BY <1>1, <1>2, <1>3, <1>4 DEF TrailInv, Backed, Active
<1>6. \A c \in Range(calls[r])' : catalog'[c].status = "enabled"
  BY <1>2 DEF TrailInv
<1>7. \A c : <<"execution", c>> \notin Trail(r)
  BY <1>1 DEF TrailInv, Active, Done
<1>8. CASE status = "success" /\ calls[r] = <<capability>>
             /\ new = << <<"execution", capability>> >>
  <2>1. Range(new) = {<<"execution", capability>>}
    BY <1>8, RangeOne
  <2>2. \A c : <<"execution", c>> \in Trail(r)' <=> c = capability
    BY <1>3, <1>7, <2>1
  <2>3. \A c : Executed(r, c)' <=> c = capability
    BY <1>2, <1>8 DEF Executed
  <2> QED
    BY <1>2, <1>5, <1>6, <1>8, <2>2, <2>3 DEF TrailInv, Active, Done
<1>9. CASE status # "success" /\ \A c : <<"execution", c>> \notin Range(new)
  <2>1. \A c : <<"execution", c>> \notin Trail(r)'
    BY <1>3, <1>7, <1>9
  <2>2. \A c : ~ Executed(r, c)'
    BY <1>2, <1>9 DEF Executed
  <2> QED
    BY <1>2, <1>5, <1>6, <1>9, <2>1, <2>2 DEF TrailInv, Active, Done
<1> QED
  BY <1>8, <1>9

LEMMA TrailRaise ==
  ASSUME IInv, NEW r \in Request, TrailInv(r), NEW from \in Active \cup {"reason", "reason_plain"},
         Raise(r, from)
  PROVE  TrailInv(r)'
<1>1. <<Failure>> \in Seq(Event) /\ \A c : <<"execution", c>> \notin Range(<<Failure>>)
  BY EventTypes, RangeOne DEF Failure
<1> QED
  BY <1>1, TrailRespond DEF Raise

LEMMA TrailSucceed ==
  ASSUME IInv, NEW r \in Request, TrailInv(r), NEW from \in Active, NEW data,
         Succeed(r, from, data)
  PROVE  TrailInv(r)'
<1>1. stage[r] = from
  BY DEF Succeed, Respond, Goto
<1>2. Selected(r) \in HeatTreatment /\ calls[r] = <<Selected(r)>>
  BY <1>1 DEF IInv, RunInv, Asked
<1>3. << <<"execution", Selected(r)>> >> \in Seq(Event)
  BY <1>2, EventTypes
<1> QED
  BY <1>2, <1>3, TrailRespond DEF Succeed

LEMMA TrailClarify ==
  ASSUME IInv, NEW r \in Request, TrailInv(r), Clarify(r) \/ RefuseToExecute(r)
  PROVE  TrailInv(r)'
<1>1. CASE Clarify(r)
  <2> DEFINE e == <<"capability", Selected(r), Validation(reasoning[r])>>
  <2>1. e \in Event
    <3>1. Validation(reasoning[r]) \in {"need_clarification", "missing_required_entities",
                                        "capability_not_executable", "matched"}
      BY DEF Validation
    <3>2. Selected(r) \in HeatTreatment \cup {Absent}
      BY DEF Selected
    <3> QED
      BY <3>1, <3>2 DEF Event
  <2>2. <<e>> \in Seq(Event) /\ \A c : <<"execution", c>> \notin Range(<<e>>)
    BY <2>1, RangeOne
  <2> QED
    BY <1>1, <2>2, TrailRespond DEF Clarify
<1>2. CASE RefuseToExecute(r)
  <2> DEFINE new == <<Validated(r), Failure>>
  <2>1. new \in Seq(Event)
    BY <1>2, MatchedSelection, EventTypes DEF RefuseToExecute, Validated
  <2>2. Range(new) = {Validated(r), Failure}
    BY RangeTwo
  <2>3. \A c : <<"execution", c>> \notin Range(new)
    BY <2>2 DEF Validated, Failure
  <2> QED
    BY <1>2, <2>1, <2>3, TrailRespond DEF RefuseToExecute
<1> QED
  BY <1>1, <1>2

LEMMA TrailStart ==
  ASSUME IInv, NEW r \in Request, TrailInv(r), Start(r)
  PROVE  TrailInv(r)'
<1> DEFINE new == << <<"request">>, <<"agent_router">> >>
<1>1. TypeOK /\ stage[r] = "idle" /\ calls' = calls
  BY DEF IInv, Start, Goto
<1>2. stage'[r] = "reason" /\ events'[r] = new
  BY <1>1 DEF Start, Goto, TypeOK
<1>3. calls[r] = <<>> /\ Range(<<>>) = {}
  BY <1>1 DEF IInv, RunInv, Asked, Range
<1>4. Trail(r)' = { <<"request">>, <<"agent_router">> }
  BY <1>2, RangeTwo DEF Trail
<1>5. \A c : <<"execution", c>> \notin Trail(r)'
  BY <1>4
<1> QED
  BY <1>1, <1>2, <1>3, <1>5 DEF TrailInv, Active, Done

LEMMA TrailReasoned ==
  ASSUME IInv, NEW r \in Request, TrailInv(r), NEW from \in {"reason", "reason_plain"},
         Reasoned(r, from)
  PROVE  TrailInv(r)'
<1>1. PICK m \in Reasonings :
        /\ reasoning' = [reasoning EXCEPT ![r] = Adapted(m)]
        /\ events' = [events EXCEPT ![r] = @ \o << <<"reasoning", Adapted(m)>> >>]
  BY DEF Reasoned, Record
<1> DEFINE e == <<"reasoning", Adapted(m)>>
<1>2. TypeOK /\ stage[r] = from /\ calls' = calls
  BY DEF IInv, Reasoned, Goto
<1>3. stage'[r] = "reasoned"
  BY <1>2 DEF Reasoned, Goto, TypeOK
<1>4. reasoning'[r] = Adapted(m) /\ events'[r] = events[r] \o <<e>>
  BY <1>1, <1>2 DEF TypeOK
<1>5. <<e>> \in Seq(Event) /\ Range(<<e>>) = {e}
  BY AdaptedTypes, EventTypes, RangeOne
<1>6. Trail(r)' = Trail(r) \cup {e}
  BY <1>2, <1>3, <1>4, <1>5, TrailGrows
<1>7. calls[r] = <<>> /\ Range(<<>>) = {}
  BY <1>2 DEF IInv, RunInv, Asked, Range
<1>8. \A c : <<"execution", c>> \notin Trail(r)'
  BY <1>2, <1>6 DEF TrailInv, Done
<1> QED
  BY <1>2, <1>3, <1>4, <1>6, <1>7, <1>8 DEF TrailInv, Active, Done

LEMMA TrailMove ==
  ASSUME IInv, NEW r \in Request, TrailInv(r),
         \/ Retry(r, "reason", "reason_plain") \/ Retry(r, "generate", "generate_plain")
         \/ \E from \in Active, to \in {"validate", "run_sql"} :
              /\ Goto(r, from, to)
              /\ UNCHANGED <<catalog, reasoning, calls, events, response, stored, warned, crashes>>
  PROVE  TrailInv(r)'
<1>1. PICK from \in Active \cup {"reason"}, to \in Active \cup {"reason_plain"} :
        /\ from \in Active <=> to \in Active
        /\ Goto(r, from, to)
        /\ UNCHANGED <<catalog, reasoning, calls, events, response>>
  BY DEF Retry, Active
<1>2. stage[r] = from /\ stage'[r] = to
  BY <1>1 DEF IInv, TypeOK, Goto
<1>3. Trail(r)' = Trail(r) /\ Results' = Results
  BY <1>1, <1>2, EventsStay DEF Trail, Active
<1>4. \A c : Backed(r, c)' <=> Backed(r, c)
  BY <1>1, <1>3 DEF Backed
<1> QED
  BY <1>1, <1>2, <1>3, <1>4 DEF TrailInv, Active, Done

LEMMA MatchedMeans ==
  ASSUME IInv, NEW r \in Request, Matched(r)
  PROVE  /\ reasoning[r].selected = Selected(r)
         /\ catalog[Selected(r)].needs \subseteq reasoning[r].entities
<1>1. Selected(r) \in HeatTreatment /\ Selected(r) # Absent
  BY MatchedSelection DEF Matched
<1>2. reasoning[r].selected = Selected(r)
  BY <1>1 DEF Selected
<1>3. Validation(reasoning[r]) = "matched"
  BY DEF Matched
<1>4. catalog[reasoning[r].selected].needs \subseteq reasoning[r].entities
  BY <1>1, <1>2, <1>3 DEF Validation
<1> QED
  BY <1>2, <1>4

LEMMA TrailCall ==
  ASSUME IInv, NEW r \in Request, TrailInv(r), Call(r)
  PROVE  TrailInv(r)'
<1> DEFINE c == Selected(r)
           m == reasoning[r]
<1>1. PICK to \in {"generate", "tool"} :
        /\ stage[r] = "reasoned"
        /\ stage' = [stage EXCEPT ![r] = to]
        /\ events' = [events EXCEPT ![r] = @ \o <<Validated(r)>>]
        /\ calls' = [calls EXCEPT ![r] = Append(@, c)]
        /\ UNCHANGED <<catalog, reasoning, query, response, stored, warned, crashes>>
  BY DEF Call, Goto, Record
<1>2. TypeOK /\ calls[r] = <<>> /\ m \in Results
  BY <1>1 DEF IInv, RunInv, Asked
<1>3. Append(<<>>, c) = <<c>>
  OBVIOUS
<1>4. /\ stage'[r] = to /\ calls'[r] = <<c>> /\ reasoning'[r] = m
      /\ events'[r] = events[r] \o <<Validated(r)>>
  BY <1>1, <1>2, <1>3 DEF TypeOK
<1>5. <<Validated(r)>> \in Seq(Event) /\ Range(<<Validated(r)>>) = {Validated(r)}
  BY MatchedSelection, EventTypes, RangeOne DEF Call, Validated
<1>6. Trail(r)' = Trail(r) \cup {Validated(r)}
  BY <1>1, <1>2, <1>4, <1>5, TrailGrows
<1>7. <<"reasoning", m>> \in Trail(r)
  BY <1>1 DEF TrailInv
<1>8. m.selected = c /\ catalog[c].needs \subseteq m.entities /\ catalog[c].status = "enabled"
  BY MatchedMeans DEF Call, Executable
<1>9. Results' = Results /\ catalog' = catalog
  BY <1>1, EventsStay
<1>10. Backed(r, c)'
  <2>1. <<"capability", c, "validated">> \in Trail(r)'
    BY <1>6 DEF Validated
  <2>2. /\ m \in Results' /\ <<"reasoning", m>> \in Trail(r)'
        /\ m.selected = c /\ catalog'[c].needs \subseteq m.entities
    BY <1>2, <1>6, <1>7, <1>8, <1>9
  <2>3. c' = c
    BY <1>4 DEF Selected
  <2> HIDE DEF c, m
  <2> QED
    BY <2>1, <2>2, <2>3 DEF Backed
<1>11. Range(calls'[r]) = {c}
  BY <1>4, RangeOne
<1>12. \A d : <<"execution", d>> \notin Trail(r)'
  BY <1>1, <1>6 DEF TrailInv, Done, Validated
<1>13. <<"reasoning", reasoning'[r]>> \in Trail(r)'
  BY <1>4, <1>6, <1>7
<1>14. /\ stage'[r] \in Active /\ stage'[r] \notin Done /\ stage'[r] # "lost"
       /\ stage'[r] \notin {"finished", "answered"}
  BY <1>4 DEF Active, Done
<1>15. \A d \in Range(calls[r])' : catalog'[d].status = "enabled" /\ Backed(r, d)'
  <2>1. c' = c
    BY <1>4 DEF Selected
  <2>2. ASSUME NEW d, d = c PROVE catalog'[d].status = "enabled" /\ Backed(r, d)'
    BY <1>8, <1>9, <1>10, <2>1, <2>2 DEF Backed
  <2> QED
    BY <1>11, <2>2
<1> QED
  BY <1>12, <1>13, <1>14, <1>15 DEF TrailInv

LEMMA TrailFinish ==
  ASSUME IInv, NEW r \in Request, TrailInv(r), Finish(r)
  PROVE  TrailInv(r)'
<1> DEFINE x == response[r]
           e == <<"result", x.status>>
           all == Append(events[r], e)
<1>1. /\ TypeOK /\ stage[r] = "responded" /\ calls' = calls /\ catalog' = catalog
      /\ x \in Response
  BY DEF IInv, RunInv, Told, Done, Finish, Goto
<1>2. stage'[r] = "finished" /\ response'[r] = [x EXCEPT !.trace = all]
  BY <1>1 DEF Finish, Goto, TypeOK
<1>3. /\ response'[r].status = x.status /\ response'[r].capability = x.capability
      /\ response'[r].trace = all
  BY <1>1, <1>2 DEF Response
<1>4. events[r] \in Seq(Event) /\ e \in Event
  BY <1>1, EventTypes DEF TypeOK, Response
<1>5. Range(all) = Range(events[r]) \cup {e} /\ all[Len(all)] = e
  BY <1>4, RangeAppend
<1>6. Trail(r)' = Trail(r) \cup {e}
  BY <1>1, <1>2, <1>3, <1>5 DEF Trail
<1>7. Results' = Results
  BY <1>1, EventsStay
<1>8. \A c \in Range(calls[r]) : Backed(r, c)'
  BY <1>1, <1>6, <1>7 DEF TrailInv, Backed
<1>9. \A c : /\ Executed(r, c)' <=> Executed(r, c)
             /\ <<"execution", c>> \in Trail(r)' <=> <<"execution", c>> \in Trail(r)
  BY <1>3, <1>6 DEF Executed
<1> QED
  BY <1>1, <1>2, <1>3, <1>5, <1>8, <1>9 DEF TrailInv, Active, Done

LEMMA TrailAudit ==
  ASSUME IInv, NEW r \in Request, TrailInv(r), AuditStores(r) \/ AuditFails(r)
  PROVE  TrailInv(r)'
<1>1. /\ TypeOK /\ stage[r] = "finished"
      /\ UNCHANGED <<catalog, reasoning, calls, events, response>>
  BY DEF IInv, AuditStores, AuditFails, Answer, Goto
<1>2. stage'[r] = "answered"
  BY <1>1 DEF AuditStores, AuditFails, Answer, Goto, TypeOK
<1>3. Trail(r)' = Trail(r) /\ Results' = Results
  BY <1>1, <1>2, EventsStay DEF Trail
<1>4. \A c : (Backed(r, c)' <=> Backed(r, c)) /\ (Executed(r, c)' <=> Executed(r, c))
  BY <1>1, <1>3 DEF Backed, Executed
<1> QED
  BY <1>1, <1>2, <1>3, <1>4 DEF TrailInv, Active, Done

LEMMA TrailCrash ==
  ASSUME IInv, NEW r \in Request, TrailInv(r), Crash
  PROVE  TrailInv(r)'
<1> DEFINE lost == {s \in Request : stage[s] \in InProgress}
<1>1. /\ stage'     = [s \in Request |-> IF s \in lost THEN "lost" ELSE stage[s]]
      /\ reasoning' = [s \in Request |-> IF s \in lost THEN Absent ELSE reasoning[s]]
      /\ events'    = [s \in Request |-> IF s \in lost THEN <<>> ELSE events[s]]
      /\ response'  = [s \in Request |-> IF s \in lost THEN Absent ELSE response[s]]
      /\ UNCHANGED <<catalog, calls>>
  BY DEF Crash
<1>2. CASE r \in lost
  <2>1. stage'[r] = "lost" /\ events'[r] = <<>>
    BY <1>1, <1>2
  <2>2. Trail(r)' = {}
    BY <2>1 DEF Trail, Range
  <2> QED
    BY <1>1, <2>1, <2>2 DEF TrailInv, Active, Done
<1>3. CASE r \notin lost
  BY <1>1, <1>3, TrailStays
<1> QED
  BY <1>2, <1>3

\* What an action of one run does to the others: nothing.
LEMMA Elsewhere ==
  ASSUME IInv, NEW r \in Request, NEW s \in Request, s # r, TrailInv(s),
         Start(r) \/ Think(r) \/ UseTool(r) \/ UseSql(r) \/ Close(r)
  PROVE  TrailInv(s)'
<1>1. TypeOK
  BY DEF IInv
<1> SUFFICES /\ catalog' = catalog
             /\ stage'[s] = stage[s] /\ reasoning'[s] = reasoning[s] /\ calls'[s] = calls[s]
             /\ events'[s] = events[s] /\ response'[s] = response[s]
  BY TrailStays
<1>2. CASE Start(r)
  BY <1>1, <1>2 DEF Start, Goto, TypeOK
<1>3. CASE Think(r)
  BY <1>1, <1>3 DEF Think, ReasonStructured, ReasonPlain, Clarify, RefuseToExecute, Call, Reasoned,
     Retry, Raise, Respond, Goto, Record, TypeOK
<1>4. CASE UseTool(r)
  BY <1>1, <1>4 DEF UseTool, ToolReturns, ToolRaises, Succeed, Raise, Respond, Goto, Record, TypeOK
<1>5. CASE UseSql(r)
  BY <1>1, <1>5 DEF UseSql, GenerateStructured, GeneratePlain, ValidateSql, RunSql, Generated,
     Retry, Succeed, Raise, Respond, Goto, Record, TypeOK
<1>6. CASE Close(r)
  BY <1>1, <1>6 DEF Close, Finish, AuditStores, AuditFails, Answer, Goto, TypeOK
<1> QED
  BY <1>2, <1>3, <1>4, <1>5, <1>6

LEMMA TrailThink ==
  ASSUME IInv, NEW r \in Request, TrailInv(r), Think(r)
  PROVE  TrailInv(r)'
<1>1. CASE ReasonStructured(r) \/ ReasonPlain(r)
  BY <1>1, TrailReasoned, TrailMove, TrailRaise DEF ReasonStructured, ReasonPlain
<1>2. CASE Clarify(r) \/ RefuseToExecute(r)
  BY <1>2, TrailClarify
<1>3. CASE Call(r)
  BY <1>3, TrailCall
<1> QED
  BY <1>1, <1>2, <1>3 DEF Think

LEMMA TrailUseTool ==
  ASSUME IInv, NEW r \in Request, TrailInv(r), UseTool(r)
  PROVE  TrailInv(r)'
<1>1. "tool" \in Active
  BY DEF Active
<1> QED
  BY <1>1, TrailSucceed, TrailRaise DEF UseTool, ToolReturns, ToolRaises

LEMMA TrailUseSql ==
  ASSUME IInv, NEW r \in Request, TrailInv(r), UseSql(r)
  PROVE  TrailInv(r)'
<1>1. {"generate", "generate_plain", "validate", "run_sql"} \subseteq Active
  BY DEF Active
<1>2. CASE GenerateStructured(r)
  BY <1>1, <1>2, TrailMove DEF GenerateStructured, Generated
<1>3. CASE GeneratePlain(r)
  BY <1>1, <1>3, TrailMove, TrailSucceed DEF GeneratePlain, Generated
<1>4. CASE ValidateSql(r)
  BY <1>1, <1>4, TrailMove, TrailSucceed, TrailRaise DEF ValidateSql
<1>5. CASE RunSql(r)
  BY <1>1, <1>5, TrailSucceed, TrailRaise DEF RunSql
<1> QED
  BY <1>2, <1>3, <1>4, <1>5 DEF UseSql

LEMMA TrailStep ==
  ASSUME IInv, \A r \in Request : TrailInv(r), [Next]_vars
  PROVE  \A r \in Request : TrailInv(r)'
<1> SUFFICES ASSUME NEW s \in Request PROVE TrailInv(s)'
  OBVIOUS
<1>1. CASE UNCHANGED vars
  BY <1>1, TrailStays DEF vars
<1>2. CASE Crash
  BY <1>2, TrailCrash
<1>3. ASSUME NEW r \in Request, Start(r) \/ Think(r) \/ UseTool(r) \/ UseSql(r) \/ Close(r)
      PROVE  TrailInv(s)'
  <2>1. CASE s # r
    BY <1>3, <2>1, Elsewhere
  <2>2. CASE s = r
    BY <1>3, <2>2, TrailStart, TrailThink, TrailUseTool, TrailUseSql, TrailFinish, TrailAudit
       DEF Close
  <2> QED
    BY <2>1, <2>2
<1> QED
  BY <1>1, <1>2, <1>3 DEF Next

-----------------------------------------------------------------------------
(* The theorems.                                                           *)

\* In every reachable state the trace of a run accounts for what it executed.
THEOREM Accounted == Spec => [](IInv /\ \A r \in Request : TrailInv(r))
<1>1. Init => \A r \in Request : TrailInv(r)
  BY TrailInitially
<1>2. IInv /\ (\A r \in Request : TrailInv(r)) /\ [Next]_vars => (\A r \in Request : TrailInv(r))'
  BY TrailStep
<1> QED
  BY <1>1, <1>2, Invariance, PTL DEF Spec

\* An executor is invoked only for an enabled capability of the agent that the
\* model of this very run selected, with every entity that the catalog asks for
\* (HeatTreatmentAgent.run, CapabilityReasoningValidator.validate).
THEOREM NothingUnrequested == Spec => []CallsAreRequested
<1>1. IInv /\ (\A r \in Request : TrailInv(r)) => CallsAreRequested
  <2> SUFFICES ASSUME IInv, NEW r \in Request, TrailInv(r), NEW c \in Range(calls[r])
               PROVE  /\ c \in HeatTreatment /\ catalog[c].status = "enabled"
                      /\ stage[r] # "lost" =>
                           \E e \in Trail(r) : /\ e[1] = "reasoning" /\ e[2].selected = c
                                               /\ catalog[c].needs \subseteq e[2].entities
    BY DEF CallsAreRequested
  <2>1. c \in HeatTreatment
    BY DEF IInv, TypeOK, Range
  <2>2. catalog[c].status = "enabled" /\ (stage[r] # "lost" => Backed(r, c))
    BY DEF TrailInv
  <2>3. ASSUME Backed(r, c)
        PROVE  \E e \in Trail(r) : /\ e[1] = "reasoning" /\ e[2].selected = c
                                   /\ catalog[c].needs \subseteq e[2].entities
    BY <2>3 DEF Backed
  <2> QED
    BY <2>1, <2>2, <2>3
<1> QED
  BY <1>1, Accounted, PTL

\* The trace that a client receives names every executor that was invoked, and
\* as returned the one whose success the response reports (TraceRuntime.finish).
THEOREM TracesTellTheTruth == Spec => []TraceTellsCalls
<1>1. IInv /\ (\A r \in Request : TrailInv(r)) => TraceTellsCalls
  <2> SUFFICES ASSUME IInv, NEW r \in Request, TrailInv(r), stage[r] = "answered"
               PROVE  LET x == response[r] IN
                        /\ x.trace[Len(x.trace)] = <<"result", x.status>>
                        /\ \A c \in Range(calls[r]) : <<"capability", c, "validated">> \in Trail(r)
                        /\ \A c \in HeatTreatment :
                             <<"execution", c>> \in Trail(r) <=> x.status = "success" /\ x.capability = c
                        /\ x.status = "success" => calls[r] = <<x.capability>>
                        /\ x.status = "clarification_required" => calls[r] = <<>>
    BY DEF TraceTellsCalls
  <2>1. \A c \in Range(calls[r]) : <<"capability", c, "validated">> \in Trail(r)
    BY DEF TrailInv, Backed
  <2>2. response[r].status = "clarification_required" => calls[r] = <<>>
    BY DEF IInv, RunInv, Told, Done, Statuses
  <2> QED
    BY <2>1, <2>2 DEF TrailInv, Executed, Done
<1> QED
  BY <1>1, Accounted, PTL
=============================================================================
