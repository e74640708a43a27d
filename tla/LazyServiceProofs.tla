------------------------- MODULE LazyServiceProofs --------------------------
(***************************************************************************)
(* Theorems about LazyService, for every number of threads, of failures    *)
(* and of shutdowns.                                                       *)
(***************************************************************************)
EXTENDS LazyService, FiniteSetTheorems, TLAPS

Routers == {Chat, Feedback, AdminIssue, Agent, Report}
Resting == {"idle", "return", "serving"}
Before  == {"create", "check", "bind"}

-----------------------------------------------------------------------------
(* The inductive invariant.                                                *)

\* Nothing in use works on an engine that is disposed of.
Safe ==
  /\ engine # None => engine \in open
  /\ \A n \in Names : service[n] # None => service[n] \in open /\ engine # None
  /\ \A t \in Thread : holds[t] # None => holds[t] \in open

\* How far the services are built, by what the threads are doing.
Built ==
  \A t \in Thread :
    /\ stage[t] \in Building \ {"create"} => engine # None
    /\ stage[t] \in {"return", "serving"} => Complete
    /\ \A i, j \in DOMAIN router.services :
         stage[t] = router.services[i] /\ j < i => service[router.services[j]] # None

IInv == TypeOK /\ Safe /\ Built

LEMMA RouterNames ==
  ASSUME router \in Routers
  PROVE  /\ Len(router.services) \in 1..2
         /\ DOMAIN router.services = 1..Len(router.services)
         /\ Names = {router.services[i] : i \in DOMAIN router.services}
         /\ Names \cap (Resting \cup Before) = {}
         /\ \A i, j \in DOMAIN router.services : router.services[i] = router.services[j] => i = j
<1>1. /\ DOMAIN <<"_chat_service">> = {1} /\ DOMAIN <<"_feedback_service">> = {1}
      /\ DOMAIN <<"_mes_agent">> = {1} /\ DOMAIN <<"_report_generator">> = {1}
      /\ DOMAIN <<"_review_service", "_issue_service">> = {1, 2}
  OBVIOUS
<1>2. ASSUME router \in {Chat, Feedback, Agent, Report}
      PROVE  /\ Len(router.services) = 1 /\ DOMAIN router.services = {1}
             /\ router.services[1] \notin Resting \cup Before
  BY <1>1, <1>2 DEF Chat, Feedback, Agent, Report, Resting, Before
<1>3. ASSUME router = AdminIssue
      PROVE  /\ Len(router.services) = 2 /\ DOMAIN router.services = {1, 2}
             /\ router.services[1] = "_review_service" /\ router.services[2] = "_issue_service"
  BY <1>1, <1>3 DEF AdminIssue
<1>4. Names = {router.services[i] : i \in DOMAIN router.services}
  BY DEF Names, Range
<1> QED
  BY <1>2, <1>3, <1>4 DEF Routers, Resting, Before

LEMMA Initially == Init => IInv
<1> SUFFICES ASSUME Init PROVE IInv
  OBVIOUS
<1>1. router \in Routers
  BY DEF Init, Routers
<1>2. Names \cap Resting = {} /\ \A i \in DOMAIN router.services : router.services[i] \in Names
  BY <1>1, RouterNames
<1>3. TypeOK
  BY <1>2, LazyAssumption DEF Init, TypeOK, Resting
<1>4. Safe
  BY DEF Init, Safe
<1>5. Built
  BY <1>2 DEF Init, Built, Building, Resting
<1> QED
  BY <1>3, <1>4, <1>5 DEF IInv

-----------------------------------------------------------------------------
(* One action changes the stage of one thread.                             *)

Stays == UNCHANGED <<router, settings, engine, service, open, created>>

LEMMA FailStep ==
  ASSUME IInv, NEW t \in Thread, NEW from \in Before, Fail(t, from)
  PROVE  IInv'
<1>1. /\ stage' = [stage EXCEPT ![t] = "idle"] /\ holds' = [holds EXCEPT ![t] = None]
      /\ failures' = failures + 1 /\ Stays /\ closes' = closes
  BY DEF Fail, Goto, Stays
<1>2. Names' = Names /\ Complete' = Complete /\ Building' = Building
  BY <1>1 DEF Stays, Names, Complete, Building
<1>3. Names \cap Resting = {} /\ \A i \in DOMAIN router.services : router.services[i] \in Names
  BY RouterNames DEF IInv, TypeOK, Routers
<1>4. TypeOK'
  BY <1>1, <1>2, <1>3, LazyAssumption DEF IInv, TypeOK, Stays, Resting
<1>5. Safe'
  BY <1>1, <1>2 DEF IInv, TypeOK, Safe, Stays
<1>6. Built'
  BY <1>1, <1>2, <1>3 DEF IInv, TypeOK, Built, Stays, Resting, Building
<1> QED
  BY <1>4, <1>5, <1>6 DEF IInv

LEMMA LookStep ==
  ASSUME IInv, NEW t \in Thread, Look(t)
  PROVE  IInv'
<1>1. PICK to \in {"return", "create"} :
        /\ to = "return" => Complete
        /\ stage[t] = "idle" /\ stage' = [stage EXCEPT ![t] = to]
        /\ Stays /\ holds' = holds /\ failures' = failures /\ closes' = closes
  BY DEF Look, Goto, Stays
<1>2. Names' = Names /\ Complete' = Complete /\ Building' = Building
  BY <1>1 DEF Stays, Names, Complete, Building
<1>3. /\ Names \cap (Resting \cup Before) = {}
      /\ \A i \in DOMAIN router.services : router.services[i] \in Names
  BY RouterNames DEF IInv, TypeOK, Routers
<1>4. TypeOK'
  BY <1>1, <1>2, <1>3 DEF IInv, TypeOK, Stays, Resting, Before, Building
<1>5. Safe'
  BY <1>1, <1>2 DEF IInv, Safe, Stays
<1>6. Built'
  BY <1>1, <1>2, <1>3 DEF IInv, TypeOK, Built, Stays, Resting, Before, Building
<1> QED
  BY <1>4, <1>5, <1>6 DEF IInv

LEMMA CreateStep ==
  ASSUME IInv, NEW t \in Thread, Create(t)
  PROVE  IInv'
<1>1. CASE settings = "no_database" /\ Fail(t, "create")
  BY <1>1, FailStep DEF Before
<1>2. CASE ~ (settings = "no_database" /\ Fail(t, "create"))
  <2>1. /\ stage[t] = "create" /\ stage' = [stage EXCEPT ![t] = "check"]
        /\ engine' = created + 1 /\ created' = created + 1 /\ open' = open \cup {created + 1}
        /\ UNCHANGED <<router, settings, service, holds, failures, closes>>
    BY <1>2 DEF Create, Goto
  <2>2. Names' = Names /\ Complete' = Complete /\ Building' = Building
    BY <2>1 DEF Names, Complete, Building
  <2>3. /\ Names \cap (Resting \cup Before) = {}
        /\ \A i \in DOMAIN router.services : router.services[i] \in Names
    BY RouterNames DEF IInv, TypeOK, Routers
  <2>4. created \in Nat /\ 1..created \subseteq 1..(created + 1) /\ created + 1 # None
    BY LazyAssumption DEF IInv, TypeOK
  <2>5. TypeOK'
    BY <2>1, <2>2, <2>3, <2>4 DEF IInv, TypeOK, Resting, Before, Building
  <2>6. Safe'
    BY <2>1, <2>2, <2>4 DEF IInv, Safe
  <2>7. Built'
    BY <2>1, <2>2, <2>3, <2>4 DEF IInv, TypeOK, Built, Resting, Before, Building
  <2> QED
    BY <2>5, <2>6, <2>7 DEF IInv
<1> QED
  BY <1>1, <1>2

LEMMA CheckStep ==
  ASSUME IInv, NEW t \in Thread, Check(t)
  PROVE  IInv'
<1>1. CASE Fail(t, "check")
  BY <1>1, FailStep DEF Before
<1>2. CASE ~ Fail(t, "check")
  <2>1. /\ stage[t] = "check" /\ stage' = [stage EXCEPT ![t] = "bind"]
        /\ Stays /\ holds' = holds /\ failures' = failures /\ closes' = closes
    BY <1>2 DEF Check, Goto, Stays
  <2>2. Names' = Names /\ Complete' = Complete /\ Building' = Building
    BY <2>1 DEF Stays, Names, Complete, Building
  <2>3. /\ Names \cap (Resting \cup Before) = {}
        /\ \A i \in DOMAIN router.services : router.services[i] \in Names
    BY RouterNames DEF IInv, TypeOK, Routers
  <2>4. TypeOK'
    BY <2>1, <2>2, <2>3 DEF IInv, TypeOK, Stays, Resting, Before, Building
  <2>5. Safe'
    BY <2>1, <2>2 DEF IInv, Safe, Stays
  <2>6. Built'
    BY <2>1, <2>2, <2>3 DEF IInv, TypeOK, Built, Stays, Resting, Before, Building
  <2> QED
    BY <2>4, <2>5, <2>6 DEF IInv
<1> QED
  BY <1>1, <1>2

LEMMA BindStep ==
  ASSUME IInv, NEW t \in Thread, Bind(t)
  PROVE  IInv'
<1>1. CASE Fail(t, "bind")
  BY <1>1, FailStep DEF Before
<1>2. CASE ~ Fail(t, "bind")
  <2> DEFINE first == router.services[1]
  <2>1. /\ stage[t] = "bind" /\ stage' = [stage EXCEPT ![t] = first]
        /\ holds' = [holds EXCEPT ![t] = engine]
        /\ Stays /\ failures' = failures /\ closes' = closes
    BY <1>2 DEF Bind, Goto, Stays
  <2>2. Names' = Names /\ Complete' = Complete /\ Building' = Building
    BY <2>1 DEF Stays, Names, Complete, Building
  <2>3. /\ Names \cap (Resting \cup Before) = {}
        /\ \A i \in DOMAIN router.services : router.services[i] \in Names
        /\ first \in Names
        /\ \A i \in DOMAIN router.services : first = router.services[i] => i = 1
    BY RouterNames DEF IInv, TypeOK, Routers
  <2>4. engine # None /\ engine \in 1..created /\ engine \in open
    BY <2>1 DEF IInv, TypeOK, Built, Safe, Building
  <2>5. TypeOK'
    BY <2>1, <2>2, <2>3, <2>4 DEF IInv, TypeOK, Stays, Resting, Before, Building
  <2>6. Safe'
    BY <2>1, <2>2, <2>4 DEF IInv, TypeOK, Safe, Stays
  <2>7. Built'
    <3>1. \A i, j \in DOMAIN router.services : first = router.services[i] => ~ j < i
      BY <2>3, RouterNames DEF IInv, TypeOK, Routers
    <3> HIDE DEF first
    <3> QED
      BY <2>1, <2>2, <2>3, <2>4, <3>1 DEF IInv, TypeOK, Built, Stays, Resting, Before, Building
  <2> QED
    BY <2>5, <2>6, <2>7 DEF IInv
<1> QED
  BY <1>1, <1>2

LEMMA PublishStep ==
  ASSUME IInv, NEW t \in Thread, Publish(t)
  PROVE  IInv'
<1>1. PICK i \in DOMAIN router.services :
        /\ Goto(t, router.services[i], After(i))
        /\ service' = [service EXCEPT ![router.services[i]] = holds[t]]
        /\ holds' = [holds EXCEPT ![t] = IF i = Len(router.services) THEN None ELSE @]
        /\ UNCHANGED <<router, settings, engine, open, created, failures, closes>>
  BY DEF Publish
<1> DEFINE n == router.services[i]
           last == i = Len(router.services)
<1>2. /\ TypeOK /\ Safe /\ Built /\ router \in Routers
      /\ stage[t] = n /\ stage' = [stage EXCEPT ![t] = After(i)]
  BY <1>1 DEF IInv, TypeOK, Goto, Routers
<1>3. /\ Len(router.services) \in 1..2 /\ DOMAIN router.services = 1..Len(router.services)
      /\ Names = {router.services[k] : k \in DOMAIN router.services}
      /\ Names \cap (Resting \cup Before) = {}
      /\ \A k, j \in DOMAIN router.services : router.services[k] = router.services[j] => k = j
  BY <1>2, RouterNames
<1>4. Names' = Names /\ Building' = Building /\ n \in Names
  BY <1>1, <1>3 DEF Names, Building
<1>5. holds[t] # None /\ holds[t] \in 1..created /\ holds[t] \in open /\ engine # None
  BY <1>2, <1>3, <1>4 DEF TypeOK, Safe, Built, Building, Before
<1>6. /\ service'[n] = holds[t] /\ \A m \in Names : m # n => service'[m] = service[m]
      /\ service' \in [Names -> (1..created) \cup {None}]
  BY <1>1, <1>4, <1>5, <1>2 DEF TypeOK
<1>7. /\ last => After(i) = "return"
      /\ ~ last => i + 1 \in DOMAIN router.services /\ After(i) = router.services[i + 1]
  BY <1>3 DEF After
<1>8. stage'[t] = After(i) /\ \A u \in Thread : u # t => stage'[u] = stage[u]
  BY <1>2 DEF TypeOK
<1>9. \A u \in Thread : holds'[u] = IF u = t /\ last THEN None ELSE holds[u]
  BY <1>1, <1>2 DEF TypeOK
<1>10. Complete => Complete'
  BY <1>4, <1>5, <1>6 DEF Complete
<1>11. \A k, j \in DOMAIN router.services : After(i) = router.services[k] /\ j < k =>
         service'[router.services[j]] # None
  <2> SUFFICES ASSUME NEW k \in DOMAIN router.services, NEW j \in DOMAIN router.services,
                      After(i) = router.services[k], j < k
               PROVE  service'[router.services[j]] # None
    OBVIOUS
  <2>1. ~ last
    BY <1>3, <1>7 DEF Resting
  <2>2. k = i + 1
    BY <1>3, <1>7, <2>1
  <2>3. j = i \/ j < i
    BY <1>3, <2>2
  <2>4. CASE j = i
    BY <1>5, <1>6, <2>4
  <2>5. CASE j < i
    BY <1>2, <1>3, <1>6, <2>5, SMTT(40) DEF Built
  <2> QED
    BY <2>3, <2>4, <2>5
<1>12. last => Complete'
  <2> SUFFICES ASSUME last, NEW m \in Names PROVE service'[m] # None
    BY <1>4 DEF Complete
  <2>1. PICK j \in DOMAIN router.services : m = router.services[j]
    BY <1>3
  <2>2. CASE j = i
    BY <1>5, <1>6, <2>1, <2>2
  <2>3. CASE j < i
    <3>1. service[router.services[j]] # None
      BY <1>2, <2>3 DEF Built
    <3>2. router.services[j] # n
      BY <1>3, <2>3
    <3> QED
      BY <1>6, <2>1, <3>1, <3>2
  <2> QED
    BY <1>3, <2>2, <2>3
<1> HIDE DEF n, last
<1>13. TypeOK'
  <2>1. stage' \in [Thread -> {"idle", "return", "serving"} \cup Building]
    BY <1>2, <1>3, <1>7 DEF TypeOK, Building
  <2>2. holds' \in [Thread -> (1..created) \cup {None}]
    BY <1>1, <1>2 DEF TypeOK
  <2>3. After(i) \in {"serving"} \cup Names <=> ~ last
    BY <1>3, <1>7 DEF Resting
  <2>4. \A u \in Thread : holds'[u] # None <=> stage'[u] \in {"serving"} \cup Names
    <3>1. \A u \in Thread : u # t => (holds'[u] # None <=> stage'[u] \in {"serving"} \cup Names)
      BY <1>2, <1>8, <1>9 DEF TypeOK
    <3>2. holds'[t] # None <=> stage'[t] \in {"serving"} \cup Names
      BY <1>5, <1>8, <1>9, <2>3
    <3> QED
      BY <3>1, <3>2
  <2> QED
    BY <1>1, <1>2, <1>4, <1>6, <2>1, <2>2, <2>4 DEF TypeOK
<1>14. Safe'
  BY <1>1, <1>2, <1>4, <1>5, <1>6, <1>9 DEF Safe
<1>15. Built'
  <2>1. ASSUME NEW u \in Thread, u # t
        PROVE  /\ stage'[u] \in Building' \ {"create"} => engine' # None
               /\ stage'[u] \in {"return", "serving"} => Complete'
               /\ \A k, j \in DOMAIN router.services' :
                    stage'[u] = router'.services[k] /\ j < k => service'[router'.services[j]] # None
    <3>1. \A m \in Names : service[m] # None => service'[m] # None
      BY <1>5, <1>6
    <3> QED
      BY <1>1, <1>2, <1>3, <1>4, <1>8, <1>10, <2>1, <3>1 DEF Built
  <2>2. /\ stage'[t] \in Building' \ {"create"} => engine' # None
        /\ stage'[t] \in {"return", "serving"} => Complete'
    <3>1. ~ last => After(i) \in Names
      BY <1>3, <1>7
    <3> QED
      BY <1>1, <1>3, <1>5, <1>7, <1>8, <1>12, <3>1 DEF Resting
  <2>3. \A k, j \in DOMAIN router.services' :
          stage'[t] = router'.services[k] /\ j < k => service'[router'.services[j]] # None
    BY <1>1, <1>8, <1>11
  <2> QED
    BY <2>1, <2>2, <2>3 DEF Built
<1> QED
  BY <1>13, <1>14, <1>15 DEF IInv

LEMMA ReturnStep ==
  ASSUME IInv, NEW t \in Thread, Return(t)
  PROVE  IInv'
<1>1. PICK n \in Names : holds' = [holds EXCEPT ![t] = service[n]]
  BY DEF Return
<1>2. /\ stage[t] = "return" /\ stage' = [stage EXCEPT ![t] = "serving"]
      /\ Stays /\ failures' = failures /\ closes' = closes
  BY DEF Return, Goto, Stays
<1>3. Names' = Names /\ Complete' = Complete /\ Building' = Building
  BY <1>2 DEF Stays, Names, Complete, Building
<1>4. Complete /\ service[n] \in 1..created /\ service[n] # None /\ service[n] \in open
  BY <1>2 DEF IInv, TypeOK, Built, Safe, Complete
<1>5. /\ Names \cap (Resting \cup Before) = {}
      /\ \A i \in DOMAIN router.services : router.services[i] \in Names
  BY RouterNames DEF IInv, TypeOK, Routers
<1>6. TypeOK'
  BY <1>1, <1>2, <1>3, <1>4, <1>5 DEF IInv, TypeOK, Stays, Resting
<1>7. Safe'
  BY <1>1, <1>2, <1>3, <1>4 DEF IInv, TypeOK, Safe, Stays
<1>8. Built'
  BY <1>2, <1>3, <1>4, <1>5 DEF IInv, TypeOK, Built, Stays, Resting, Building
<1> QED
  BY <1>6, <1>7, <1>8 DEF IInv

LEMMA DoneStep ==
  ASSUME IInv, NEW t \in Thread, Done(t)
  PROVE  IInv'
<1>1. /\ stage[t] = "serving" /\ stage' = [stage EXCEPT ![t] = "idle"]
      /\ holds' = [holds EXCEPT ![t] = None] /\ Stays /\ failures' = failures /\ closes' = closes
  BY DEF Done, Goto, Stays
<1>2. Names' = Names /\ Complete' = Complete /\ Building' = Building
  BY <1>1 DEF Stays, Names, Complete, Building
<1>3. /\ Names \cap (Resting \cup Before) = {}
      /\ \A i \in DOMAIN router.services : router.services[i] \in Names
  BY RouterNames DEF IInv, TypeOK, Routers
<1>4. TypeOK'
  BY <1>1, <1>2, <1>3, LazyAssumption DEF IInv, TypeOK, Stays, Resting
<1>5. Safe'
  BY <1>1, <1>2 DEF IInv, TypeOK, Safe, Stays
<1>6. Built'
  BY <1>1, <1>2, <1>3 DEF IInv, TypeOK, Built, Stays, Resting, Building
<1> QED
  BY <1>4, <1>5, <1>6 DEF IInv

LEMMA CloseStep ==
  ASSUME IInv, Close
  PROVE  IInv'
<1>1. /\ closes < MaxCloses /\ closes' = closes + 1
      /\ \A t \in Thread : stage[t] = "idle"
      /\ service' = [n \in Names |-> None] /\ open' = open \ {engine} /\ engine' = None
      /\ UNCHANGED <<router, settings, stage, holds, created, failures>>
  BY DEF Close
<1>2. Names' = Names /\ Building' = Building
  BY <1>1 DEF Names, Building
<1>3. Names \cap Resting = {} /\ \A i \in DOMAIN router.services : router.services[i] \in Names
  BY RouterNames DEF IInv, TypeOK, Routers
<1>4. \A t \in Thread : holds[t] = None
  BY <1>1, <1>3 DEF IInv, TypeOK, Resting
<1>5. TypeOK'
  BY <1>1, <1>2, LazyAssumption DEF IInv, TypeOK
<1>6. Safe'
  BY <1>1, <1>2, <1>4 DEF Safe
<1>7. Built'
  BY <1>1, <1>2, <1>3 DEF Built, Building, Resting
<1> QED
  BY <1>5, <1>6, <1>7 DEF IInv

LEMMA NextStep == IInv /\ [Next]_vars => IInv'
<1> SUFFICES ASSUME IInv, [Next]_vars PROVE IInv'
  OBVIOUS
<1>1. CASE UNCHANGED vars
  BY <1>1 DEF vars, IInv, TypeOK, Safe, Built, Names, Building, Complete
<1>2. CASE Close
  BY <1>2, CloseStep
<1>3. ASSUME NEW t \in Thread, Look(t) \/ Build(t) \/ Done(t) PROVE IInv'
  BY <1>3, LookStep, CreateStep, CheckStep, BindStep, PublishStep, ReturnStep, DoneStep DEF Build
<1> QED
  BY <1>1, <1>2, <1>3 DEF Next

-----------------------------------------------------------------------------
(* The theorems.                                                           *)

\* In every reachable state the services are built as far as the threads say,
\* on engines that are open.
THEOREM Invariance == Spec => []IInv
  BY Initially, NextStep, PTL DEF Spec

\* Every variable keeps its type; above all, no getter returns None, so that
\* the assertions of get_review_service and get_issue_service hold.
THEOREM TypeCorrect == Spec => []TypeOK
<1>1. IInv => TypeOK
  BY DEF IInv
<1> QED
  BY <1>1, Invariance, PTL

\* Whatever the threads overwrite of each other, a request and every published
\* service work on an engine that is not disposed of.
THEOREM NothingDisposedInUse == Spec => []ServedByOpenEngine
<1>1. IInv => ServedByOpenEngine
  BY DEF IInv, TypeOK, Safe, ServedByOpenEngine
<1> QED
  BY <1>1, Invariance, PTL

-----------------------------------------------------------------------------
(* The number of engines.                                                  *)

\* The threads that may yet create an engine that no failure pays for.
Due ==
  IF Complete THEN {t \in Thread : stage[t] = "create"}
  ELSE {t \in Thread : stage[t] \in {"idle", "create"}}

Racing == Cardinality(Thread)

Counted ==
  /\ IsFiniteSet(open)
  /\ Cardinality(open) + Cardinality(Due) <= failures + Racing + closes * (Racing - 1)

LEMMA Sizes ==
  /\ Racing \in Nat \ {0}
  /\ \A S \in SUBSET Thread : IsFiniteSet(S) /\ Cardinality(S) \in Nat /\ Cardinality(S) <= Racing
<1>1. Racing \in Nat /\ Racing # 0
  BY LazyAssumption, FS_CardinalityType, FS_EmptySet DEF Racing
<1> QED
  BY <1>1, LazyAssumption, FS_Subset, FS_CardinalityType DEF Racing

LEMMA DueIsThreads == Due \in SUBSET Thread
  BY DEF Due

\* A step that creates nothing.
LEMMA Fewer ==
  ASSUME IInv, Counted, closes' = closes, open' = open,
         failures' \in Nat, failures <= failures', Due' \subseteq Due
  PROVE  Counted'
<1>1. Cardinality(Due') <= Cardinality(Due)
  BY FS_Subset, Sizes, DueIsThreads
<1>2. Due' \in SUBSET Thread
  BY DueIsThreads
<1>3. /\ Cardinality(Due) \in Nat /\ Cardinality(Due') \in Nat /\ Cardinality(open) \in Nat
      /\ Racing \in Nat /\ failures \in Nat
  BY <1>2, Sizes, DueIsThreads, FS_CardinalityType DEF Counted, IInv, TypeOK
<1>4. Racing' = Racing
  BY DEF Racing
<1>5. PICK c : c = closes * (Racing - 1) /\ c \in Int
  BY <1>3 DEF IInv, TypeOK
<1> QED
  BY <1>1, <1>3, <1>4, <1>5 DEF Counted

\* The thread that failed may try again; its failure pays for that.
LEMMA FailCount ==
  ASSUME IInv, Counted, NEW t \in Thread, NEW from \in Before, Fail(t, from)
  PROVE  Counted'
<1>1. /\ stage' = [stage EXCEPT ![t] = "idle"] /\ failures' = failures + 1
      /\ UNCHANGED <<router, service, open, closes>>
  BY DEF Fail, Goto
<1>2. Names' = Names /\ Complete' = Complete
  BY <1>1 DEF Names, Complete
<1>3. Due' \subseteq Due \cup {t}
  BY <1>1, <1>2 DEF IInv, TypeOK, Due
<1>4. IsFiniteSet(Due \cup {t}) /\ Cardinality(Due \cup {t}) <= Cardinality(Due) + 1
  BY Sizes, DueIsThreads, FS_AddElement
<1>5. Cardinality(Due') <= Cardinality(Due \cup {t})
  BY <1>3, <1>4, FS_Subset
<1>6. /\ Cardinality(Due) \in Nat /\ Cardinality(Due') \in Nat /\ Cardinality(open) \in Nat
      /\ Cardinality(Due \cup {t}) \in Nat /\ Racing \in Nat /\ failures \in Nat
  BY <1>3, <1>4, Sizes, DueIsThreads, FS_CardinalityType, FS_Subset DEF Counted, IInv, TypeOK
<1>7. Racing' = Racing
  BY DEF Racing
<1>8. PICK c : c = closes * (Racing - 1) /\ c \in Int
  BY <1>6 DEF IInv, TypeOK
<1> QED
  BY <1>1, <1>4, <1>5, <1>6, <1>7, <1>8 DEF Counted

LEMMA CreateCount ==
  ASSUME IInv, Counted, NEW t \in Thread, Create(t)
  PROVE  Counted'
<1>1. CASE Fail(t, "create")
  BY <1>1, FailCount DEF Before
<1>2. CASE ~ Fail(t, "create")
  <2>1. /\ stage[t] = "create" /\ stage' = [stage EXCEPT ![t] = "check"]
        /\ open' = open \cup {created + 1}
        /\ UNCHANGED <<router, service, failures, closes>>
    BY <1>2 DEF Create, Goto
  <2>2. Names' = Names /\ Complete' = Complete
    BY <2>1 DEF Names, Complete
  <2>3. Due' = Due \ {t} /\ t \in Due
    BY <2>1, <2>2 DEF IInv, TypeOK, Due
  <2>4. Cardinality(Due') = Cardinality(Due) - 1
    BY <2>3, Sizes, DueIsThreads, FS_RemoveElement
  <2>5. created + 1 \notin open
    BY DEF IInv, TypeOK
  <2>6. IsFiniteSet(open') /\ Cardinality(open') = Cardinality(open) + 1
    BY <2>1, <2>5, FS_AddElement DEF Counted
  <2>7. /\ Cardinality(Due) \in Nat /\ Cardinality(open) \in Nat /\ Racing \in Nat /\ failures \in Nat
    BY Sizes, DueIsThreads, FS_CardinalityType DEF Counted, IInv, TypeOK
  <2>8. Racing' = Racing
    BY DEF Racing
  <2>9. PICK c : c = closes * (Racing - 1) /\ c \in Int
    BY <2>7 DEF IInv, TypeOK
  <2> QED
    BY <2>1, <2>4, <2>6, <2>7, <2>8, <2>9 DEF Counted
<1> QED
  BY <1>1, <1>2

\* The other steps of a thread add nobody who may create an engine: whoever
\* has built or been given a service finds one the next time.
LEMMA OtherCount ==
  ASSUME IInv, Counted, NEW t \in Thread,
         Look(t) \/ Check(t) \/ Bind(t) \/ Publish(t) \/ Return(t) \/ Done(t)
  PROVE  Counted'
<1>1. CASE Fail(t, "check") \/ Fail(t, "bind")
  BY <1>1, FailCount DEF Before
<1>2. CASE ~ (Fail(t, "check") \/ Fail(t, "bind"))
  <2>1. UNCHANGED <<router, open, closes, failures>>
    BY <1>2 DEF Look, Check, Bind, Publish, Return, Done, Goto
  <2>2. Names' = Names
    BY <2>1 DEF Names
  <2>3. Names \cap (Resting \cup Before) = {} /\ \A i \in DOMAIN router.services : router.services[i] \in Names
    BY RouterNames DEF IInv, TypeOK, Routers
  <2>4. TypeOK /\ \A u \in Thread : stage[u] \in {"return", "serving"} => Complete
    BY DEF IInv, Built
  <2>5. Due' \subseteq Due
    <3>1. CASE Look(t)
      BY <2>2, <2>4, <3>1 DEF Look, Goto, TypeOK, Due, Complete
    <3>2. CASE Check(t)
      BY <1>2, <2>2, <2>4, <3>2 DEF Check, Goto, TypeOK, Due, Complete
    <3>3. CASE Bind(t)
      <4>1. router.services[1] \in Names
        BY <2>3, RouterNames DEF IInv, TypeOK, Routers
      <4>2. router.services[1] \notin {"idle", "create"}
        BY <4>1, <2>3 DEF Resting, Before
      <4>3. /\ stage' = [stage EXCEPT ![t] = router.services[1]] /\ service' = service
        BY <1>2, <3>3 DEF Bind, Goto
      <4> QED
        BY <2>2, <2>4, <4>2, <4>3 DEF TypeOK, Due, Complete
    <3>4. CASE Publish(t)
      <4>1. PICK i \in DOMAIN router.services :
              /\ stage[t] = router.services[i] /\ stage' = [stage EXCEPT ![t] = After(i)]
              /\ service' = [service EXCEPT ![router.services[i]] = holds[t]]
        BY <3>4 DEF Publish, Goto
      <4>2. holds[t] # None
        BY <2>3, <2>4, <4>1 DEF TypeOK
      <4>3. Complete => Complete'
        BY <2>2, <2>3, <2>4, <4>1, <4>2 DEF TypeOK, Complete
      <4>4. After(i) = "return" \/ After(i) \in Names
        BY <2>3, RouterNames DEF After, IInv, TypeOK, Routers
      <4>5. After(i) \notin {"idle", "create"}
        BY <2>3, <4>4 DEF Resting, Before
      <4>6. \A u \in Thread : stage'[u] \in {"idle", "create"} => stage[u] = stage'[u]
        BY <2>4, <4>1, <4>5 DEF TypeOK
      <4> QED
        BY <4>3, <4>6 DEF Due
    <3>5. CASE Return(t)
      BY <2>2, <2>4, <3>5 DEF Return, Goto, TypeOK, Due, Complete
    <3>6. CASE Done(t)
      <4>1. Complete /\ Complete' = Complete
        BY <2>2, <2>4, <3>6 DEF Done, Goto, Complete
      <4> QED
        BY <2>4, <3>6, <4>1 DEF Done, Goto, TypeOK, Due
    <3> QED
      BY <3>1, <3>2, <3>3, <3>4, <3>5, <3>6
  <2> QED
    BY <2>1, <2>5, Fewer DEF IInv, TypeOK
<1> QED
  BY <1>1, <1>2

LEMMA CloseCount ==
  ASSUME IInv, Counted, Close
  PROVE  Counted'
<1>1. /\ closes' = closes + 1 /\ \A t \in Thread : stage[t] = "idle"
      /\ open' = open \ {engine}
      /\ UNCHANGED <<stage, failures>>
  BY DEF Close
<1>2. Due' \in SUBSET Thread
  BY DEF Due
<1>3. /\ IsFiniteSet(open') /\ Cardinality(open') <= Cardinality(open)
      /\ Complete => Cardinality(open') = Cardinality(open) - 1
  <2>1. Complete => engine \in open
    <3>1. 1 \in DOMAIN router.services
      BY RouterNames DEF IInv, TypeOK, Routers
    <3>2. router.services[1] \in Names
      BY <3>1, RouterNames DEF IInv, TypeOK, Routers
    <3> QED
      BY <3>2 DEF IInv, Safe, Complete
  <2>2. IsFiniteSet(open) /\ Cardinality(open) \in Nat
    BY FS_CardinalityType DEF Counted
  <2>3. /\ IsFiniteSet(open \ {engine})
        /\ Cardinality(open \ {engine}) =
             IF engine \in open THEN Cardinality(open) - 1 ELSE Cardinality(open)
    BY <2>2, FS_RemoveElement
  <2>4. open' = open \ {engine}
    BY <1>1
  <2> QED
    BY <2>1, <2>2, <2>3, <2>4
<1>4. ~ Complete => Cardinality(Due) = Racing
  BY <1>1 DEF Due, Racing
<1>5. /\ Cardinality(Due) \in Nat /\ Cardinality(Due') \in Nat /\ Cardinality(Due') <= Racing
      /\ Cardinality(open) \in Nat /\ Cardinality(open') \in Nat
      /\ Racing \in Nat \ {0} /\ failures \in Nat /\ closes \in Nat
  BY <1>2, <1>3, Sizes, DueIsThreads, FS_CardinalityType DEF Counted, IInv, TypeOK
<1>6. (closes + 1) * (Racing - 1) = closes * (Racing - 1) + (Racing - 1)
  BY <1>5
<1>7. PICK c : c = closes * (Racing - 1) /\ c \in Int
  BY <1>5
<1>8. Racing' = Racing
  BY DEF Racing
<1>9. Cardinality(open) + Cardinality(Due) <= failures + Racing + c
  BY <1>7 DEF Counted
<1>10. Cardinality(open') <= failures + c + (Racing - 1)
  <2>1. CASE Complete
    BY <1>3, <1>5, <1>7, <1>9, <2>1
  <2>2. CASE ~ Complete
    BY <1>3, <1>4, <1>5, <1>7, <1>9, <2>2
  <2> QED
    BY <2>1, <2>2
<1>11. Cardinality(open') + Cardinality(Due') <= failures + Racing + (c + (Racing - 1))
  BY <1>5, <1>7, <1>10
<1> QED
  BY <1>1, <1>3, <1>6, <1>7, <1>8, <1>11 DEF Counted

LEMMA CountStep == IInv /\ Counted /\ [Next]_vars => Counted'
<1> SUFFICES ASSUME IInv, Counted, [Next]_vars PROVE Counted'
  OBVIOUS
<1>1. CASE UNCHANGED vars
  BY <1>1 DEF vars, Counted, Due, Complete, Names, Racing
<1>2. CASE Close
  BY <1>2, CloseCount
<1>3. ASSUME NEW t \in Thread, Look(t) \/ Build(t) \/ Done(t) PROVE Counted'
  BY <1>3, CreateCount, OtherCount DEF Build
<1> QED
  BY <1>1, <1>2, <1>3 DEF Next

\* Racing first requests cost at most an engine for each thread, and only once
\* between two shutdowns; anything beyond is due to a construction that failed
\* after the engine had been assigned.
THEOREM FewEngines == Spec => []EnginesBounded
<1>1. Init => Counted
  <2> SUFFICES ASSUME Init PROVE Counted
    OBVIOUS
  <2>1. IsFiniteSet(open) /\ Cardinality(open) = 0 /\ failures = 0 /\ closes = 0
    BY FS_EmptySet DEF Init
  <2>2. Cardinality(Due) \in Nat /\ Cardinality(Due) <= Racing /\ Racing \in Nat
    BY Sizes, DueIsThreads
  <2>3. closes * (Racing - 1) = 0
    BY <2>1, <2>2
  <2> QED
    BY <2>1, <2>2, <2>3 DEF Counted
<1>2. IInv /\ Counted => EnginesBounded
  <2> SUFFICES ASSUME IInv, Counted PROVE EnginesBounded
    OBVIOUS
  <2>1. /\ Cardinality(Due) \in Nat /\ Cardinality(open) \in Nat /\ Racing \in Nat
        /\ failures \in Nat /\ closes \in Nat
    BY Sizes, DueIsThreads, FS_CardinalityType DEF Counted, IInv, TypeOK
  <2>2. PICK c : c = closes * (Racing - 1) /\ c \in Int
    BY <2>1
  <2>3. Cardinality(open) <= failures + Racing + c
    BY <2>1, <2>2 DEF Counted
  <2> QED
    BY <2>2, <2>3 DEF EnginesBounded, Racing
<1> QED
  BY <1>1, <1>2, CountStep, Invariance, PTL DEF Spec
=============================================================================
