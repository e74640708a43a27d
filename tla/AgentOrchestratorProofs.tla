---------------------- MODULE AgentOrchestratorProofs ------------------------
(***************************************************************************)
(* Theorems about AgentOrchestrator, for every set of runs and whatever    *)
(* each of them may be asked.                                              *)
(***************************************************************************)
EXTENDS AgentOrchestrator, FiniteSetTheorems, SequenceTheorems, TLAPS

-----------------------------------------------------------------------------
(* The inductive invariant, of one run x and of what is stored of it.      *)

Stages == {"idle", "executing", "calling", "returned", "recording", "done"}
Before == {"idle", "executing", "calling", "returned"}
Verdicts == {"success", "partial", "fail"}
Results == [type : {"tool", "sql"}, status : Verdicts]
Record == {"LOOP_START", "LOOP_END", "TRACE", "FAILURE", "PLANNER_START", "PLANNER_END",
           "REPLAN_TRIGGER", "TOOL_MATCH", "TOOL_EXECUTE_SUCCESS", "TOOL_EXECUTE_FAIL",
           "SQL_GENERATE", "SQL_VALIDATE", "SQL_EXECUTE_SUCCESS", "SQL_EXECUTE_FAIL"}

Asked(r) == Understandings[r] \cup {Understood({})}

PlannerPlans == {p \in Seq(Step) : Len(p) <= 5}

States(r) ==
  [stage : Stages, asked : Asked(r), plan : PlannerPlans, attempt : 0..2, at : {1},
   results : Seq(Results), trace : Run \cup {NoTrace}, answer : Verdicts \cup {"none", "error"},
   pending : Seq(Record), called : SUBSET {"tool", "sql"}, succeeded : Seq({"tool", "sql"})]

\* The plans that may be made for a question, whichever attempt it is.
Plans(a) ==
  IF Unclear(a) THEN {Clarification}
  ELSE {Unknown, MixedPlan} \cup {ToolPlan(n) : n \in LegacyTools}
         \cup {p \in {SqlPlan} : a.sql}
         \cup {p \in {SemanticSqlPlan} : a.semantic.intent = "analyze_completion_count"}

Intended(x) ==
  /\ "sql" \in x.called => x.asked.sql \/ x.asked.semantic.intent = "analyze_completion_count"
  /\ "tool" \in x.called => x.asked.record
  /\ Unclear(x.asked) => x.called = {}

\* So far every step of every plan has failed.
NoneSucceeded(x) ==
  /\ x.succeeded = << >> /\ Len(x.results) <= x.attempt - 1
  /\ \A i \in DOMAIN x.results : x.results[i].status # "success"

Underway(x) ==
  /\ x.stage \in {"executing", "calling", "returned"} => x.attempt \in {1, 2}
  /\ x.stage = "executing" => x.plan \in Plans(x.asked)
  /\ x.stage \in {"calling", "returned"} =>
       x.plan = ToolPlan("query_status") /\ x.asked.record /\ ~ Unclear(x.asked)
  /\ x.stage \in {"executing", "calling"} => NoneSucceeded(x)
  /\ x.stage = "returned" => NoneSucceeded([x EXCEPT !.succeeded = << >>])
                             /\ x.succeeded = <<"tool">>
  /\ x.stage \in Before => x.trace = NoTrace /\ x.answer = "none" /\ x.pending = << >>
  /\ x.stage = "idle" => x.called = {} /\ x.succeeded = << >> /\ x.results = << >>

\* Just the last step of an answered run may have succeeded.
Ended(x) ==
  LET n == Len(x.results) IN
  /\ n <= x.attempt /\ x.attempt \in {1, 2}
  /\ \A i \in DOMAIN x.results : x.results[i].status = "success" <=> i = n /\ x.answer = "success"
  /\ x.answer = "success" => n > 0 /\ x.succeeded = <<x.results[n].type>>
  /\ x.answer # "success" => x.succeeded = << >>

Expected(x) == IF x.answer = "error" THEN ErrorRecords ELSE Records(x, x.answer)

Told(x, rows) ==
  /\ x.stage \in Before => rows = << >>
  /\ x.stage \in {"recording", "done"} =>
       /\ x.answer = "error" => x.succeeded = << >>
       /\ x.answer # "error" => x.answer \in Verdicts /\ Ended(x)
  /\ x.stage = "recording" => rows \o x.pending = Expected(x)
  /\ x.stage = "done" => \E rest \in Seq(Record) : rows \o rest = Expected(x)

Good(r, x, rows) ==
  /\ x \in States(r) /\ rows \in Seq(Record)
  /\ Intended(x) /\ Underway(x) /\ Told(x, rows)

IInv ==
  /\ run = [r \in Run |-> run[r]] /\ stored = [r \in Run |-> stored[r]]
  /\ lastTrace \in Run \cup {NoTrace}
  /\ \A r \in Run : Good(r, run[r], stored[r])

-----------------------------------------------------------------------------
(* Questions and plans.                                                    *)

\* What the routers can make of a question.
LEMMA Routed ==
  ASSUME NEW q, NEW a, a = Understood(q)
  PROVE  /\ a.semantic.intent \in {"analyze_completion_count", "query_status", "unknown"}
         /\ a.semantic.clarify \in BOOLEAN
         /\ a.legacy \in LegacyTools \cup {"mixed", "sql", "unknown"}
         /\ a.sql \in BOOLEAN /\ a.record \in BOOLEAN
         /\ a.legacy = "sql" => a.sql
<1>1. /\ a.semantic = Semantic(q) /\ a.legacy = Legacy(q) /\ a.sql = SqlQuery(q)
      /\ a.record = ("record" \in q)
  BY DEF Understood
<1>2. /\ Semantic(q).intent \in {"analyze_completion_count", "query_status", "unknown"}
      /\ Semantic(q).clarify \in BOOLEAN
  BY DEF Semantic, Routing, GenericHeatStatusQuery
<1>3. /\ Legacy(q) \in LegacyTools \cup {"mixed", "sql", "unknown"}
      /\ Legacy(q) = "sql" => SqlQuery(q)
  BY DEF Legacy, LegacyTools
<1>4. SqlQuery(q) \in BOOLEAN
  BY DEF SqlQuery, Mentions
<1> QED
  BY <1>1, <1>2, <1>3, <1>4

LEMMA AskedFacts ==
  ASSUME NEW r \in Run, NEW a \in Asked(r)
  PROVE  /\ a.semantic.intent \in {"analyze_completion_count", "query_status", "unknown"}
         /\ a.legacy \in LegacyTools \cup {"mixed", "sql", "unknown"}
         /\ a.sql \in BOOLEAN /\ a.record \in BOOLEAN
         /\ a.legacy = "sql" => a.sql
<1>1. \E q : a = Understood(q)
  BY DEF Asked, Understandings
<1> QED
  BY <1>1, Routed

LEMMA FirstPlanned ==
  ASSUME NEW r \in Run, NEW a \in Asked(r)
  PROVE  FirstPlan(a) \in Plans(a)
<1> USE AskedFacts
<1>1. CASE Unclear(a)
  BY <1>1 DEF FirstPlan, Plans
<1>2. CASE ~ Unclear(a) /\ a.semantic.intent = "query_status"
  BY <1>2 DEF FirstPlan, Plans, SemanticToolPlan, LegacyTools
<1>3. CASE ~ Unclear(a) /\ a.semantic.intent = "analyze_completion_count"
  BY <1>3 DEF FirstPlan, Plans
<1>4. CASE ~ Unclear(a) /\ a.semantic.intent = "unknown"
  <2>1. FirstPlan(a) = LegacyPlan(a)
    BY <1>4 DEF FirstPlan
  <2>2. LegacyPlan(a) \in Plans(a)
    BY <1>4 DEF LegacyPlan, Plans, LegacyTools
  <2> QED
    BY <2>1, <2>2
<1> QED
  BY <1>1, <1>2, <1>3, <1>4

LEMMA Replanned ==
  ASSUME NEW r \in Run, NEW a \in Asked(r), NEW o
  PROVE  Replan(a, o) \in Plans(a)
  BY AskedFacts DEF Replan, Plans, Supplement, Clarification, Unknown

\* No plan but the mixed one has two steps, and that one begins with a tool.
LEMMA PlanShape ==
  ASSUME NEW a, NEW p \in Plans(a)
  PROVE  /\ p \in Seq(Step)
         /\ \/ p = << >>
            \/ Len(p) = 3 /\ p[1] = ToolStep("production_status")
            \/ Len(p) = 1 /\ p[1] \in {ToolStep(n) : n \in LegacyTools}
                          /\ p = ToolPlan(p[1].name) /\ ~ Unclear(a)
            \/ /\ Len(p) = 1 /\ p[1] \in {SqlStep("free"), SqlStep("analyze_completion_count")}
               /\ a.sql \/ a.semantic.intent = "analyze_completion_count"
               /\ ~ Unclear(a)
<1>1. \A n \in LegacyTools \cup {"production_status", "quality_status"} : ToolStep(n) \in Step
  BY DEF Step, ToolStep
<1>2. \A n \in {"free", "analyze_completion_count"} : SqlStep(n) \in Step
  BY DEF Step, SqlStep
<1>3. CASE p = << >>
  BY <1>3
<1>4. CASE p = MixedPlan
  <2>1. /\ ToolStep("production_status") \in Step /\ ToolStep("quality_status") \in Step
        /\ SqlStep("free") \in Step
    BY <1>1, <1>2
  <2> QED
    BY <1>4, <2>1 DEF MixedPlan
<1>5. ASSUME NEW n \in LegacyTools, p = ToolPlan(n), ~ Unclear(a)
      PROVE  /\ p \in Seq(Step) /\ Len(p) = 1 /\ p[1] = ToolStep(n)
             /\ p[1].name = n
  <2>1. ToolStep(n) \in Step
    BY <1>1
  <2> QED
    BY <1>5, <2>1 DEF ToolPlan, ToolStep
<1>6. CASE /\ ~ Unclear(a)
           /\ \/ p = SqlPlan /\ a.sql
              \/ p = SemanticSqlPlan /\ a.semantic.intent = "analyze_completion_count"
  <2>1. SqlStep("free") \in Step /\ SqlStep("analyze_completion_count") \in Step
    BY <1>2
  <2>2. CASE p = SqlPlan
    BY <1>6, <2>1, <2>2 DEF SqlPlan
  <2>3. CASE p = SemanticSqlPlan
    BY <1>6, <2>1, <2>3 DEF SemanticSqlPlan
  <2> QED
    BY <1>6, <2>2, <2>3
<1> QED
  BY <1>3, <1>4, <1>5, <1>6 DEF Plans, Clarification, Unknown

LEMMA PlanShort ==
  ASSUME NEW a, NEW p \in Plans(a)
  PROVE  p \in PlannerPlans
<1>1. Len(<< >>) = 0
  OBVIOUS
<1>2. p \in Seq(Step) /\ Len(p) \in {0, 1, 3}
  BY <1>1, PlanShape
<1>3. \A n \in {0, 1, 3} : n <= 5
  OBVIOUS
<1> QED
  BY <1>2, <1>3, Zenon DEF PlannerPlans

-----------------------------------------------------------------------------
(* Counting the places of a value in a sequence.                           *)

LEMMA CountType ==
  ASSUME NEW S, NEW s \in Seq(S), NEW e
  PROVE  Count(s, e) \in Nat /\ IsFiniteSet({i \in DOMAIN s : s[i] = e})
<1>1. {i \in DOMAIN s : s[i] = e} \subseteq 1..Len(s) /\ Len(s) \in Nat
  OBVIOUS
<1>2. IsFiniteSet({i \in DOMAIN s : s[i] = e})
  BY <1>1, FS_Interval, FS_Subset
<1> QED
  BY <1>2, FS_CardinalityType DEF Count

LEMMA CountNone ==
  ASSUME NEW S, NEW s \in Seq(S), NEW e, \A i \in DOMAIN s : s[i] # e
  PROVE  Count(s, e) = 0
<1>1. {i \in DOMAIN s : s[i] = e} = {}
  OBVIOUS
<1> QED
  BY <1>1, FS_EmptySet DEF Count

LEMMA CountCat ==
  ASSUME NEW S, NEW s \in Seq(S), NEW t \in Seq(S), NEW e
  PROVE  Count(s \o t, e) = Count(s, e) + Count(t, e)
<1> DEFINE A == {i \in DOMAIN s : s[i] = e}
           B == {i \in DOMAIN t : t[i] = e}
           C == {i \in DOMAIN (s \o t) : (s \o t)[i] = e}
           D == {i \in C : i > Len(s)}
           f == [i \in B |-> i + Len(s)]
<1>1. /\ Len(s \o t) = Len(s) + Len(t) /\ Len(s) \in Nat /\ Len(t) \in Nat
      /\ \A i \in 1..Len(s) : (s \o t)[i] = s[i]
      /\ \A i \in 1..Len(t) : (s \o t)[i + Len(s)] = t[i]
      /\ DOMAIN s = 1..Len(s) /\ DOMAIN t = 1..Len(t)
      /\ DOMAIN (s \o t) = 1..(Len(s) + Len(t))
  OBVIOUS
<1>2. C = A \cup D /\ A \cap D = {}
  BY <1>1
<1>3. f \in Bijection(B, D)
  <2>1. \A i \in B : f[i] \in D
    BY <1>1
  <2>2. \A j \in D : j - Len(s) \in B /\ f[j - Len(s)] = j
    BY <1>1
  <2>3. \A i, j \in B : f[i] = f[j] => i = j
    BY <1>1
  <2>4. f \in [B -> D]
    BY <2>1
  <2> HIDE DEF f, B, D
  <2> QED
    BY <2>2, <2>3, <2>4, Zenon DEF Bijection, Injection, Surjection, IsInjective
<1>4. IsFiniteSet(A) /\ IsFiniteSet(B)
  BY CountType
<1>5. IsFiniteSet(D) /\ Cardinality(D) = Cardinality(B)
  BY <1>3, <1>4, FS_Bijection DEF ExistsBijection
<1>6. Cardinality(C) = Cardinality(A) + Cardinality(D) - Cardinality({})
  <2> HIDE DEF A, B, C, D, f
  <2> QED
    BY <1>2, <1>4, <1>5, FS_Union
<1>7. Cardinality(A) \in Nat /\ Cardinality(B) \in Nat
  BY <1>4, FS_CardinalityType
<1>8. Count(s \o t, e) = Cardinality(C) /\ Count(s, e) = Cardinality(A) /\ Count(t, e) = Cardinality(B)
  BY DEF Count
<1> HIDE DEF A, B, C, D, f
<1> QED
  BY <1>5, <1>6, <1>7, <1>8, FS_EmptySet

LEMMA CountOne ==
  ASSUME NEW a, NEW e
  PROVE  Count(<<a>>, e) = IF a = e THEN 1 ELSE 0
<1>1. {i \in DOMAIN <<a>> : <<a>>[i] = e} = IF a = e THEN {1} ELSE {}
  OBVIOUS
<1> QED
  BY <1>1, FS_EmptySet, FS_Singleton DEF Count

LEMMA Pair ==
  ASSUME NEW a, NEW b
  PROVE  <<a>> \o <<b>> = <<a, b>>
<1> DEFINE S == {a, b}
           w == <<a>> \o <<b>>
           v == <<a, b>>
<1>1. w \in Seq(S) /\ Len(w) = 2 /\ w[1] = a /\ w[2] = b
  OBVIOUS
<1>2. v \in Seq(S) /\ Len(v) = 2 /\ v[1] = a /\ v[2] = b
  OBVIOUS
<1>3. \A i \in 1..2 : i = 1 \/ i = 2
  OBVIOUS
<1> HIDE DEF w, v, S
<1>4. \A i \in 1..Len(w) : w[i] = v[i]
  BY <1>1, <1>2, <1>3
<1>5. w = v
  BY <1>1, <1>2, <1>4, SeqEqual
<1> QED
  BY <1>5 DEF w, v

LEMMA Triple ==
  ASSUME NEW a, NEW b, NEW c
  PROVE  <<a, b>> \o <<c>> = <<a, b, c>>
<1> DEFINE S == {a, b, c}
           w == <<a, b>> \o <<c>>
           v == <<a, b, c>>
<1>1. w \in Seq(S) /\ Len(w) = 3 /\ w[1] = a /\ w[2] = b /\ w[3] = c
  OBVIOUS
<1>2. v \in Seq(S) /\ Len(v) = 3 /\ v[1] = a /\ v[2] = b /\ v[3] = c
  OBVIOUS
<1>3. \A i \in 1..3 : i = 1 \/ i = 2 \/ i = 3
  OBVIOUS
<1> HIDE DEF w, v, S
<1>4. \A i \in 1..Len(w) : w[i] = v[i]
  BY <1>1, <1>2, <1>3
<1>5. w = v
  BY <1>1, <1>2, <1>4, SeqEqual
<1> QED
  BY <1>5 DEF w, v

LEMMA Quadruple ==
  ASSUME NEW a, NEW b, NEW c, NEW d
  PROVE  <<a, b, c>> \o <<d>> = <<a, b, c, d>>
<1> DEFINE S == {a, b, c, d}
           w == <<a, b, c>> \o <<d>>
           v == <<a, b, c, d>>
<1>1. /\ w \in Seq(S) /\ Len(w) = 4
      /\ w[1] = a /\ w[2] = b /\ w[3] = c /\ w[4] = d
  OBVIOUS
<1>2. /\ v \in Seq(S) /\ Len(v) = 4
      /\ v[1] = a /\ v[2] = b /\ v[3] = c /\ v[4] = d
  OBVIOUS
<1>3. \A i \in 1..4 : i = 1 \/ i = 2 \/ i = 3 \/ i = 4
  OBVIOUS
<1> HIDE DEF w, v, S
<1>4. \A i \in 1..Len(w) : w[i] = v[i]
  BY <1>1, <1>2, <1>3
<1>5. w = v
  BY <1>1, <1>2, <1>4, SeqEqual
<1> QED
  BY <1>5 DEF w, v

LEMMA CountTwo ==
  ASSUME NEW a, NEW b, NEW e
  PROVE  Count(<<a, b>>, e) = (IF a = e THEN 1 ELSE 0) + (IF b = e THEN 1 ELSE 0)
<1> DEFINE S == {a, b}
           s == <<a>>
           t == <<b>>
<1>1. s \in Seq(S) /\ t \in Seq(S)
  OBVIOUS
<1>2. s \o t = <<a, b>>
  BY Pair
<1>3. Count(s, e) = (IF a = e THEN 1 ELSE 0) /\ Count(t, e) = (IF b = e THEN 1 ELSE 0)
  BY CountOne
<1> HIDE DEF S, s, t
<1>4. Count(s \o t, e) = Count(s, e) + Count(t, e)
  BY <1>1, CountCat
<1> QED
  BY <1>2, <1>3, <1>4

LEMMA CountThree ==
  ASSUME NEW a, NEW b, NEW c, NEW e
  PROVE  Count(<<a, b, c>>, e)
           = (IF a = e THEN 1 ELSE 0) + (IF b = e THEN 1 ELSE 0) + (IF c = e THEN 1 ELSE 0)
<1> DEFINE S == {a, b, c}
           s == <<a, b>>
           t == <<c>>
<1>1. s \in Seq(S) /\ t \in Seq(S)
  OBVIOUS
<1>2. s \o t = <<a, b, c>>
  BY Triple
<1>3. /\ Count(s, e) = (IF a = e THEN 1 ELSE 0) + (IF b = e THEN 1 ELSE 0)
      /\ Count(t, e) = (IF c = e THEN 1 ELSE 0)
  BY CountOne, CountTwo
<1> HIDE DEF S, s, t
<1>4. Count(s \o t, e) = Count(s, e) + Count(t, e)
  BY <1>1, CountCat
<1> QED
  BY <1>2, <1>3, <1>4

-----------------------------------------------------------------------------
(* What is recorded of a run.                                              *)

Event == Record \ {"TRACE", "FAILURE"}

LEMMA StepEventsFacts ==
  ASSUME NEW result \in Results
  PROVE  /\ StepEvents(result) \in Seq(Event)
         /\ Count(StepEvents(result), "PLANNER_END") = 0
         /\ Count(StepEvents(result), "TOOL_EXECUTE_SUCCESS")
              = IF result.status = "success" /\ result.type = "tool" THEN 1 ELSE 0
         /\ Count(StepEvents(result), "SQL_EXECUTE_SUCCESS")
              = IF result.status = "success" /\ result.type = "sql" THEN 1 ELSE 0
<1>1. CASE result.type = "tool"
  <2>1. PICK b \in {"TOOL_EXECUTE_SUCCESS", "TOOL_EXECUTE_FAIL"} :
          /\ StepEvents(result) = <<"TOOL_MATCH", b>>
          /\ b = "TOOL_EXECUTE_SUCCESS" <=> result.status = "success"
    BY <1>1 DEF StepEvents
  <2>2. <<"TOOL_MATCH", b>> \in Seq(Event)
    BY DEF Event, Record
  <2> QED
    BY <1>1, <2>1, <2>2, CountTwo
<1>2. CASE result.type = "sql"
  <2>1. PICK c \in {"SQL_EXECUTE_SUCCESS", "SQL_EXECUTE_FAIL"} :
          /\ StepEvents(result) = <<"SQL_GENERATE", "SQL_VALIDATE", c>>
          /\ c = "SQL_EXECUTE_SUCCESS" <=> result.status = "success"
    BY <1>2 DEF StepEvents
  <2>2. <<"SQL_GENERATE", "SQL_VALIDATE", c>> \in Seq(Event)
    BY DEF Event, Record
  <2> QED
    BY <1>2, <2>1, <2>2, CountThree
<1> QED
  BY <1>1, <1>2 DEF Results

LEMMA FlattenOne ==
  ASSUME NEW seqs, Len(seqs) = 1
  PROVE  FlattenSeq(seqs) = seqs[1]
<1> DEFINE Is(f) == f = [i \in 1..Len(seqs) |-> IF i = 1 THEN seqs[i] ELSE f[i-1] \o seqs[i]]
           g == [i \in 1..1 |-> seqs[i]]
<1>1. g = [i \in 1..1 |-> IF i = 1 THEN seqs[i] ELSE g[i-1] \o seqs[i]]
  OBVIOUS
<1>2. Is(g)
  BY <1>1
<1>3. FlattenSeq(seqs) = (CHOOSE f : Is(f))[1]
  BY DEF FlattenSeq
<1>4. Is(CHOOSE f : Is(f))
  <2> HIDE DEF Is, g
  <2> QED
    BY <1>2
<1>5. ASSUME NEW f, Is(f)
      PROVE  f[1] = seqs[1]
  BY <1>5
<1> HIDE DEF Is, g
<1> QED
  BY <1>3, <1>4, <1>5

LEMMA FlattenTwo ==
  ASSUME NEW seqs, Len(seqs) = 2
  PROVE  FlattenSeq(seqs) = seqs[1] \o seqs[2]
<1> DEFINE Is(f) == f = [i \in 1..Len(seqs) |-> IF i = 1 THEN seqs[i] ELSE f[i-1] \o seqs[i]]
           g == [i \in 1..2 |-> IF i = 1 THEN seqs[1] ELSE seqs[1] \o seqs[2]]
<1>1. g = [i \in 1..2 |-> IF i = 1 THEN seqs[i] ELSE g[i-1] \o seqs[i]]
  <2>1. g[1] = seqs[1]
    OBVIOUS
  <2>2. \A i \in 1..2 : i = 1 \/ (i = 2 /\ i - 1 = 1)
    OBVIOUS
  <2>3. \A i \in 1..2 : g[i] = IF i = 1 THEN seqs[i] ELSE g[i-1] \o seqs[i]
    BY <2>1, <2>2
  <2>4. g = [i \in 1..2 |-> g[i]]
    OBVIOUS
  <2> HIDE DEF g
  <2> QED
    BY <2>3, <2>4
<1>2. Is(g)
  BY <1>1
<1>3. FlattenSeq(seqs) = (CHOOSE f : Is(f))[2]
  BY DEF FlattenSeq
<1>4. Is(CHOOSE f : Is(f))
  <2> HIDE DEF Is, g
  <2> QED
    BY <1>2
<1>5. ASSUME NEW f, Is(f)
      PROVE  f[2] = seqs[1] \o seqs[2]
  <2>1. f[1] = seqs[1]
    BY <1>5
  <2>2. f[2] = f[1] \o seqs[2]
    BY <1>5
  <2> QED
    BY <2>1, <2>2
<1> HIDE DEF Is, g
<1> QED
  BY <1>3, <1>4, <1>5

Steps(x) == FlattenSeq([i \in DOMAIN x.results |-> StepEvents(x.results[i])])

\* The events of the steps tell the calls that succeeded.
LEMMA StepsCounted ==
  ASSUME NEW x, x.results \in Seq(Results), x.answer \in Verdicts, Ended(x)
  PROVE  /\ Steps(x) \in Seq(Event)
         /\ Count(Steps(x), "PLANNER_END") = 0
         /\ Count(Steps(x), "TOOL_EXECUTE_SUCCESS") = Count(x.succeeded, "tool")
         /\ Count(Steps(x), "SQL_EXECUTE_SUCCESS") = Count(x.succeeded, "sql")
<1> DEFINE rs == x.results
           seqs == [i \in DOMAIN rs |-> StepEvents(rs[i])]
<1>1. /\ rs \in Seq(Results) /\ Len(rs) \in {0, 1, 2} /\ Len(seqs) = Len(rs)
      /\ DOMAIN rs = 1..Len(rs) /\ \A i \in DOMAIN rs : rs[i] \in Results /\ seqs[i] = StepEvents(rs[i])
  <2>1. Len(rs) <= x.attempt /\ x.attempt \in {1, 2}
    BY DEF Ended
  <2>2. Len(rs) \in Nat /\ DOMAIN rs = 1..Len(rs)
    OBVIOUS
  <2>3. \A i \in DOMAIN rs : rs[i] \in Results /\ seqs[i] = StepEvents(rs[i])
    BY <2>2
  <2>4. Len(seqs) = Len(rs)
    BY <2>2
  <2>5. Len(rs) \in {0, 1, 2}
    <3>1. \A n \in Nat : n <= 2 => n \in {0, 1, 2}
      OBVIOUS
    <3>2. Len(rs) <= 2
      BY <2>1, <2>2
    <3> QED
      BY <2>2, <3>1, <3>2
  <2> HIDE DEF seqs
  <2> QED
    BY <2>2, <2>3, <2>4, <2>5
<1>2. /\ \A i \in DOMAIN rs : rs[i].status = "success" <=> i = Len(rs) /\ x.answer = "success"
      /\ x.answer = "success" => Len(rs) > 0 /\ x.succeeded = <<rs[Len(rs)].type>>
      /\ x.answer # "success" => x.succeeded = << >>
  BY Zenon DEF Ended
<1>3. Steps(x) = FlattenSeq(seqs)
  BY DEF Steps
<1>4. Count(<< >>, "tool") = 0 /\ Count(<< >>, "sql") = 0
  <2>1. << >> \in Seq(Record) /\ DOMAIN << >> = {}
    OBVIOUS
  <2> QED
    BY <2>1, CountNone
<1>5. ASSUME Len(rs) > 0, NEW e \in {"tool", "sql"}
      PROVE  Count(x.succeeded, e)
               = IF rs[Len(rs)].status = "success" /\ rs[Len(rs)].type = e THEN 1 ELSE 0
  <2>1. Len(rs) \in DOMAIN rs
    BY <1>1, <1>5
  <2>2. CASE x.answer = "success"
    <3>1. x.succeeded = <<rs[Len(rs)].type>> /\ rs[Len(rs)].status = "success"
      BY <1>2, <2>1, <2>2
    <3>2. Count(<<rs[Len(rs)].type>>, e) = IF rs[Len(rs)].type = e THEN 1 ELSE 0
      BY CountOne
    <3> QED
      BY <3>1, <3>2
  <2>3. CASE x.answer # "success"
    BY <1>2, <1>4, <2>1, <2>3
  <2> QED
    BY <2>2, <2>3
<1>6. CASE Len(rs) = 0
  <2>1. seqs = << >>
    BY <1>1, <1>6
  <2>2. FlattenSeq(seqs) = << >>
    BY <1>1, <1>6, <2>1 DEF FlattenSeq
  <2>3. << >> \in Seq(Event) /\ DOMAIN << >> = {}
    OBVIOUS
  <2>4. \A e : Count(<< >>, e) = 0
    BY <2>3, CountNone
  <2>5. x.succeeded = << >>
    BY <1>2, <1>6
  <2> QED
    BY <1>3, <2>2, <2>3, <2>4, <2>5
<1>7. CASE Len(rs) = 1
  <2>1. Steps(x) = StepEvents(rs[1]) /\ rs[1] \in Results
    BY <1>1, <1>3, <1>7, FlattenOne
  <2> QED
    BY <1>5, <1>7, <2>1, StepEventsFacts
<1>8. CASE Len(rs) = 2
  <2>1. Steps(x) = StepEvents(rs[1]) \o StepEvents(rs[2])
    <3>1. 1 \in DOMAIN rs /\ 2 \in DOMAIN rs
      BY <1>1, <1>8
    <3> QED
      BY <1>1, <1>3, <1>8, <3>1, FlattenTwo
  <2>2. rs[1] \in Results /\ rs[2] \in Results /\ rs[1].status # "success"
    BY <1>1, <1>2, <1>8
  <2>3. StepEvents(rs[1]) \in Seq(Event) /\ StepEvents(rs[2]) \in Seq(Event)
    BY <2>2, StepEventsFacts
  <2>4. \A e : Count(Steps(x), e) = Count(StepEvents(rs[1]), e) + Count(StepEvents(rs[2]), e)
    BY <2>1, <2>3, CountCat
  <2>5. Steps(x) \in Seq(Event)
    BY <2>1, <2>3
  <2> QED
    BY <1>5, <1>8, <2>2, <2>4, <2>5, StepEventsFacts
<1> QED
  BY <1>1, <1>6, <1>7, <1>8

Opening(x) ==
  << "LOOP_START" >> \o Planning
    \o (IF x.attempt = 2 THEN << "REPLAN_TRIGGER" >> \o Planning ELSE << >>)

Body(x) == Opening(x) \o Steps(x) \o << "LOOP_END" >>

Closing(status) == IF status = "success" THEN << >> ELSE << "FAILURE" >>

\* The records of an answered run: the events, then the trace, then perhaps a failure.
LEMMA RecordsShape ==
  ASSUME NEW x, x.results \in Seq(Results), x.answer \in Verdicts, Ended(x)
  PROVE  /\ Records(x, x.answer) = (Body(x) \o << "TRACE" >>) \o Closing(x.answer)
         /\ Body(x) \in Seq(Event)
         /\ Count(Body(x), "PLANNER_END") = x.attempt
         /\ Count(Body(x), "TOOL_EXECUTE_SUCCESS") = Count(x.succeeded, "tool")
         /\ Count(Body(x), "SQL_EXECUTE_SUCCESS") = Count(x.succeeded, "sql")
<1> DEFINE Again == IF x.attempt = 2 THEN << "REPLAN_TRIGGER" >> \o Planning ELSE << >>
           e1 == << "LOOP_START" >>
           e2 == << "REPLAN_TRIGGER" >>
           e3 == << "LOOP_END" >>
<1>1. /\ Planning \in Seq(Event) /\ e1 \in Seq(Event) /\ e2 \in Seq(Event) /\ e3 \in Seq(Event)
      /\ << >> \in Seq(Event)
  BY DEF Planning, Event, Record
<1>2. \A e : Count(<< >>, e) = 0
  <2>1. << >> \in Seq(Event) /\ DOMAIN << >> = {}
    OBVIOUS
  <2> QED
    BY <2>1, CountNone
<1>3. /\ Count(Planning, "PLANNER_END") = 1
      /\ Count(Planning, "TOOL_EXECUTE_SUCCESS") = 0 /\ Count(Planning, "SQL_EXECUTE_SUCCESS") = 0
  BY CountTwo DEF Planning
<1>4. \A e \in {"PLANNER_END", "TOOL_EXECUTE_SUCCESS", "SQL_EXECUTE_SUCCESS"} :
        Count(e1, e) = 0 /\ Count(e2, e) = 0 /\ Count(e3, e) = 0
  BY CountOne
<1>5. Opening(x) = (e1 \o Planning) \o Again
  BY DEF Opening
<1>6. Steps(x) \in Seq(Event)
  BY StepsCounted
<1>7. x.attempt \in {1, 2}
  BY DEF Ended
<1> HIDE DEF e1, e2, e3
<1>8. /\ Again \in Seq(Event)
      /\ Count(Again, "PLANNER_END") = x.attempt - 1
      /\ Count(Again, "TOOL_EXECUTE_SUCCESS") = 0 /\ Count(Again, "SQL_EXECUTE_SUCCESS") = 0
  <2>1. CASE x.attempt = 1
    BY <1>1, <1>2, <2>1
  <2>2. CASE x.attempt = 2
    <3>1. Again = e2 \o Planning
      BY <2>2 DEF e2
    <3>2. \A e : Count(e2 \o Planning, e) = Count(e2, e) + Count(Planning, e)
      BY <1>1, CountCat
    <3>3. e2 \o Planning \in Seq(Event)
      BY <1>1
    <3> HIDE DEF Again
    <3> QED
      BY <1>3, <1>4, <2>2, <3>1, <3>2, <3>3
  <2> QED
    BY <1>7, <2>1, <2>2
<1> HIDE DEF Again
<1>9. e1 \o Planning \in Seq(Event) /\ Opening(x) \in Seq(Event)
  BY <1>1, <1>5, <1>8
<1>10. \A e : Count(Opening(x), e) = Count(e1, e) + Count(Planning, e) + Count(Again, e)
  <2>1. \A e : Count(e1 \o Planning, e) = Count(e1, e) + Count(Planning, e)
    BY <1>1, CountCat
  <2>2. \A e : Count(Opening(x), e) = Count(e1 \o Planning, e) + Count(Again, e)
    <3> DEFINE u == e1 \o Planning
    <3>1. u \in Seq(Event)
      BY <1>9
    <3> HIDE DEF u
    <3>2. \A e : Count(u \o Again, e) = Count(u, e) + Count(Again, e)
      BY <1>8, <3>1, CountCat
    <3> QED
      BY <1>5, <3>2 DEF u
  <2> QED
    BY <2>1, <2>2
<1>11. Body(x) = (Opening(x) \o Steps(x)) \o e3
  BY DEF Body, e3
<1>12. Opening(x) \o Steps(x) \in Seq(Event) /\ Body(x) \in Seq(Event)
  BY <1>1, <1>6, <1>9, <1>11
<1>13. \A e : Count(Body(x), e) = Count(Opening(x), e) + Count(Steps(x), e) + Count(e3, e)
  <2>1. \A e : Count(Opening(x) \o Steps(x), e) = Count(Opening(x), e) + Count(Steps(x), e)
    BY <1>6, <1>9, CountCat
  <2>2. \A e : Count(Body(x), e) = Count(Opening(x) \o Steps(x), e) + Count(e3, e)
    <3> DEFINE u == Opening(x) \o Steps(x)
    <3>1. u \in Seq(Event)
      BY <1>12
    <3> HIDE DEF u
    <3>2. \A e : Count(u \o e3, e) = Count(u, e) + Count(e3, e)
      BY <1>1, <3>1, CountCat
    <3> QED
      BY <1>11, <3>2 DEF u
  <2> QED
    BY <2>1, <2>2
<1>14. Records(x, x.answer) = ((Opening(x) \o Steps(x)) \o << "LOOP_END", "TRACE" >>) \o Closing(x.answer)
  BY DEF Records, Opening, Steps, Closing
<1>15. (Opening(x) \o Steps(x)) \o << "LOOP_END", "TRACE" >> = Body(x) \o << "TRACE" >>
  <2> DEFINE w == Opening(x) \o Steps(x)
             t == << "TRACE" >>
             S == Event \cup {"TRACE"}
  <2>1. << "LOOP_END", "TRACE" >> = e3 \o t
    BY Pair DEF e3
  <2>2. w \in Seq(S) /\ e3 \in Seq(S) /\ t \in Seq(S)
    BY <1>1, <1>12
  <2> HIDE DEF w, t, S
  <2>3. w \o (e3 \o t) = (w \o e3) \o t
    BY <2>2, ConcatAssociative, SMTT(40)
  <2> QED
    BY <1>11, <2>1, <2>3 DEF w, t
<1>16. \A e \in {"PLANNER_END", "TOOL_EXECUTE_SUCCESS", "SQL_EXECUTE_SUCCESS"} :
         Count(Body(x), e) = Count(Planning, e) + Count(Again, e) + Count(Steps(x), e)
  <2>1. \A e : /\ Count(Planning, e) \in Nat /\ Count(Again, e) \in Nat
               /\ Count(Steps(x), e) \in Nat
    BY <1>1, <1>6, <1>8, CountType
  <2> TAKE e \in {"PLANNER_END", "TOOL_EXECUTE_SUCCESS", "SQL_EXECUTE_SUCCESS"}
  <2>2. Count(e1, e) = 0 /\ Count(e3, e) = 0
    BY <1>4
  <2>3. Count(Body(x), e) = Count(Opening(x), e) + Count(Steps(x), e) + Count(e3, e)
    BY <1>13
  <2>4. Count(Opening(x), e) = Count(e1, e) + Count(Planning, e) + Count(Again, e)
    BY <1>10
  <2>5. Count(Planning, e) \in Nat /\ Count(Again, e) \in Nat /\ Count(Steps(x), e) \in Nat
    BY <2>1
  <2> QED
    BY <2>2, <2>3, <2>4, <2>5
<1>17. /\ Count(Steps(x), "PLANNER_END") = 0
       /\ Count(Steps(x), "TOOL_EXECUTE_SUCCESS") = Count(x.succeeded, "tool")
       /\ Count(Steps(x), "SQL_EXECUTE_SUCCESS") = Count(x.succeeded, "sql")
  BY StepsCounted
<1>18. Count(Steps(x), "TOOL_EXECUTE_SUCCESS") \in Nat /\ Count(Steps(x), "SQL_EXECUTE_SUCCESS") \in Nat
  BY <1>6, CountType
<1>19. Count(Body(x), "PLANNER_END") = x.attempt
  BY <1>3, <1>7, <1>8, <1>16, <1>17
<1>20. /\ Count(Body(x), "TOOL_EXECUTE_SUCCESS") = Count(x.succeeded, "tool")
       /\ Count(Body(x), "SQL_EXECUTE_SUCCESS") = Count(x.succeeded, "sql")
  BY <1>3, <1>8, <1>16, <1>17, <1>18
<1> QED
  BY <1>12, <1>14, <1>15, <1>19, <1>20

\* What is stored up to the trace, or to the failure after it, has all events.
LEMMA Prefix ==
  ASSUME NEW b \in Seq(Event), NEW c \in Seq({"FAILURE"}),
         NEW rows \in Seq(Record), NEW rest \in Seq(Record),
         rows \o rest = (b \o << "TRACE" >>) \o c
  PROVE  /\ "TRACE" \in ToSet(rows) => \A e \in Event : Count(rows, e) = Count(b, e)
         /\ "FAILURE" \in ToSet(rows) => c # << >>
<1> DEFINE t == << "TRACE" >>
           all == (b \o t) \o c
<1>1. /\ Len(b) \in Nat /\ Len(c) \in Nat /\ Len(rows) \in Nat /\ Len(rest) \in Nat
      /\ DOMAIN rows = 1..Len(rows) /\ DOMAIN rest = 1..Len(rest)
      /\ t \in Seq(Record) /\ b \in Seq(Record) /\ c \in Seq(Record)
  BY DEF Event, Record
<1>2. /\ Len(b \o t) = Len(b) + 1 /\ Len(all) = Len(b) + 1 + Len(c)
      /\ \A i \in 1..Len(b) : all[i] \in Event
      /\ all[Len(b) + 1] = "TRACE"
      /\ \A i \in Len(b) + 2 .. Len(b) + 1 + Len(c) : all[i] = "FAILURE"
  <2>1. /\ b \o t \in Seq(Record) /\ Len(b \o t) = Len(b) + 1
        /\ \A i \in 1..Len(b) : (b \o t)[i] = b[i] /\ (b \o t)[i] \in Event
        /\ (b \o t)[Len(b) + 1] = "TRACE"
    BY <1>1
  <2> DEFINE u == b \o t
  <2> HIDE DEF u
  <2>2. /\ u \in Seq(Record) /\ Len(u) = Len(b) + 1
        /\ \A i \in 1..Len(b) : u[i] \in Event
        /\ u[Len(b) + 1] = "TRACE"
    BY <2>1 DEF u
  <2>3. /\ Len(u \o c) = Len(b) + 1 + Len(c)
        /\ \A i \in 1..Len(u) + Len(c) : (u \o c)[i] = IF i <= Len(u) THEN u[i] ELSE c[i - Len(u)]
    <3>1. u \in Seq(Record) /\ c \in Seq(Record) /\ Len(u) = Len(b) + 1
      BY <1>1, <2>2
    <3>2. /\ Len(u \o c) = Len(u) + Len(c)
          /\ \A i \in 1..Len(u) + Len(c) : (u \o c)[i] = IF i <= Len(u) THEN u[i] ELSE c[i - Len(u)]
      BY <3>1, ConcatProperties, Zenon
    <3> QED
      BY <3>1, <3>2
  <2>4. \A i \in 1..Len(b) : (u \o c)[i] \in Event
    BY <1>1, <2>2, <2>3
  <2>5. (u \o c)[Len(b) + 1] = "TRACE"
    BY <1>1, <2>2, <2>3
  <2>6. \A i \in Len(b) + 2 .. Len(b) + 1 + Len(c) : (u \o c)[i] = "FAILURE"
    <3>1. \A j \in 1..Len(c) : c[j] = "FAILURE"
      OBVIOUS
    <3> TAKE i \in Len(b) + 2 .. Len(b) + 1 + Len(c)
    <3>2. i \in 1..Len(u) + Len(c) /\ ~ (i <= Len(u)) /\ i - Len(u) \in 1..Len(c)
      BY <1>1, <2>2
    <3> QED
      BY <2>3, <3>1, <3>2
  <2> QED
    BY <2>1, <2>3, <2>4, <2>5, <2>6 DEF u
<1>3. /\ Len(all) = Len(rows) + Len(rest)
      /\ \A i \in 1..Len(rows) : all[i] = rows[i]
      /\ \A i \in 1..Len(rest) : all[Len(rows) + i] = rest[i]
  <2> DEFINE u == rows \o rest
  <2>1. /\ Len(u) = Len(rows) + Len(rest)
        /\ \A i \in 1..Len(rows) : u[i] = rows[i]
        /\ \A i \in 1..Len(rest) : u[Len(rows) + i] = rest[i]
    <3>1. /\ Len(u) = Len(rows) + Len(rest)
          /\ \A i \in 1..Len(rows) + Len(rest) :
               u[i] = IF i <= Len(rows) THEN rows[i] ELSE rest[i - Len(rows)]
      BY ConcatProperties, Zenon
    <3> HIDE DEF u
    <3>2. ASSUME NEW i \in 1..Len(rest)
          PROVE  u[Len(rows) + i] = rest[i]
      <4>1. /\ Len(rows) + i \in 1..Len(rows) + Len(rest) /\ ~ (Len(rows) + i <= Len(rows))
            /\ (Len(rows) + i) - Len(rows) = i
        BY <1>1
      <4> QED
        BY <3>1, <4>1
    <3>3. \A i \in 1..Len(rows) : u[i] = rows[i]
      BY <1>1, <3>1
    <3> QED
      BY <3>1, <3>2, <3>3
  <2>2. u = all
    OBVIOUS
  <2> HIDE DEF u, all
  <2> QED
    BY <2>1, <2>2
<1>4. "TRACE" \notin Event /\ "FAILURE" \notin Event
  BY DEF Event
<1>5. ASSUME "FAILURE" \in ToSet(rows)
      PROVE  c # << >>
  <2>1. PICK i \in 1..Len(rows) : rows[i] = "FAILURE"
    BY <1>1, <1>5 DEF ToSet
  <2>2. i \notin 1..Len(b) /\ i # Len(b) + 1
    <3> HIDE DEF all
    <3> QED
      BY <1>2, <1>3, <1>4, <2>1
  <2>3. i <= Len(b) + 1 + Len(c)
    <3> HIDE DEF all
    <3> QED
      BY <1>1, <1>2, <1>3
  <2> QED
    BY <1>1, <2>1, <2>2, <2>3
<1>6. ASSUME "TRACE" \in ToSet(rows), NEW e \in Event
      PROVE  Count(rows, e) = Count(b, e)
  <2>1. PICK k \in 1..Len(rows) : rows[k] = "TRACE"
    BY <1>1, <1>6 DEF ToSet
  <2>2. k \notin 1..Len(b)
    <3> HIDE DEF all
    <3> QED
      BY <1>2, <1>3, <1>4, <2>1
  <2>3. Len(rows) >= Len(b) + 1
    BY <1>1, <2>1, <2>2
  <2>4. \A i \in DOMAIN rest : rest[i] # e
    <3> HIDE DEF all
    <3> TAKE i \in DOMAIN rest
    <3>1. Len(rows) + i \in Len(b) + 2 .. Len(b) + 1 + Len(c)
      BY <1>1, <1>2, <1>3, <2>3
    <3> QED
      BY <1>1, <1>2, <1>3, <1>4, <3>1
  <2>5. Count(rest, e) = 0
    BY <2>4, CountNone
  <2>6. \A i \in DOMAIN c : c[i] # e
    BY <1>4
  <2>7. Count(c, e) = 0
    BY <2>6, CountNone
  <2>8. Count(t, e) = 0
    BY <1>4, CountOne
  <2>9. Count(rows \o rest, e) = Count(rows, e) + Count(rest, e)
    <3>1. \A v, w \in Seq(Record) : Count(v \o w, e) = Count(v, e) + Count(w, e)
      BY CountCat
    <3> HIDE DEF all
    <3> QED
      BY <3>1
  <2>10. Count(all, e) = Count(b \o t, e) + Count(c, e)
    <3> DEFINE u == b \o t
    <3>1. u \in Seq(Record)
      BY <1>1
    <3> HIDE DEF u
    <3>2. Count(u \o c, e) = Count(u, e) + Count(c, e)
      BY <1>1, <3>1, CountCat
    <3> QED
      BY <3>2 DEF u
  <2>11. Count(b \o t, e) = Count(b, e) + Count(t, e)
    <3> HIDE DEF t
    <3> QED
      BY <1>1, CountCat
  <2>12. Count(rows, e) \in Nat /\ Count(b, e) \in Nat
    BY CountType
  <2>13. rows \o rest = all
    OBVIOUS
  <2> HIDE DEF t, all
  <2>14. Count(rows \o rest, e) = Count(rows, e)
    BY <2>5, <2>9, <2>12
  <2>15. Count(b \o t, e) = Count(b, e)
    BY <2>8, <2>11, <2>12
  <2>16. Count(all, e) = Count(b, e)
    BY <2>7, <2>10, <2>12, <2>15
  <2> QED
    BY <2>13, <2>14, <2>16
<1> QED
  BY <1>5, <1>6

LEMMA Audited ==
  ASSUME NEW x, NEW rows \in Seq(Record), NEW rest \in Seq(Record),
         x.results \in Seq(Results), rows \o rest = Expected(x),
         x.answer = "error" => x.succeeded = << >>,
         x.answer # "error" => x.answer \in Verdicts /\ Ended(x)
  PROVE  /\ "TRACE" \in ToSet(rows) =>
              /\ Count(rows, "TOOL_EXECUTE_SUCCESS") = Count(x.succeeded, "tool")
              /\ Count(rows, "SQL_EXECUTE_SUCCESS") = Count(x.succeeded, "sql")
              /\ x.answer # "error" => Count(rows, "PLANNER_END") = x.attempt
         /\ "FAILURE" \in ToSet(rows) => x.answer # "success"
<1>1. {"TOOL_EXECUTE_SUCCESS", "SQL_EXECUTE_SUCCESS", "PLANNER_END"} \subseteq Event
  BY DEF Event, Record
<1>2. CASE x.answer = "error"
  <2> DEFINE b == << "LOOP_START", "LOOP_END" >>
             t == << "TRACE" >>
             c == << "FAILURE" >>
  <2>1. b \in Seq(Event) /\ c \in Seq({"FAILURE"}) /\ t \in Seq({"TRACE"})
    BY DEF Event, Record
  <2>2. rows \o rest = (b \o t) \o c
    <3>1. b \o t = << "LOOP_START", "LOOP_END", "TRACE" >>
      BY Triple
    <3>2. << "LOOP_START", "LOOP_END", "TRACE" >> \o c = ErrorRecords
      BY Quadruple DEF ErrorRecords
    <3> QED
      BY <1>2, <3>1, <3>2 DEF Expected
  <2>3. Count(b, "TOOL_EXECUTE_SUCCESS") = 0 /\ Count(b, "SQL_EXECUTE_SUCCESS") = 0
    BY CountTwo
  <2>4. Count(x.succeeded, "tool") = 0 /\ Count(x.succeeded, "sql") = 0
    <3>1. << >> \in Seq(Record) /\ DOMAIN << >> = {}
      OBVIOUS
    <3> QED
      BY <1>2, <3>1, CountNone
  <2>5. "TRACE" \in ToSet(rows) => \A e \in Event : Count(rows, e) = Count(b, e)
    <3> HIDE DEF b, c
    <3> QED
      BY <2>1, <2>2, Prefix
  <2> HIDE DEF b
  <2> QED
    BY <1>1, <1>2, <2>3, <2>4, <2>5
<1>3. CASE x.answer # "error"
  <2>1. x.answer \in Verdicts /\ Ended(x)
    BY <1>3
  <2> DEFINE b == Body(x)
             c == Closing(x.answer)
  <2>2. b \in Seq(Event) /\ c \in Seq({"FAILURE"}) /\ (c # << >> => x.answer # "success")
    <3>1. c = << >> \/ (c = << "FAILURE" >> /\ x.answer # "success")
      BY DEF Closing
    <3>2. << >> \in Seq({"FAILURE"}) /\ << "FAILURE" >> \in Seq({"FAILURE"})
      OBVIOUS
    <3>3. b \in Seq(Event)
      BY <2>1, RecordsShape
    <3> HIDE DEF b, c
    <3> QED
      BY <3>1, <3>2, <3>3
  <2>3. rows \o rest = (b \o << "TRACE" >>) \o c
    BY <1>3, <2>1, RecordsShape DEF Expected
  <2>4. /\ Count(b, "PLANNER_END") = x.attempt
        /\ Count(b, "TOOL_EXECUTE_SUCCESS") = Count(x.succeeded, "tool")
        /\ Count(b, "SQL_EXECUTE_SUCCESS") = Count(x.succeeded, "sql")
    BY <2>1, RecordsShape
  <2> HIDE DEF b, c
  <2>5. /\ "TRACE" \in ToSet(rows) => \A e \in Event : Count(rows, e) = Count(b, e)
        /\ "FAILURE" \in ToSet(rows) => c # << >>
    BY <2>2, <2>3, Prefix
  <2> QED
    BY <1>1, <2>2, <2>4, <2>5
<1> QED
  BY <1>2, <1>3

-----------------------------------------------------------------------------
(* A run after a step, an observation or an error.                         *)

\* An answered run: what is left to record of it is all there is to record.
LEMMA ObservedGood ==
  ASSUME NEW r \in Run, NEW x \in States(r), NEW o,
         o.status \in Verdicts, o.status = "success" => o.missing = "nothing",
         x.stage = "executing", x.answer = "none", x.pending = << >>,
         Intended(x), Ended([x EXCEPT !.answer = o.status]),
         o.status # "success" => x.trace = NoTrace
  PROVE  Good(r, Observed(x, o), << >>)
<1> DEFINE z == [x EXCEPT !.answer = o.status]
<1>1. /\ z.results = x.results /\ z.attempt = x.attempt /\ z.answer = o.status
      /\ z.succeeded = x.succeeded
  BY DEF States
<1>2. /\ Len(x.results) <= x.attempt /\ x.attempt \in {1, 2}
      /\ \A i \in DOMAIN x.results : x.results[i].status = "success"
                                       <=> i = Len(x.results) /\ o.status = "success"
      /\ o.status # "success" => x.succeeded = << >>
  BY <1>1 DEF Ended
<1>3. << >> \in Seq(Record)
  OBVIOUS
<1>4. CASE AnotherPlan(x, o)
  <2> DEFINE y == [x EXCEPT !.attempt = x.attempt + 1, !.at = 1, !.plan = Replan(x.asked, o)]
  <2>1. Observed(x, o) = y
    BY <1>4 DEF Observed
  <2>2. x.attempt = 1 /\ o.status # "success"
    BY <1>4 DEF AnotherPlan, NeedsReplan
  <2>3. x.asked \in Asked(r)
    BY DEF States
  <2>4. Replan(x.asked, o) \in Plans(x.asked) /\ Replan(x.asked, o) \in PlannerPlans
    BY <2>3, Replanned, PlanShort
  <2>5. y \in States(r)
    <3>1. x.attempt + 1 \in 0..2
      BY <2>2
    <3> DEFINE n == x.attempt + 1
               p == Replan(x.asked, o)
    <3>2. n \in 0..2 /\ p \in PlannerPlans
      BY <2>4, <3>1
    <3> HIDE DEF n, p
    <3>3. [x EXCEPT !.attempt = n, !.at = 1, !.plan = p] \in States(r)
      BY <3>2 DEF States
    <3> QED
      BY <3>3 DEF n, p
  <2>6. /\ y.stage = "executing" /\ y.asked = x.asked /\ y.plan = Replan(x.asked, o)
        /\ y.attempt = 2 /\ y.results = x.results /\ y.trace = NoTrace
        /\ y.answer = "none" /\ y.pending = << >> /\ y.called = x.called
        /\ y.succeeded = << >>
    BY <1>2, <2>2 DEF States
  <2> HIDE DEF y
  <2>7. Intended(y)
    BY <2>6 DEF Intended
  <2>8. NoneSucceeded(y)
    BY <1>2, <2>2, <2>6 DEF NoneSucceeded
  <2>9. Underway(y)
    BY <2>4, <2>6, <2>8 DEF Underway
  <2>10. Told(y, << >>)
    BY <2>6 DEF Told
  <2> QED
    BY <1>3, <2>1, <2>5, <2>7, <2>9, <2>10 DEF Good
<1>5. CASE ~ AnotherPlan(x, o)
  <2> DEFINE y == [x EXCEPT !.stage = "recording", !.answer = o.status,
                            !.pending = Records(x, o.status)]
  <2>1. Observed(x, o) = y
    BY <1>5 DEF Observed
  <2>2. Records(z, z.answer) = Records(x, o.status)
    <3> HIDE DEF z
    <3> QED
      BY <1>1 DEF Records
  <2>3. Records(x, o.status) \in Seq(Record)
    <3>1. z.results \in Seq(Results)
      BY <1>1 DEF States
    <3>2. Body(z) \in Seq(Event) /\ Records(z, z.answer) = (Body(z) \o << "TRACE" >>) \o Closing(z.answer)
      <4>1. z.answer \in Verdicts /\ Ended(z)
        BY <1>1
      <4> HIDE DEF z
      <4> QED
        BY <3>1, <4>1, RecordsShape, Zenon
    <3>3. << "TRACE" >> \in Seq(Record) /\ Closing(z.answer) \in Seq(Record)
      <4>1. << "TRACE" >> \in Seq(Record) /\ << "FAILURE" >> \in Seq(Record)
        BY DEF Record
      <4> HIDE DEF z
      <4> QED
        BY <4>1 DEF Closing
    <3>4. Body(z) \in Seq(Record)
      BY <3>2 DEF Event
    <3> DEFINE b == Body(z)
               t == << "TRACE" >>
               c == Closing(z.answer)
    <3>5. b \in Seq(Record) /\ t \in Seq(Record) /\ c \in Seq(Record)
      BY <3>3, <3>4
    <3>6. Records(x, o.status) = (b \o t) \o c
      BY <2>2, <3>2
    <3> HIDE DEF b, t, c
    <3> QED
      BY <3>5, <3>6
  <2>4. y \in States(r)
    BY <2>3 DEF States, Stages
  <2>5. /\ y.stage = "recording" /\ y.asked = x.asked /\ y.attempt = x.attempt
        /\ y.results = x.results /\ y.trace = x.trace /\ y.answer = o.status
        /\ y.pending = Records(x, o.status) /\ y.called = x.called
        /\ y.succeeded = x.succeeded
    BY DEF States
  <2> HIDE DEF y
  <2>6. Intended(y)
    BY <2>5 DEF Intended
  <2>7. Underway(y)
    BY <2>5 DEF Underway, Before
  <2>8. Ended(y)
    BY <1>1, <2>5 DEF Ended
  <2>9. Expected(y) = y.pending
    <3>1. Records(y, o.status) = Records(x, o.status)
      BY <2>5 DEF Records
    <3> QED
      BY <2>5, <3>1 DEF Expected, Verdicts
  <2>10. Told(y, << >>)
    BY <2>3, <2>5, <2>8, <2>9 DEF Told, Before, Verdicts
  <2> QED
    BY <1>3, <2>1, <2>4, <2>6, <2>7, <2>10 DEF Good
<1> QED
  BY <1>4, <1>5

LEMMA RaisedGood ==
  ASSUME NEW r \in Run, NEW x \in States(r), Intended(x),
         x.trace = NoTrace, x.succeeded = << >>
  PROVE  Good(r, Raised(x), << >>)
<1> DEFINE y == Raised(x)
<1>1. ErrorRecords \in Seq(Record) /\ << >> \in Seq(Record)
  BY DEF ErrorRecords, Record
<1>2. y \in States(r)
  BY <1>1 DEF Raised, States, Stages
<1>3. /\ y.stage = "recording" /\ y.asked = x.asked /\ y.trace = NoTrace
      /\ y.answer = "error" /\ y.pending = ErrorRecords /\ y.called = x.called
      /\ y.succeeded = << >>
  BY DEF Raised, States
<1> HIDE DEF y
<1>4. Intended(y) /\ Underway(y)
  BY <1>3 DEF Intended, Underway, Before
<1>5. Told(y, << >>)
  BY <1>1, <1>3 DEF Told, Before, Expected
<1> QED
  BY <1>1, <1>2, <1>4, <1>5 DEF Good, y

\* A step after which the run goes on to another plan or to its answer: the
\* first of its plan, which has others only if this one fails.
LEMMA StepGood ==
  ASSUME NEW r \in Run, NEW x \in States(r), NEW o,
         o.status \in Verdicts, o.status = "success" => o.missing = "nothing",
         x.attempt \in {1, 2}, x.plan \in Plans(x.asked), x.plan # << >>,
         x.answer = "none", x.pending = << >>, Intended(x),
         NoneSucceeded([x EXCEPT !.succeeded = << >>]),
         IF o.status = "success" THEN Len(x.plan) = 1 /\ x.succeeded = <<x.plan[1].type>>
         ELSE x.trace = NoTrace /\ x.succeeded = << >>
  PROVE  Good(r, StepEnds(x, o), << >>)
<1> DEFINE res == [type |-> x.plan[1].type, status |-> o.status]
           y == [x EXCEPT !.stage = "executing", !.results = Append(x.results, res)]
           z == [y EXCEPT !.answer = o.status]
<1>1. x.at = 1 /\ x.results \in Seq(Results)
  BY DEF States
<1>2. StepEnds(x, o) = Observed(y, o)
  <2>1. ~ (o.status = "success" /\ x.at < Len(x.plan))
    <3>1. o.status = "success" => Len(x.plan) = 1
      OBVIOUS
    <3>2. x.at = 1
      BY <1>1
    <3>3. ~ (1 < 1)
      OBVIOUS
    <3> QED
      BY <3>1, <3>2, <3>3, Zenon
  <2> QED
    BY <1>1, <2>1 DEF StepEnds
<1>3. x.plan[1].type \in {"tool", "sql"}
  BY PlanShape DEF ToolStep, SqlStep
<1>4. res \in Results
  BY <1>3 DEF Results
<1>5. Append(x.results, res) \in Seq(Results)
  BY <1>1, <1>4
<1>6. y \in States(r)
  BY <1>5 DEF States, Stages
<1>7. /\ y.stage = "executing" /\ y.answer = "none" /\ y.pending = << >>
      /\ y.asked = x.asked /\ y.called = x.called /\ y.trace = x.trace
      /\ y.results = Append(x.results, res) /\ y.attempt = x.attempt
      /\ y.succeeded = x.succeeded
  BY DEF States
<1>8. /\ z.results = Append(x.results, res) /\ z.attempt = x.attempt /\ z.answer = o.status
      /\ z.succeeded = x.succeeded
  BY DEF States
<1>9. /\ Len(x.results) <= x.attempt - 1
      /\ \A i \in DOMAIN x.results : x.results[i].status # "success"
  BY DEF NoneSucceeded, States
<1>10. Ended(z)
  <2>1. /\ Len(z.results) = Len(x.results) + 1 /\ Len(x.results) \in Nat
        /\ DOMAIN z.results = 1..Len(x.results) + 1 /\ DOMAIN x.results = 1..Len(x.results)
        /\ \A i \in 1..Len(x.results) : z.results[i] = x.results[i]
        /\ z.results[Len(x.results) + 1] = res
    BY <1>1, <1>5, <1>8
  <2>2. \A i \in DOMAIN z.results : z.results[i].status = "success"
                                      <=> i = Len(z.results) /\ z.answer = "success"
    BY <1>8, <1>9, <2>1
  <2>3. Len(z.results) <= z.attempt /\ z.attempt \in {1, 2}
    BY <1>8, <1>9, <2>1
  <2>4. /\ z.answer = "success" => Len(z.results) > 0 /\ z.succeeded = <<z.results[Len(z.results)].type>>
        /\ z.answer # "success" => z.succeeded = << >>
    BY <1>8, <2>1
  <2> HIDE DEF z, res
  <2> QED
    BY <2>2, <2>3, <2>4 DEF Ended
<1>11. Intended(y)
  BY <1>7 DEF Intended
<1>12. o.status # "success" => y.trace = NoTrace
  BY <1>7
<1> HIDE DEF y
<1> QED
  BY <1>2, <1>6, <1>7, <1>10, <1>11, <1>12, ObservedGood

-----------------------------------------------------------------------------
(* Every step preserves the invariant.                                     *)

LEMMA Initially ==
  ASSUME Init
  PROVE  IInv
<1>1. run = [r \in Run |-> run[r]] /\ stored = [r \in Run |-> stored[r]]
  BY DEF Init
<1>2. lastTrace \in Run \cup {NoTrace}
  BY DEF Init
<1>3. ASSUME NEW r \in Run
      PROVE  Good(r, run[r], stored[r])
  <2>1. stored[r] = << >> /\ << >> \in Seq(Record)
    BY DEF Init
  <2>2. run[r] = [stage |-> "idle", asked |-> Understood({}), plan |-> << >>, attempt |-> 0,
                  at |-> 1, results |-> << >>, trace |-> NoTrace, answer |-> "none",
                  pending |-> << >>, called |-> {}, succeeded |-> << >>]
    BY DEF Init
  <2> DEFINE x == run[r]
  <2>3. << >> \in PlannerPlans
    BY DEF PlannerPlans
  <2>4. x \in States(r)
    BY <2>2, <2>3 DEF States, Stages, Asked
  <2>5. Intended(x) /\ Underway(x) /\ Told(x, << >>)
    BY <2>2 DEF Intended, Underway, Told, Before
  <2> QED
    BY <2>1, <2>4, <2>5 DEF Good
<1> QED
  BY <1>1, <1>2, <1>3 DEF IInv

\* A run x that is asked the question a.
LEMMA AskGood ==
  ASSUME NEW r \in Run, NEW x, NEW a \in Understandings[r],
         Good(r, x, << >>), x.stage = "idle"
  PROVE  Good(r, [x EXCEPT !.stage = "executing", !.asked = a, !.attempt = 1,
                           !.plan = FirstPlan(a)], << >>)
<1> DEFINE p == FirstPlan(a)
           y == [x EXCEPT !.stage = "executing", !.asked = a, !.attempt = 1, !.plan = p]
<1>1. a \in Asked(r)
  BY DEF Asked
<1>2. p \in Plans(a) /\ p \in PlannerPlans
  BY <1>1, FirstPlanned, PlanShort
<1>3. /\ x \in States(r) /\ << >> \in Seq(Record)
      /\ x.called = {} /\ x.succeeded = << >> /\ x.results = << >> /\ x.trace = NoTrace
      /\ x.answer = "none" /\ x.pending = << >>
  BY DEF Good, Underway, Before
<1> HIDE DEF p
<1>4. y \in States(r)
  <2>1. "executing" \in Stages /\ 1 \in 0..2
    BY DEF Stages
  <2> QED
    BY <1>1, <1>2, <1>3, <2>1 DEF States
<1>5. /\ y.stage = "executing" /\ y.asked = a /\ y.plan = p /\ y.attempt = 1
      /\ y.results = << >> /\ y.trace = NoTrace /\ y.answer = "none"
      /\ y.pending = << >> /\ y.called = {} /\ y.succeeded = << >>
  BY <1>3 DEF States
<1> HIDE DEF y
<1>6. NoneSucceeded(y)
  <2>1. Len(<< >>) = 0 /\ DOMAIN << >> = {}
    OBVIOUS
  <2> QED
    BY <1>5, <2>1 DEF NoneSucceeded
<1>7. Intended(y) /\ Underway(y) /\ Told(y, << >>)
  BY <1>2, <1>5, <1>6 DEF Intended, Underway, Told
<1> QED
  BY <1>3, <1>4, <1>7 DEF Good, y, p

\* What holds of a run x before a step of a plan.
LEMMA ExecutingFacts ==
  ASSUME NEW r \in Run, NEW x, NEW rows, Good(r, x, rows),
         x.stage \in {"executing", "calling", "returned"}
  PROVE  /\ x \in States(r) /\ rows = << >> /\ x.at = 1
         /\ x.attempt \in {1, 2} /\ x.plan \in Plans(x.asked)
         /\ x.answer = "none" /\ x.pending = << >> /\ x.trace = NoTrace
         /\ Intended(x) /\ NoneSucceeded([x EXCEPT !.succeeded = << >>])
         /\ x.stage # "returned" => x.succeeded = << >>
         /\ x.stage # "executing" => x.plan = ToolPlan("query_status")
         /\ x.stage = "returned" => x.succeeded = << "tool" >>
<1>1. /\ x \in States(r) /\ x.at = 1 /\ rows = << >> /\ x.attempt \in {1, 2}
      /\ x.answer = "none" /\ x.pending = << >> /\ x.trace = NoTrace /\ Intended(x)
  BY DEF Good, States, Told, Before, Underway
<1>2. x.stage # "executing" => x.plan = ToolPlan("query_status") /\ ~ Unclear(x.asked)
  BY DEF Good, Underway
<1>3. x.plan \in Plans(x.asked)
  <2>1. CASE x.stage = "executing"
    BY <2>1 DEF Good, Underway
  <2>2. CASE x.stage # "executing"
    BY <1>2, <2>2 DEF Plans, LegacyTools
  <2> QED
    BY <2>1, <2>2
<1>4. /\ x.stage # "returned" => x.succeeded = << >>
      /\ x.stage = "returned" => x.succeeded = << "tool" >>
  BY DEF Good, Underway, NoneSucceeded
<1>5. NoneSucceeded([x EXCEPT !.succeeded = << >>])
  <2>1. CASE x.stage = "returned"
    BY <2>1 DEF Good, Underway
  <2>2. CASE x.stage # "returned"
    <3> DEFINE y == [x EXCEPT !.succeeded = << >>]
    <3>1. y.succeeded = << >> /\ y.results = x.results /\ y.attempt = x.attempt
      BY <1>1 DEF States
    <3>2. NoneSucceeded(x)
      BY <2>2 DEF Good, Underway
    <3> HIDE DEF y
    <3>3. NoneSucceeded(y)
      BY <3>1, <3>2 DEF NoneSucceeded
    <3> QED
      BY <3>3 DEF y
  <2> QED
    BY <2>1, <2>2
<1> QED
  BY <1>1, <1>2, <1>3, <1>4, <1>5

\* A step that leaves the run in its plan or behind it, without SQL.
LEMMA FailedGood ==
  ASSUME NEW r \in Run, NEW x, NEW rows, NEW o, Good(r, x, rows),
         x.stage \in {"executing", "calling"}, x.plan # << >>,
         o.status \in {"partial", "fail"}
  PROVE  Good(r, StepEnds(x, o), rows)
<1>1. /\ x \in States(r) /\ rows = << >> /\ x.attempt \in {1, 2} /\ x.plan \in Plans(x.asked)
      /\ x.answer = "none" /\ x.pending = << >> /\ x.trace = NoTrace
      /\ Intended(x) /\ NoneSucceeded([x EXCEPT !.succeeded = << >>]) /\ x.succeeded = << >>
  BY ExecutingFacts
<1>2. o.status \in Verdicts /\ o.status # "success"
  BY <1>1 DEF Verdicts
<1> QED
  BY <1>1, <1>2, StepGood

\* The SQL of a plan runs for a question that calls for it.
LEMMA SqlGood ==
  ASSUME NEW r \in Run, NEW x, NEW rows, Good(r, x, rows),
         x.stage = "executing", x.plan # << >>, x.plan[x.at].type = "sql"
  PROVE  LET y == [x EXCEPT !.called = x.called \cup {"sql"}] IN
         /\ Good(r, StepEnds([y EXCEPT !.succeeded = Append(y.succeeded, "sql")], Success), rows)
         /\ \A o \in SqlFailures : Good(r, StepEnds(y, o), rows)
         /\ Good(r, Raised(y), rows)
<1> DEFINE y == [x EXCEPT !.called = x.called \cup {"sql"}]
           z == [y EXCEPT !.succeeded = Append(y.succeeded, "sql")]
<1>1. /\ x \in States(r) /\ rows = << >> /\ x.at = 1 /\ x.attempt \in {1, 2}
      /\ x.plan \in Plans(x.asked)
      /\ x.answer = "none" /\ x.pending = << >> /\ x.trace = NoTrace
      /\ Intended(x) /\ NoneSucceeded([x EXCEPT !.succeeded = << >>]) /\ x.succeeded = << >>
  BY ExecutingFacts
<1>2. /\ Len(x.plan) = 1 /\ x.plan[1].type = "sql" /\ ~ Unclear(x.asked)
      /\ x.asked.sql \/ x.asked.semantic.intent = "analyze_completion_count"
  BY <1>1, PlanShape DEF ToolStep
<1>3. y \in States(r)
  <2>1. x.called \cup {"sql"} \in SUBSET {"tool", "sql"}
    BY <1>1 DEF States
  <2> DEFINE c == x.called \cup {"sql"}
  <2> HIDE DEF c
  <2>2. [x EXCEPT !.called = c] \in States(r)
    BY <1>1, <2>1 DEF States, c
  <2> QED
    BY <2>2 DEF c
<1>4. /\ y.plan = x.plan /\ y.asked = x.asked /\ y.attempt = x.attempt /\ y.answer = "none"
      /\ y.pending = << >> /\ y.trace = NoTrace /\ y.results = x.results
      /\ y.succeeded = << >> /\ y.called = x.called \cup {"sql"}
  BY <1>1 DEF States
<1> HIDE DEF y
<1>5. Intended(y)
  BY <1>1, <1>2, <1>4 DEF Intended
<1>6. \A t : NoneSucceeded([[y EXCEPT !.succeeded = t] EXCEPT !.succeeded = << >>])
  <2> TAKE t
  <2> DEFINE v == [[y EXCEPT !.succeeded = t] EXCEPT !.succeeded = << >>]
             w == [x EXCEPT !.succeeded = << >>]
  <2>1. v.succeeded = << >> /\ v.results = x.results /\ v.attempt = x.attempt
    BY <1>3, <1>4 DEF States
  <2>2. w.results = x.results /\ w.attempt = x.attempt /\ NoneSucceeded(w)
    BY <1>1 DEF States
  <2> HIDE DEF v, w
  <2>3. NoneSucceeded(v)
    BY <2>1, <2>2 DEF NoneSucceeded
  <2> QED
    BY <2>3 DEF v
<1>7. NoneSucceeded([y EXCEPT !.succeeded = << >>])
  <2>1. [y EXCEPT !.succeeded = << >>] = [[y EXCEPT !.succeeded = << >>] EXCEPT !.succeeded = << >>]
    BY <1>3 DEF States
  <2> QED
    BY <1>6, <2>1
<1>8. \A o \in SqlFailures : Good(r, StepEnds(y, o), rows)
  <2> TAKE o \in SqlFailures
  <2>1. /\ o.status \in Verdicts /\ o.status # "success"
        /\ y.attempt \in {1, 2}
        /\ y.plan \in Plans(y.asked) /\ y.plan # << >>
    BY <1>1, <1>4 DEF SqlFailures, Observation, Verdicts
  <2> QED
    BY <1>1, <1>3, <1>4, <1>5, <1>7, <2>1, StepGood
<1>9. Good(r, Raised(y), rows)
  BY <1>1, <1>3, <1>4, <1>5, RaisedGood
<1>10. Good(r, StepEnds(z, Success), rows)
  <2>1. Append(y.succeeded, "sql") = << "sql" >>
    BY <1>4
  <2>2. z = [y EXCEPT !.succeeded = << "sql" >>]
    BY <2>1
  <2>3. z \in States(r)
    <3> DEFINE t == << "sql" >>
    <3>1. t \in Seq({"tool", "sql"})
      OBVIOUS
    <3> HIDE DEF t
    <3>2. [y EXCEPT !.succeeded = t] \in States(r)
      BY <1>3, <3>1, ZenonT(60) DEF States
    <3> QED
      BY <2>2, <3>2 DEF t
  <2>4. /\ z.plan = x.plan /\ z.asked = x.asked /\ z.attempt = x.attempt /\ z.answer = "none"
        /\ z.pending = << >> /\ z.trace = NoTrace
        /\ z.succeeded = << "sql" >> /\ z.called = y.called
    BY <1>3, <1>4, <2>2 DEF States
  <2>5. NoneSucceeded([z EXCEPT !.succeeded = << >>])
    BY <1>6, <2>2
  <2> HIDE DEF z
  <2>6. Intended(z)
    BY <1>4, <1>5, <2>4 DEF Intended
  <2>7. /\ Success.status = "success" /\ Success.missing = "nothing" /\ "success" \in Verdicts
    BY DEF Success, Observation, Verdicts
  <2>8. /\ z.attempt \in {1, 2}
        /\ z.plan \in Plans(z.asked) /\ z.plan # << >>
        /\ Len(z.plan) = 1 /\ z.succeeded = << z.plan[1].type >>
    BY <1>1, <1>2, <2>4
  <2> QED
    BY <1>1, <2>3, <2>4, <2>5, <2>6, <2>7, <2>8, StepGood
<1> QED
  BY <1>8, <1>9, <1>10 DEF y

\* The tool is called with a record number, for a plan of nothing else.
LEMMA CallGood ==
  ASSUME NEW r \in Run, NEW x, NEW rows, Good(r, x, rows),
         x.stage = "executing", x.plan # << >>, x.plan[x.at].type = "tool",
         x.plan[x.at].name \in Routable, x.asked.record
  PROVE  Good(r, [x EXCEPT !.stage = "calling", !.called = x.called \cup {"tool"}], rows)
<1> DEFINE c == x.called \cup {"tool"}
           y == [x EXCEPT !.stage = "calling", !.called = c]
<1>1. /\ x \in States(r) /\ rows = << >> /\ x.at = 1 /\ x.attempt \in {1, 2}
      /\ x.plan \in Plans(x.asked)
      /\ x.answer = "none" /\ x.pending = << >> /\ x.trace = NoTrace
      /\ Intended(x) /\ x.succeeded = << >>
  BY ExecutingFacts
<1>2. x.plan = ToolPlan("query_status") /\ ~ Unclear(x.asked)
  <2>1. x.plan[1].type = "tool" /\ x.plan[1].name \in Routable
    BY <1>1
  <2>2. x.plan[1] # ToolStep("production_status")
    BY <2>1 DEF ToolStep, Routable
  <2>3. x.plan[1] \notin {SqlStep("free"), SqlStep("analyze_completion_count")}
    BY <2>1 DEF SqlStep
  <2>4. /\ x.plan[1] \in {ToolStep(n) : n \in LegacyTools} /\ ~ Unclear(x.asked)
        /\ x.plan = ToolPlan(x.plan[1].name)
    BY <1>1, <2>2, <2>3, PlanShape
  <2>5. x.plan[1].name = "query_status"
    BY <2>1, <2>4 DEF ToolStep, Routable, LegacyTools
  <2> QED
    BY <2>4, <2>5
<1>3. y \in States(r)
  <2>1. c \in SUBSET {"tool", "sql"} /\ "calling" \in Stages
    BY <1>1 DEF States, Stages
  <2> HIDE DEF c
  <2> QED
    BY <1>1, <2>1 DEF States
<1>4. /\ y.stage = "calling" /\ y.plan = x.plan /\ y.asked = x.asked /\ y.attempt = x.attempt
      /\ y.answer = "none" /\ y.pending = << >> /\ y.trace = NoTrace /\ y.results = x.results
      /\ y.succeeded = << >> /\ y.called = x.called \cup {"tool"}
  BY <1>1 DEF States
<1> HIDE DEF y
<1>5. Intended(y)
  BY <1>1, <1>2, <1>4 DEF Intended
<1>6. NoneSucceeded(y)
  <2>1. NoneSucceeded(x)
    BY DEF Good, Underway
  <2> QED
    BY <1>4, <2>1 DEF NoneSucceeded
<1>7. Underway(y)
  BY <1>1, <1>2, <1>4, <1>6 DEF Underway
<1>8. Told(y, rows) /\ rows \in Seq(Record)
  BY <1>1, <1>4 DEF Told, Good
<1> QED
  BY <1>3, <1>5, <1>7, <1>8 DEF Good, y

LEMMA ReturnGood ==
  ASSUME NEW r \in Run, NEW x, NEW rows, Good(r, x, rows), x.stage = "calling"
  PROVE  Good(r, [x EXCEPT !.stage = "returned", 
                           !.succeeded = Append(x.succeeded, "tool")], rows)
<1>1. /\ x \in States(r) /\ rows = << >> /\ x.attempt \in {1, 2}
      /\ x.plan = ToolPlan("query_status") /\ x.asked.record /\ ~ Unclear(x.asked)
      /\ x.answer = "none" /\ x.pending = << >> /\ x.trace = NoTrace
      /\ Intended(x) /\ NoneSucceeded([x EXCEPT !.succeeded = << >>]) /\ x.succeeded = << >>
  <2>1. x.asked.record /\ ~ Unclear(x.asked)
    BY DEF Good, Underway
  <2> QED
    BY <2>1, ExecutingFacts
<1> DEFINE y == [x EXCEPT !.stage = "returned", !.succeeded = << "tool" >>]
<1>2. [x EXCEPT !.stage = "returned", !.succeeded = Append(x.succeeded, "tool")] = y
  <2>1. Append(x.succeeded, "tool") = << "tool" >>
    BY <1>1
  <2> QED
    BY <2>1
<1>3. y \in States(r)
  <2>1. {r} \in SUBSET Run /\ << "tool" >> \in Seq({"tool", "sql"}) /\ "returned" \in Stages
    BY DEF Stages
  <2> QED
    BY <1>1, <2>1 DEF States
<1>4. /\ y.stage = "returned" /\ y.plan = x.plan /\ y.asked = x.asked /\ y.attempt = x.attempt
      /\ y.answer = "none" /\ y.pending = << >> /\ y.trace = NoTrace /\ y.results = x.results
      /\ y.succeeded = << "tool" >> /\ y.called = x.called
  BY <1>1 DEF States
<1>5. NoneSucceeded([y EXCEPT !.succeeded = << >>])
  <2> DEFINE v == [y EXCEPT !.succeeded = << >>]
             w == [x EXCEPT !.succeeded = << >>]
  <2>1. v.succeeded = << >> /\ v.results = x.results /\ v.attempt = x.attempt
    BY <1>1 DEF States
  <2>2. w.results = x.results /\ w.attempt = x.attempt /\ NoneSucceeded(w)
    BY <1>1 DEF States
  <2> HIDE DEF v, w
  <2>3. NoneSucceeded(v)
    BY <2>1, <2>2 DEF NoneSucceeded
  <2> QED
    BY <2>3 DEF v
<1> HIDE DEF y
<1>6. Intended(y)
  BY <1>1, <1>4 DEF Intended
<1>7. Underway(y)
  BY <1>1, <1>4, <1>5 DEF Underway
<1>8. Told(y, rows) /\ rows \in Seq(Record)
  BY <1>1, <1>4 DEF Told, Good
<1> QED
  BY <1>2, <1>3, <1>6, <1>7, <1>8 DEF Good

LEMMA ReadGood ==
  ASSUME NEW r \in Run, NEW x, NEW rows, NEW last \in Run \cup {NoTrace},
         Good(r, x, rows), x.stage = "returned"
  PROVE  Good(r, StepEnds([x EXCEPT !.trace = last], Success), rows)
<1> DEFINE y == [x EXCEPT !.trace = last]
<1>1. /\ x \in States(r) /\ rows = << >> /\ x.attempt \in {1, 2} /\ x.plan \in Plans(x.asked)
      /\ x.answer = "none" /\ x.pending = << >> /\ x.plan = ToolPlan("query_status")
      /\ Intended(x) /\ NoneSucceeded([x EXCEPT !.succeeded = << >>])
      /\ x.succeeded = << "tool" >>
  BY ExecutingFacts
<1>2. Len(x.plan) = 1 /\ x.plan[1].type = "tool" /\ x.plan # << >>
  BY <1>1 DEF ToolPlan, ToolStep
<1>3. y \in States(r)
  BY <1>1 DEF States
<1>4. /\ y.plan = x.plan /\ y.asked = x.asked /\ y.attempt = x.attempt
      /\ y.answer = "none" /\ y.pending = << >> /\ y.trace = last /\ y.results = x.results
      /\ y.succeeded = << "tool" >> /\ y.called = x.called
  BY <1>1 DEF States
<1>5. NoneSucceeded([y EXCEPT !.succeeded = << >>])
  <2> DEFINE v == [y EXCEPT !.succeeded = << >>]
             w == [x EXCEPT !.succeeded = << >>]
  <2>1. v.succeeded = << >> /\ v.results = x.results /\ v.attempt = x.attempt
    BY <1>1 DEF States
  <2>2. w.results = x.results /\ w.attempt = x.attempt /\ NoneSucceeded(w)
    BY <1>1 DEF States
  <2> HIDE DEF v, w
  <2>3. NoneSucceeded(v)
    BY <2>1, <2>2 DEF NoneSucceeded
  <2> QED
    BY <2>3 DEF v
<1> HIDE DEF y
<1>6. Intended(y)
  BY <1>1, <1>4 DEF Intended
<1>7. Success.status = "success" /\ Success.missing = "nothing" /\ "success" \in Verdicts
  BY DEF Success, Observation, Verdicts
<1>8. /\ y.attempt \in {1, 2}
      /\ y.plan \in Plans(y.asked) /\ y.plan # << >>
      /\ Len(y.plan) = 1 /\ y.succeeded = << y.plan[1].type >>
  BY <1>1, <1>2, <1>4
<1>9. Good(r, StepEnds(y, Success), << >>)
  BY <1>3, <1>4, <1>5, <1>6, <1>7, <1>8, StepGood
<1> QED
  BY <1>1, <1>9 DEF y

\* What is left to record becomes what is recorded, one by one.
LEMMA StoreGood ==
  ASSUME NEW r \in Run, NEW x, NEW rows, Good(r, x, rows),
         x.stage = "recording", x.pending # << >>
  PROVE  /\ Good(r, [x EXCEPT !.pending = Tail(x.pending)], Append(rows, Head(x.pending)))
         /\ Good(r, [x EXCEPT !.stage = "done", !.pending = << >>], rows)
         /\ Good(r, [x EXCEPT !.stage = "done", !.pending = << >>],
                 Append(rows, Head(x.pending)))
<1> DEFINE h == Head(x.pending)
           t == Tail(x.pending)
           more == Append(rows, h)
<1>1. /\ x \in States(r) /\ rows \in Seq(Record) /\ x.pending \in Seq(Record)
      /\ rows \o x.pending = Expected(x) /\ Intended(x)
      /\ x.answer = "error" => x.succeeded = << >>
      /\ x.answer # "error" => x.answer \in Verdicts /\ Ended(x)
  BY DEF Good, States, Told
<1>2. h \in Record /\ t \in Seq(Record) /\ << >> \in Seq(Record) /\ more \in Seq(Record)
  BY <1>1
<1>3. more \o t = rows \o x.pending
  <2>1. x.pending = << h >> \o t
    BY <1>1
  <2>2. more = rows \o << h >> /\ << h >> \in Seq(Record)
    BY <1>1, <1>2
  <2> DEFINE u == << h >>
  <2> HIDE DEF u, h, t, more
  <2>3. rows \o (u \o t) = (rows \o u) \o t
    BY <1>1, <1>2, <2>2, ConcatAssociative DEF u
  <2> QED
    BY <2>1, <2>2, <2>3 DEF u
<1> HIDE DEF h, t, more
<1>4. ASSUME NEW stage \in {"recording", "done"}, NEW p \in Seq(Record), NEW now \in Seq(Record),
             now \o p = Expected(x) \/ (stage = "done" /\ \E rest \in Seq(Record) : now \o rest = Expected(x))
      PROVE  Good(r, [x EXCEPT !.stage = stage, !.pending = p], now)
  <2> DEFINE y == [x EXCEPT !.stage = stage, !.pending = p]
  <2>1. y \in States(r)
    BY <1>1 DEF States, Stages
  <2>2. /\ y.stage = stage /\ y.pending = p /\ y.asked = x.asked /\ y.attempt = x.attempt
        /\ y.answer = x.answer /\ y.trace = x.trace /\ y.results = x.results
        /\ y.succeeded = x.succeeded /\ y.called = x.called
    BY <1>1 DEF States
  <2> HIDE DEF y
  <2>3. Expected(y) = Expected(x)
    <3>1. \A status : Records(y, status) = Records(x, status)
      BY <2>2 DEF Records
    <3> QED
      BY <2>2, <3>1 DEF Expected
  <2>4. Ended(x) => Ended(y)
    BY <2>2 DEF Ended
  <2>5. Told(y, now)
    <3>1. y.stage = "recording" => now \o y.pending = Expected(y)
      BY <1>4, <2>2, <2>3
    <3>2. y.stage = "done" => \E rest \in Seq(Record) : now \o rest = Expected(y)
      BY <1>4, <2>2, <2>3
    <3>3. /\ y.answer = "error" => y.succeeded = << >>
          /\ y.answer # "error" => y.answer \in Verdicts /\ Ended(y)
      BY <1>1, <2>2, <2>4
    <3>4. y.stage \notin Before
      BY <1>4, <2>2 DEF Before
    <3> QED
      BY <3>1, <3>2, <3>3, <3>4 DEF Told
  <2>6. Intended(y) /\ Underway(y)
    BY <1>1, <1>4, <2>2 DEF Intended, Underway, Before
  <2> QED
    BY <1>4, <2>1, <2>5, <2>6 DEF Good, y
<1>5. Good(r, [x EXCEPT !.stage = "recording", !.pending = t], more)
  BY <1>1, <1>2, <1>3, <1>4
<1>6. [x EXCEPT !.stage = "recording", !.pending = t] = [x EXCEPT !.pending = t]
  BY <1>1 DEF States
<1>7. Good(r, [x EXCEPT !.stage = "done", !.pending = << >>], rows)
  BY <1>1, <1>2, <1>4
<1>8. Good(r, [x EXCEPT !.stage = "done", !.pending = << >>], more)
  BY <1>1, <1>2, <1>3, <1>4
<1> QED
  BY <1>5, <1>6, <1>7, <1>8 DEF h, t, more

LEMMA AnswerGood ==
  ASSUME NEW r \in Run, NEW x, NEW rows, Good(r, x, rows),
         x.stage = "recording", x.pending = << >>
  PROVE  Good(r, [x EXCEPT !.stage = "done"], rows)
<1> DEFINE y == [x EXCEPT !.stage = "done"]
<1>1. /\ x \in States(r) /\ rows \in Seq(Record) /\ << >> \in Seq(Record)
      /\ rows \o << >> = Expected(x) /\ Intended(x)
      /\ x.answer = "error" => x.succeeded = << >>
      /\ x.answer # "error" => x.answer \in Verdicts /\ Ended(x)
  BY DEF Good, States, Told
<1>2. y \in States(r)
  BY <1>1 DEF States, Stages
<1>3. /\ y.stage = "done" /\ y.asked = x.asked /\ y.attempt = x.attempt
      /\ y.answer = x.answer /\ y.trace = x.trace /\ y.results = x.results
      /\ y.succeeded = x.succeeded /\ y.called = x.called
  BY <1>1 DEF States
<1> HIDE DEF y
<1>4. Expected(y) = Expected(x)
  <2>1. \A status : Records(y, status) = Records(x, status)
    BY <1>3 DEF Records
  <2> QED
    BY <1>3, <2>1 DEF Expected
<1>5. Ended(x) => Ended(y)
  BY <1>3 DEF Ended
<1>6. Told(y, rows)
  BY <1>1, <1>3, <1>4, <1>5 DEF Told, Before
<1>7. Intended(y) /\ Underway(y)
  BY <1>1, <1>3 DEF Intended, Underway, Before
<1> QED
  BY <1>1, <1>2, <1>6, <1>7 DEF Good, y

LEMMA Stepwise ==
  ASSUME IInv, [Next]_vars
  PROVE  IInv'
<1>1. /\ run = [r \in Run |-> run[r]] /\ stored = [r \in Run |-> stored[r]]
      /\ lastTrace \in Run \cup {NoTrace}
      /\ \A r \in Run : Good(r, run[r], stored[r])
  BY DEF IInv
<1>2. ASSUME NEW r \in Run, NEW x, run' = [run EXCEPT ![r] = x], stored' = stored,
             lastTrace' \in Run \cup {NoTrace}, Good(r, x, stored[r])
      PROVE  IInv'
  <2>1. run' = [s \in Run |-> run'[s]] /\ stored' = [s \in Run |-> stored'[s]]
    BY <1>1, <1>2
  <2>2. \A s \in Run : Good(s, run'[s], stored'[s])
    BY <1>1, <1>2
  <2> QED
    BY <1>1, <1>2, <2>1, <2>2 DEF IInv
<1>3. ASSUME NEW r \in Run, NEW x, run[r].stage \in {"idle", "executing", "calling", "returned"},
             Becomes(r, x), Silent, Good(r, x, << >>)
      PROVE  IInv'
  <2>1. stored[r] = << >>
    BY <1>1, <1>3 DEF Good, Told, Before
  <2> QED
    BY <1>1, <1>2, <1>3, <2>1 DEF Becomes, Silent
<1>4. ASSUME NEW r \in Run, NEW x, NEW rows, run' = [run EXCEPT ![r] = x],
             stored' = [stored EXCEPT ![r] = rows], lastTrace' = lastTrace,
             Good(r, x, rows)
      PROVE  IInv'
  <2>1. run' = [s \in Run |-> run'[s]] /\ stored' = [s \in Run |-> stored'[s]]
    BY <1>1, <1>4
  <2>2. \A s \in Run : Good(s, run'[s], stored'[s])
    BY <1>1, <1>4
  <2> QED
    BY <1>1, <1>4, <2>1, <2>2 DEF IInv
<1>5. \A r \in Run : run[r].stage \in Before => stored[r] = << >>
  BY <1>1 DEF Good, Told
<1>6. CASE UNCHANGED vars
  <2>1. run' = run /\ stored' = stored /\ lastTrace' = lastTrace
    BY <1>6 DEF vars
  <2> QED
    BY <1>1, <2>1 DEF IInv
<1>7. CASE Next
  <2>1. PICK r \in Run :
          \/ Ask(r) \/ RefuseMessage(r)
          \/ NothingPlanned(r) \/ ToolMiss(r) \/ RecordMissing(r)
          \/ CallTool(r) \/ ToolRaises(r) \/ ToolReturns(r) \/ ReadTrace(r) \/ RunSql(r)
          \/ Store(r) \/ StoreFails(r) \/ Answer(r)
    BY <1>7 DEF Next
  <2>2. Good(r, run[r], stored[r])
    BY <1>1
  <2>3. run[r].stage \in Before => stored[r] = << >>
    BY <1>5
  <2>4. CASE Ask(r)
    <3>1. run[r].stage = "idle" /\ Silent
      BY <2>4 DEF Ask
    <3>2. PICK a \in Understandings[r] :
            Becomes(r, [run[r] EXCEPT !.stage = "executing", !.asked = a,
                                      !.attempt = 1, !.plan = FirstPlan(a)])
      BY <2>4 DEF Ask
    <3>3. Good(r, run[r], << >>)
      BY <2>2, <2>3, <3>1 DEF Before
    <3> DEFINE y == [run[r] EXCEPT !.stage = "executing", !.asked = a,
                                   !.attempt = 1, !.plan = FirstPlan(a)]
    <3>4. Good(r, y, << >>)
      BY <3>1, <3>3, AskGood
    <3> HIDE DEF y
    <3> QED
      BY <1>3, <3>1, <3>2, <3>4 DEF y
  <2>5. CASE RefuseMessage(r)
    <3>1. run[r].stage = "idle" /\ Silent /\ Becomes(r, Raised(run[r]))
      BY <2>5 DEF RefuseMessage
    <3>2. /\ run[r] \in States(r) /\ Intended(run[r]) /\ run[r].trace = NoTrace
          /\ run[r].succeeded = << >>
      BY <2>2, <3>1 DEF Good, Underway, Before
    <3>3. Good(r, Raised(run[r]), << >>)
      BY <3>2, RaisedGood
    <3> QED
      BY <1>3, <3>1, <3>3
  <2>6. CASE NothingPlanned(r)
    <3> DEFINE o == Observation("fail", "plan.steps")
               x == run[r]
               z == [x EXCEPT !.answer = o.status]
    <3>1. x.stage = "executing" /\ Silent /\ Becomes(r, Observed(x, o))
      BY <2>6 DEF NothingPlanned, Executing
    <3>2. o.status = "fail" /\ o.status \in Verdicts
      BY DEF Observation, Verdicts
    <3>3. /\ x \in States(r) /\ Intended(x) /\ x.trace = NoTrace /\ x.attempt \in {1, 2}
          /\ x.answer = "none" /\ x.pending = << >> /\ x.succeeded = << >>
      BY <2>2, <3>1, ExecutingFacts
    <3>4. NoneSucceeded(x)
      BY <2>2, <3>1 DEF Good, Underway
    <3>5. Ended(z)
      <4>1. /\ z.results = x.results /\ z.attempt = x.attempt /\ z.answer = "fail"
            /\ z.succeeded = << >> /\ x.results \in Seq(Results)
        BY <3>2, <3>3 DEF States
      <4> HIDE DEF x, z
      <4>2. Len(x.results) <= x.attempt
        BY <3>3, <3>4, <4>1 DEF NoneSucceeded
      <4> QED
        BY <3>3, <3>4, <4>1, <4>2 DEF NoneSucceeded, Ended
    <3> HIDE DEF o, x
    <3>6. Good(r, Observed(x, o), << >>)
      BY <3>1, <3>2, <3>3, <3>5, ObservedGood
    <3> QED
      BY <1>3, <3>1, <3>6 DEF x
  <2>7. ASSUME NEW o, o.status \in {"partial", "fail"}, run[r].stage \in {"executing", "calling"},
               run[r].plan # << >>, Becomes(r, StepEnds(run[r], o)), Silent
        PROVE  IInv'
    <3>1. stored[r] = << >>
      BY <2>3, <2>7 DEF Before
    <3>2. Good(r, StepEnds(run[r], o), << >>)
      BY <2>2, <2>7, <3>1, FailedGood
    <3> QED
      BY <1>3, <2>7, <3>2
  <2>8. CASE ToolMiss(r)
    <3> DEFINE o == Observation("fail", run[r].plan[run[r].at].name)
    <3>1. /\ run[r].stage = "executing" /\ run[r].plan # << >>
          /\ Becomes(r, StepEnds(run[r], o)) /\ Silent
      BY <2>8 DEF ToolMiss, At, Executing
    <3>2. o.status = "fail"
      BY DEF Observation
    <3> HIDE DEF o
    <3> QED
      BY <2>7, <3>1, <3>2
  <2>9. CASE RecordMissing(r)
    <3> DEFINE o == Observation("partial", "record")
    <3>1. /\ run[r].stage = "executing" /\ run[r].plan # << >>
          /\ Becomes(r, StepEnds(run[r], o)) /\ Silent
      BY <2>9 DEF RecordMissing, At, Executing
    <3>2. o.status = "partial"
      BY DEF Observation
    <3> HIDE DEF o
    <3> QED
      BY <2>7, <3>1, <3>2
  <2>10. CASE CallTool(r)
    <3>1. /\ run[r].stage = "executing" /\ run[r].plan # << >>
          /\ run[r].plan[run[r].at].type = "tool" /\ run[r].plan[run[r].at].name \in Routable
          /\ run[r].asked.record /\ Silent
          /\ Becomes(r, [run[r] EXCEPT !.stage = "calling", !.called = run[r].called \cup {"tool"}])
      BY <2>10 DEF CallTool, At, Executing
    <3>2. Good(r, [run[r] EXCEPT !.stage = "calling", !.called = run[r].called \cup {"tool"}],
               stored[r])
      BY <2>2, <3>1, CallGood
    <3> QED
      BY <1>3, <2>3, <3>1, <3>2 DEF Before
  <2>11. CASE ToolRaises(r)
    <3>1. run[r].stage = "calling" /\ Silent
      BY <2>11 DEF ToolRaises
    <3>2. PICK missing \in {"heat_current_stage", "heat_current_stage.args"} :
            Becomes(r, StepEnds(run[r], Observation("fail", missing)))
      BY <2>11 DEF ToolRaises
    <3> DEFINE o == Observation("fail", missing)
    <3>3. o.status = "fail" /\ Becomes(r, StepEnds(run[r], o))
      BY <3>2 DEF Observation
    <3>4. run[r].plan # << >>
      <4>1. run[r].plan = ToolPlan("query_status")
        BY <2>2, <3>1, ExecutingFacts
      <4>2. ToolPlan("query_status") # << >>
        BY DEF ToolPlan
      <4> QED
        BY <4>1, <4>2
    <3> HIDE DEF o
    <3> QED
      BY <2>7, <3>1, <3>3, <3>4
  <2>12. CASE ToolReturns(r)
    <3> DEFINE y == [run[r] EXCEPT !.stage = "returned",
                                   !.succeeded = Append(run[r].succeeded, "tool")]
    <3>1. run[r].stage = "calling" /\ lastTrace' = r /\ Becomes(r, y)
      BY <2>12 DEF ToolReturns
    <3>2. Good(r, y, stored[r])
      BY <2>2, <3>1, ReturnGood
    <3> HIDE DEF y
    <3> QED
      BY <1>2, <3>1, <3>2 DEF Becomes
  <2>13. CASE ReadTrace(r)
    <3>1. /\ run[r].stage = "returned" /\ Silent
          /\ Becomes(r, StepEnds([run[r] EXCEPT !.trace = lastTrace], Success))
      BY <2>13 DEF ReadTrace
    <3>2. Good(r, StepEnds([run[r] EXCEPT !.trace = lastTrace], Success), stored[r])
      BY <1>1, <2>2, <3>1, ReadGood
    <3> QED
      BY <1>3, <2>3, <3>1, <3>2 DEF Before
  <2>14. CASE RunSql(r)
    <3> DEFINE x == run[r]
               y == [x EXCEPT !.called = x.called \cup {"sql"}]
               z == [y EXCEPT !.succeeded = Append(y.succeeded, "sql")]
    <3>1. x.stage = "executing" /\ x.plan # << >> /\ x.plan[x.at].type = "sql" /\ Silent
      BY <2>14 DEF RunSql, At, Executing
    <3>2. \/ Becomes(r, StepEnds(z, Success))
          \/ \E o \in SqlFailures : Becomes(r, StepEnds(y, o))
          \/ Becomes(r, Raised(y))
      BY <2>14 DEF RunSql
    <3>3. stored[r] = << >>
      BY <2>3, <3>1 DEF Before
    <3>4. /\ Good(r, StepEnds(z, Success), << >>)
          /\ \A o \in SqlFailures : Good(r, StepEnds(y, o), << >>)
          /\ Good(r, Raised(y), << >>)
      <4> HIDE DEF x
      <4> QED
        BY <2>2, <3>1, <3>3, SqlGood DEF x
    <3>5. run[r].stage \in {"idle", "executing", "calling", "returned"}
      BY <3>1
    <3> HIDE DEF x, y, z
    <3>6. CASE Becomes(r, StepEnds(z, Success))
      BY <1>3, <3>1, <3>4, <3>5, <3>6
    <3>7. CASE \E o \in SqlFailures : Becomes(r, StepEnds(y, o))
      BY <1>3, <3>1, <3>4, <3>5, <3>7
    <3>8. CASE Becomes(r, Raised(y))
      BY <1>3, <3>1, <3>4, <3>5, <3>8
    <3> QED
      BY <3>2, <3>6, <3>7, <3>8
  <2>15. CASE Store(r)
    <3>1. /\ run[r].stage = "recording" /\ run[r].pending # << >> /\ lastTrace' = lastTrace
          /\ stored' = [stored EXCEPT ![r] = Append(stored[r], Head(run[r].pending))]
          /\ run' = [run EXCEPT ![r] = [run[r] EXCEPT !.pending = Tail(run[r].pending)]]
      BY <1>1, <2>15 DEF Store, Silent
    <3>2. Good(r, [run[r] EXCEPT !.pending = Tail(run[r].pending)],
               Append(stored[r], Head(run[r].pending)))
      BY <2>2, <3>1, StoreGood
    <3> QED
      BY <1>4, <3>1, <3>2
  <2>16. CASE StoreFails(r)
    <3>1. /\ run[r].stage = "recording" /\ run[r].pending # << >> /\ lastTrace' = lastTrace
          /\ run' = [run EXCEPT ![r] = [run[r] EXCEPT !.stage = "done", !.pending = << >>]]
          /\ \/ stored' = stored
             \/ stored' = [stored EXCEPT ![r] = Append(stored[r], Head(run[r].pending))]
      BY <1>1, <2>16 DEF StoreFails, Silent
    <3>2. /\ Good(r, [run[r] EXCEPT !.stage = "done", !.pending = << >>], stored[r])
          /\ Good(r, [run[r] EXCEPT !.stage = "done", !.pending = << >>],
                  Append(stored[r], Head(run[r].pending)))
      BY <2>2, <3>1, StoreGood
    <3>3. CASE stored' = stored
      BY <1>1, <1>2, <3>1, <3>2, <3>3
    <3>4. CASE stored' = [stored EXCEPT ![r] = Append(stored[r], Head(run[r].pending))]
      BY <1>4, <3>1, <3>2, <3>4
    <3> QED
      BY <3>1, <3>3, <3>4
  <2>17. CASE Answer(r)
    <3>1. /\ run[r].stage = "recording" /\ run[r].pending = << >> /\ UNCHANGED <<stored, lastTrace>>
          /\ run' = [run EXCEPT ![r] = [run[r] EXCEPT !.stage = "done"]]
      BY <2>17 DEF Answer, Becomes, Silent
    <3>2. Good(r, [run[r] EXCEPT !.stage = "done"], stored[r])
      BY <2>2, <3>1, AnswerGood
    <3> QED
      BY <1>1, <1>2, <3>1, <3>2
  <2> QED
    BY <2>1, <2>4, <2>5, <2>6, <2>8, <2>9, <2>10, <2>11, <2>12, <2>13, <2>14, <2>15,
       <2>16, <2>17
<1> QED
  BY <1>6, <1>7

\* The inductive invariant holds in every reachable state.
THEOREM Invariance == Spec => []IInv
<1>1. Init => IInv
  BY Initially
<1>2. IInv /\ [Next]_vars => IInv'
  BY Stepwise
<1> QED
  BY <1>1, <1>2, PTL DEF Spec

\* Every variable stays in its type, and no plan is longer than PlannerPlan admits.
THEOREM TypeCorrect == Spec => []TypeOK
<1>1. IInv => TypeOK
  <2> SUFFICES ASSUME IInv
               PROVE  TypeOK
    OBVIOUS
  <2>1. lastTrace \in Run \cup {NoTrace}
    BY DEF IInv
  <2>2. ASSUME NEW r \in Run
        PROVE  /\ run[r].stage \in {"idle", "executing", "calling", "returned",
                                    "recording", "done"}
               /\ run[r].asked \in Understandings[r] \cup {Understood({})}
               /\ run[r].attempt \in 0 .. 2
               /\ run[r].plan \in Seq(Step) /\ Len(run[r].plan) <= 5
               /\ run[r].at \in 1 .. 5
               /\ run[r].trace \in Run \cup {NoTrace}
               /\ run[r].answer \in {"none", "success", "partial", "fail", "error"}
    <3>1. run[r] \in States(r)
      BY DEF IInv, Good
    <3> QED
      BY <3>1 DEF States, Stages, Asked, PlannerPlans, Verdicts
  <2> QED
    BY <2>1, <2>2 DEF TypeOK
<1> QED
  BY <1>1, Invariance, PTL

\* Through both plans, SQL runs only for a statistical question or the count
\* the catalog offers, a tool only with a record number, and nothing at all for
\* a question that needs a clarification.
THEOREM IntendedOnly == Spec => []OnlyIntendedCalls
<1>1. IInv => OnlyIntendedCalls
  BY DEF IInv, Good, Intended, OnlyIntendedCalls
<1> QED
  BY <1>1, Invariance, PTL

\* A trace row has the events of all calls that succeeded before it, whichever
\* of the commits fail, and a failure is recorded only of a run that failed.
THEOREM AuditsTrue == Spec => []AuditIsTrue
<1>1. IInv => AuditIsTrue
  <2> SUFFICES ASSUME IInv, NEW r \in Run
               PROVE  /\ "TRACE" \in ToSet(stored[r]) =>
                           /\ Count(stored[r], "TOOL_EXECUTE_SUCCESS") = Count(run[r].succeeded, "tool")
                           /\ Count(stored[r], "SQL_EXECUTE_SUCCESS") = Count(run[r].succeeded, "sql")
                           /\ run[r].answer # "error" =>
                                Count(stored[r], "PLANNER_END") = run[r].attempt
                      /\ "FAILURE" \in ToSet(stored[r]) => run[r].answer # "success"
    BY DEF AuditIsTrue
  <2> DEFINE x == run[r]
             rows == stored[r]
  <2>1. Good(r, x, rows)
    BY DEF IInv
  <2> HIDE DEF x, rows
  <2>2. x \in States(r) /\ rows \in Seq(Record) /\ Told(x, rows)
    BY <2>1 DEF Good
  <2>3. CASE x.stage \in Before
    <3>1. rows = << >> /\ ToSet(<< >>) = {}
      BY <2>2, <2>3 DEF Told, ToSet
    <3> QED
      BY <3>1 DEF x, rows
  <2>4. CASE x.stage \in {"recording", "done"}
    <3>1. PICK rest \in Seq(Record) : rows \o rest = Expected(x)
      BY <2>2, <2>4 DEF Told, States
    <3>2. /\ x.answer = "error" => x.succeeded = << >>
          /\ x.answer # "error" => x.answer \in Verdicts /\ Ended(x)
          /\ x.results \in Seq(Results)
      BY <2>2, <2>4 DEF Told, States
    <3> QED
      BY <2>2, <3>1, <3>2, Audited DEF x, rows
  <2>5. x.stage \in Before \cup {"recording", "done"}
    BY <2>2 DEF States, Stages, Before
  <2> QED
    BY <2>3, <2>4, <2>5
<1> QED
  BY <1>1, Invariance, PTL
=============================================================================
