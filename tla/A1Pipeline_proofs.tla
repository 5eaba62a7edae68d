------------------------- MODULE A1Pipeline_proofs -------------------------
(***************************************************************************)
(* Theorems about A1Pipeline, for every set of configurations, questions   *)
(* and answers and every number of retries: type correctness, the budget,  *)
(* what a repair may do to a draft, and the index of the trace.            *)
(***************************************************************************)
EXTENDS A1Pipeline, SequenceTheorems, TLAPS

-----------------------------------------------------------------------------
(* Typing *)

\* What is planned for a candidate is SQL.
LEMMA EditsTyped ==
    ASSUME NEW q, NEW sql \in Sql, NEW codes
    PROVE  OutputEdit(q, sql) \in Sql /\ RankEdit(q, sql, codes) \in Sql
<1>1. ContractDescends(q) \in BOOLEAN
  BY DEF ContractDescends
<1> QED
  BY <1>1 DEF Sql, OutputEdit, RankEdit

\* An evaluation is well typed whatever the execution raised.
LEMMA EvaluateTyped ==
    ASSUME NEW sql \in Sql, NEW raised \in Raises(sql)
    PROVE  Evaluate(sql, raised) \in Evaluation
<1>1. raised \in {"nothing", "AmbiguousColumn", "QueryTimeoutError", "ResultLimitError"}
  BY DEF Raises, Allowed, PolicyClass, Sql
<1>2. ErrorClass(sql, raised) \in ErrorClasses
  BY DEF ErrorClass, ErrorClasses, PolicyClass, NormalizeError
<1>3. Contradictions(question, sql, settings.bounded) \in SUBSET Codes
  BY DEF Contradictions
<1>4. Unknowns(question, sql) \in SUBSET UnknownCodes
  BY DEF Unknowns
<1>5. "SQL_STRUCTURE" \in UnknownCodes
  BY DEF UnknownCodes
<1> QED
  BY <1>1, <1>2, <1>3, <1>4, <1>5 DEF Evaluate, Evaluation

\* run() always returns a status.
LEMMA VerdictTyped == \A e : Verdict(e) \in Status \ {"running"}
  BY DEF Verdict, Status

\* Where the run is and what it has evaluated.
Staged ==
    /\ pc \in {"route", "ground"} => evals = <<>>
    /\ pc \in {"critic", "decide"} => Len(evals) = 1
    /\ pc \in {"request", "evaluate"} =>
         IF stage = "draft" THEN evals = <<>> ELSE Len(evals) = 1
    /\ pc = "finish" => Len(evals) > 0
    /\ pc = "request" => stage # "deterministic_repair"
    /\ pc = "evaluate" => reply \in Sql /\ stage # "critic"
    /\ Len(candidates) <= Len(evals)
    /\ evals # <<>> => chosen > 0

Typed == TypeOK /\ Staged

\* A run starts well typed.
LEMMA InitTyped == Init => Typed
<1> SUFFICES ASSUME Init PROVE Typed
  OBVIOUS
<1>1. /\ Len(<<>>) = 0
      /\ <<>> \in Seq(Stages) /\ <<>> \in Seq(Evaluation) /\ <<>> \in Seq(1..2)
  BY EmptySeq
<1> QED
  BY <1>1, A1Constants DEF Init, Typed, TypeOK, Staged, Stages, Status

\* Every step keeps the types.
LEMMA StepTyped == Typed /\ [Next]_vars => Typed'
<1> SUFFICES ASSUME Typed, [Next]_vars PROVE Typed'
  OBVIOUS
<1> USE DEF input, trace
<1>0. /\ settings \in Configuration /\ question \in Question
      /\ Retries \in Nat
  BY A1Constants DEF Typed, TypeOK
<1>time. TimePasses => left' \in 0..2
  BY DEF TimePasses, Typed, TypeOK
<1>fails. StageFails => \/ /\ stage = "draft"
                           /\ pc' = "done" /\ status' = "MODEL_ERROR"
                        \/ /\ stage # "draft" /\ UNCHANGED status
                           /\ \/ pc' = "decide" /\ stage = "critic"
                              \/ pc' = "finish"
  BY DEF StageFails, Return, AfterFailure
<1>send. Send => /\ left' \in 0..2 /\ sent' \in Nat /\ pc = "request"
                 /\ attempts' \in Seq(Stages)
  BY <1>time, AppendProperties DEF Send, Typed, TypeOK
<1>1. CASE Route
  BY <1>1 DEF Route, ReturnUnanswered, Return, Typed, TypeOK, Staged, Status
<1>2. CASE Ground
  <2>1. TypeOK'
    BY <1>0, <1>2, <1>time DEF Ground, ReturnUnanswered, Return, Ask, Typed, TypeOK, Stages, Status
  <2>2. Staged'
    BY <1>0, <1>2, <1>time DEF Ground, ReturnUnanswered, Return, Ask, Typed, Staged
  <2> QED
    BY <2>1, <2>2 DEF Typed
<1>3. CASE Refused
  <2>1. TypeOK'
    BY <1>3, <1>fails DEF Refused, Typed, TypeOK, Status
  <2>2. Staged'
    BY <1>3, <1>fails DEF Refused, Typed, Staged
  <2> QED
    BY <2>1, <2>2 DEF Typed
<1>4. CASE Unanswered
  <2>1. TypeOK'
    BY <1>4, <1>fails, <1>send DEF Unanswered, Typed, TypeOK, Status
  <2>2. Staged'
    <3>1. pc = "request" /\ StageFails
          /\ UNCHANGED <<stage, reply, evals, candidates, chosen>>
      BY <1>4, <1>send DEF Unanswered
    <3> QED
      BY <1>fails, <3>1 DEF Typed, Staged
  <2> QED
    BY <2>1, <2>2 DEF Typed
<1>5. CASE Malformed
  BY <1>0, <1>5, <1>send DEF Malformed, MayRetry, Typed, TypeOK, Staged
<1>6. CASE Replied
  BY <1>6, <1>send, A1Constants DEF Replied, Typed, TypeOK, Staged
<1>7. CASE EvaluatedTooLate
  <2>1. TypeOK'
    BY <1>7, <1>fails DEF EvaluatedTooLate, Typed, TypeOK, Status
  <2>2. Staged'
    BY <1>7, <1>fails DEF EvaluatedTooLate, Typed, Staged
  <2> QED
    BY <2>1, <2>2 DEF Typed
<1>8. CASE EvaluateDraft
  <2>1. PICK raised \in Raises(reply), doubtful \in BOOLEAN :
          LET e == Evaluate(reply, raised)
          IN  /\ evals' = <<e>> /\ chosen' = 1
              /\ candidates' = IF Parses(reply) THEN <<1>> ELSE <<>>
              /\ index' = IF Parses(reply) THEN 1 ELSE 0
              /\ contract' = Contract(e)
              /\ pc' = IF CallCritic(e, Contract(e), doubtful)
                       THEN "critic" ELSE "decide"
    BY <1>8 DEF EvaluateDraft
  <2>2. reply \in Sql
    BY <1>8 DEF EvaluateDraft, Typed, Staged
  <2>3. Evaluate(reply, raised) \in Evaluation
    BY <2>2, EvaluateTyped
  <2>4. Evaluate(reply, raised).sql = reply
    BY DEF Evaluate
  <2>5. contract' \in Sql \cup {NoSql}
    <3>1. /\ OutputEdit(question, reply) \in Sql
          /\ \A codes : RankEdit(question, reply, codes) \in Sql
      BY <1>0, <2>2, EditsTyped
    <3> QED
      BY <2>1, <2>4, <3>1 DEF Contract
  <2>6. evals' \in Seq(Evaluation) /\ Len(evals') = 1
    BY <2>1, <2>3
  <2>7. candidates' \in Seq(1..2) /\ Len(candidates') \in 0..1
    <3>1. <<1>> \in Seq(1..2) /\ Len(<<1>>) = 1
      OBVIOUS
    <3>2. <<>> \in Seq(1..2) /\ Len(<<>>) = 0
      BY EmptySeq
    <3>3. candidates' \in {<<1>>, <<>>}
      BY <2>1
    <3>4. candidates' \in Seq(1..2)
      BY <3>1, <3>2, <3>3, Zenon
    <3>5. Len(candidates') = 1 \/ Len(candidates') = 0
      BY <3>1, <3>2, <3>3, Zenon
    <3> QED
      BY <3>4, <3>5
  <2>8. TypeOK'
    BY <1>8, <1>time, <2>1, <2>5, <2>6, <2>7 DEF EvaluateDraft, Typed, TypeOK
  <2>9. Staged'
    BY <1>8, <2>1, <2>6, <2>7 DEF EvaluateDraft, Staged
  <2> QED
    BY <2>8, <2>9 DEF Typed
<1>9. CASE AskCritic
  <2>1. TypeOK'
    BY <1>0, <1>9 DEF AskCritic, Critic, Ask, Typed, TypeOK, Stages
  <2>2. Staged'
    BY <1>0, <1>9 DEF AskCritic, Critic, Ask, Typed, Staged
  <2> QED
    BY <2>1, <2>2 DEF Typed
<1>10. CASE Decide
  <2>1. CASE \E why \in {"none", "ineligible", "deadline", "budget"} : Skip(why)
    <3>1. TypeOK'
      BY <1>10, <2>1 DEF Decide, Skip, Typed, TypeOK
    <3>2. Staged'
      BY <1>10, <2>1 DEF Decide, Skip, Typed, Staged
    <3> QED
      BY <3>1, <3>2 DEF Typed
  <2>2. CASE /\ contract # NoSql /\ pc' = "evaluate"
             /\ stage' = "deterministic_repair" /\ reply' = contract
             /\ UNCHANGED <<tries, skipped>>
    <3>1. TypeOK'
      BY <1>10, <2>2 DEF Decide, Typed, TypeOK, Stages
    <3>2. Staged'
      <4>1. contract \in Sql
        BY <2>2 DEF Typed, TypeOK
      <4> QED
        BY <1>10, <2>2, <4>1 DEF Decide, Typed, Staged
    <3> QED
      BY <3>1, <3>2 DEF Typed
  <2>3. CASE Ask("repair") /\ UNCHANGED <<reply, skipped>>
    <3>1. TypeOK'
      BY <1>0, <1>10, <2>3 DEF Decide, Ask, Typed, TypeOK, Stages
    <3>2. Staged'
      BY <1>10, <2>3 DEF Decide, Ask, Typed, Staged
    <3> QED
      BY <3>1, <3>2 DEF Typed
  <2> QED
    BY <1>10, <2>1, <2>2, <2>3 DEF Decide, CpuRepair
<1>11. CASE EvaluateRepair
  <2>1. PICK raised \in Raises(reply) :
          LET e    == Evaluate(reply, raised)
              list == IF Parses(reply) THEN Append(candidates, 2) ELSE candidates
          IN  /\ evals' = Append(evals, e)
              /\ candidates' = list
              /\ chosen' = IF Admitted(e) THEN 2 ELSE chosen
              /\ index' = IF Admitted(e) THEN SelectedIndex(list) ELSE index
    BY <1>11 DEF EvaluateRepair
  <2>2. reply \in Sql /\ Len(evals) = 1 /\ chosen = 1
    <3>1. reply \in Sql /\ Len(evals) = 1
      BY <1>11 DEF EvaluateRepair, Typed, Staged
    <3>2. evals # <<>>
      BY <3>1, EmptySeq
    <3> QED
      BY <3>1, <3>2 DEF Typed, TypeOK, Staged
  <2>3. Evaluate(reply, raised) \in Evaluation
    BY <2>2, EvaluateTyped
  <2>4. evals' \in Seq(Evaluation) /\ Len(evals') = 2
    <3>1. evals \in Seq(Evaluation)
      BY DEF Typed, TypeOK
    <3>2. /\ Append(evals, Evaluate(reply, raised)) \in Seq(Evaluation)
          /\ Len(Append(evals, Evaluate(reply, raised))) = Len(evals) + 1
      BY <2>3, <3>1, AppendProperties
    <3> QED
      BY <2>1, <2>2, <3>2
  <2>5. Len(candidates) \in 0..1
    BY <2>2, LenProperties DEF Typed, TypeOK, Staged
  <2>6. /\ Append(candidates, 2) \in Seq(1..2)
        /\ Len(Append(candidates, 2)) = Len(candidates) + 1
    BY AppendProperties DEF Typed, TypeOK
  <2>7. candidates' \in Seq(1..2) /\ Len(candidates') \in 0..2
    <3>1. candidates \in Seq(1..2)
      BY DEF Typed, TypeOK
    <3> QED
      BY <2>1, <2>5, <2>6, <3>1
  <2>8. index' \in 0..2
    BY <2>1, <2>7 DEF SelectedIndex, Typed, TypeOK
  <2>9. chosen' \in 1..2
    BY <2>1, <2>2
  <2>10. TypeOK'
    BY <1>11, <1>time, <2>4, <2>7, <2>8, <2>9 DEF EvaluateRepair, Typed, TypeOK
  <2>11. Staged'
    BY <1>11, <2>4, <2>7, <2>9 DEF EvaluateRepair, Staged
  <2> QED
    BY <2>10, <2>11 DEF Typed
<1>12. CASE Finish
  BY <1>12, VerdictTyped DEF Finish, Return, Typed, TypeOK, Staged, Status
<1>13. CASE Returned \/ UNCHANGED vars
  BY <1>13 DEF Returned, vars, Typed, TypeOK, Staged
<1> QED
  BY <1>1, <1>2, <1>3, <1>4, <1>5, <1>6, <1>7, <1>8, <1>9, <1>10, <1>11,
     <1>12, <1>13 DEF Next

\* The state of a run is always well typed.
THEOREM TypeCorrect == Spec => []TypeOK
<1>1. Typed => TypeOK
  BY DEF Typed
<1> QED
  BY <1>1, InitTyped, StepTyped, PTL DEF Spec

-----------------------------------------------------------------------------
(* The end of a run *)

\* A step that is not a stutter moves ahead, or is one attempt more.
LEMMA StepAdvances ==
    ASSUME Typed, [Next]_vars
    PROVE  \/ Ahead' < Ahead
           \/ Ahead' = Ahead /\ tries < tries' /\ tries' <= Retries
           \/ UNCHANGED vars
<1>1. CASE Route
  BY <1>1 DEF Route, ReturnUnanswered, Return, Ahead
<1>2. CASE Ground
  BY <1>2 DEF Ground, ReturnUnanswered, Return, Ask, Ahead
<1>3. CASE Refused \/ Unanswered \/ EvaluatedTooLate
  <2>1. /\ pc \in {"request", "evaluate"} /\ stage' = stage
        /\ pc = "evaluate" => stage # "critic"
        /\ stage \in Stages
    BY <1>3 DEF Refused, Unanswered, Send, EvaluatedTooLate, Typed, TypeOK, Staged
  <2>2. IF stage = "draft" THEN pc' = "done" ELSE pc' = AfterFailure
    BY <1>3 DEF Refused, Unanswered, EvaluatedTooLate, StageFails, Return
  <2> QED
    BY <2>1, <2>2 DEF AfterFailure, Ahead, Stages
<1>4. CASE Malformed
  BY <1>4, A1Constants DEF Malformed, Send, MayRetry, Ahead, Typed, TypeOK
<1>5. CASE Replied
  BY <1>5 DEF Replied, Send, Ahead, Typed, TypeOK, Stages
<1>6. CASE EvaluateDraft
  <2>1. pc = "evaluate" /\ stage = "draft" /\ pc' \in {"critic", "decide"}
    BY <1>6 DEF EvaluateDraft
  <2> QED
    BY <2>1 DEF Ahead
<1>7. CASE AskCritic
  BY <1>7 DEF AskCritic, Critic, Ask, Ahead
<1>8. CASE Decide
  BY <1>8 DEF Decide, Skip, Ask, Ahead
<1>9. CASE EvaluateRepair
  BY <1>9 DEF EvaluateRepair, Ahead
<1>10. CASE Finish
  BY <1>10 DEF Finish, Return, Ahead
<1>11. CASE Returned \/ UNCHANGED vars
  BY <1>11 DEF Returned
<1> QED
  BY <1>1, <1>2, <1>3, <1>4, <1>5, <1>6, <1>7, <1>8, <1>9, <1>10, <1>11 DEF Next

\* A run takes a bounded number of steps, whatever it is answered: a safety
\* property, for which the code needs no fairness.
THEOREM AlwaysAdvances == Spec => RunAdvances
<1>1. ASSUME Typed, [Next]_vars
      PROVE  [\/ Ahead' < Ahead
              \/ Ahead' = Ahead /\ tries < tries' /\ tries' <= Retries]_vars
  BY <1>1, StepAdvances
<1> QED
  BY <1>1, InitTyped, StepTyped, PTL DEF Spec, RunAdvances

-----------------------------------------------------------------------------
(* The budget *)

\* Every request that was sent was charged first.
Charged == sent = Len(attempts) /\ Len(attempts) <= settings.requests

\* A request is charged before it is sent, its retries too.
LEMMA StepCharged == Typed /\ Charged /\ [Next]_vars => Charged'
<1> SUFFICES ASSUME Typed, Charged, [Next]_vars PROVE Charged'
  OBVIOUS
<1>1. CASE Send /\ UNCHANGED input
  <2>1. Len(attempts) \in Nat /\ Len(attempts') = Len(attempts) + 1
    BY <1>1, AppendProperties, LenProperties DEF Send, Typed, TypeOK
  <2>2. settings.requests \in 1..3
    BY A1Constants DEF Typed, TypeOK, Configuration
  <2> QED
    BY <1>1, <2>1, <2>2 DEF Send, MayConsume, Charged, input
<1>2. CASE UNCHANGED <<settings, attempts, sent>>
  BY <1>2 DEF Charged
<1>3. (Send /\ UNCHANGED input) \/ UNCHANGED <<settings, attempts, sent>>
  <2>1. CASE Unanswered \/ Malformed \/ Replied
    BY <2>1 DEF Unanswered, Malformed, Replied
  <2>2. CASE ~(Unanswered \/ Malformed \/ Replied)
    BY <2>2 DEF Next, vars, input, Route, ReturnUnanswered, Ground, Refused,
                EvaluatedTooLate, EvaluateDraft, AskCritic, Critic, Decide,
                EvaluateRepair, Finish, Returned
  <2> QED
    BY <2>1, <2>2
<1> QED
  BY <1>1, <1>2, <1>3

\* The requests of a run stay within its budget, however many retries the
\* provider is allowed.
THEOREM BudgetKept == Spec => []RequestsAreBudgeted
<1>1. Init => Charged
  <2>1. Init => settings.requests \in 1..3
    BY A1Constants DEF Init, Configuration
  <2> QED
    BY <2>1, EmptySeq DEF Init, Charged
<1>2. Charged => RequestsAreBudgeted
  BY DEF Charged, RequestsAreBudgeted
<1> QED
  BY <1>1, <1>2, InitTyped, StepTyped, StepCharged, PTL DEF Spec

-----------------------------------------------------------------------------
(* What a planned edit does to the assessment *)

\* The edit of the output contract removes its code and adds none.
LEMMA OutputEditHelps ==
    ASSUME NEW q \in Question, NEW sql \in Sql, OutputEdit(q, sql) # sql
    PROVE  LET new == OutputEdit(q, sql)
           IN  /\ Contradictions(q, new, TRUE) \subseteq Contradictions(q, sql, TRUE)
               /\ Contradictions(q, new, TRUE) # Contradictions(q, sql, TRUE)
               /\ Unknowns(q, new) \subseteq Unknowns(q, sql)
               /\ new.key = sql.key /\ new.desc = sql.desc /\ new.limit = sql.limit
<1>1. "OUTPUT" \in Contradictions(q, sql, TRUE)
  BY DEF Contradictions, Codes
<1>2. /\ OutputEdit(q, sql).body = "plain" /\ sql.body = "wide"
      /\ OutputEdit(q, sql).key = sql.key /\ OutputEdit(q, sql).desc = sql.desc
      /\ OutputEdit(q, sql).limit = sql.limit
  BY DEF OutputEdit, Sql
<1>3. OutputEdit(q, OutputEdit(q, sql)) = OutputEdit(q, sql)
  BY <1>2 DEF OutputEdit
<1>4. "OUTPUT" \notin Contradictions(q, OutputEdit(q, sql), TRUE)
  BY <1>3 DEF Contradictions
<1>5. Contradictions(q, OutputEdit(q, sql), TRUE) \subseteq Contradictions(q, sql, TRUE)
  BY <1>2, <1>3 DEF Contradictions, Simple, OrdersByMetric
<1>6. Unknowns(q, OutputEdit(q, sql)) \subseteq Unknowns(q, sql)
  BY <1>2 DEF Unknowns, Simple, OrdersByMetric
<1> QED
  BY <1>1, <1>2, <1>4, <1>5, <1>6

\* A licensed edit of the ranking removes what it was licensed by, but for a
\* direction the question itself contradicts, adds no unknown, and changes only
\* what a contradiction licenses.
LEMMA RankEditHelps ==
    ASSUME NEW q \in Question, NEW sql \in Sql, NEW bounded \in BOOLEAN,
           RankEditLicensed(q, sql, Contradictions(q, sql, bounded))
    PROVE  LET codes == Contradictions(q, sql, bounded)
               new   == RankEdit(q, sql, codes)
           IN  /\ \/ Contradictions(q, new, bounded) = {}
                  \/ /\ OppositeDirections(q)
                     /\ "RANK_DIRECTION" \in Contradictions(q, new, bounded)
               /\ codes # {}
               /\ Unknowns(q, new) \subseteq Unknowns(q, sql)
               /\ new.body = sql.body
               /\ new.key # sql.key => "RANK_ORDER_MISSING" \in codes
               /\ new.desc # sql.desc =>
                    codes \cap {"RANK_ORDER_MISSING", "RANK_DIRECTION"} # {}
               /\ new.limit # sql.limit => "RANK_LIMIT" \in codes
<1> DEFINE codes == Contradictions(q, sql, bounded)
           new   == RankEdit(q, sql, codes)
<1>1. /\ new.kind = sql.kind /\ new.body = sql.body /\ new.key = "metric"
      /\ new.desc = IF codes \cap {"RANK_ORDER_MISSING", "RANK_DIRECTION"} # {}
                    THEN ContractDescends(q) ELSE sql.desc
      /\ new.limit = IF "RANK_LIMIT" \in codes THEN "asked" ELSE sql.limit
  BY DEF RankEdit, Sql
<1>2. /\ q.ranked /\ Directed(q) /\ q.bound
      /\ sql.body \notin {"joined", "nested", "paged"}
      /\ codes # {} /\ codes \subseteq RankCodes
      /\ sql.key = "none" \/ sql.key = "metric"
  BY DEF RankEditLicensed, OrdersByMetric
<1>3. /\ sql.key = "none" <=> "RANK_ORDER_MISSING" \in codes
      /\ sql.key = "metric" /\ sql.desc # CriticDescends(q) <=> "RANK_DIRECTION" \in codes
      /\ sql.limit # "asked" <=> "RANK_LIMIT" \in codes
      /\ "OUTPUT" \notin codes
  BY <1>2 DEF Contradictions, Codes, RankCodes, Simple, OrdersByMetric
<1>4. \/ Contradictions(q, new, bounded) = {}
      \/ /\ OppositeDirections(q)
         /\ "RANK_DIRECTION" \in Contradictions(q, new, bounded)
  <2>1. OutputEdit(q, sql) # sql <=> OutputEdit(q, new) # new
    BY <1>1 DEF OutputEdit, RankEdit, Sql
  <2>2. "OUTPUT" \notin Contradictions(q, new, bounded)
    BY <1>3, <2>1 DEF Contradictions, Codes
  <2>3. new.limit = "asked"
    BY <1>1, <1>3
  <2>4. new.desc = CriticDescends(q) \/ OppositeDirections(q)
    <3>1. new.desc = ContractDescends(q) \/ new.desc = CriticDescends(q)
      <4>1. CASE codes \cap {"RANK_ORDER_MISSING", "RANK_DIRECTION"} # {}
        BY <1>1, <4>1
      <4>2. CASE codes \cap {"RANK_ORDER_MISSING", "RANK_DIRECTION"} = {}
        BY <1>1, <1>2, <1>3, <4>2
      <4> QED
        BY <4>1, <4>2
    <3> QED
      BY <3>1 DEF OppositeDirections
  <2>5. "RANK_DIRECTION" \in Contradictions(q, new, bounded)
          <=> new.desc # CriticDescends(q)
    BY <1>1, <1>2 DEF Contradictions, Codes, RankCodes, Simple, OrdersByMetric
  <2>6. /\ "RANK_ORDER_MISSING" \notin Contradictions(q, new, bounded)
        /\ "RANK_LIMIT" \notin Contradictions(q, new, bounded)
        /\ Contradictions(q, new, bounded) \subseteq Codes
    BY <1>1, <2>3 DEF Contradictions
  <2> QED
    BY <2>2, <2>4, <2>5, <2>6 DEF Codes, RankCodes
<1>5. Unknowns(q, new) \subseteq Unknowns(q, sql)
  BY <1>1, <1>2 DEF Unknowns, Simple, OrdersByMetric
<1> QED
  BY <1>1, <1>2, <1>3, <1>4, <1>5

-----------------------------------------------------------------------------
(* What a run has evaluated and decided *)

\* An evaluation is what Layer 4 says of its SQL, for question q.
Faithful(q, bounded, e) ==
    /\ e.sql \in Sql
    /\ \E raised \in Raises(e.sql) : e.class = ErrorClass(e.sql, raised)
    /\ Parses(e.sql) => /\ e.contra = Contradictions(q, e.sql, bounded)
                       /\ e.unknown = Unknowns(q, e.sql)

\* The trace agrees with the evaluations it was computed from.
Traced ==
    /\ \A i \in DOMAIN evals : Faithful(question, settings.bounded, evals[i])
    /\ Len(evals) > 0 => contract = Contract(Draft)
    /\ Len(evals) = 1 => chosen = 1
    /\ Len(evals) = 2 => chosen = IF Admitted(Repair) THEN 2 ELSE 1
    /\ stage = "deterministic_repair" =>
         /\ Len(evals) > 0 /\ CpuRepair
         /\ pc = "evaluate" => reply = contract
         /\ Len(evals) = 2 => Repair.sql = contract
    /\ pc = "done" /\ evals # <<>> => status = Verdict(evals[chosen])

\* A step plans nothing else for the same evaluation.
LEMMA InputKept ==
    ASSUME UNCHANGED input
    PROVE  \A e : Contract(e)' = Contract(e)
  BY DEF input, Contract, Accepted

\* The steps, by what they do to the evaluations.
LEMMA StepKinds ==
    ASSUME Typed, [Next]_vars
    PROVE  /\ UNCHANGED input
           /\ \/ EvaluateDraft \/ EvaluateRepair
              \/ /\ UNCHANGED <<evals, candidates, index, chosen, contract>>
                 /\ stage' = "deterministic_repair" =>
                      \/ pc = "decide" /\ CpuRepair /\ reply' = contract
                      \/ stage' = stage /\ pc' # "evaluate"
                      \/ stage' = stage /\ pc = "evaluate" /\ reply' = reply
                 /\ pc' = "done" /\ evals # <<>> =>
                      \/ pc = "done" /\ status' = status
                      \/ status' = Verdict(evals[chosen])
<1> USE DEF input, trace
<1>1. CASE Route \/ Ground
  BY <1>1 DEF Route, Ground, ReturnUnanswered, Ask, Return, Typed, Staged
<1>2. CASE Refused \/ Unanswered
  BY <1>2 DEF Refused, Unanswered, Send, StageFails, AfterFailure, Return, Typed, Staged
<1>3. CASE Malformed
  BY <1>3 DEF Malformed, Send
<1>4. CASE Replied
  BY <1>4 DEF Replied, Send, Typed, Staged
<1>5. CASE EvaluatedTooLate
  BY <1>5 DEF EvaluatedTooLate, StageFails, AfterFailure, Return, Typed, Staged
<1>6. CASE AskCritic
  BY <1>6 DEF AskCritic, Critic, Ask
<1>7. CASE Decide
  BY <1>7 DEF Decide, Skip, Ask
<1>8. CASE Finish
  BY <1>8 DEF Finish, Return
<1>9. CASE EvaluateDraft
  BY <1>9 DEF EvaluateDraft
<1>10. CASE EvaluateRepair
  BY <1>10 DEF EvaluateRepair
<1>11. CASE Returned \/ UNCHANGED vars
  BY <1>11 DEF Returned, vars
<1> QED
  BY <1>1, <1>2, <1>3, <1>4, <1>5, <1>6, <1>7, <1>8, <1>9, <1>10, <1>11 DEF Next

\* The draft's evaluation, and the repair's.
LEMMA DraftEvaluated ==
    ASSUME Typed, EvaluateDraft
    PROVE  \E raised \in Raises(reply) :
             /\ reply \in Sql
             /\ evals' = <<Evaluate(reply, raised)>>
             /\ Len(evals') = 1 /\ DOMAIN evals' = 1..1
             /\ evals'[1] = Evaluate(reply, raised)
             /\ chosen' = 1 /\ contract' = Contract(evals'[1])
             /\ candidates' = IF Parses(reply) THEN <<1>> ELSE <<>>
             /\ index' = IF Parses(reply) THEN 1 ELSE 0
             /\ pc' \in {"critic", "decide"} /\ stage = "draft" /\ stage' = stage
             /\ UNCHANGED input
<1>1. reply \in Sql
  BY DEF EvaluateDraft, Typed, Staged
<1> QED
  BY <1>1 DEF EvaluateDraft

\* One evaluation more.
LEMMA AppendedTyped ==
    ASSUME NEW list \in Seq(Evaluation), NEW e \in Evaluation
    PROVE  /\ Append(list, e) \in Seq(Evaluation)
           /\ Len(Append(list, e)) = Len(list) + 1
           /\ \A i \in 1..Len(list) : Append(list, e)[i] = list[i]
           /\ Append(list, e)[Len(list) + 1] = e
  OBVIOUS

\* What the evaluation of a repair leaves in the trace.
LEMMA RepairEvaluated ==
    ASSUME Typed, EvaluateRepair
    PROVE  \E raised \in Raises(reply) :
             LET list == IF Parses(reply) THEN Append(candidates, 2) ELSE candidates
             IN  /\ reply \in Sql /\ Len(evals) = 1 /\ DOMAIN evals = 1..1
                 /\ evals' = Append(evals, Evaluate(reply, raised))
                 /\ Len(evals') = 2 /\ DOMAIN evals' = 1..2
                 /\ evals'[1] = evals[1] /\ evals'[2] = Evaluate(reply, raised)
                 /\ candidates' = list
                 /\ chosen' = IF Admitted(evals'[2]) THEN 2 ELSE chosen
                 /\ index' = IF Admitted(evals'[2]) THEN Len(list) ELSE index
                 /\ pc = "evaluate" /\ pc' = "finish"
                 /\ UNCHANGED <<input, stage, contract, skipped>>
<1>1. reply \in Sql /\ Len(evals) = 1 /\ evals \in Seq(Evaluation)
  BY DEF EvaluateRepair, Typed, TypeOK, Staged
<1>2. PICK raised \in Raises(reply) :
          LET e    == Evaluate(reply, raised)
              list == IF Parses(reply) THEN Append(candidates, 2) ELSE candidates
          IN  /\ evals' = Append(evals, e)
              /\ candidates' = list
              /\ chosen' = IF Admitted(e) THEN 2 ELSE chosen
              /\ index' = IF Admitted(e) THEN SelectedIndex(list) ELSE index
  BY DEF EvaluateRepair
<1>3. Evaluate(reply, raised) \in Evaluation
  BY <1>1, EvaluateTyped
<1>4. ASSUME NEW e \in Evaluation
      PROVE  /\ Append(evals, e) \in Seq(Evaluation)
             /\ Len(Append(evals, e)) = 2
             /\ Append(evals, e)[1] = evals[1]
             /\ Append(evals, e)[2] = e
  <2>1. 1 \in 1..Len(evals) /\ Len(evals) + 1 = 2
    BY <1>1
  <2>2. /\ Append(evals, e) \in Seq(Evaluation)
        /\ Len(Append(evals, e)) = Len(evals) + 1
        /\ \A i \in 1..Len(evals) : Append(evals, e)[i] = evals[i]
        /\ Append(evals, e)[Len(evals) + 1] = e
    BY <1>1, AppendedTyped
  <2> QED
    BY <2>1, <2>2
<1>5. DOMAIN evals = 1..1 /\ DOMAIN evals' = 1..2
  BY <1>1, <1>2, <1>3, <1>4, LenProperties
<1>6. /\ pc = "evaluate" /\ pc' = "finish"
      /\ UNCHANGED <<input, stage, contract, skipped>>
  BY DEF EvaluateRepair
<1> QED
  BY <1>1, <1>2, <1>3, <1>4, <1>5, <1>6 DEF SelectedIndex

\* Every step keeps the trace in agreement with its evaluations.
LEMMA StepTraced == Typed /\ Traced /\ [Next]_vars => Traced'
<1> SUFFICES ASSUME Typed, Traced, [Next]_vars PROVE Traced'
  OBVIOUS
<1>0. UNCHANGED input
  BY StepKinds
<1>1. CASE EvaluateDraft
  <2>1. PICK raised \in Raises(reply) :
             /\ reply \in Sql
             /\ Len(evals') = 1 /\ DOMAIN evals' = 1..1
             /\ evals'[1] = Evaluate(reply, raised)
             /\ chosen' = 1 /\ contract' = Contract(evals'[1])
             /\ pc' \in {"critic", "decide"} /\ stage' = "draft"
    BY <1>1, DraftEvaluated
  <2>2. Faithful(question, settings.bounded, evals'[1])
    BY <2>1 DEF Faithful, Evaluate
  <2>3. \A i \in DOMAIN evals' : Faithful(question', settings'.bounded, evals'[i])
    BY <1>0, <2>1, <2>2 DEF input
  <2>4. contract' = Contract(Draft)'
    BY <1>0, <2>1, InputKept DEF Draft
  <2> QED
    BY <2>1, <2>3, <2>4 DEF Traced
<1>2. CASE EvaluateRepair
  <2>1. PICK raised \in Raises(reply) :
             /\ reply \in Sql /\ Len(evals) = 1 /\ DOMAIN evals = 1..1
             /\ Len(evals') = 2 /\ DOMAIN evals' = 1..2
             /\ evals'[1] = evals[1] /\ evals'[2] = Evaluate(reply, raised)
             /\ chosen' = IF Admitted(evals'[2]) THEN 2 ELSE chosen
             /\ pc = "evaluate" /\ pc' = "finish"
             /\ UNCHANGED <<input, stage, contract, skipped>>
    BY <1>2, RepairEvaluated
  <2>2. /\ Faithful(question, settings.bounded, evals'[1])
        /\ Faithful(question, settings.bounded, evals'[2])
    <3>1. Faithful(question, settings.bounded, evals[1])
      BY <2>1 DEF Traced
    <3>2. Faithful(question, settings.bounded, evals'[2])
      BY <2>1 DEF Faithful, Evaluate
    <3> QED
      BY <2>1, <3>1, <3>2
  <2>3. \A i \in DOMAIN evals' : Faithful(question', settings'.bounded, evals'[i])
    BY <1>0, <2>1, <2>2 DEF input
  <2>4. contract' = Contract(Draft)'
    BY <1>0, <2>1, InputKept DEF Draft, Traced
  <2>5. Draft' = Draft
    BY <2>1 DEF Draft
  <2>6. Admitted(evals'[2]) <=> Admitted(Repair)'
    BY <2>1, <2>5 DEF Admitted, Operational, Accepted, Repair
  <2>7. CpuRepair' <=> CpuRepair
    BY <1>0, <2>1, <2>5 DEF CpuRepair, Semantic, Accepted, input
  <2>8. stage' = "deterministic_repair" => CpuRepair' /\ Repair'.sql = contract'
    BY <2>1, <2>7 DEF Traced, Repair, Evaluate
  <2> QED
    BY <2>1, <2>3, <2>4, <2>6, <2>8 DEF Traced
<1>3. CASE /\ UNCHANGED <<evals, candidates, index, chosen, contract>>
           /\ stage' = "deterministic_repair" =>
                \/ pc = "decide" /\ CpuRepair /\ reply' = contract
                \/ stage' = stage /\ pc' # "evaluate"
                \/ stage' = stage /\ pc = "evaluate" /\ reply' = reply
           /\ pc' = "done" /\ evals # <<>> =>
                \/ pc = "done" /\ status' = status
                \/ status' = Verdict(evals[chosen])
  <2>1. \A i \in DOMAIN evals' : Faithful(question', settings'.bounded, evals'[i])
    BY <1>0, <1>3 DEF Traced, input
  <2>2. Draft' = Draft /\ Repair' = Repair
    BY <1>3 DEF Draft, Repair
  <2>3. Len(evals) > 0 => contract' = Contract(Draft)'
    BY <1>0, <1>3, <2>2, InputKept DEF Traced
  <2>4. Admitted(Repair)' <=> Admitted(Repair)
    BY <1>3, <2>2 DEF Admitted, Operational, Accepted
  <2>5. CpuRepair' <=> CpuRepair
    BY <1>0, <1>3, <2>2 DEF CpuRepair, Semantic, Accepted, input
  <2>6. stage' = "deterministic_repair" =>
          /\ Len(evals) > 0 /\ CpuRepair
          /\ pc' = "evaluate" => reply' = contract
          /\ Len(evals) = 2 => Repair.sql = contract
    <3>1. pc = "decide" => Len(evals) = 1
      BY DEF Typed, Staged
    <3>2. CASE pc = "decide" /\ CpuRepair /\ reply' = contract
      BY <3>1, <3>2
    <3>3. CASE stage' = stage /\ pc' # "evaluate"
      BY <3>3 DEF Traced
    <3>4. CASE stage' = stage /\ pc = "evaluate" /\ reply' = reply
      BY <3>4 DEF Traced
    <3> QED
      BY <1>3, <3>2, <3>3, <3>4
  <2>7. pc' = "done" /\ evals # <<>> => status' = Verdict(evals[chosen])
    BY <1>3 DEF Traced
  <2> QED
    BY <1>3, <2>1, <2>2, <2>3, <2>4, <2>5, <2>6, <2>7 DEF Traced
<1> QED
  BY <1>1, <1>2, <1>3, StepKinds

\* An empty trace agrees with anything.
LEMMA InitTraced == Init => Traced
  BY EmptySeq DEF Init, Traced

-----------------------------------------------------------------------------
(* What a repair may do *)

Sound == Typed /\ Traced

\* A run starts sound.
LEMMA InitSound == Init => Sound
  BY InitTyped, InitTraced DEF Sound

\* Every step keeps it so.
LEMMA StepSound == Sound /\ [Next]_vars => Sound'
  BY StepTyped, StepTraced DEF Sound

\* An accepted evaluation is the assessment of SQL that parses.
LEMMA AcceptedIsAssessed ==
    ASSUME NEW q, NEW bounded, NEW e, Faithful(q, bounded, e), e.class = "NONE"
    PROVE  /\ e.sql \in Sql /\ Parses(e.sql)
           /\ e.contra = Contradictions(q, e.sql, bounded)
           /\ e.unknown = Unknowns(q, e.sql)
<1>1. Parses(e.sql)
  BY DEF Faithful, ErrorClass, Allowed, PolicyClass, Parses
<1> QED
  BY <1>1 DEF Faithful

\* A planned edit, and its assessment.
LEMMA PlannedEditHelps ==
    ASSUME Sound, NEW before, Faithful(question, settings.bounded, before),
           Contract(before) # NoSql
    PROVE  LET new   == Contract(before)
               codes == before.contra
           IN  /\ LET again == Contradictions(question, new, settings.bounded)
                  IN  \/ again \subseteq codes /\ again # codes
                      \/ /\ OppositeDirections(question)
                         /\ "RANK_DIRECTION" \in again
               /\ Unknowns(question, new) \subseteq before.unknown
               /\ new.body # before.sql.body => "OUTPUT" \in codes
               /\ new.key # before.sql.key => "RANK_ORDER_MISSING" \in codes
               /\ new.desc # before.sql.desc =>
                    codes \cap {"RANK_ORDER_MISSING", "RANK_DIRECTION"} # {}
               /\ new.limit # before.sql.limit => "RANK_LIMIT" \in codes
<1>1. /\ before.sql \in Sql
      /\ before.contra = Contradictions(question, before.sql, settings.bounded)
      /\ before.unknown = Unknowns(question, before.sql)
  BY AcceptedIsAssessed DEF Contract, Accepted
<1>2. question \in Question /\ settings.bounded \in BOOLEAN
  BY A1Constants DEF Sound, Typed, TypeOK, Configuration
<1>3. CASE settings.bounded /\ OutputEdit(question, before.sql) # before.sql
  <2>1. Contract(before) = OutputEdit(question, before.sql)
    BY <1>3 DEF Contract
  <2>2. settings.bounded = TRUE
    BY <1>2, <1>3
  <2>3. "OUTPUT" \in before.contra
    BY <1>1, <1>3 DEF Contradictions, Codes
  <2> QED
    <3> DEFINE new == OutputEdit(question, before.sql)
    <3>1. /\ Contradictions(question, new, TRUE)
               \subseteq Contradictions(question, before.sql, TRUE)
          /\ Contradictions(question, new, TRUE)
               # Contradictions(question, before.sql, TRUE)
          /\ Unknowns(question, new) \subseteq Unknowns(question, before.sql)
          /\ new.key = before.sql.key /\ new.desc = before.sql.desc
          /\ new.limit = before.sql.limit
      BY <1>1, <1>2, <1>3, OutputEditHelps
    <3>2. before.contra = Contradictions(question, before.sql, TRUE)
      BY <1>1, <2>2
    <3> QED
      BY <1>1, <2>1, <2>2, <2>3, <3>1, <3>2
<1>4. CASE RankEditLicensed(question, before.sql, before.contra)
           /\ Contract(before) = RankEdit(question, before.sql, before.contra)
  BY <1>1, <1>2, <1>4, RankEditHelps
<1> QED
  BY <1>3, <1>4 DEF Contract

\* The draft and the repair of a trace.
LEMMA EvaluationsFaithful ==
    ASSUME Sound
    PROVE  /\ Len(evals) \in 0..2 /\ DOMAIN evals = 1..Len(evals)
           /\ evals # <<>> <=> Len(evals) > 0
           /\ Len(evals) > 0 => Faithful(question, settings.bounded, Draft)
                                /\ contract = Contract(Draft)
           /\ Len(evals) = 2 => Faithful(question, settings.bounded, Repair)
           /\ chosen = 2 => Len(evals) = 2 /\ Admitted(Repair)
           /\ evals # <<>> => chosen \in 1..Len(evals)
<1>1. Len(evals) \in 0..2 /\ DOMAIN evals = 1..Len(evals)
  BY LenProperties DEF Sound, Typed, TypeOK
<1>2. evals # <<>> <=> Len(evals) > 0
  BY <1>1, EmptySeq DEF Sound, Typed, TypeOK
<1>3. Len(evals) > 0 => Faithful(question, settings.bounded, Draft)
  BY <1>1 DEF Sound, Traced, Draft
<1>4. Len(evals) = 2 => Faithful(question, settings.bounded, Repair)
  BY <1>1 DEF Sound, Traced, Repair
<1>5. chosen \in 0..Len(evals)
  BY DEF Sound, Typed, TypeOK
<1> QED
  BY <1>1, <1>2, <1>3, <1>4, <1>5 DEF Sound, Traced

\* A repair that replaced an accepted draft is accepted and has strictly fewer
\* contradictions.
LEMMA RepairHelps ==
    ASSUME Sound, chosen = 2
    PROVE  /\ Accepted(Repair)
           /\ Accepted(Draft) => Repair.contra \subseteq Draft.contra
                                 /\ Repair.contra # Draft.contra
<1>1. Admitted(Repair)
  BY EvaluationsFaithful
<1> QED
  BY <1>1 DEF Admitted, AdmitContractRepair, AdmitRepair, Operational, Accepted

\* A draft that executed is never lost.
THEOREM DraftNeverLost == Spec => []RepairNeverHurts
<1>1. Sound => RepairNeverHurts
  <2> SUFFICES ASSUME Sound, status # "running", evals # <<>>, Accepted(Draft)
               PROVE  /\ status = "SUCCEEDED"
                      /\ chosen = 2 => /\ Repair.contra \subseteq Draft.contra
                                       /\ Repair.contra # Draft.contra
    BY DEF RepairNeverHurts
  <2>1. status = Verdict(evals[chosen])
    BY DEF Sound, Typed, TypeOK, Traced
  <2>2. chosen \in {1, 2}
    BY EvaluationsFaithful
  <2>3. Accepted(evals[chosen])
    BY <2>2, RepairHelps DEF Draft, Repair
  <2> QED
    <3>1. Verdict(evals[chosen]) = "SUCCEEDED"
      BY <2>3 DEF Verdict, Accepted
    <3> QED
      BY <2>1, <3>1, RepairHelps
<1> QED
  BY <1>1, InitSound, StepSound, PTL DEF Spec

\* SQL that replaces an accepted draft differs from it only where licensed.
THEOREM EditLicensed == Spec => []EditIsLicensed
<1>1. Sound => EditIsLicensed
  <2> SUFFICES ASSUME Sound, chosen = 2, Accepted(Draft)
               PROVE  LET old == Draft.sql
                          new == Repair.sql
                          flagged(codes) == codes \cap Draft.contra # {}
                      IN  /\ new.body # old.body => flagged({"OUTPUT"})
                          /\ new.key # old.key => flagged({"RANK_ORDER_MISSING"})
                          /\ new.desc # old.desc =>
                               flagged({"RANK_ORDER_MISSING", "RANK_DIRECTION"})
                          /\ new.limit # old.limit => flagged({"RANK_LIMIT"})
    BY DEF EditIsLicensed
  <2>1. Admitted(Repair) /\ contract = Contract(Draft)
        /\ Faithful(question, settings.bounded, Draft)
    BY EvaluationsFaithful
  <2>2. CASE contract # NoSql
    <3>1. Repair.sql = Contract(Draft)
      BY <2>1, <2>2 DEF Admitted, Operational, AdmitContractRepair
    <3> QED
      BY <2>1, <2>2, <3>1, PlannedEditHelps
  <2>3. CASE contract = NoSql
    BY <2>1, <2>3 DEF Admitted, Operational, AdmitRepair
  <2> QED
    BY <2>2, <2>3
<1> QED
  BY <1>1, InitSound, StepSound, PTL DEF Spec

\* A compiled edit that executes is admitted, unless the question names both
\* directions and the edit follows the other one.
THEOREM PlannedAdmitted == Spec => []PlannedEditIsAdmitted
<1>1. Sound => PlannedEditIsAdmitted
  <2> SUFFICES ASSUME Sound, stage = "deterministic_repair", Len(evals) = 2,
                      Accepted(Repair)
               PROVE  \/ chosen = 2
                      \/ /\ OppositeDirections(question)
                         /\ "RANK_DIRECTION" \in Repair.contra
    BY DEF PlannedEditIsAdmitted
  <2>1. /\ CpuRepair /\ Repair.sql = contract
        /\ chosen = IF Admitted(Repair) THEN 2 ELSE 1
    BY DEF Sound, Traced
  <2>2. /\ contract = Contract(Draft)
        /\ Faithful(question, settings.bounded, Draft)
        /\ Faithful(question, settings.bounded, Repair)
    BY EvaluationsFaithful
  <2>3. Accepted(Draft) /\ contract # NoSql
    BY <2>1 DEF CpuRepair, Semantic
  <2>4. /\ Repair.contra = Contradictions(question, Repair.sql, settings.bounded)
        /\ Repair.unknown = Unknowns(question, Repair.sql)
    BY <2>2, AcceptedIsAssessed DEF Accepted
  <2>5. \/ AdmitContractRepair(contract, Draft, Repair)
        \/ /\ OppositeDirections(question)
           /\ "RANK_DIRECTION" \in Repair.contra
    BY <2>1, <2>2, <2>3, <2>4, PlannedEditHelps DEF AdmitContractRepair, Accepted
  <2> QED
    BY <2>1, <2>3, <2>5 DEF Admitted, Operational
<1> QED
  BY <1>1, InitSound, StepSound, PTL DEF Spec

-----------------------------------------------------------------------------
(* The index of the trace *)

\* The candidates before a repair: the draft, if it parses.
Indexed ==
    /\ Len(evals) = 0 => chosen = 0 /\ index = 0
    /\ Len(evals) = 1 =>
         IF Parses(Draft.sql) THEN candidates = <<1>> /\ index = 1
         ELSE candidates = <<>> /\ index = 0
    /\ IndexNamesSelection

\* Every step keeps the index in step with what was selected.
LEMMA StepIndexed == Sound /\ Indexed /\ [Next]_vars => Indexed'
<1> SUFFICES ASSUME Sound, Indexed, [Next]_vars PROVE Indexed'
  OBVIOUS
<1> USE DEF Sound
<1>1. CASE EvaluateDraft
  <2>1. PICK raised \in Raises(reply) :
             /\ Len(evals') = 1 /\ evals'[1] = Evaluate(reply, raised)
             /\ chosen' = 1
             /\ candidates' = IF Parses(reply) THEN <<1>> ELSE <<>>
             /\ index' = IF Parses(reply) THEN 1 ELSE 0
    BY <1>1, DraftEvaluated
  <2>2. evals'[1].sql = reply
    BY <2>1 DEF Evaluate
  <2>3. CASE Parses(reply)
    BY <2>1, <2>2, <2>3 DEF Indexed, IndexNamesSelection, Draft
  <2>4. CASE ~Parses(reply)
    BY <2>1, <2>2, <2>4 DEF Indexed, IndexNamesSelection, Draft
  <2> QED
    BY <2>3, <2>4
<1>2. CASE EvaluateRepair
  <2>1. PICK raised \in Raises(reply) :
             LET list == IF Parses(reply) THEN Append(candidates, 2) ELSE candidates
             IN  /\ Len(evals) = 1 /\ Len(evals') = 2
                 /\ evals'[1] = evals[1] /\ evals'[2] = Evaluate(reply, raised)
                 /\ candidates' = list
                 /\ chosen' = IF Admitted(evals'[2]) THEN 2 ELSE chosen
                 /\ index' = IF Admitted(evals'[2]) THEN Len(list) ELSE index
    BY <1>2, RepairEvaluated
  <2>2. chosen = 1
    BY <2>1 DEF Traced
  <2>3. /\ Append(<<1>>, 2) = <<1, 2>> /\ Append(<<>>, 2) = <<2>>
        /\ DOMAIN <<1, 2>> = 1..2 /\ DOMAIN <<2>> = 1..1 /\ DOMAIN <<1>> = 1..1
        /\ Len(<<1, 2>>) = 2 /\ Len(<<2>>) = 1
    <3>1. Append(<<1>>, 2) = <<1, 2>>
      <4>1. <<1>> \in Seq(Nat) /\ <<1, 2>> \in Seq(Nat) /\ Len(<<1, 2>>) = 2
        OBVIOUS
      <4>2. /\ Append(<<1>>, 2) \in Seq(Nat)
            /\ Len(Append(<<1>>, 2)) = 2
            /\ Append(<<1>>, 2)[1] = 1 /\ Append(<<1>>, 2)[2] = 2
        BY <4>1
      <4>3. \A i \in 1..2 : Append(<<1>>, 2)[i] = <<1, 2>>[i]
        BY <4>2
      <4> QED
        BY <4>1, <4>2, <4>3, SeqEqual
    <3>2. Append(<<>>, 2) = <<2>>
      <4>1. <<>> \in Seq(Nat) /\ <<2>> \in Seq(Nat)
        BY EmptySeq
      <4>2. Append(<<>>, 2) = <<>> \o <<2>>
        BY <4>1, AppendIsConcat, Zenon
      <4> QED
        BY <4>1, <4>2, ConcatEmptySeq, Zenon
    <3> QED
      BY <3>1, <3>2
  <2>4. CASE Admitted(evals'[2])
    <3>1. ErrorClass(reply, raised) = "NONE"
      BY <2>1, <2>4
         DEF Admitted, AdmitRepair, AdmitContractRepair, Accepted, Evaluate
    <3>2. Parses(reply)
      BY <3>1 DEF ErrorClass, Allowed, PolicyClass, Parses
    <3>3. /\ chosen' = 2
          /\ \/ candidates' = <<1, 2>> /\ index' = 2
             \/ candidates' = <<2>> /\ index' = 1
      BY <2>1, <2>3, <2>4, <3>2 DEF Indexed
    <3>4. index' \in DOMAIN candidates' /\ candidates'[index'] = 2
      BY <2>3, <3>3
    <3>5. index' # 0
      BY <3>3
    <3> QED
      BY <2>1, <3>3, <3>4, <3>5 DEF Indexed, IndexNamesSelection
  <2>5. CASE ~Admitted(evals'[2])
    <3>1. chosen' = 1 /\ index' = index
      BY <2>1, <2>2, <2>5
    <3>2. CASE Parses(Draft.sql)
      <4>1. index' = 1 /\ (candidates' = <<1, 2>> \/ candidates' = <<1>>)
        BY <2>1, <2>3, <3>1, <3>2 DEF Indexed
      <4> QED
        BY <2>1, <3>1, <4>1 DEF Indexed, IndexNamesSelection
    <3>3. CASE ~Parses(Draft.sql)
      <4>1. index' = 0 /\ ~Parses(evals'[chosen'].sql)
        BY <2>1, <3>1, <3>3 DEF Indexed, Draft
      <4> QED
        BY <2>1, <3>1, <4>1 DEF Indexed, IndexNamesSelection
    <3> QED
      BY <3>2, <3>3
  <2> QED
    BY <2>4, <2>5
<1>3. CASE UNCHANGED <<evals, candidates, index, chosen>>
  BY <1>3 DEF Indexed, IndexNamesSelection, Draft
<1> QED
  BY <1>1, <1>2, <1>3, StepKinds

\* The index of the trace names the selected SQL.
THEOREM IndexKept == Spec => []IndexNamesSelection
<1>1. Init => Indexed
  BY EmptySeq DEF Init, Indexed, IndexNamesSelection
<1>2. Indexed => IndexNamesSelection
  BY DEF Indexed
<1> QED
  BY <1>1, <1>2, InitSound, StepSound, StepIndexed, PTL DEF Spec

-----------------------------------------------------------------------------
(* The critic and the budget *)

CriticAsked ==
    \/ pc = "critic"
    \/ pc = "request" /\ stage = "critic"
    \/ \E i \in DOMAIN attempts : attempts[i] = "critic"

\* Where the routing asks the critic there is nothing to repair, and where a
\* repair is wanted the critic was not asked.
Reserved ==
    settings.obligation /\ settings.routing =>
        /\ CriticAsked => /\ Len(evals) > 0 /\ Accepted(Draft)
                          /\ RepairEnabled => contract = NoSql
        /\ skipped = "budget" => /\ Len(evals) > 0 /\ RepairEnabled
                                 /\ Operational \/ Semantic

\* No step asks the critic where a repair may be wanted.
LEMMA StepReserved == Sound /\ Reserved /\ [Next]_vars => Reserved'
<1> SUFFICES ASSUME Sound, Reserved, [Next]_vars,
                    settings'.obligation, settings'.routing
             PROVE  /\ CriticAsked' => /\ Len(evals') > 0 /\ Accepted(Draft)'
                                       /\ RepairEnabled' => contract' = NoSql
                    /\ skipped' = "budget" => /\ Len(evals') > 0 /\ RepairEnabled'
                                              /\ Operational' \/ Semantic'
  BY DEF Reserved
<1> USE DEF Sound
<1>0. /\ UNCHANGED input /\ settings' = settings
      /\ settings.obligation /\ settings.routing
      /\ RepairEnabled' <=> RepairEnabled
  BY StepKinds DEF input, RepairEnabled
<1>1. CASE EvaluateDraft
  <2>1. evals = <<>> /\ UNCHANGED <<attempts, skipped>> /\ pc' # "request"
    BY <1>1 DEF EvaluateDraft, Typed, Staged
  <2>2. ~\E i \in DOMAIN attempts : attempts[i] = "critic"
    BY <1>0, <2>1, EmptySeq DEF Reserved, CriticAsked
  <2>3. skipped # "budget"
    BY <1>0, <2>1, EmptySeq DEF Reserved
  <2>4. ASSUME pc' = "critic"
        PROVE  /\ Len(evals') > 0 /\ Accepted(Draft)'
               /\ RepairEnabled' => contract' = NoSql
    <3>1. PICK raised \in Raises(reply), doubtful \in BOOLEAN :
             LET e == Evaluate(reply, raised)
             IN  evals' = <<e>> /\ contract' = Contract(e)
                 /\ CallCritic(e, Contract(e), doubtful)
      BY <1>1, <2>4 DEF EvaluateDraft
    <3>2. Len(evals') = 1 /\ evals'[1] = Evaluate(reply, raised)
      BY <3>1
    <3>3. Accepted(Evaluate(reply, raised)) /\ (RepairEnabled => contract' = NoSql)
      BY <1>0, <3>1 DEF CallCritic
    <3> QED
      BY <1>0, <3>2, <3>3 DEF Draft, Accepted
  <2> QED
    BY <2>1, <2>2, <2>3, <2>4 DEF CriticAsked
<1>2. CASE EvaluateRepair
  <2>1. /\ Len(evals) = 1 /\ Len(evals') = 2 /\ evals'[1] = evals[1]
        /\ contract' = contract /\ skipped' = skipped /\ pc' = "finish"
    BY <1>2, RepairEvaluated
  <2>2. attempts' = attempts
    BY <1>2 DEF EvaluateRepair
  <2>3. Draft' = Draft
    BY <2>1 DEF Draft
  <2> QED
    BY <1>0, <2>1, <2>2, <2>3
       DEF Reserved, CriticAsked, Operational, Semantic, Accepted
<1>3. CASE UNCHANGED <<evals, contract>> /\ ~EvaluateDraft /\ ~EvaluateRepair
  <2>0. /\ Draft' = Draft
        /\ Accepted(Draft)' <=> Accepted(Draft)
        /\ Operational' <=> Operational
        /\ Semantic' <=> Semantic
    BY <1>0, <1>3 DEF Draft, Accepted, Operational, Semantic
  <2>1. CriticAsked' => CriticAsked
    <3>1. CASE Unanswered \/ Malformed \/ Replied
      <4>1. pc = "request" /\ attempts' = Append(attempts, stage) /\ stage' = stage
        BY <3>1 DEF Unanswered, Malformed, Replied, Send
      <4>2. pc' = "critic" => FALSE
        BY <3>1, <4>1 DEF Unanswered, Malformed, Replied, StageFails, AfterFailure, Return
      <4>3. ASSUME NEW i \in DOMAIN attempts', attempts'[i] = "critic"
            PROVE  CriticAsked
        <5>1. /\ DOMAIN attempts = 1..Len(attempts) /\ Len(attempts) \in Nat
              /\ DOMAIN attempts' = 1..(Len(attempts) + 1)
              /\ \A k \in 1..Len(attempts) : attempts'[k] = attempts[k]
              /\ attempts'[Len(attempts) + 1] = stage
          BY <4>1 DEF Typed, TypeOK
        <5> QED
          BY <4>1, <4>3, <5>1 DEF CriticAsked
      <4> QED
        BY <4>1, <4>2, <4>3 DEF CriticAsked
    <3>2. CASE ~(Unanswered \/ Malformed \/ Replied)
      <4>1. CASE Route \/ Ground \/ Decide \/ Finish
        BY <4>1 DEF Route, Ground, Decide, Finish, ReturnUnanswered, Return,
                    Skip, Ask, CriticAsked
      <4>2. CASE Refused \/ EvaluatedTooLate
        BY <4>2 DEF Refused, EvaluatedTooLate, StageFails, AfterFailure, Return,
                    CriticAsked
      <4>3. CASE AskCritic
        BY <4>3 DEF AskCritic, Critic, Ask, CriticAsked
      <4>4. CASE Returned \/ UNCHANGED vars
        BY <4>4 DEF Returned, vars, CriticAsked
      <4> QED
        BY <1>3, <3>2, <4>1, <4>2, <4>3, <4>4 DEF Next
    <3> QED
      BY <3>1, <3>2
  <2>2. \/ skipped' = skipped
        \/ skipped' # "budget"
        \/ Len(evals) > 0 /\ RepairEnabled /\ (Operational \/ Semantic)
    <3>1. CASE Decide
      BY <3>1 DEF Decide, Skip, Typed, Staged
    <3>2. CASE ~Decide
      BY <1>3, <3>2
         DEF Next, vars, trace, Route, ReturnUnanswered, Ground, Refused, Unanswered,
             Malformed, Replied, EvaluatedTooLate, AskCritic, Critic, Finish, Returned
    <3> QED
      BY <3>1, <3>2
  <2> QED
    BY <1>0, <1>3, <2>0, <2>1, <2>2 DEF Reserved
<1> QED
  BY <1>1, <1>2, <1>3, StepKinds

\* Under the obligation policy the critic never uses up a repair's requests.
THEOREM BudgetReserved == Spec => []CriticLeavesBudget
<1>1. Init => Reserved
  BY EmptySeq DEF Init, Reserved, CriticAsked
<1>2. Reserved => CriticLeavesBudget
  BY DEF Reserved, CriticLeavesBudget, CriticAsked, Operational, Semantic
<1> QED
  BY <1>1, <1>2, InitSound, StepSound, StepReserved, PTL DEF Spec

-----------------------------------------------------------------------------
(* Refinement of CandidateGate *)

\* The refinement mapping, named.
Pending == IF pc = "evaluate" THEN reply ELSE NoSql

Verdicts == [i \in DOMAIN evals |-> [sql |-> evals[i].sql, good |-> Accepted(evals[i])]]

Ended == status # "running"

Chosen == IF status = "SUCCEEDED" THEN chosen ELSE 0

\* The gate's list is as long as the trace's.
LEMMA VerdictsTyped ==
    Typed => /\ Verdicts \in Seq([sql : Sql, good : BOOLEAN])
             /\ Len(Verdicts) = Len(evals)
             /\ DOMAIN Verdicts = 1..Len(evals)
<1> SUFFICES ASSUME Typed
             PROVE  /\ Verdicts \in Seq([sql : Sql, good : BOOLEAN])
                    /\ Len(Verdicts) = Len(evals)
                    /\ DOMAIN Verdicts = 1..Len(evals)
  OBVIOUS
<1>1. /\ Len(evals) \in Nat /\ DOMAIN evals = 1..Len(evals)
      /\ \A i \in 1..Len(evals) : evals[i].sql \in Sql
  <2>1. /\ Len(evals) \in Nat /\ DOMAIN evals = 1..Len(evals)
        /\ evals \in [1..Len(evals) -> Evaluation]
    BY LenProperties DEF Typed, TypeOK
  <2>2. \A e \in Evaluation : e.sql \in Sql
    BY DEF Evaluation
  <2> QED
    BY <2>1, <2>2
<1>2. Verdicts \in [1..Len(evals) -> [sql : Sql, good : BOOLEAN]]
  BY <1>1 DEF Verdicts, Accepted
<1>3. Verdicts \in Seq([sql : Sql, good : BOOLEAN])
  <2>1. \E n \in Nat : Verdicts \in [1..n -> [sql : Sql, good : BOOLEAN]]
    BY <1>1, <1>2
  <2>2. Seq([sql : Sql, good : BOOLEAN])
          = UNION {[1..n -> [sql : Sql, good : BOOLEAN]] : n \in Nat}
    BY SeqDef
  <2> QED
    BY <2>1, <2>2, Zenon
<1> QED
  BY <1>1, <1>2, <1>3, LenProperties

\* An evaluation more in the trace is a verdict more in the gate.
LEMMA VerdictAppended ==
    ASSUME Typed, Typed', NEW e \in Evaluation, Len(evals') = Len(evals) + 1,
           \A i \in 1..Len(evals) : evals'[i] = evals[i],
           evals'[Len(evals) + 1] = e
    PROVE  Verdicts' = Append(Verdicts, [sql |-> e.sql, good |-> Accepted(e)])
<1> DEFINE verdict == [sql |-> e.sql, good |-> Accepted(e)]
<1>1. verdict \in [sql : Sql, good : BOOLEAN]
  BY DEF Evaluation, Accepted
<1>2. /\ Verdicts \in Seq([sql : Sql, good : BOOLEAN])
      /\ Len(Verdicts) = Len(evals)
  BY VerdictsTyped
<1>3. /\ Verdicts' \in Seq([sql : Sql, good : BOOLEAN])
      /\ Len(Verdicts') = Len(evals) + 1
  <2>1. (Typed => /\ Verdicts \in Seq([sql : Sql, good : BOOLEAN])
                  /\ Len(Verdicts) = Len(evals)
                  /\ DOMAIN Verdicts = 1..Len(evals))'
    BY VerdictsTyped, PTL
  <2> QED
    BY <2>1
<1>4. /\ Append(Verdicts, verdict) \in Seq([sql : Sql, good : BOOLEAN])
      /\ Len(Append(Verdicts, verdict)) = Len(evals) + 1
      /\ \A i \in 1..Len(evals) : Append(Verdicts, verdict)[i] = Verdicts[i]
      /\ Append(Verdicts, verdict)[Len(evals) + 1] = verdict
  BY <1>1, <1>2, AppendProperties
<1>5. /\ Len(evals) \in Nat
      /\ DOMAIN evals = 1..Len(evals) /\ DOMAIN evals' = 1..(Len(evals) + 1)
  BY LenProperties DEF Typed, TypeOK
<1>6. \A i \in 1..(Len(evals) + 1) : Verdicts'[i] = Append(Verdicts, verdict)[i]
  BY <1>4, <1>5 DEF Verdicts, Accepted
<1> QED
  BY <1>3, <1>4, <1>6, SeqEqual

\* A run that succeeds has chosen an evaluation that was accepted.
LEMMA ChosenIsGood ==
    Sound => Chosen \in {0} \cup {i \in DOMAIN Verdicts : Verdicts[i].good}
<1> SUFFICES ASSUME Sound, status = "SUCCEEDED"
             PROVE  chosen = 0 \/ (chosen \in DOMAIN evals /\ Accepted(evals[chosen]))
  BY DEF Chosen, Verdicts
<1>1. CASE evals = <<>>
  BY <1>1, EmptySeq DEF Sound, Typed, TypeOK
<1>2. CASE evals # <<>>
  <2>1. pc = "done" /\ status = Verdict(evals[chosen])
    BY <1>2 DEF Sound, Typed, TypeOK, Traced
  <2>2. Accepted(evals[chosen])
    BY <2>1 DEF Verdict
  <2> QED
    BY <1>2, <2>2, EvaluationsFaithful
<1> QED
  BY <1>1, <1>2

\* Every step of the run is a step of the gate, or none.
LEMMA StepGate ==
    Sound /\ Sound' /\ [Next]_vars
      => [Gate!Next]_<<Pending, Verdicts, Ended, Chosen>>
<1> SUFFICES ASSUME Sound, Sound', [Next]_vars
             PROVE  \/ Gate!Next
                    \/ UNCHANGED <<Pending, Verdicts, Ended, Chosen>>
  OBVIOUS
<1> USE DEF Sound
<1>0. /\ Ended <=> pc = "done"
      /\ Ended' <=> pc' = "done"
      /\ pc # "done" => Chosen = 0
      /\ pc' # "done" => Chosen' = 0
      /\ Ended \in BOOLEAN /\ Ended' \in BOOLEAN
  BY DEF Ended, Chosen, Typed, TypeOK
<1>1. Chosen' \in {0} \cup {i \in DOMAIN Verdicts' : Verdicts'[i].good}
  <2>1. (Sound => Chosen \in {0} \cup {i \in DOMAIN Verdicts : Verdicts[i].good})'
    BY ChosenIsGood, PTL
  <2> QED
    BY <2>1
<1>2. NoSql \notin Sql
  BY A1Constants
<1>judge. ASSUME pc = "evaluate", pc' # "evaluate", reply \in Sql,
                 NEW good \in BOOLEAN,
                 Verdicts' = Append(Verdicts, [sql |-> reply, good |-> good])
          PROVE  Gate!Next
  <2>1. Pending = reply /\ Pending' = NoSql
    BY <1>judge DEF Pending
  <2>2. Gate!Judge
    BY <1>0, <1>1, <1>2, <1>judge, <2>1
       DEF Gate!Judge, Gate!Decide, Pending, Verdicts, Ended, Chosen
  <2> QED
    BY <2>2 DEF Gate!Next
<1>3. CASE EvaluateDraft
  <2>1. PICK raised \in Raises(reply) :
             /\ reply \in Sql /\ evals' = <<Evaluate(reply, raised)>>
             /\ pc' \in {"critic", "decide"}
    BY <1>3, DraftEvaluated
  <2>2. pc = "evaluate" /\ evals = <<>>
    BY <1>3 DEF EvaluateDraft, Typed, Staged
  <2>3. Verdicts' = Append(Verdicts, [sql |-> reply,
                                      good |-> Accepted(Evaluate(reply, raised))])
    <3>1. Evaluate(reply, raised) \in Evaluation /\ Evaluate(reply, raised).sql = reply
      BY <2>1, EvaluateTyped DEF Evaluate
    <3>2. /\ Len(evals) = 0 /\ Len(evals') = 1
          /\ evals'[1] = Evaluate(reply, raised)
      BY <2>1, <2>2, EmptySeq
    <3> QED
      BY <3>1, <3>2, VerdictAppended
  <2> QED
    BY <1>judge, <2>1, <2>2, <2>3 DEF Accepted
<1>4. CASE EvaluateRepair
  <2>1. PICK raised \in Raises(reply) :
             /\ reply \in Sql /\ Len(evals) = 1 /\ Len(evals') = 2
             /\ evals'[1] = evals[1] /\ evals'[2] = Evaluate(reply, raised)
             /\ pc = "evaluate" /\ pc' = "finish"
    BY <1>4, RepairEvaluated
  <2>2. Verdicts' = Append(Verdicts, [sql |-> reply,
                                      good |-> Accepted(Evaluate(reply, raised))])
    <3>1. Evaluate(reply, raised) \in Evaluation /\ Evaluate(reply, raised).sql = reply
      BY <2>1, EvaluateTyped DEF Evaluate
    <3> QED
      BY <2>1, <3>1, VerdictAppended
  <2> QED
    BY <1>judge, <2>1, <2>2 DEF Accepted
<1>5. ASSUME evals' = evals
      PROVE  Verdicts' = Verdicts
  BY <1>5 DEF Verdicts, Accepted
<1>6. ASSUME evals' = evals, pc \notin {"evaluate", "done"}, pc' = "evaluate"
      PROVE  Gate!Propose
  <2>1. Len(Verdicts) < 2
    <3>1. Len(evals) = 0 \/ Len(evals) = 1
      BY <1>6, EmptySeq DEF Typed, Staged
    <3>2. Len(Verdicts) = Len(evals)
      BY VerdictsTyped
    <3> QED
      BY <3>1, <3>2
  <2>2. Pending = NoSql /\ Pending' \in Sql
    BY <1>6 DEF Pending, Typed, Staged
  <2> QED
    BY <1>0, <1>5, <1>6, <2>1, <2>2 DEF Gate!Propose, Pending, Verdicts, Ended, Chosen
<1>7. ASSUME evals' = evals, pc # "done", pc' = "done"
      PROVE  Gate!Answer
  <2>1. Pending' = NoSql
    BY <1>7 DEF Pending
  <2> QED
    BY <1>0, <1>1, <1>5, <1>7, <2>1
       DEF Gate!Answer, Gate!Decide, Pending, Verdicts, Ended, Chosen
<1>8. ASSUME evals' = evals, pc = "evaluate", pc' \notin {"evaluate", "done"}
      PROVE  Gate!Discard
  <2>1. Pending # NoSql /\ Pending' = NoSql
    BY <1>2, <1>8 DEF Pending, Typed, Staged
  <2> QED
    BY <1>0, <1>5, <1>8, <2>1 DEF Gate!Discard, Pending, Verdicts, Ended, Chosen
<1>9. ASSUME evals' = evals, pc \notin {"evaluate", "done"},
             pc' \notin {"evaluate", "done"}
      PROVE  UNCHANGED <<Pending, Verdicts, Ended, Chosen>>
  <2>1. Pending' = NoSql /\ Pending = NoSql
    BY <1>9 DEF Pending
  <2> QED
    BY <1>0, <1>5, <1>9, <2>1
<1>10. ASSUME UNCHANGED vars
       PROVE  UNCHANGED <<Pending, Verdicts, Ended, Chosen>>
  BY <1>10 DEF vars, Pending, Verdicts, Accepted, Ended, Chosen
<1>11. ~EvaluateDraft /\ ~EvaluateRepair /\ pc \in {"evaluate", "done"}
         => UNCHANGED vars \/ (evals' = evals /\ pc = "evaluate" /\ pc' # "evaluate")
  BY DEF Next, Route, Ground, Refused, Unanswered, Malformed, Replied, Send,
         EvaluatedTooLate, StageFails, AfterFailure, Return, AskCritic, Critic, Decide,
         Finish, Returned, trace
<1>12. EvaluateDraft \/ EvaluateRepair \/ evals' = evals
  BY StepKinds
<1> QED
  BY <1>3, <1>4, <1>6, <1>7, <1>8, <1>9, <1>10, <1>11, <1>12 DEF Gate!Next

\* The pipeline is a gate of at most two candidates.
THEOREM GateImplemented == Spec => OnlyAcceptedIsAnswered
<1>1. Init => Gate!Init
  <2> SUFFICES ASSUME Init PROVE Gate!Init
    OBVIOUS
  <2>1. Verdicts = <<>>
    BY EmptySeq DEF Init, Verdicts
  <2> QED
    BY <2>1 DEF Init, Gate!Init, Verdicts
<1> QED
  BY <1>1, InitSound, StepSound, StepGate, PTL
     DEF Spec, OnlyAcceptedIsAnswered, Gate!Spec, Pending, Verdicts, Ended, Chosen
=============================================================================
