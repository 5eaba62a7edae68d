----------------------- MODULE DirectBaseline_proofs -----------------------
(***************************************************************************)
(* Theorems about DirectBaseline, for every set of configurations,         *)
(* candidates, signals and retries: type correctness, the bounds and the   *)
(* progress of the correction loop, and the fit of a result with its       *)
(* candidate.                                                              *)
(***************************************************************************)
EXTENDS DirectBaseline, SequenceTheorems, TLAPS

-----------------------------------------------------------------------------
(* Typing *)

\* What the other proofs use of a report.
LEMMA ReportTyped ==
    \A r \in Report : /\ r.class \in Classes
                      /\ r.at \in {"policy", "execution", "result"}
                      /\ StatusForReport(r) \in Status
                      /\ Eligible(r) => ~Accepted(r)
                      /\ StatusForReport(r) = "SUCCEEDED" <=> Accepted(r)
  BY DEF Report, Classes, StatusForReport, Status, Eligible, Accepted

\* The reports a configuration can get are reports.
LEMMA ReportsTyped == Reports \subseteq Report
  BY DEF Reports

\* A candidate judged after others.
LEMMA JudgedTyped ==
    ASSUME NEW list \in Seq([sql : Candidates, report : Report]),
           NEW sql \in Candidates, NEW report \in Report,
           NEW longer, longer = Append(list, [sql |-> sql, report |-> report])
    PROVE  /\ longer \in Seq([sql : Candidates, report : Report])
           /\ Len(longer) = Len(list) + 1
           /\ DOMAIN longer = 1..(Len(list) + 1)
           /\ \A i \in DOMAIN list : longer[i] = list[i]
           /\ longer[Len(list) + 1] = [sql |-> sql, report |-> report]
  OBVIOUS

\* The last candidate of a list.
LEMMA LastTyped ==
    ASSUME NEW list \in Seq([sql : Candidates, report : Report]), list # <<>>
    PROVE  /\ Len(list) \in DOMAIN list /\ Len(list) \in Nat /\ Len(list) > 0
           /\ list[Len(list)].sql \in Candidates
           /\ list[Len(list)].report \in Report
<1>1. Len(list) \in Nat /\ DOMAIN list = 1..Len(list)
  OBVIOUS
<1>2. Len(list) > 0
  BY <1>1, EmptySeq, LenProperties
<1>3. Len(list) \in 1..Len(list)
  BY <1>1, <1>2
<1>4. list[Len(list)] \in [sql : Candidates, report : Report]
  BY <1>3, ElementOfSeq, Zenon
<1> QED
  BY <1>1, <1>2, <1>3, <1>4

\* A stopped loop returns a well-typed result.
LEMMA StopTyped ==
    ASSUME NEW list \in Seq([sql : Candidates, report : Report]), list # <<>>,
           NEW sql \in Candidates, NEW stop \in Stops, StopWith(stop, sql, list)
    PROVE  /\ pc' = "done" /\ result'.status # "running"
           /\ result' \in [status : Status \cup {"running"}, stop : Stops,
                           sql : Candidates \cup {NoSql},
                           rows : Candidates \cup {NoSql}, class : Classes]
<1>1. /\ list[Len(list)].sql \in Candidates
      /\ list[Len(list)].report \in Report
  BY LastTyped
<1>2. StatusForReport(list[Len(list)].report) \in Status
  BY <1>1, ReportTyped
<1>3. list[Len(list)].report.class \in Classes
  BY <1>1, ReportTyped
<1>4. (IF Len(list) > 1 /\ list[Len(list)].report.at = "result"
       THEN list[Len(list)].sql ELSE NoSql) \in Candidates \cup {NoSql}
  BY <1>1
<1> QED
  BY <1>2, <1>3, <1>4 DEF StopWith, Return, Result, Status

\* So does every return without a candidate.
LEMMA EmptyTyped ==
    ASSUME NEW status \in Status, ReturnEmpty(status)
    PROVE  /\ pc' = "done" /\ result'.status # "running"
           /\ result' \in [status : Status \cup {"running"}, stop : Stops,
                           sql : Candidates \cup {NoSql},
                           rows : Candidates \cup {NoSql}, class : Classes]
  BY DEF ReturnEmpty, Return, Result, Status, Stops, Classes

-----------------------------------------------------------------------------
(* Type correctness *)

\* The two counters of the loop against the candidates judged: repairs stays
\* in its range because a correction is asked for only below the maximum.
Counted ==
    /\ pc \in {"route", "plan", "ground", "draft"} => judged = <<>>
    /\ judged = <<>> => repairs = 0 /\ calls = 0 /\ pc \notin {"repair", "correct"}
    /\ pc = "judge" =>
         pending \in Candidates /\ Len(judged) = repairs /\ calls = repairs
    /\ pc # "judge" => pending = NoSql
    /\ pc = "repair" => Len(judged) = repairs + 1 /\ calls = repairs
    /\ pc = "correct" => /\ Len(judged) = repairs + 1 /\ calls = repairs + 1
                         /\ repairs < settings.repairs
    /\ repairs <= settings.repairs /\ calls <= settings.calls
    /\ repairs <= calls

Typed == TypeOK /\ Counted

\* A run starts well typed, its counters at zero.
LEMMA InitTyped == Init => Typed
<1> SUFFICES ASSUME Init PROVE Typed
  OBVIOUS
<1>1. settings \in Configuration
  BY DirectConstants DEF Init
<1>2. <<>> \in Seq([sql : Candidates, report : Report]) /\ Len(<<>>) = 0
  BY EmptySeq
<1>3. Running \in [status : Status \cup {"running"}, stop : Stops,
                   sql : Candidates \cup {NoSql},
                   rows : Candidates \cup {NoSql}, class : Classes]
  BY DEF Running, Result, Stops, Classes
<1>4. TypeOK
  <2>1. Running.status = "running"
    BY DEF Running, Result
  <2>2. late \in BOOLEAN
    BY DEF Init
  <2>3. result \in [status : Status \cup {"running"}, stop : Stops,
                   sql : Candidates \cup {NoSql},
                   rows : Candidates \cup {NoSql}, class : Classes]
    BY <1>3, Zenon DEF Init
  <2>4. tries \in 0..Retries
    BY DirectConstants DEF Init
  <2>5. pc = "done" <=> result.status # "running"
    BY <2>1 DEF Init
  <2> QED
    BY <1>2, <2>2, <2>3, <2>4, <2>5 DEF Init, TypeOK
<1>5. Counted
  BY <1>1, <1>2 DEF Init, Counted, Configuration
<1> QED
  BY <1>4, <1>5 DEF Typed

\* Every step keeps the types and the counts.
LEMMA StepTyped == Typed /\ [Next]_vars => Typed'
<1> SUFFICES ASSUME Typed, [Next]_vars PROVE Typed'
  OBVIOUS
<1> USE DEF Continue, loop
<1>0. settings \in Configuration /\ Retries \in Nat
  BY DirectConstants DEF Typed, TypeOK
<1>time. TimePasses => late' \in BOOLEAN
  BY DEF TimePasses, Typed, TypeOK
<1>send. Send => /\ late' \in BOOLEAN /\ sent' \in Nat
                 /\ pc \in {"plan", "draft", "correct"}
  BY <1>time DEF Send, Typed, TypeOK
<1>1. CASE Route
  BY <1>0, <1>send, <1>time, <1>1, EmptyTyped DEF Route, Typed, TypeOK, Counted, Status
<1>2. CASE Planned
  BY <1>0, <1>send, <1>time, <1>2 DEF Planned, Typed, TypeOK, Counted
<1>3. CASE Ground
  BY <1>0, <1>send, <1>time, <1>3, EmptyTyped DEF Ground, Typed, TypeOK, Counted, Status
<1>4. CASE Drafted
  <2>1. CASE ReturnEmpty("INVALID_SQL") /\ UNCHANGED pending
    BY <1>0, <1>send, <1>time, <1>4, <2>1, EmptyTyped DEF Drafted, Typed, TypeOK, Counted, Status
  <2>2. CASE Continue("judge") /\ pending' \in Candidates
    BY <1>0, <1>send, <1>time, <1>4, <2>2, EmptySeq DEF Drafted, Typed, TypeOK, Counted
  <2> QED
    BY <1>4, <2>1, <2>2 DEF Drafted
<1>fails. ASSUME RequestFails, pc \in {"plan", "draft", "correct"}
          PROVE  /\ pc' = "done" /\ result'.status # "running"
                 /\ result' \in [status : Status \cup {"running"}, stop : Stops,
                                 sql : Candidates \cup {NoSql},
                                 rows : Candidates \cup {NoSql}, class : Classes]
  <2>1. CASE pc = "correct"
    <3>1. judged # <<>> /\ judged \in Seq([sql : Candidates, report : Report])
      BY <2>1 DEF Typed, TypeOK, Counted
    <3>2. Current.sql \in Candidates
      BY <3>1, LastTyped DEF Current
    <3> QED
      BY <2>1, <1>fails, <3>1, <3>2, StopTyped DEF RequestFails, Stops
  <2>2. CASE pc # "correct"
    BY <2>2, <1>fails, EmptyTyped DEF RequestFails, Status
  <2> QED
    BY <2>1, <2>2
<1>5. CASE Unconfigured
  BY <1>0, <1>send, <1>time, <1>5, <1>fails DEF Unconfigured, Typed, TypeOK, Counted
<1>6. CASE Unanswered
  BY <1>0, <1>send, <1>time, <1>6, <1>fails DEF Unanswered, Typed, TypeOK, Counted
<1>7. CASE Malformed
  BY <1>0, <1>send, <1>time, <1>7 DEF Malformed, MayRetry, Typed, TypeOK, Counted
<1>judge. ASSUME NEW report \in Reports, Judge(report)
          PROVE  /\ pending \in Candidates /\ report \in Report
                 /\ judged' \in Seq([sql : Candidates, report : Report])
                 /\ Len(judged') = Len(judged) + 1 /\ Len(judged) \in Nat
                 /\ judged' # <<>>
                 /\ late' \in BOOLEAN /\ pending' = NoSql
  BY <1>judge, <1>time, ReportsTyped, JudgedTyped, EmptySeq, LenProperties
     DEF Judge, Typed, TypeOK, Counted
<1>8. CASE JudgeOnly
  <2> PICK report \in Reports :
         /\ Judge(report)
         /\ IF Accepted(report)
            THEN Return("SUCCEEDED", "none", pending, pending, "NONE")
            ELSE Return(IF report.at = "policy" THEN "POLICY_BLOCKED"
                        ELSE "EXECUTION_ERROR",
                        "none", pending, NoSql, report.class)
    BY <1>8 DEF JudgeOnly
  <2>1. report.class \in Classes /\ pending \in Candidates
    BY <1>judge, ReportTyped
  <2>2. /\ pc' = "done" /\ result'.status # "running"
        /\ result' \in [status : Status \cup {"running"}, stop : Stops,
                        sql : Candidates \cup {NoSql},
                        rows : Candidates \cup {NoSql}, class : Classes]
    BY <2>1 DEF Return, Result, Status, Stops, Classes
  <2> QED
    BY <1>0, <1>send, <1>time, <1>8, <1>judge, <2>2 DEF JudgeOnly, Typed, TypeOK, Counted
<1>9. CASE JudgeDraft
  <2> PICK report \in Reports :
         /\ Judge(report)
         /\ IF Accepted(report)
            THEN Return("SUCCEEDED", "none", pending, pending, "NONE")
            ELSE IF ~Eligible(report)
            THEN StopWith("NOT_ELIGIBLE", pending, judged')
            ELSE Continue("repair")
    BY <1>9 DEF JudgeDraft
  <2>1. pc = "judge" /\ judged = <<>>
    BY <1>9 DEF JudgeDraft, Judge
  <2>2. \/ /\ pc' = "done" /\ result'.status # "running"
           /\ result' \in [status : Status \cup {"running"}, stop : Stops,
                           sql : Candidates \cup {NoSql},
                           rows : Candidates \cup {NoSql}, class : Classes]
        \/ pc' = "repair" /\ UNCHANGED result
    <3>1. CASE Return("SUCCEEDED", "none", pending, pending, "NONE")
      BY <3>1, <1>judge DEF Return, Result, Status, Stops, Classes
    <3>2. CASE StopWith("NOT_ELIGIBLE", pending, judged')
      BY <3>2, <1>judge, StopTyped DEF Stops
    <3> QED
      BY <3>1, <3>2
  <2> QED
    BY <1>0, <1>send, <1>time, <1>9, <1>judge, <2>1, <2>2 DEF JudgeDraft, Typed, TypeOK, Counted
<1>10. CASE LoopHead
  <2>1. judged # <<>> /\ judged \in Seq([sql : Candidates, report : Report])
    BY <1>10 DEF LoopHead, Typed, TypeOK, Counted
  <2>2. Current.sql \in Candidates
    BY <2>1, LastTyped DEF Current
  <2>3. CASE Ask("correct") /\ calls' = calls + 1 /\ BeforeRepair = "none"
    BY <1>0, <1>send, <1>time, <1>10, <2>1, <2>3
       DEF LoopHead, Ask, BeforeRepair, Typed, TypeOK, Counted, Configuration
  <2>4. CASE /\ UNCHANGED <<tries, calls>>
             /\ \E stop \in Stops : StopWith(stop, Current.sql, judged)
    BY <1>0, <1>send, <1>time, <1>10, <2>1, <2>2, <2>4, StopTyped
       DEF LoopHead, Typed, TypeOK, Counted
  <2>5. BeforeRepair \in Stops /\ "NOT_ELIGIBLE" \in Stops
    BY DEF BeforeRepair, Stops
  <2> QED
    BY <1>10, <2>3, <2>4, <2>5 DEF LoopHead
<1>11. CASE Corrected
  <2>0. pc = "correct" /\ judged # <<>>
        /\ judged \in Seq([sql : Candidates, report : Report])
    BY <1>11 DEF Corrected, Typed, TypeOK, Counted
  <2>1. CASE StopWith("MODEL_ERROR", Current.sql, judged) /\ UNCHANGED <<pending, repairs>>
    <3>1. Current.sql \in Candidates
      BY <2>0, LastTyped DEF Current
    <3>2. /\ pc' = "done" /\ result'.status # "running"
          /\ result' \in [status : Status \cup {"running"}, stop : Stops,
                          sql : Candidates \cup {NoSql},
                          rows : Candidates \cup {NoSql}, class : Classes]
      BY <2>0, <2>1, <3>1, StopTyped DEF Stops
    <3> QED
      BY <1>0, <1>send, <1>time, <1>11, <2>0, <2>1, <3>2 DEF Corrected, Typed, TypeOK, Counted
  <2>2. ASSUME NEW sql \in Candidates, repairs' = repairs + 1,
               StopWith("REPEATED_SQL", sql, judged) /\ UNCHANGED pending
        PROVE  Typed'
    <3>1. /\ pc' = "done" /\ result'.status # "running"
          /\ result' \in [status : Status \cup {"running"}, stop : Stops,
                          sql : Candidates \cup {NoSql},
                          rows : Candidates \cup {NoSql}, class : Classes]
      BY <2>0, <2>2, StopTyped DEF Stops
    <3> QED
      BY <1>0, <1>send, <1>time, <1>11, <2>0, <2>2, <3>1
         DEF Corrected, Typed, TypeOK, Counted, Configuration
  <2>3. ASSUME NEW sql \in Candidates, repairs' = repairs + 1,
               Continue("judge"), pending' = sql
        PROVE  Typed'
    BY <1>0, <1>send, <1>time, <1>11, <2>0, <2>3
       DEF Corrected, Typed, TypeOK, Counted, Configuration
  <2> QED
    BY <1>11, <2>1, <2>2, <2>3 DEF Corrected
<1>12. CASE JudgeRepair
  <2> PICK report \in Reports :
         /\ Judge(report)
         /\ IF Accepted(report) THEN StopWith("VALID", pending, judged')
            ELSE IF RepeatedError(report)
            THEN StopWith("REPEATED_ERROR", pending, judged')
            ELSE Continue("repair")
    BY <1>12 DEF JudgeRepair
  <2>1. pc = "judge" /\ judged # <<>>
    BY <1>12 DEF JudgeRepair, Judge
  <2>2. \/ /\ pc' = "done" /\ result'.status # "running"
           /\ result' \in [status : Status \cup {"running"}, stop : Stops,
                           sql : Candidates \cup {NoSql},
                           rows : Candidates \cup {NoSql}, class : Classes]
        \/ pc' = "repair" /\ UNCHANGED result
    BY <1>judge, StopTyped DEF Stops
  <2> QED
    BY <1>0, <1>send, <1>time, <1>12, <1>judge, <2>1, <2>2 DEF JudgeRepair, Typed, TypeOK, Counted
<1>13. CASE Returned \/ UNCHANGED vars
  BY <1>13 DEF Returned, vars, Typed, TypeOK, Counted
<1> QED
  BY <1>1, <1>2, <1>3, <1>4, <1>5, <1>6, <1>7, <1>8, <1>9, <1>10, <1>11,
     <1>12, <1>13 DEF Next

\* The state of a run is always well typed, with the counters in step.
THEOREM TypeCorrect == Spec => []TypeOK
<1>1. Typed => TypeOK
  BY DEF Typed
<1> QED
  BY <1>1, InitTyped, StepTyped, PTL DEF Spec

-----------------------------------------------------------------------------
(* The end of a run *)

\* A step that is not a stutter makes a call, moves ahead, or is one attempt more.
LEMMA StepAdvances ==
    ASSUME Typed, [Next]_vars
    PROVE  \/ calls < calls' /\ calls' <= settings.calls
           \/ /\ calls' = calls
              /\ \/ Ahead' < Ahead
                 \/ Ahead' = Ahead /\ tries < tries' /\ tries' <= Retries
           \/ UNCHANGED vars
<1>1. CASE Route \/ Planned \/ Ground \/ Drafted
  BY <1>1 DEF Route, Planned, Ground, Drafted, Continue, ReturnEmpty, Return, Ahead, loop
<1>2. CASE Unconfigured \/ Unanswered
  <2>1. pc \in {"plan", "draft", "correct"} /\ calls' = calls
    BY <1>2 DEF Unconfigured, Unanswered, Send, loop
  <2>2. pc' = "done"
    BY <1>2 DEF Unconfigured, Unanswered, RequestFails, StopWith, ReturnEmpty, Return
  <2> QED
    BY <2>1, <2>2 DEF Ahead
<1>3. CASE Malformed
  BY <1>3, DirectConstants DEF Malformed, Send, MayRetry, Ahead, Typed, TypeOK, loop
<1>4. CASE JudgeOnly \/ JudgeDraft \/ JudgeRepair
  <2>1. pc = "judge" /\ calls' = calls
    BY <1>4 DEF JudgeOnly, JudgeDraft, JudgeRepair, Judge
  <2>2. pc' \in {"done", "repair"}
    BY <1>4 DEF JudgeOnly, JudgeDraft, JudgeRepair, StopWith, Return, Continue
  <2> QED
    BY <2>1, <2>2 DEF Ahead
<1>5. CASE LoopHead
  <2>1. CASE pc' = "done" /\ calls' = calls
    BY <1>5, <2>1 DEF LoopHead, Ahead
  <2>2. CASE BeforeRepair = "none" /\ calls' = calls + 1
    <3>1. settings \in Configuration /\ calls \in Nat
      BY DirectConstants DEF Typed, TypeOK
    <3> QED
      BY <2>2, <3>1 DEF BeforeRepair, Configuration
  <2> QED
    BY <1>5, <2>1, <2>2 DEF LoopHead, StopWith, Return
<1>6. CASE Corrected
  <2>1. pc = "correct" /\ calls' = calls
    BY <1>6 DEF Corrected
  <2>2. pc' \in {"done", "judge"}
    BY <1>6 DEF Corrected, StopWith, Return, Continue
  <2> QED
    BY <2>1, <2>2 DEF Ahead
<1>7. CASE Returned \/ UNCHANGED vars
  BY <1>7 DEF Returned
<1> QED
  BY <1>1, <1>2, <1>3, <1>4, <1>5, <1>6, <1>7 DEF Next

\* A run takes a bounded number of steps, whatever it is answered: a safety
\* property, for which the code needs no fairness.
THEOREM AlwaysAdvances == Spec => RunAdvances
<1>1. ASSUME Typed, [Next]_vars
      PROVE  [\/ calls < calls' /\ calls' <= settings.calls
              \/ /\ calls' = calls
                 /\ \/ Ahead' < Ahead
                    \/ Ahead' = Ahead /\ tries < tries' /\ tries' <= Retries]_vars
  BY <1>1, StepAdvances
<1> QED
  BY <1>1, InitTyped, StepTyped, PTL DEF Spec, RunAdvances

-----------------------------------------------------------------------------
(* The bounds of the loop *)

\* The requests that k calls of the provider may send.
Attempts(k) == k * (Retries + 1)

\* One call more may send Retries + 1 requests more.
LEMMA AttemptsOfOneMore ==
    /\ Attempts(0) = 0
    /\ \A k \in Nat : /\ Attempts(k) \in Nat
                       /\ Attempts(k + 1) = Attempts(k) + Retries + 1
  BY DirectConstants DEF Attempts

\* What was sent before the current call, and by it so far.
Paid ==
    /\ pc = "route" => sent = 0
    /\ pc = "plan" => sent <= Attempts(0) + tries
    /\ pc \in {"ground", "draft"} => sent <= Attempts(1) + tries
    /\ pc = "correct" => sent <= Attempts(calls + 1) + tries
    /\ sent <= Attempts(calls + 2)

\* No step sends a request that a call does not pay for.
LEMMA StepPaid == Typed /\ Paid /\ [Next]_vars => Paid'
<1> SUFFICES ASSUME Typed, Paid, [Next]_vars PROVE Paid'
  OBVIOUS
<1> USE DEF loop, Continue
<1>0. /\ Retries \in Nat /\ sent \in Nat /\ tries \in 0..Retries /\ calls \in Nat
      /\ pc \in {"route", "plan", "ground", "draft"} => calls = 0
  BY DirectConstants DEF Typed, TypeOK, Counted
<1>1. /\ Attempts(0) = 0 /\ Attempts(1) = Retries + 1
      /\ Attempts(2) = Attempts(1) + Retries + 1
      /\ Attempts(calls + 1) \in Nat
      /\ Attempts(calls + 2) = Attempts(calls + 1) + Retries + 1
      /\ Attempts(calls + 3) = Attempts(calls + 2) + Retries + 1
  <2>1. /\ 0 + 1 = 1 /\ 1 + 1 = 2 /\ calls + 1 \in Nat /\ calls + 2 \in Nat
        /\ (calls + 1) + 1 = calls + 2 /\ (calls + 2) + 1 = calls + 3
    BY <1>0
  <2>2. Attempts(0 + 1) = Attempts(0) + Retries + 1
    BY AttemptsOfOneMore
  <2>3. Attempts(1 + 1) = Attempts(1) + Retries + 1
    BY AttemptsOfOneMore
  <2>4. Attempts((calls + 1) + 1) = Attempts(calls + 1) + Retries + 1
    BY <2>1, AttemptsOfOneMore
  <2>5. Attempts((calls + 2) + 1) = Attempts(calls + 2) + Retries + 1
    BY <2>1, AttemptsOfOneMore
  <2> QED
    BY <1>0, <2>1, <2>2, <2>3, <2>4, <2>5, AttemptsOfOneMore
<1>2. CASE /\ UNCHANGED <<sent, calls>>
           /\ pc' \in {"judge", "repair", "done"}
  BY <1>2 DEF Paid
<1>3. CASE Route
  BY <1>0, <1>1, <1>3 DEF Route, Paid, ReturnEmpty, Return
<1>4. CASE Planned
  BY <1>0, <1>1, <1>4 DEF Planned, Send, Paid
<1>5. CASE Ground
  BY <1>0, <1>1, <1>5 DEF Ground, Paid, ReturnEmpty, Return
<1>6. CASE Drafted \/ Unanswered \/ Corrected
  <2>1. /\ sent' = sent + 1 /\ calls' = calls
        /\ pc \in {"plan", "draft", "correct"}
        /\ pc' \in {"judge", "done"}
    BY <1>6 DEF Drafted, Unanswered, Corrected, Send, RequestFails, StopWith,
                ReturnEmpty, Return
  <2>2. sent + 1 <= Attempts(calls + 2)
    BY <1>0, <1>1, <2>1 DEF Paid
  <2> QED
    BY <2>1, <2>2 DEF Paid
<1>7. CASE Malformed
  <2>1. /\ sent' = sent + 1 /\ calls' = calls /\ tries' = tries + 1 /\ pc' = pc
        /\ pc \in {"plan", "draft", "correct"}
    BY <1>7 DEF Malformed, Send
  <2>2. sent + 1 <= Attempts(calls + 2)
    BY <1>0, <1>1, <2>1 DEF Paid
  <2> QED
    BY <1>0, <1>1, <2>1, <2>2 DEF Paid
<1>8. CASE LoopHead
  <2>1. CASE Ask("correct") /\ calls' = calls + 1
    <3>1. calls' + 1 = calls + 2 /\ calls' + 2 = calls + 3
      BY <1>0, <2>1
    <3>2. Attempts(calls' + 1) = Attempts(calls + 2)
          /\ Attempts(calls' + 2) = Attempts(calls + 3)
      BY <3>1
    <3> QED
      BY <1>0, <1>1, <1>8, <2>1, <3>2 DEF LoopHead, Ask, Paid
  <2>2. CASE pc' = "done" /\ UNCHANGED calls
    BY <1>2, <1>8, <2>2 DEF LoopHead
  <2> QED
    BY <1>8, <2>1, <2>2 DEF LoopHead, StopWith, Return
<1>9. CASE JudgeOnly \/ JudgeDraft \/ JudgeRepair \/ Unconfigured
  BY <1>2, <1>9 DEF JudgeOnly, JudgeDraft, JudgeRepair, Unconfigured,
                    RequestFails, StopWith, ReturnEmpty, Return
<1>10. CASE Returned \/ UNCHANGED vars
  BY <1>10 DEF Returned, vars, Paid
<1> QED
  BY <1>3, <1>4, <1>5, <1>6, <1>7, <1>8, <1>9, <1>10 DEF Next

\* The loop keeps its bounds for every configuration, and the requests of a
\* run theirs.
THEOREM BoundsKept == Spec => []LoopIsBounded
<1>1. Init => Paid
  BY AttemptsOfOneMore, DirectConstants DEF Init, Paid
<1>2. Typed /\ Paid => LoopIsBounded
  <2> SUFFICES ASSUME Typed, Paid PROVE sent <= (2 + calls) * (Retries + 1)
    BY DEF Typed, Counted, LoopIsBounded
  <2>1. calls + 2 = 2 + calls
    BY DEF Typed, TypeOK
  <2> QED
    BY <2>1 DEF Paid, Attempts
<1> QED
  BY <1>1, <1>2, InitTyped, StepTyped, StepPaid, PTL DEF Spec

-----------------------------------------------------------------------------
(* Who is asked again *)

\* The list after a validation.
LEMMA JudgeAppends ==
    ASSUME Typed, NEW report \in Reports, Judge(report)
    PROVE  /\ pending \in Candidates /\ report \in Report
           /\ Len(judged) \in Nat /\ Len(judged) = calls
           /\ Len(judged') = Len(judged) + 1
           /\ DOMAIN judged = 1..Len(judged)
           /\ DOMAIN judged' = 1..(Len(judged) + 1)
           /\ \A i \in 1..Len(judged) : judged'[i] = judged[i]
           /\ judged'[Len(judged) + 1] = [sql |-> pending, report |-> report]
  BY ReportsTyped, JudgedTyped, LenProperties DEF Judge, Typed, TypeOK, Counted

\* A validation that is not the last of the run.
GoesOn(report) ==
    /\ judged # <<>> => ~RepeatedError(report)
    /\ settings.correcting /\ UNCHANGED result

\* Which steps validate, and what the others leave alone.
LEMMA StepKinds ==
    ASSUME [Next]_vars
    PROVE  /\ settings' = settings
           /\ pc' # "done" => pc # "done" /\ result' = result
           /\ pc = "done" => UNCHANGED vars
           /\ \/ /\ pc = "judge" /\ calls' = calls
                 /\ \E report \in Reports :
                      /\ Judge(report)
                      /\ \/ pc' = "repair" /\ GoesOn(report)
                         \/ /\ pc' = "done"
                            /\ settings.correcting /\ judged # <<>> /\ ~Accepted(report)
                                 => result'.stop = "REPEATED_ERROR"
              \/ /\ judged' = judged
                 /\ pc' = "correct" /\ pc = "repair" => Eligible(Current.report)
                 /\ pc' = "correct" => pc \in {"correct", "repair"}
                 /\ pc' = "judge" => \/ pc = "draft"
                                     \/ pc = "correct" /\ pending' \notin SeenSql
                                     \/ pc = "judge" /\ pending' = pending
                 /\ pc = "judge" => pc' = "judge"
                 /\ calls' # calls => pc = "repair" /\ pc' = "correct"
<1> USE DEF loop, Continue, Return, ReturnEmpty, StopWith, Result
<1>1. CASE JudgeOnly
  <2>1. PICK report \in Reports : Judge(report) /\ pc' = "done"
    BY <1>1 DEF JudgeOnly
  <2> QED
    BY <1>1, <2>1 DEF JudgeOnly, Judge
<1>2. CASE JudgeDraft
  <2>1. PICK report \in Reports :
           /\ Judge(report)
           /\ pc' = "done" \/ Continue("repair")
    BY <1>2 DEF JudgeDraft
  <2> QED
    BY <1>2, <2>1 DEF JudgeDraft, Judge, GoesOn
<1>3. CASE JudgeRepair
  <2>1. PICK report \in Reports :
           /\ Judge(report)
           /\ IF Accepted(report) THEN StopWith("VALID", pending, judged')
              ELSE IF RepeatedError(report)
              THEN StopWith("REPEATED_ERROR", pending, judged')
              ELSE Continue("repair")
    BY <1>3 DEF JudgeRepair
  <2>2. settings' = settings /\ calls' = calls /\ pc = "judge"
    BY <1>3, <2>1 DEF JudgeRepair, Judge
  <2>3. CASE Accepted(report)
    BY <1>3, <2>1, <2>2, <2>3
  <2>4. CASE ~Accepted(report) /\ RepeatedError(report)
    BY <1>3, <2>1, <2>2, <2>4
  <2>5. CASE ~Accepted(report) /\ ~RepeatedError(report)
    BY <1>3, <2>1, <2>2, <2>5 DEF JudgeRepair, GoesOn
  <2> QED
    BY <2>3, <2>4, <2>5
<1>4. CASE Route \/ Planned \/ Ground
  BY <1>4 DEF Route, Planned, Ground
<1>5. CASE Drafted
  BY <1>5 DEF Drafted
<1>6. CASE Unconfigured \/ Unanswered \/ Malformed
  BY <1>6 DEF Unconfigured, Unanswered, Malformed, Send, RequestFails
<1>7. CASE LoopHead
  <2>1. CASE /\ BeforeRepair = "none" /\ Eligible(Current.report)
             /\ Ask("correct") /\ calls' = calls + 1
    BY <1>7, <2>1 DEF LoopHead, Ask
  <2>2. CASE pc' = "done" /\ UNCHANGED calls
    BY <1>7, <2>2 DEF LoopHead
  <2> QED
    BY <1>7, <2>1, <2>2 DEF LoopHead
<1>8. CASE Corrected
  <2>1. CASE pc' = "done"
    BY <1>8, <2>1 DEF Corrected
  <2>2. CASE /\ Continue("judge")
             /\ \E sql \in Candidates : sql \notin SeenSql /\ pending' = sql
    BY <1>8, <2>2 DEF Corrected
  <2> QED
    BY <1>8, <2>1, <2>2 DEF Corrected
<1>9. CASE Returned \/ UNCHANGED vars
  BY <1>9 DEF Returned, vars
<1> QED
  BY <1>1, <1>2, <1>3, <1>4, <1>5, <1>6, <1>7, <1>8, <1>9 DEF Next

\* Every candidate with a successor, judged or to come, could be repaired.
Repairable ==
    /\ \A i \in DOMAIN judged :
         \/ Eligible(judged[i].report)
         \/ i = Len(judged) /\ calls = i - 1
    /\ pc \in {"correct", "judge"} =>
         \A i \in DOMAIN judged : Eligible(judged[i].report)

\* Every step that asks the corrector again has a repairable candidate.
LEMMA StepRepairable == Typed /\ Repairable /\ [Next]_vars => Repairable'
<1> SUFFICES ASSUME Typed, Repairable, [Next]_vars PROVE Repairable'
  OBVIOUS
<1>1. ASSUME NEW report \in Reports, Judge(report), calls' = calls,
             pc = "judge", pc' \in {"repair", "done"}
      PROVE  Repairable'
  <2>0. /\ Len(judged) \in Nat /\ Len(judged) = calls
        /\ Len(judged') = Len(judged) + 1
        /\ DOMAIN judged = 1..Len(judged)
        /\ DOMAIN judged' = 1..(Len(judged) + 1)
        /\ \A i \in 1..Len(judged) : judged'[i] = judged[i]
        /\ judged'[Len(judged) + 1] = [sql |-> pending, report |-> report]
    BY <1>1, JudgeAppends
  <2>1. \A i \in 1..Len(judged) : Eligible(judged'[i].report)
    BY <1>1, <2>0 DEF Repairable
  <2>2. calls' = (Len(judged) + 1) - 1
    BY <1>1, <2>0
  <2>3. \A i \in 1..(Len(judged) + 1) : i \in 1..Len(judged) \/ i = Len(judged) + 1
    BY <2>0
  <2> QED
    BY <1>1, <2>0, <2>1, <2>2, <2>3 DEF Repairable
<1>2. CASE /\ judged' = judged
           /\ pc' = "correct" /\ pc = "repair" => Eligible(Current.report)
           /\ pc' = "correct" => pc \in {"correct", "repair"}
           /\ pc' = "judge" => pc \in {"draft", "correct", "judge"}
           /\ calls' # calls => pc = "repair" /\ pc' = "correct"
  <2>1. DOMAIN judged = 1..Len(judged)
    BY LenProperties DEF Typed, TypeOK
  <2>2. pc = "draft" => DOMAIN judged = {}
    BY EmptySeq, <2>1 DEF Typed, Counted
  <2>3. ASSUME pc' \in {"correct", "judge"}, NEW i \in DOMAIN judged
        PROVE  Eligible(judged[i].report)
    <3>1. CASE pc \in {"correct", "judge"}
      BY <3>1 DEF Repairable
    <3>2. CASE pc = "repair"
      <4>1. Eligible(judged[Len(judged)].report)
        BY <1>2, <2>3, <3>2 DEF Current
      <4>2. calls = Len(judged) - 1
        BY <3>2, <2>1 DEF Typed, TypeOK, Counted
      <4> QED
        BY <4>1 DEF Repairable
    <3>3. CASE pc = "draft"
      BY <2>2, <2>3, <3>3
    <3> QED
      BY <1>2, <2>3, <3>1, <3>2, <3>3
  <2>4. CASE calls' = calls
    BY <1>2, <2>3, <2>4 DEF Repairable
  <2>5. CASE calls' # calls
    BY <1>2, <2>3, <2>5 DEF Repairable
  <2> QED
    BY <2>4, <2>5
<1> QED
  BY <1>1, <1>2, StepKinds

\* The corrector is never asked after a candidate that cannot be repaired.
THEOREM RetriedWhenRepairable == Spec => []OnlyRepairableIsRetried
<1>1. Init => Repairable
  BY EmptySeq DEF Init, Repairable
<1>2. Typed /\ Repairable => OnlyRepairableIsRetried
  BY DEF Repairable, OnlyRepairableIsRetried, Eligible
<1> QED
  BY <1>1, <1>2, InitTyped, StepTyped, StepRepairable, PTL DEF Spec

-----------------------------------------------------------------------------
(* Progress of the loop *)

\* Only a repeated error ends a run with a repeated fingerprint, so a run
\* that goes on has none.
Fresh ==
    /\ pc # "done" => result = Running
    /\ pc # "done" /\ judged # <<>> => settings.correcting
    /\ pc = "judge" => pending \notin SeenSql
    /\ LoopMakesProgress

\* Every step keeps the candidates and the errors of a running loop distinct.
LEMMA StepFresh == Typed /\ Repairable /\ Fresh /\ [Next]_vars => Fresh'
<1> SUFFICES ASSUME Typed, Repairable, Fresh, [Next]_vars PROVE Fresh'
  OBVIOUS
<1>0. DOMAIN judged = 1..Len(judged) /\ Len(judged) \in Nat
  BY LenProperties DEF Typed, TypeOK
<1>1. /\ settings' = settings
      /\ pc' # "done" => pc # "done" /\ result' = Running
  BY StepKinds DEF Fresh
<1>2. pc # "done" =>
        \A i, j \in DOMAIN judged : i < j =>
          /\ judged[i].sql # judged[j].sql
          /\ Fingerprint(judged[i].report) # Fingerprint(judged[j].report)
  <2>1. Running.stop # "REPEATED_ERROR"
    BY DEF Running, Result
  <2> QED
    BY <2>1 DEF Fresh, LoopMakesProgress
<1>3. ASSUME NEW report \in Reports, Judge(report), pc = "judge",
             \/ pc' = "repair" /\ GoesOn(report)
             \/ /\ pc' = "done"
                /\ settings.correcting /\ judged # <<>> /\ ~Accepted(report)
                     => result'.stop = "REPEATED_ERROR"
      PROVE  Fresh'
  <2>0. /\ Len(judged) \in Nat /\ Len(judged) = calls
        /\ Len(judged') = Len(judged) + 1
        /\ DOMAIN judged = 1..Len(judged)
        /\ DOMAIN judged' = 1..(Len(judged) + 1)
        /\ \A i \in 1..Len(judged) : judged'[i] = judged[i]
        /\ judged'[Len(judged) + 1] = [sql |-> pending, report |-> report]
    BY <1>3, JudgeAppends
  <2>1. \A i \in 1..Len(judged) : judged[i].sql # pending
    BY <1>0, <1>3 DEF Fresh, SeenSql
  <2>2. ASSUME NEW i \in 1..Len(judged),
               Fingerprint(judged[i].report) = Fingerprint(report)
        PROVE  result'.stop = "REPEATED_ERROR"
    <3>1. judged # <<>>
      BY <1>0, <2>2, EmptySeq
    <3>2. settings.correcting
      BY <1>3, <3>1 DEF Fresh
    <3>3. RepeatedError(report)
      BY <1>0, <2>2 DEF RepeatedError, SeenErrors
    <3>4. Eligible(judged[i].report)
      BY <1>0, <1>3 DEF Repairable
    <3>5. ~Accepted(report)
      BY <2>2, <3>4 DEF Eligible, Accepted, Fingerprint
    <3> QED
      BY <1>3, <3>1, <3>2, <3>3, <3>5 DEF GoesOn
  <2>3. LoopMakesProgress'
    <3> SUFFICES ASSUME NEW i \in 1..(Len(judged) + 1), NEW j \in 1..(Len(judged) + 1),
                        i < j
                 PROVE  /\ judged'[i].sql # judged'[j].sql
                        /\ Fingerprint(judged'[i].report) = Fingerprint(judged'[j].report)
                             => j = Len(judged') /\ result'.stop = "REPEATED_ERROR"
      BY <2>0 DEF LoopMakesProgress, Fingerprint
    <3>1. i \in 1..Len(judged) /\ judged'[i] = judged[i]
      BY <2>0
    <3>2. CASE j \in 1..Len(judged)
      BY <1>2, <1>3, <2>0, <3>1, <3>2
    <3>3. CASE j = Len(judged) + 1
      <4>1. judged'[j].sql = pending /\ judged'[j].report = report /\ j = Len(judged')
        BY <2>0, <3>3
      <4> QED
        BY <2>1, <2>2, <3>1, <4>1
    <3> QED
      BY <1>0, <3>2, <3>3
  <2> QED
    BY <1>1, <1>3, <2>3 DEF Fresh, GoesOn
<1>4. CASE /\ judged' = judged
           /\ pc' = "judge" => \/ pc = "draft"
                               \/ pc = "correct" /\ pending' \notin SeenSql
                               \/ pc = "judge" /\ pending' = pending
  <2>1. LoopMakesProgress'
    <3>1. CASE pc # "done"
      BY <1>2, <1>4, <3>1 DEF LoopMakesProgress, Fingerprint
    <3>2. CASE pc = "done"
      <4>1. result' = result
        BY <3>2, StepKinds DEF vars
      <4> QED
        BY <1>4, <4>1 DEF Fresh, LoopMakesProgress, Fingerprint
    <3> QED
      BY <3>1, <3>2
  <2>2. pc' = "judge" => pending' \notin SeenSql
    <3>1. pc = "draft" => SeenSql = {}
      BY <1>0, EmptySeq DEF Typed, Counted, SeenSql
    <3> QED
      BY <1>4, <3>1 DEF Fresh
  <2>3. SeenSql' = SeenSql
    BY <1>4 DEF SeenSql
  <2> QED
    BY <1>1, <1>4, <2>1, <2>2, <2>3 DEF Fresh
<1> QED
  BY <1>3, <1>4, StepKinds

\* No SQL is validated twice, and a repeated error is the last, whatever the
\* bounds of the loop and however many validations lie between.
THEOREM ProgressMade == Spec => []LoopMakesProgress
<1>1. Init => Repairable /\ Fresh
  BY EmptySeq DEF Init, Repairable, Fresh, LoopMakesProgress
<1>2. Fresh => LoopMakesProgress
  BY DEF Fresh
<1> QED
  BY <1>1, <1>2, InitTyped, StepTyped, StepRepairable, StepFresh, PTL DEF Spec

-----------------------------------------------------------------------------
(* What is returned *)

\* No candidate at all,
Empty == result.sql = NoSql /\ result.status # "SUCCEEDED"

\* the last one judged,
Last ==
    /\ judged # <<>>
    /\ result.sql = Current.sql /\ result.class = Current.report.class
    /\ result.rows \in {NoSql, Current.sql}
    /\ result.status = "SUCCEEDED" => Accepted(Current.report)

\* or an earlier one that the corrector repeated.
Earlier ==
    /\ judged # <<>>
    /\ result.sql \in SeenSql /\ result.class = Current.report.class
    /\ result.status # "SUCCEEDED"
    /\ settings.repairs < 2 => Len(judged) = 1
    /\ Len(judged) = 1 => result.rows = NoSql

Returns == pc = "done" => Empty \/ Last \/ Earlier

\* A return without a candidate.
LEMMA EmptyReturned ==
    ASSUME NEW status \in Status \ {"SUCCEEDED"}, ReturnEmpty(status)
    PROVE  Returns'
  BY DEF ReturnEmpty, Return, Result, Returns, Empty, Status

\* A loop that stops with the last candidate.
LEMMA LastReturned ==
    ASSUME judged' \in Seq([sql : Candidates, report : Report]), judged' # <<>>,
           NEW stop, StopWith(stop, judged'[Len(judged')].sql, judged')
    PROVE  Returns'
<1>1. judged'[Len(judged')].report \in Report
  BY LastTyped
<1>2. StatusForReport(judged'[Len(judged')].report) = "SUCCEEDED"
        => Accepted(judged'[Len(judged')].report)
  BY <1>1, ReportTyped
<1> QED
  BY <1>2 DEF StopWith, Return, Result, Returns, Last, Current

\* Every return is one of the three.
LEMMA StepReturns == Typed /\ Repairable /\ Returns /\ [Next]_vars => Returns'
<1> SUFFICES ASSUME Typed, Repairable, Returns, [Next]_vars PROVE Returns'
  OBVIOUS
<1> USE DEF loop, Continue
<1>0. judged \in Seq([sql : Candidates, report : Report])
  BY DEF Typed, TypeOK
<1>judge. ASSUME NEW report \in Reports, Judge(report)
          PROVE  /\ judged' \in Seq([sql : Candidates, report : Report])
                 /\ judged' # <<>> /\ report \in Report
                 /\ judged'[Len(judged')] = [sql |-> pending, report |-> report]
  <2>1. /\ pending \in Candidates /\ report \in Report
        /\ Len(judged) \in Nat /\ Len(judged') = Len(judged) + 1
        /\ judged'[Len(judged) + 1] = [sql |-> pending, report |-> report]
    BY <1>judge, JudgeAppends
  <2>2. judged' \in Seq([sql : Candidates, report : Report])
    BY <1>0, <1>judge, <2>1, JudgedTyped DEF Judge
  <2> QED
    BY <2>1, <2>2, EmptySeq
<1>1. CASE JudgeOnly
  <2>1. PICK report \in Reports :
         /\ Judge(report)
         /\ IF Accepted(report)
            THEN Return("SUCCEEDED", "none", pending, pending, "NONE")
            ELSE Return(IF report.at = "policy" THEN "POLICY_BLOCKED"
                        ELSE "EXECUTION_ERROR",
                        "none", pending, NoSql, report.class)
    BY <1>1 DEF JudgeOnly
  <2>2. judged'[Len(judged')] = [sql |-> pending, report |-> report] /\ judged' # <<>>
    BY <1>judge, <2>1
  <2>3. CASE Accepted(report)
    BY <2>1, <2>2, <2>3 DEF Accepted, Return, Result, Returns, Last, Current
  <2>4. CASE ~Accepted(report)
    BY <2>1, <2>2, <2>4 DEF Return, Result, Returns, Last, Current
  <2> QED
    BY <2>3, <2>4
<1>2. CASE JudgeDraft
  <2>1. PICK report \in Reports :
         /\ Judge(report)
         /\ IF Accepted(report)
            THEN Return("SUCCEEDED", "none", pending, pending, "NONE")
            ELSE IF ~Eligible(report)
            THEN StopWith("NOT_ELIGIBLE", pending, judged')
            ELSE Continue("repair")
    BY <1>2 DEF JudgeDraft
  <2>2. /\ judged'[Len(judged')] = [sql |-> pending, report |-> report]
        /\ judged' \in Seq([sql : Candidates, report : Report]) /\ judged' # <<>>
    BY <1>judge, <2>1
  <2>3. CASE Accepted(report)
    BY <2>1, <2>2, <2>3 DEF Accepted, Return, Result, Returns, Last, Current
  <2>4. CASE ~Accepted(report) /\ ~Eligible(report)
    BY <2>1, <2>2, <2>4, LastReturned
  <2>5. CASE ~Accepted(report) /\ Eligible(report)
    BY <2>1, <2>5 DEF Returns
  <2> QED
    BY <2>3, <2>4, <2>5
<1>3. CASE JudgeRepair
  <2>1. PICK report \in Reports :
         /\ Judge(report)
         /\ \/ \E stop : StopWith(stop, pending, judged')
            \/ Continue("repair")
    BY <1>3 DEF JudgeRepair
  <2>2. /\ judged'[Len(judged')] = [sql |-> pending, report |-> report]
        /\ judged' \in Seq([sql : Candidates, report : Report]) /\ judged' # <<>>
    BY <1>judge, <2>1
  <2>3. CASE \E stop : StopWith(stop, pending, judged')
    BY <2>2, <2>3, LastReturned
  <2> QED
    BY <2>1, <2>3 DEF Returns
<1>4. CASE Route \/ Ground
  BY <1>4, EmptyReturned DEF Route, Ground, Status, Returns
<1>5. CASE Drafted
  BY <1>5, EmptyReturned DEF Drafted, Status, Returns
<1>6. CASE Planned \/ Malformed
  BY <1>6 DEF Planned, Malformed, Send, Returns
<1>fails. ASSUME RequestFails, pc \in {"plan", "draft", "correct"}, judged' = judged
          PROVE  Returns'
  <2>1. CASE pc = "correct"
    <3>1. judged # <<>>
      BY <2>1 DEF Typed, Counted
    <3> QED
      BY <1>0, <1>fails, <2>1, <3>1, LastReturned DEF RequestFails, Current
  <2>2. CASE pc # "correct"
    BY <1>fails, <2>2, EmptyReturned DEF RequestFails, Status
  <2> QED
    BY <2>1, <2>2
<1>7. CASE Unconfigured \/ Unanswered
  BY <1>7, <1>fails DEF Unconfigured, Unanswered, Send
<1>8. CASE LoopHead
  <2>1. judged # <<>> /\ judged' = judged
    BY <1>8 DEF LoopHead, Typed, Counted
  <2>2. CASE \E stop : StopWith(stop, Current.sql, judged)
    BY <1>0, <2>1, <2>2, LastReturned DEF Current
  <2>3. CASE Ask("correct")
    BY <2>3 DEF Ask, Returns
  <2> QED
    BY <1>8, <2>2, <2>3 DEF LoopHead
<1>9. CASE Corrected
  <2>0. pc = "correct" /\ judged # <<>> /\ judged' = judged /\ settings' = settings
    BY <1>9 DEF Corrected, Typed, Counted
  <2>1. CASE StopWith("MODEL_ERROR", Current.sql, judged)
    BY <1>0, <2>0, <2>1, LastReturned DEF Current
  <2>2. ASSUME NEW sql \in SeenSql, StopWith("REPEATED_SQL", sql, judged)
        PROVE  Returns'
    <3>1. /\ Len(judged) \in DOMAIN judged /\ Len(judged) \in Nat
          /\ Current.report \in Report
      BY <1>0, <2>0, LastTyped DEF Current
    <3>2. ~Accepted(Current.report)
      BY <2>0, <3>1 DEF Repairable, Current, Eligible, Accepted
    <3>3. StatusForReport(Current.report) # "SUCCEEDED"
      BY <3>1, <3>2, ReportTyped
    <3>4. settings.repairs < 2 => Len(judged) = 1
      BY <2>0, DirectConstants DEF Typed, TypeOK, Counted, Configuration
    <3>5. SeenSql' = SeenSql /\ Current' = Current
      BY <2>0 DEF SeenSql, Current
    <3>6. /\ result'.sql = sql /\ result'.class = Current.report.class
          /\ result'.status = StatusForReport(Current.report)
          /\ Len(judged) = 1 => result'.rows = NoSql
      BY <2>2 DEF StopWith, Return, Result, Current
    <3>7. Earlier'
      BY <2>0, <2>2, <3>3, <3>4, <3>5, <3>6 DEF Earlier
    <3> QED
      BY <3>7 DEF Returns
  <2>3. CASE Continue("judge")
    BY <2>3 DEF Returns
  <2> QED
    BY <1>9, <2>1, <2>2, <2>3 DEF Corrected
<1>10. CASE Returned \/ UNCHANGED vars
  BY <1>10 DEF Returned, vars, Returns, Empty, Last, Earlier, Current, SeenSql
<1> QED
  BY <1>1, <1>2, <1>3, <1>4, <1>5, <1>6, <1>7, <1>8, <1>9, <1>10 DEF Next

\* The class and the rows of a result are its candidate's, for every bound on
\* the calls and every set of candidates, when one repair is configured.
THEOREM ResultFits == Spec => []ResultIsOfCandidate
<1>1. Init => Returns
  BY DEF Init, Returns
<1>2. Typed /\ Fresh /\ Returns => ResultIsOfCandidate
  <2> SUFFICES ASSUME Typed, Fresh, Returns, settings.repairs < 2, result.sql # NoSql
               PROVE  /\ result.rows \in {NoSql, result.sql}
                      /\ \E i \in DOMAIN judged :
                           /\ judged[i].sql = result.sql
                           /\ judged[i].report.class = result.class
    BY DEF ResultIsOfCandidate
  <2>1. Last \/ Earlier
    BY DEF Returns, Fresh, Empty, Running, Result
  <2>2. Len(judged) \in DOMAIN judged /\ DOMAIN judged = 1..Len(judged)
    BY <2>1, LastTyped, LenProperties DEF Typed, TypeOK, Last, Earlier
  <2>3. CASE Last
    BY <2>2, <2>3 DEF Last, Current
  <2>4. CASE Earlier
    BY <2>2, <2>4 DEF Earlier, SeenSql, Current
  <2> QED
    BY <2>1, <2>3, <2>4
<1>3. Init => Repairable /\ Fresh
  BY EmptySeq DEF Init, Repairable, Fresh, LoopMakesProgress
<1> QED
  BY <1>1, <1>2, <1>3, InitTyped, StepTyped, StepRepairable, StepFresh,
     StepReturns, PTL DEF Spec

-----------------------------------------------------------------------------
(* Refinement of CandidateGate *)

Proven == Typed /\ Repairable /\ Fresh /\ Returns

\* A run starts with all of the invariants,
LEMMA InitProven == Init => Proven
<1>1. Init => Repairable /\ Fresh /\ Returns
  BY EmptySeq DEF Init, Repairable, Fresh, LoopMakesProgress, Returns
<1> QED
  BY <1>1, InitTyped DEF Proven

\* and keeps them.
LEMMA StepProven == Proven /\ [Next]_vars => Proven'
  BY StepTyped, StepRepairable, StepFresh, StepReturns DEF Proven

\* The refinement mapping, named.
Verdicts == [i \in DOMAIN judged |->
               [sql |-> judged[i].sql, good |-> Accepted(judged[i].report)]]

Ended == result # Running

Chosen == IF result.status = "SUCCEEDED"
          THEN CHOOSE i \in DOMAIN judged : judged[i].sql = result.sql
          ELSE 0

\* A run that has not returned has not ended and has no answer.
LEMMA NotEnded == Proven => (Ended <=> pc = "done") /\ (pc # "done" => Chosen = 0)
<1> SUFFICES ASSUME Proven PROVE (Ended <=> pc = "done") /\ (pc # "done" => Chosen = 0)
  OBVIOUS
<1>1. Running.status = "running"
  BY DEF Running, Result
<1>2. pc = "done" <=> result.status # "running"
  BY DEF Proven, Typed, TypeOK
<1>3. pc # "done" => result = Running
  BY DEF Proven, Fresh
<1> QED
  BY <1>1, <1>2, <1>3 DEF Ended, Chosen

\* The answer of a run that has returned was judged good.
LEMMA ChosenIsGood == Proven /\ pc = "done" =>
    Chosen \in {0} \cup {i \in DOMAIN Verdicts : Verdicts[i].good}
<1> SUFFICES ASSUME Proven, pc = "done", result.status = "SUCCEEDED"
             PROVE  /\ Chosen \in DOMAIN judged
                    /\ Accepted(judged[Chosen].report)
  BY DEF Verdicts, Chosen
<1>1. Last
  BY DEF Proven, Returns, Empty, Earlier
<1>2. Len(judged) \in DOMAIN judged /\ DOMAIN judged = 1..Len(judged)
      /\ Len(judged) \in Nat
  BY <1>1, LastTyped, LenProperties DEF Proven, Typed, TypeOK, Last
<1>3. judged[Len(judged)].sql = result.sql /\ Accepted(judged[Len(judged)].report)
  BY <1>1 DEF Last, Current
<1>4. Chosen \in DOMAIN judged /\ judged[Chosen].sql = result.sql
  BY <1>2, <1>3 DEF Chosen
<1>5. Chosen = Len(judged)
  BY <1>2, <1>3, <1>4 DEF Proven, Fresh, LoopMakesProgress
<1> QED
  BY <1>3, <1>4, <1>5

\* The gate's list is as long as the run's.
LEMMA VerdictsTyped ==
    judged \in Seq([sql : Candidates, report : Report])
      => /\ Verdicts \in Seq([sql : Candidates, good : BOOLEAN])
         /\ Len(Verdicts) = Len(judged)
<1> SUFFICES ASSUME judged \in Seq([sql : Candidates, report : Report])
             PROVE  /\ Verdicts \in Seq([sql : Candidates, good : BOOLEAN])
                    /\ Len(Verdicts) = Len(judged)
  OBVIOUS
<1>1. /\ Len(judged) \in Nat /\ DOMAIN judged = 1..Len(judged)
      /\ \A i \in 1..Len(judged) : judged[i].sql \in Candidates
  <2>1. /\ Len(judged) \in Nat /\ DOMAIN judged = 1..Len(judged)
        /\ judged \in [1..Len(judged) -> [sql : Candidates, report : Report]]
    BY LenProperties
  <2> QED
    BY <2>1
<1>2. Verdicts \in [1..Len(judged) -> [sql : Candidates, good : BOOLEAN]]
  BY <1>1 DEF Verdicts, Accepted
<1>3. Verdicts \in Seq([sql : Candidates, good : BOOLEAN])
  <2>1. \E n \in Nat : Verdicts \in [1..n -> [sql : Candidates, good : BOOLEAN]]
    BY <1>1, <1>2
  <2>2. Seq([sql : Candidates, good : BOOLEAN])
          = UNION {[1..n -> [sql : Candidates, good : BOOLEAN]] : n \in Nat}
    BY SeqDef
  <2> QED
    BY <2>1, <2>2, Zenon
<1> QED
  BY <1>1, <1>2, <1>3, LenProperties

\* Every step of the run is a step of the gate, or none.
LEMMA StepGate ==
    Proven /\ Proven' /\ [Next]_vars
      => [Gate!Next]_<<pending, Verdicts, Ended, Chosen>>
<1> SUFFICES ASSUME Proven, Proven', [Next]_vars
             PROVE  \/ Gate!Next
                    \/ UNCHANGED <<pending, Verdicts, Ended, Chosen>>
  OBVIOUS
<1>0. /\ Ended <=> pc = "done"
      /\ Ended' <=> pc' = "done"
      /\ pc # "done" => Chosen = 0
      /\ pc' # "done" => Chosen' = 0
  <2>1. (Proven => (Ended <=> pc = "done") /\ (pc # "done" => Chosen = 0))'
    BY NotEnded, PTL
  <2> QED
    BY <2>1, NotEnded
<1>1. /\ Ended \in BOOLEAN /\ Ended' \in BOOLEAN
  BY DEF Ended
<1>2. ASSUME pc' = "done"
      PROVE  Chosen' \in {0} \cup {i \in DOMAIN Verdicts' : Verdicts'[i].good}
  <2>1. (Proven /\ pc = "done" =>
           Chosen \in {0} \cup {i \in DOMAIN Verdicts : Verdicts[i].good})'
    BY ChosenIsGood, PTL
  <2> QED
    BY <1>2, <2>1
<1>3. /\ pc # "judge" => pending = NoSql
      /\ pc' # "judge" => pending' = NoSql
      /\ pc = "judge" => pending \in Candidates
      /\ pc' = "judge" => pending' \in Candidates
  BY DEF Proven, Typed, Counted
<1>4. NoSql \notin Candidates
  BY DirectConstants
<1>5. ASSUME NEW report \in Reports, Judge(report), pc = "judge",
             pc' \in {"repair", "done"}
      PROVE  Gate!Judge
  <2>1. /\ Len(judged) \in Nat
        /\ DOMAIN judged = 1..Len(judged)
        /\ DOMAIN judged' = 1..(Len(judged) + 1)
        /\ \A i \in 1..Len(judged) : judged'[i] = judged[i]
        /\ judged'[Len(judged) + 1] = [sql |-> pending, report |-> report]
    BY <1>5, JudgeAppends DEF Proven
  <2>2. Verdicts' = Append(Verdicts, [sql |-> pending, good |-> Accepted(report)])
    <3> DEFINE verdict == [sql |-> pending, good |-> Accepted(report)]
    <3>1. verdict \in [sql : Candidates, good : BOOLEAN]
      BY <1>3, <1>5 DEF Accepted
    <3>2. /\ Verdicts \in Seq([sql : Candidates, good : BOOLEAN])
          /\ Len(Verdicts) = Len(judged)
      BY VerdictsTyped DEF Proven, Typed, TypeOK
    <3>3. /\ Verdicts' \in Seq([sql : Candidates, good : BOOLEAN])
          /\ Len(Verdicts') = Len(judged) + 1
      <4>1. (judged \in Seq([sql : Candidates, report : Report])
               => /\ Verdicts \in Seq([sql : Candidates, good : BOOLEAN])
                  /\ Len(Verdicts) = Len(judged))'
        BY VerdictsTyped, PTL
      <4>2. judged' \in Seq([sql : Candidates, report : Report])
        BY DEF Proven, Typed, TypeOK
      <4>3. Len(judged') = Len(judged) + 1
        BY <1>5, JudgeAppends DEF Proven
      <4> QED
        BY <4>1, <4>2, <4>3
    <3>4. /\ Append(Verdicts, verdict) \in Seq([sql : Candidates, good : BOOLEAN])
          /\ Len(Append(Verdicts, verdict)) = Len(judged) + 1
          /\ \A i \in 1..Len(judged) : Append(Verdicts, verdict)[i] = Verdicts[i]
          /\ Append(Verdicts, verdict)[Len(judged) + 1] = verdict
      BY <2>1, <3>1, <3>2, AppendProperties
    <3>5. \A i \in 1..(Len(judged) + 1) : Verdicts'[i] = Append(Verdicts, verdict)[i]
      BY <2>1, <3>4 DEF Verdicts, Accepted
    <3> QED
      BY <3>3, <3>4, <3>5, SeqEqual
  <2>3. Accepted(report) \in BOOLEAN
    BY DEF Accepted
  <2> QED
    BY <1>0, <1>1, <1>2, <1>3, <1>4, <1>5, <2>2, <2>3
       DEF Gate!Judge, Gate!Decide, Verdicts, Ended, Chosen
<1>6. ASSUME judged' = judged, pc' = "judge",
             pc \in {"draft", "correct"}
      PROVE  Gate!Propose
  <2>1. Verdicts' = Verdicts
    BY <1>6 DEF Verdicts, Accepted
  <2>2. Len(Verdicts) < 3
    <3>1. Len(Verdicts) = Len(judged)
      BY VerdictsTyped DEF Proven, Typed, TypeOK
    <3>2. settings.repairs \in 0..2 /\ repairs \in 0..2
      BY DirectConstants DEF Proven, Typed, TypeOK, Configuration
    <3>3. CASE pc = "draft"
      BY <3>1, <3>3, EmptySeq DEF Proven, Typed, Counted
    <3>4. CASE pc = "correct"
      BY <3>1, <3>2, <3>4 DEF Proven, Typed, Counted
    <3> QED
      BY <1>6, <3>3, <3>4
  <2> QED
    BY <1>0, <1>1, <1>3, <1>6, <2>1, <2>2
       DEF Gate!Propose, Verdicts, Ended, Chosen
<1>7. ASSUME judged' = judged, pc' = "done", pc # "done"
      PROVE  Gate!Answer
  <2>1. Verdicts' = Verdicts
    BY <1>7 DEF Verdicts, Accepted
  <2> QED
    BY <1>0, <1>1, <1>2, <1>3, <1>7, <2>1
       DEF Gate!Answer, Gate!Decide, Verdicts, Ended, Chosen
<1>8. ASSUME judged' = judged, pc' # "done", pc # "done",
             pc' = "judge" => pc = "judge" /\ pending' = pending,
             pc = "judge" => pc' = "judge"
      PROVE  UNCHANGED <<pending, Verdicts, Ended, Chosen>>
  BY <1>0, <1>1, <1>3, <1>8 DEF Verdicts, Accepted
<1>9. ASSUME pc = "done"
      PROVE  UNCHANGED <<pending, Verdicts, Ended, Chosen>>
  <2>1. UNCHANGED <<pending, judged, result>>
    BY <1>9, StepKinds DEF vars
  <2>2. Verdicts' = Verdicts
    BY <2>1 DEF Verdicts, Accepted
  <2>3. Ended' = Ended
    BY <2>1 DEF Ended
  <2>4. Chosen' = Chosen
    BY <2>1 DEF Chosen
  <2> QED
    BY <2>1, <2>2, <2>3, <2>4
<1> QED
  BY <1>5, <1>6, <1>7, <1>8, <1>9, StepKinds DEF Gate!Next

\* The pipeline is a gate of at most three candidates, whatever they are.
THEOREM GateImplemented == Spec => OnlyAcceptedIsAnswered
<1>1. Init => Gate!Init
  <2> SUFFICES ASSUME Init PROVE Gate!Init
    OBVIOUS
  <2>1. Verdicts = <<>>
    BY EmptySeq DEF Init, Verdicts
  <2>2. ~Ended /\ Chosen = 0
    BY DEF Init, Ended, Chosen, Running, Result
  <2> QED
    BY <2>1, <2>2 DEF Init, Gate!Init, Verdicts, Ended, Chosen
<1> QED
  BY <1>1, InitProven, StepProven, StepGate, PTL
     DEF Spec, OnlyAcceptedIsAnswered, Gate!Spec, Verdicts, Ended, Chosen
=============================================================================
