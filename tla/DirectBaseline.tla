--------------------------- MODULE DirectBaseline --------------------------
(***************************************************************************)
(* One run of the default pipeline, P6 (layer6_application/                *)
(* query_service.py): a question is routed, planned, grounded and drafted, *)
(* the draft is validated, and while it is rejected a bounded loop         *)
(* (layer5_correction/service.py) asks the model for another candidate and *)
(* validates that one.                                                     *)
(*                                                                         *)
(* Candidates are names: what a validation says of one, a report, is       *)
(* chosen when it is validated, for no SQL is validated twice.             *)
(***************************************************************************)
EXTENDS Naturals, Sequences

CONSTANTS AllSettings, \* the configurations of the service
          Candidates,  \* the SQL the model may write, normalised
          Signals,     \* what a validator may object to
          Retries,     \* malformed_retries of the provider
          NoSql        \* None

Configuration ==
    [guarded : BOOLEAN,    \* guarded_run and ollama_num_gpu are set
     grounded : BOOLEAN,   \* there is a grounding service
     correcting : BOOLEAN, \* there is a correction service
     repairs : 0..2, calls : Nat] \* its max_repairs and max_llm_calls

ASSUME DirectConstants ==
    /\ AllSettings \subseteq Configuration
    /\ Retries \in Nat
    /\ NoSql \notin Candidates

VARIABLES
    settings, \* the configuration of the service
    pc,       \* what run() is doing; plan, draft and correct are requests
    late,     \* less than min_remaining_seconds of the deadline are left
    tries,    \* answers of this request that were malformed
    sent,     \* generation requests sent to the server
    pending,  \* the candidate to validate
    judged,   \* the candidates validated, with their reports
    repairs,  \* of the correction loop: candidates it received,
    calls,    \* and the calls it made
    result    \* what run() returns

vars == <<settings, pc, late, tries, sent, pending, judged, repairs, calls,
          result>>
loop == <<judged, repairs, calls>>

-----------------------------------------------------------------------------
(* Reports *)

(***************************************************************************)
(* ValidationReport: where the candidate was judged, the error class       *)
(* ("NONE" of an accepted one) and the signals.  Only a result or its      *)
(* query can be objected to by signals.                                    *)
(***************************************************************************)
Report ==
    [at : {"policy"}, class : {"POLICY_VIOLATION", "UNKNOWN_TABLE"},
     signals : {{}}]
    \cup [at : {"execution"}, signals : {{}},
          class : {"AMBIGUOUS_COLUMN", "UNKNOWN_RUNTIME_ERROR"}]
    \cup [at : {"result"}, class : {"NONE"}, signals : {{}}]
    \cup [at : {"result"}, class : {"RESULT_SHAPE_MISMATCH", "SEMANTIC_MISMATCH"},
          signals : (SUBSET Signals) \ {{}}]

Classes == {"NONE", "POLICY_VIOLATION", "UNKNOWN_TABLE", "AMBIGUOUS_COLUMN",
            "UNKNOWN_RUNTIME_ERROR", "RESULT_SHAPE_MISMATCH", "SEMANTIC_MISMATCH"}

\* Without a plan nothing objects to a result that executed.
Reports == {r \in Report : settings.correcting \/ r.signals = {}}

Accepted(report) == report.class = "NONE"

\* Mutant: only a blocked candidate is not repaired.
EligibleUnlessBlocked(report) ==
    report.class \notin {"NONE", "POLICY_VIOLATION"}

\* classify_for_repair
Eligible(report) ==
    report.class \notin {"NONE", "POLICY_VIOLATION", "TIMEOUT",
                         "UNKNOWN_RUNTIME_ERROR"}

Fingerprint(report) == [class |-> report.class, signals |-> report.signals]

Current == judged[Len(judged)]

\* The locals of CorrectionService.run.
SeenSql    == {judged[i].sql : i \in DOMAIN judged}
SeenErrors == {Fingerprint(judged[i].report) : i \in DOMAIN judged}

-----------------------------------------------------------------------------
(* State *)

Stops == {"none", "VALID", "NOT_ELIGIBLE", "MAX_REPAIRS", "CALL_BUDGET",
          "DEADLINE", "REPEATED_SQL", "REPEATED_ERROR", "MODEL_ERROR"}

Status == {"SUCCEEDED", "CLARIFY", "UNSUPPORTED", "WRITE_BLOCKED",
           "MODEL_ERROR", "GROUNDING_ERROR", "INVALID_SQL", "POLICY_BLOCKED",
           "EXECUTION_ERROR", "VALIDATION_FAILED"}

\* DirectRunResult: rows is the candidate whose rows are returned.
Result(status, stop, sql, rows, class) ==
    [status |-> status, stop |-> stop, sql |-> sql, rows |-> rows,
     class |-> class]

Running == Result("running", "none", NoSql, NoSql, "NONE")

TypeOK ==
    /\ settings \in AllSettings
    /\ pc \in {"route", "plan", "ground", "draft", "judge", "repair",
               "correct", "done"}
    /\ late \in BOOLEAN
    /\ tries \in 0..Retries
    /\ sent \in Nat
    /\ pending \in Candidates \cup {NoSql}
    /\ judged \in Seq([sql : Candidates, report : Report])
    /\ repairs \in 0..2 /\ calls \in Nat
    /\ result \in [status : Status \cup {"running"}, stop : Stops,
                   sql : Candidates \cup {NoSql}, rows : Candidates \cup {NoSql},
                   class : Classes]
    /\ pc = "done" <=> result.status # "running"

Init ==
    /\ settings \in AllSettings
    /\ pc = "route" /\ late = FALSE /\ tries = 0 /\ sent = 0
    /\ pending = NoSql /\ judged = <<>> /\ repairs = 0 /\ calls = 0
    /\ result = Running

TimePasses == late' \in {late, TRUE}

Return(status, stop, sql, rows, class) ==
    pc' = "done" /\ result' = Result(status, stop, sql, rows, class)

ReturnEmpty(status) == Return(status, "none", NoSql, NoSql, "NONE")

Continue(at) == pc' = at /\ UNCHANGED result

Ask(stage) == Continue(stage) /\ tries' = 0

-----------------------------------------------------------------------------
(* The result of a correction *)

\* _status_for_report, or SUCCEEDED of a candidate that recovered.
StatusForReport(report) ==
    CASE Accepted(report)                     -> "SUCCEEDED"
      [] report.class = "POLICY_VIOLATION"    -> "POLICY_BLOCKED"
      [] report.class \in {"RESULT_SHAPE_MISMATCH", "SEMANTIC_MISMATCH"}
                                              -> "VALIDATION_FAILED"
      [] OTHER                                -> "EXECUTION_ERROR"

\* Mutant: the loop returns the draft it was given.
StopWithDraft(stop, sql, list) ==
    LET last == list[Len(list)]
    IN  Return(StatusForReport(last.report), stop, list[1].sql,
               IF Len(list) > 1 /\ last.report.at = "result"
               THEN last.sql ELSE NoSql,
               last.report.class)

\* What CorrectionService.run returns: a candidate, with the last report and
\* its rows.  The rows of the draft are not handed to the loop.
StopWith(stop, sql, list) ==
    LET last == list[Len(list)]
    IN  Return(StatusForReport(last.report), stop, sql,
               IF Len(list) > 1 /\ last.report.at = "result"
               THEN last.sql ELSE NoSql,
               last.report.class)

-----------------------------------------------------------------------------
(* Requests *)

\* generate_structured without a budget: only the retries are counted.
Send ==
    /\ pc \in {"plan", "draft", "correct"} /\ settings.guarded
    /\ sent' = sent + 1
    /\ TimePasses

RequestFails ==
    IF pc = "correct" THEN StopWith("MODEL_ERROR", Current.sql, judged)
    ELSE ReturnEmpty("MODEL_ERROR")

Unconfigured ==
    /\ pc \in {"plan", "draft", "correct"} /\ ~settings.guarded
    /\ RequestFails
    /\ UNCHANGED <<settings, late, tries, sent, pending, loop>>

\* The server fails, or the last answer is malformed.
Unanswered ==
    /\ Send
    /\ RequestFails
    /\ UNCHANGED <<settings, tries, pending, loop>>

MayRetry == tries < Retries

Malformed ==
    /\ Send
    /\ MayRetry
    /\ tries' = tries + 1
    /\ UNCHANGED <<settings, pc, pending, loop, result>>

-----------------------------------------------------------------------------
(* The run up to the first report *)

Route ==
    /\ pc = "route"
    /\ \/ \E s \in {"CLARIFY", "UNSUPPORTED", "WRITE_BLOCKED"} : ReturnEmpty(s)
       \/ Continue("plan")
    /\ UNCHANGED <<settings, late, tries, sent, pending, loop>>

Planned ==
    /\ pc = "plan" /\ Send
    /\ IF settings.grounded THEN Continue("ground") ELSE Continue("draft")
    /\ tries' = 0
    /\ UNCHANGED <<settings, pending, loop>>

Ground ==
    /\ pc = "ground"
    /\ TimePasses
    /\ ReturnEmpty("GROUNDING_ERROR") \/ Continue("draft")
    /\ UNCHANGED <<settings, tries, sent, pending, loop>>

\* A draft that does not parse as one query never reaches the validation.
Drafted ==
    /\ pc = "draft" /\ Send
    /\ \/ ReturnEmpty("INVALID_SQL") /\ UNCHANGED pending
       \/ Continue("judge") /\ pending' \in Candidates
    /\ UNCHANGED <<settings, tries, loop>>

Judge(report) ==
    /\ pc = "judge"
    /\ judged' = Append(judged, [sql |-> pending, report |-> report])
    /\ pending' = NoSql
    /\ TimePasses

\* Without a correction service: policy, execution, and no more.
JudgeOnly ==
    /\ ~settings.correcting
    /\ \E report \in Reports :
         /\ Judge(report)
         /\ IF Accepted(report)
            THEN Return("SUCCEEDED", "none", pending, pending, "NONE")
            ELSE Return(IF report.at = "policy" THEN "POLICY_BLOCKED"
                        ELSE "EXECUTION_ERROR",
                        "none", pending, NoSql, report.class)
    /\ UNCHANGED <<settings, tries, sent, repairs, calls>>

JudgeDraft ==
    /\ settings.correcting /\ judged = <<>>
    /\ \E report \in Reports :
         /\ Judge(report)
         /\ IF Accepted(report)
            THEN Return("SUCCEEDED", "none", pending, pending, "NONE")
            ELSE IF ~Eligible(report)
            THEN StopWith("NOT_ELIGIBLE", pending, judged')
            ELSE Continue("repair")
    /\ UNCHANGED <<settings, tries, sent, repairs, calls>>

-----------------------------------------------------------------------------
(* The correction loop *)

\* LoopController.before_repair
BeforeRepair ==
    IF repairs >= settings.repairs THEN "MAX_REPAIRS"
    ELSE IF calls >= settings.calls THEN "CALL_BUDGET"
    ELSE IF late THEN "DEADLINE"
    ELSE "none"

LoopHead ==
    /\ pc = "repair"
    /\ LET stop == IF BeforeRepair # "none" THEN BeforeRepair
                   ELSE IF ~Eligible(Current.report) THEN "NOT_ELIGIBLE"
                   ELSE "none"
       IN  IF stop # "none"
           THEN StopWith(stop, Current.sql, judged) /\ UNCHANGED <<tries, calls>>
           ELSE Ask("correct") /\ calls' = calls + 1
    /\ UNCHANGED <<settings, late, sent, pending, judged, repairs>>

\* The corrector's answer, which may not parse.
Corrected ==
    /\ pc = "correct" /\ Send
    /\ \/ /\ StopWith("MODEL_ERROR", Current.sql, judged)
          /\ UNCHANGED <<pending, repairs>>
       \/ /\ repairs' = repairs + 1
          /\ \E sql \in Candidates :
               IF sql \in SeenSql
               THEN StopWith("REPEATED_SQL", sql, judged) /\ UNCHANGED pending
               ELSE Continue("judge") /\ pending' = sql
    /\ UNCHANGED <<settings, tries, judged, calls>>

\* Mutant: only the error of the draft stops the loop.
RepeatedErrorOfDraft(report) == Fingerprint(report) = Fingerprint(judged[1].report)

RepeatedError(report) == Fingerprint(report) \in SeenErrors

JudgeRepair ==
    /\ settings.correcting /\ judged # <<>>
    /\ \E report \in Reports :
         /\ Judge(report)
         /\ IF Accepted(report) THEN StopWith("VALID", pending, judged')
            ELSE IF RepeatedError(report)
            THEN StopWith("REPEATED_ERROR", pending, judged')
            ELSE Continue("repair")
    /\ UNCHANGED <<settings, tries, sent, repairs, calls>>

Returned == pc = "done" /\ UNCHANGED vars

Next == \/ Route \/ Planned \/ Ground \/ Drafted
        \/ Unconfigured \/ Unanswered \/ Malformed
        \/ JudgeOnly \/ JudgeDraft
        \/ LoopHead \/ Corrected \/ JudgeRepair
        \/ Returned

Spec == Init /\ [][Next]_vars

-----------------------------------------------------------------------------
(* Properties *)

(***************************************************************************)
(* The loop keeps both of its bounds, and the run sends no more requests    *)
(* than the provider's attempts for the plan, the draft and each call.      *)
(***************************************************************************)
LoopIsBounded ==
    /\ repairs <= settings.repairs /\ calls <= settings.calls
    /\ repairs <= calls
    /\ sent <= (2 + calls) * (Retries + 1)

(***************************************************************************)
(* The loop goes on only with news: no SQL is executed twice, and a         *)
(* candidate with an error seen before, with any number of others between,  *)
(* is the last.                                                            *)
(***************************************************************************)
LoopMakesProgress ==
    \A i, j \in DOMAIN judged : i < j =>
        /\ judged[i].sql # judged[j].sql
        /\ Fingerprint(judged[i].report) = Fingerprint(judged[j].report) =>
             j = Len(judged) /\ result.stop = "REPEATED_ERROR"

(***************************************************************************)
(* After an accepted, blocked, timed-out or unclassified candidate the      *)
(* model is not asked again ("Do not retry unsafe SQL", ERROR_GUIDANCE of   *)
(* correction_planner.py).                                                 *)
(***************************************************************************)
OnlyRepairableIsRetried ==
    \A i \in DOMAIN judged :
        judged[i].report.class \in {"NONE", "POLICY_VIOLATION", "TIMEOUT",
                                    "UNKNOWN_RUNTIME_ERROR"}
            => i = Len(judged) /\ calls = i - 1

(***************************************************************************)
(* With the one repair service_factory.py configures, the error class and   *)
(* the rows a result carries are those of the candidate it carries.  With   *)
(* two, REPEATED_SQL may return the draft with the first repair's.         *)
(***************************************************************************)
ResultIsOfCandidate ==
    settings.repairs < 2 /\ result.sql # NoSql =>
        /\ result.rows \in {NoSql, result.sql}
        /\ \E i \in DOMAIN judged :
             judged[i].sql = result.sql /\ judged[i].report.class = result.class

(***************************************************************************)
(* The run ends after a bounded number of steps, whatever it is answered:   *)
(* a step makes one of the loop's limited calls, or brings the run nearer   *)
(* to its next call or its result, or is one of the provider's attempts.    *)
(***************************************************************************)
Ahead == CASE pc = "route"   -> 7
           [] pc = "plan"    -> 6
           [] pc = "ground"  -> 5
           [] pc = "draft"   -> 4
           [] pc = "correct" -> 3
           [] pc = "judge"   -> 2
           [] pc = "repair"  -> 1
           [] OTHER          -> 0

RunAdvances ==
    [][\/ calls < calls' /\ calls' <= settings.calls
       \/ /\ calls' = calls
          /\ \/ Ahead' < Ahead
             \/ Ahead' = Ahead /\ tries < tries' /\ tries' <= Retries]_vars

(***************************************************************************)
(* The pipeline implements CandidateGate: at most three candidates, each    *)
(* judged once, and success only with one that was accepted.               *)
(***************************************************************************)
Gate == INSTANCE CandidateGate WITH
    Limit <- 3, None <- NoSql,
    judged <- [i \in DOMAIN judged |->
                 [sql |-> judged[i].sql, good |-> Accepted(judged[i].report)]],
    ended  <- result # Running,
    answer <- IF result.status = "SUCCEEDED"
              THEN CHOOSE i \in DOMAIN judged : judged[i].sql = result.sql
              ELSE 0

OnlyAcceptedIsAnswered == Gate!Spec
=============================================================================
