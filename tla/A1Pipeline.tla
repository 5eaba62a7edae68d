----------------------------- MODULE A1Pipeline -----------------------------
(***************************************************************************)
(* One run of the A1 pipeline (layer6_application/a1_service.py): a        *)
(* question is routed and grounded, a model drafts SQL, Layer 4 validates  *)
(* it by executing it, a critic may be asked, and at most one repair, by   *)
(* the model or by a compiled edit, may replace the draft.                 *)
(*                                                                         *)
(* Draft, critic and repair share one RequestBudget (workflow/budgets.py)  *)
(* of requests and seconds, which the Ollama provider also charges with    *)
(* the retries it makes on malformed answers (ollama_provider.py).         *)
(*                                                                         *)
(* The run is one thread.  What is uncertain is the model's answers, the   *)
(* server, the outcome of an execution, and how long each of them takes.   *)
(***************************************************************************)
EXTENDS CandidateChecks, Sequences

CONSTANTS AllSettings, \* the configurations of the service
          Questions,   \* the questions asked, members of Question
          Answers,     \* the SQL the model may answer, members of Sql
          Retries,     \* malformed_retries of the provider
          NoSql        \* None for a planned edit

Configuration ==
    [critic : {"off", "shadow", "repair"}, \* critic_mode
     correction : BOOLEAN,                 \* correction_enabled
     obligation : BOOLEAN,                 \* compute_policy = "obligation"
     routing : BOOLEAN,                    \* repairability_routing
     cpu : BOOLEAN,                        \* deterministic_repair
     bounded : BOOLEAN,                    \* bounded_output_contracts
     text : BOOLEAN,                       \* generation_format = "sql_text"
     guarded : BOOLEAN,                    \* guarded_run and ollama_num_gpu set
     requests : 1..3]                      \* a1_max_requests

ASSUME A1Constants ==
    /\ AllSettings \subseteq Configuration
    /\ Questions \subseteq Question
    /\ Answers \subseteq Sql
    /\ Retries \in Nat
    /\ NoSql \notin Sql

VARIABLES
    settings,   \* the configuration of the service
    question,   \* the question of the run
    pc,         \* what run() is doing
    left,       \* the rest of the deadline: 0 gone, 1 under a second, 2 more
    stage,      \* stage of the request or evaluation in progress
    tries,      \* answers of this request that were malformed
    attempts,   \* budget.attempts: the stages that were charged
    sent,       \* generation requests sent to the server
    reply,      \* the SQL to evaluate
    evals,      \* trace.evaluations: the draft, then the repair
    candidates, \* trace.candidates, as positions in evals
    index,      \* trace.selected_candidate_index + 1, 0 for None
    chosen,     \* the position of `selected` in evals, 0 for None
    contract,   \* planned SQL of the eligible contract, or NoSql
    skipped,    \* trace.repair_skipped_reason
    status      \* status of the result, "running" before run() returns

vars == <<settings, question, pc, left, stage, tries, attempts, sent, reply,
          evals, candidates, index, chosen, contract, skipped, status>>

input == <<settings, question>>
trace == <<evals, candidates, index, chosen, contract, skipped>>

-----------------------------------------------------------------------------
(* State *)

Stages == {"draft", "critic", "repair", "deterministic_repair"}

Status == {"SUCCEEDED", "CLARIFY", "UNSUPPORTED", "WRITE_BLOCKED",
           "MODEL_ERROR", "GROUNDING_ERROR", "INVALID_SQL", "POLICY_BLOCKED",
           "EXECUTION_ERROR", "VALIDATION_FAILED"}

\* CandidateEvaluation: the outcome of _evaluate.
Evaluation == [sql : Sql, raised : {"nothing", "AmbiguousColumn",
                                    "QueryTimeoutError", "ResultLimitError"},
               class : ErrorClasses, contra : SUBSET Codes,
               unknown : SUBSET UnknownCodes]

Evaluate(sql, raised) ==
    [sql     |-> sql,
     raised  |-> raised,
     class   |-> ErrorClass(sql, raised),
     contra  |-> IF Parses(sql)
                 THEN Contradictions(question, sql, settings.bounded) ELSE {},
     unknown |-> IF Parses(sql) THEN Unknowns(question, sql)
                 ELSE {"SQL_STRUCTURE"}]

Accepted(e) == e.class = "NONE"
Draft       == evals[1]
Repair      == evals[2]

RepairEnabled == settings.critic = "repair" /\ settings.correction

TypeOK ==
    /\ settings \in AllSettings /\ question \in Questions
    /\ pc \in {"route", "ground", "request", "evaluate", "critic", "decide",
               "finish", "done"}
    /\ left \in 0..2
    /\ stage \in Stages
    /\ tries \in 0..Retries
    /\ attempts \in Seq(Stages) /\ sent \in Nat
    /\ reply \in Sql \cup {NoSql}
    /\ evals \in Seq(Evaluation) /\ Len(evals) \in 0..2
    /\ candidates \in Seq(1..2)
    /\ index \in 0..2 /\ chosen \in 0..Len(evals)
    /\ contract \in Sql \cup {NoSql}
    /\ skipped \in {"none", "deadline", "budget", "ineligible"}
    /\ status \in Status \cup {"running"}
    /\ pc = "done" <=> status # "running"

Init ==
    /\ settings \in AllSettings /\ question \in Questions
    /\ pc = "route" /\ left = 2 /\ stage = "draft" /\ tries = 0
    /\ attempts = <<>> /\ sent = 0 /\ reply = NoSql
    /\ evals = <<>> /\ candidates = <<>> /\ index = 0 /\ chosen = 0
    /\ contract = NoSql /\ skipped = "none" /\ status = "running"

-----------------------------------------------------------------------------
(* Time, results and failures *)

TimePasses == left' \in 0..left

Return(s) == pc' = "done" /\ status' = s

\* Returning without having selected anything: the routes, and the errors of
\* grounding and drafting.
ReturnUnanswered(s) ==
    /\ Return(s)
    /\ UNCHANGED <<input, stage, tries, attempts, sent, reply, trace>>

Ask(s) == pc' = "request" /\ stage' = s /\ tries' = 0

\* Where run() goes on when a stage raises.
AfterFailure == IF stage = "critic" THEN "decide" ELSE "finish"

StageFails ==
    IF stage = "draft" THEN Return("MODEL_ERROR")
    ELSE pc' = AfterFailure /\ UNCHANGED status

\* RequestBudget.can_request
CanRequest == Len(attempts) < settings.requests /\ left = 2

-----------------------------------------------------------------------------
(* Routing and grounding *)

Route ==
    /\ pc = "route"
    /\ \/ \E s \in {"CLARIFY", "UNSUPPORTED", "WRITE_BLOCKED"} :
            ReturnUnanswered(s) /\ UNCHANGED left
       \/ /\ pc' = "ground"
          /\ UNCHANGED <<input, left, stage, tries, attempts, sent, reply,
                         trace, status>>

\* Retrieval, evidence and the draft's prompt, which must fit its budget.
Ground ==
    /\ pc = "ground"
    /\ TimePasses
    /\ \/ ReturnUnanswered("GROUNDING_ERROR")
       \/ /\ Ask("draft")
          /\ UNCHANGED <<input, attempts, sent, reply, trace, status>>

-----------------------------------------------------------------------------
(* Requests *)

\* RequestBudget.consume
MayConsume == left > 0 /\ Len(attempts) < settings.requests

\* The prompt is too long, the provider is not configured, or the budget
\* refuses: the stage fails before anything is sent.
Refused ==
    /\ pc = "request"
    /\ \/ stage # "draft" /\ tries = 0
       \/ ~settings.guarded
       \/ ~MayConsume
    /\ StageFails
    /\ UNCHANGED <<input, left, stage, tries, attempts, sent, reply, trace>>

\* _generation_options and the POST: the budget is charged, then the request
\* goes out with what is left of the deadline as its timeout.
Send ==
    /\ pc = "request" /\ settings.guarded /\ MayConsume
    /\ attempts' = Append(attempts, stage)
    /\ sent' = sent + 1
    /\ TimePasses

\* The critic always answers in JSON; a text answer is not asked for again.
\* generate_sql_text(): a single request, whose answer is not parsed.
ByText == settings.text /\ stage # "critic"

MayRetry == tries < Retries /\ ~ByText

\* The server fails or answers too late, or the last answer is malformed.
Unanswered ==
    /\ Send
    /\ StageFails
    /\ UNCHANGED <<input, stage, tries, reply, trace>>

Malformed ==
    /\ Send
    /\ MayRetry
    /\ tries' = tries + 1
    /\ UNCHANGED <<input, pc, stage, reply, trace, status>>

\* What the critic says is kept for the repair prompt and decides nothing.
Replied ==
    /\ Send
    /\ IF stage = "critic"
       THEN pc' = "decide" /\ UNCHANGED reply
       ELSE pc' = "evaluate" /\ reply' \in Answers
    /\ UNCHANGED <<input, stage, tries, trace, status>>

-----------------------------------------------------------------------------
(* Evaluation, critic and repair *)

\* budget.check() at the head of _evaluate.
EvaluatedTooLate ==
    /\ pc = "evaluate" /\ left = 0
    /\ StageFails
    /\ UNCHANGED <<input, left, stage, tries, attempts, sent, reply, trace>>

\* compile_repair_contract, which compile_output_contract overrides.
Contract(e) ==
    IF ~settings.obligation \/ ~Accepted(e) THEN NoSql
    ELSE IF settings.bounded /\ OutputEdit(question, e.sql) # e.sql
    THEN OutputEdit(question, e.sql)
    ELSE IF RankEditLicensed(question, e.sql, e.contra)
    THEN RankEdit(question, e.sql, e.contra)
    ELSE NoSql

\* Mutant: the critic is asked although the edit is known.
CallCriticAnyway(e, planned, doubtful) ==
    /\ settings.critic # "off" /\ Accepted(e)
    /\ \/ e.contra # {} \/ e.sql.body \in {"joined", "nested"}
       \/ doubtful \/ question.sampled

\* route_critic: risks are what the candidate or its result (empty, truncated,
\* filtered) gives reason to doubt.
CallCritic(e, planned, doubtful) ==
    /\ settings.critic # "off" /\ Accepted(e)
    /\ IF settings.obligation /\ settings.routing /\ RepairEnabled
       THEN planned = NoSql /\ question.sampled
       ELSE \/ e.contra # {} \/ e.sql.body \in {"joined", "nested"}
            \/ doubtful \/ question.sampled

EvaluateDraft ==
    /\ pc = "evaluate" /\ stage = "draft" /\ left > 0
    /\ TimePasses
    /\ \E raised \in Raises(reply), doubtful \in BOOLEAN :
         LET e == Evaluate(reply, raised)
         IN  /\ evals' = <<e>> /\ chosen' = 1
             /\ candidates' = IF Parses(reply) THEN <<1>> ELSE <<>>
             /\ index' = IF Parses(reply) THEN 1 ELSE 0
             /\ contract' = Contract(e)
             /\ pc' = IF CallCritic(e, Contract(e), doubtful)
                      THEN "critic" ELSE "decide"
    /\ UNCHANGED <<input, stage, tries, attempts, sent, reply, skipped, status>>

\* _critic(): one structured request about the draft.
Critic == Ask("critic")

AskCritic ==
    /\ pc = "critic"
    /\ IF CanRequest THEN Critic
       ELSE pc' = "decide" /\ UNCHANGED <<stage, tries>>
    /\ UNCHANGED <<input, left, attempts, sent, reply, trace, status>>

Operational == ~Accepted(Draft) /\ Draft.class \in Recoverable

Semantic == /\ Accepted(Draft) /\ Draft.contra # {}
            /\ settings.obligation => contract # NoSql

CpuRepair == Semantic /\ settings.cpu /\ contract # NoSql

\* The repair run() decides on: none, a compiled edit, or a request.
Skip(why) == pc' = "finish" /\ skipped' = why
             /\ UNCHANGED <<stage, tries, reply>>

Decide ==
    /\ pc = "decide"
    /\ IF ~RepairEnabled THEN Skip("none")
       ELSE IF ~(Operational \/ Semantic) THEN Skip("ineligible")
       ELSE IF CpuRepair /\ left < 2 THEN Skip("deadline")
       ELSE IF ~CpuRepair /\ ~CanRequest THEN Skip("budget")
       ELSE IF CpuRepair
       THEN /\ pc' = "evaluate" /\ stage' = "deterministic_repair"
            /\ reply' = contract
            /\ UNCHANGED <<tries, skipped>>
       ELSE Ask("repair") /\ UNCHANGED <<reply, skipped>>
    /\ UNCHANGED <<input, left, attempts, sent, evals, candidates, index,
                   chosen, contract, status>>

\* Mutants: whatever executes is admitted; it need not execute.
AdmittedWhenAccepted(e) == Accepted(e)
AdmittedUnexecuted(e) == e.contra = {}

Admitted(e) ==
    IF Operational THEN Accepted(e) /\ e.contra = {}
    ELSE IF contract # NoSql THEN AdmitContractRepair(contract, Draft, e)
    ELSE AdmitRepair(Draft, e)

SelectedIndex(list) == Len(list)

EvaluateRepair ==
    /\ pc = "evaluate" /\ stage # "draft" /\ left > 0
    /\ TimePasses
    /\ \E raised \in Raises(reply) :
         LET e    == Evaluate(reply, raised)
             list == IF Parses(reply) THEN Append(candidates, 2) ELSE candidates
         IN  /\ evals' = Append(evals, e)
             /\ candidates' = list
             /\ chosen' = IF Admitted(e) THEN 2 ELSE chosen
             /\ index' = IF Admitted(e) THEN SelectedIndex(list) ELSE index
    /\ pc' = "finish"
    /\ UNCHANGED <<input, stage, tries, attempts, sent, reply, contract,
                   skipped, status>>

\* Mutant: what the policy allows has succeeded.
VerdictOfPolicy(e) ==
    CASE Allowed(e.sql)               -> "SUCCEEDED"
      [] e.class = "POLICY_VIOLATION" -> "POLICY_BLOCKED"
      [] e.class = "SYNTAX_ERROR"     -> "INVALID_SQL"
      [] OTHER                        -> "VALIDATION_FAILED"

\* The status of the selected evaluation.
Verdict(e) ==
    CASE Accepted(e)                     -> "SUCCEEDED"
      [] e.class = "POLICY_VIOLATION"    -> "POLICY_BLOCKED"
      [] e.class = "SYNTAX_ERROR"        -> "INVALID_SQL"
      [] ~Accepted(e) /\ Allowed(e.sql)  -> "EXECUTION_ERROR"
      [] OTHER                           -> "VALIDATION_FAILED"

Finish ==
    /\ pc = "finish"
    /\ Return(Verdict(evals[chosen]))
    /\ UNCHANGED <<input, left, stage, tries, attempts, sent, reply, trace>>

Returned == pc = "done" /\ UNCHANGED vars

Next == \/ Route \/ Ground
        \/ Refused \/ Unanswered \/ Malformed \/ Replied
        \/ EvaluatedTooLate \/ EvaluateDraft \/ AskCritic \/ Decide
        \/ EvaluateRepair \/ Finish \/ Returned

Spec == Init /\ [][Next]_vars

-----------------------------------------------------------------------------
(* Properties *)

(***************************************************************************)
(* Draft, critic and repair together send at most a1_max_requests           *)
(* requests, the provider's retries included.                              *)
(***************************************************************************)
RequestsAreBudgeted == sent <= settings.requests

(***************************************************************************)
(* A draft that executed is never lost: whatever the critic, the repair,    *)
(* the server and the deadline do after it, the run succeeds with the       *)
(* draft or with SQL that has strictly fewer of its contradictions.         *)
(***************************************************************************)
RepairNeverHurts ==
    status # "running" /\ evals # <<>> /\ Accepted(Draft) =>
        /\ status = "SUCCEEDED"
        /\ chosen = 2 => /\ Repair.contra \subseteq Draft.contra
                        /\ Repair.contra # Draft.contra

(***************************************************************************)
(* SQL that replaces a draft that executed differs from it only where a     *)
(* contradiction of the draft licenses the change.                         *)
(***************************************************************************)
EditIsLicensed ==
    chosen = 2 /\ Accepted(Draft) =>
        LET old == Draft.sql
            new == Repair.sql
            flagged(codes) == codes \cap Draft.contra # {}
        IN  /\ new.body # old.body => flagged({"OUTPUT"})
            /\ new.key # old.key => flagged({"RANK_ORDER_MISSING"})
            /\ new.desc # old.desc =>
                 flagged({"RANK_ORDER_MISSING", "RANK_DIRECTION"})
            /\ new.limit # old.limit => flagged({"RANK_LIMIT"})

(***************************************************************************)
(* The edit of a ranking or projection contract, once it has executed, is   *)
(* refused only over a question that names opposite directions in its two   *)
(* languages, and then for the direction: of the English and the Vietnamese *)
(* word the contract (repair_contract.py) follows the first and the         *)
(* assessment that judges its edit (clause_critic.py) the second.           *)
(***************************************************************************)
OppositeDirections(q) == CriticDescends(q) # ContractDescends(q)

PlannedEditIsAdmitted ==
    stage = "deterministic_repair" /\ Len(evals) = 2 /\ Accepted(Repair)
        => \/ chosen = 2
           \/ OppositeDirections(question) /\ "RANK_DIRECTION" \in Repair.contra

(***************************************************************************)
(* Under the obligation policy with its routing, the critic never uses up   *)
(* the requests a repair needs ("reserve compute for repair").             *)
(***************************************************************************)
CriticLeavesBudget ==
    settings.obligation /\ settings.routing /\ skipped = "budget"
        => \A i \in DOMAIN attempts : attempts[i] # "critic"

(***************************************************************************)
(* The candidate index of the trace names the selected SQL, also when the   *)
(* draft was no candidate and the repair is the first.                     *)
(***************************************************************************)
IndexNamesSelection ==
    /\ index # 0 => index \in DOMAIN candidates /\ candidates[index] = chosen
    /\ chosen # 0 /\ index = 0 => ~Parses(evals[chosen].sql)

(***************************************************************************)
(* The run ends after a bounded number of steps, whatever it is answered:   *)
(* every step brings it nearer to its result, or is one of the provider's   *)
(* limited attempts at the request it is at.                               *)
(***************************************************************************)
Ahead == CASE pc = "route"    -> 10
           [] pc = "ground"   -> 9
           [] pc = "request"  -> CASE stage = "draft"  -> 8
                                   [] stage = "critic" -> 5
                                   [] OTHER            -> 3
           [] pc = "critic"   -> 6
           [] pc = "evaluate" -> IF stage = "draft" THEN 7 ELSE 2
           [] pc = "decide"   -> 4
           [] pc = "finish"   -> 1
           [] OTHER           -> 0

RunAdvances ==
    [][\/ Ahead' < Ahead
       \/ Ahead' = Ahead /\ tries < tries' /\ tries' <= Retries]_vars

(***************************************************************************)
(* The pipeline implements CandidateGate: at most two candidates, each      *)
(* judged by executing it, and success only with one that was accepted.     *)
(***************************************************************************)
Gate == INSTANCE CandidateGate WITH
    Candidates <- Sql, Limit <- 2, None <- NoSql,
    pending <- IF pc = "evaluate" THEN reply ELSE NoSql,
    judged  <- [i \in DOMAIN evals |->
                  [sql |-> evals[i].sql, good |-> Accepted(evals[i])]],
    ended   <- status # "running",
    answer  <- IF status = "SUCCEEDED" THEN chosen ELSE 0

OnlyAcceptedIsAnswered == Gate!Spec

(***************************************************************************)
(* A query stopped at its deadline is reported as TIMEOUT, the class whose  *)
(* message in error_normalizer.py is "Query execution exceeded its          *)
(* deadline".                                                              *)
(***************************************************************************)
TimeoutIsReported ==
    \A i \in DOMAIN evals :
        evals[i].raised = "QueryTimeoutError" => evals[i].class = "TIMEOUT"
=============================================================================
