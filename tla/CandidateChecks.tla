--------------------------- MODULE CandidateChecks --------------------------
(***************************************************************************)
(* What Layer 4 says of a SQL candidate, as functions of the candidate and *)
(* of the question: the read-only policy (layer4_validation/policy.py),    *)
(* the errors of an execution (executor.py, error_normalizer.py), the      *)
(* clause assessment of a ranked question (clause_critic.py), the edits    *)
(* the two contracts license (repair_contract.py, output_contract.py) and  *)
(* the admission of a repair (a1_service.py, repair_contract.py).          *)
(*                                                                         *)
(* A candidate is a record of what these functions read of its tree:       *)
(*   kind  "garbled" does not parse, "write" is no query, "foreign" names  *)
(*         an unknown column, "faulty" passes the policy and fails in      *)
(*         SQLite, "read" executes;                                        *)
(*   body  everything outside ORDER BY and LIMIT: "plain" and "other" read *)
(*         the metric's table alone, "wide" is "plain" with a column too   *)
(*         many, "joined" joins or groups, "nested" has a subquery,        *)
(*         "paged" an OFFSET;                                              *)
(*   key   the ORDER BY keys, desc the direction of the first, limit the   *)
(*         LIMIT against the number of rows the question asks for.         *)
(***************************************************************************)
EXTENDS Naturals

Sql == [kind : {"garbled", "write", "foreign", "faulty", "read"},
        body : {"plain", "other", "wide", "joined", "nested", "paged"},
        key : {"none", "metric", "another"},
        desc : BOOLEAN,
        limit : {"none", "asked", "another"}]

(***************************************************************************)
(* A question: ranked asks for the top or bottom n rows, without negation  *)
(* or ties; english is the English word for the direction it has, if any,  *)
(* and span what the TOP pattern matched: "top 3", or "3 ... cao" or       *)
(* "thap", the Vietnamese highest and lowest; bound names one metric       *)
(* column of the catalog; small asks for 200 rows at most; output names    *)
(* the columns it wants; sampled falls in the shadow audit sample.         *)
(***************************************************************************)
Question == [ranked : BOOLEAN, english : {"none", "most", "least"},
             span : {"top", "cao", "thap"}, bound : BOOLEAN,
             small : BOOLEAN, output : BOOLEAN, sampled : BOOLEAN]

\* Either language says which end of the ranking is meant.
Directed(q) == q.english # "none" \/ q.span # "top"

-----------------------------------------------------------------------------
(* Policy and execution *)

\* CandidateNormalizer.normalize: exactly one statement, and a query.
Parses(sql) == sql.kind \notin {"garbled", "write"}

\* SQLSafetyPolicy.evaluate: the error class of a blocked candidate.
PolicyClass(sql) ==
    CASE sql.kind = "garbled" -> "SYNTAX_ERROR"
      [] sql.kind = "write"   -> "POLICY_VIOLATION"
      [] sql.kind = "foreign" -> "UNKNOWN_COLUMN"
      [] OTHER                -> "NONE"

Allowed(sql) == PolicyClass(sql) = "NONE"

\* ReadOnlySQLiteExecutor.execute: what an execution of it may raise.
Raises(sql) ==
    CASE ~Allowed(sql)        -> {"nothing"}
      [] sql.kind = "faulty"  -> {"AmbiguousColumn", "QueryTimeoutError"}
      [] sql.kind = "read"    -> {"nothing", "QueryTimeoutError", "ResultLimitError"}

\* The phrases normalize_error looks for that the message contains.  The
\* message of QueryTimeoutError is "Query execution exceeded its deadline".
Phrases(raised) ==
    CASE raised = "AmbiguousColumn" -> {"ambiguous column"}
      [] OTHER                      -> {}

NormalizeError(raised) ==
    CASE Phrases(raised) \cap {"interrupted", "timeout"} # {} -> "TIMEOUT"
      [] "ambiguous column" \in Phrases(raised) -> "AMBIGUOUS_COLUMN"
      [] OTHER -> "UNKNOWN_RUNTIME_ERROR"

\* ValidationService.run without a plan: the error class, or "NONE".
ErrorClass(sql, raised) ==
    IF ~Allowed(sql) THEN PolicyClass(sql)
    ELSE IF raised = "nothing" THEN "NONE" ELSE NormalizeError(raised)

ErrorClasses == {"NONE", "SYNTAX_ERROR", "POLICY_VIOLATION", "UNKNOWN_COLUMN",
                 "AMBIGUOUS_COLUMN", "TIMEOUT", "UNKNOWN_RUNTIME_ERROR"}

\* RECOVERABLE_ERRORS of the A1 pipeline.
Recoverable == {"SYNTAX_ERROR", "UNKNOWN_COLUMN", "AMBIGUOUS_COLUMN"}

-----------------------------------------------------------------------------
(* Clause assessment *)

RankCodes == {"RANK_ORDER_MISSING", "RANK_DIRECTION", "RANK_LIMIT"}
Codes     == RankCodes \cup {"OUTPUT"}

Simple(sql) == sql.body # "nested"

\* The direction assess_clauses expects: the Vietnamese word overrides.
CriticDescends(q) ==
    IF q.span # "top" THEN q.span = "cao" ELSE q.english = "most"

\* order_matches_metric: the first key is the column the question names.
OrdersByMetric(q, sql) == q.bound /\ sql.key = "metric"

\* compile_output_contract: the projection keeps the requested columns only.
OutputEdit(q, sql) ==
    IF q.output /\ sql.body = "wide" THEN [sql EXCEPT !.body = "plain"] ELSE sql

\* assess_clauses, and the output codes _evaluate adds to its findings.
Contradictions(q, sql, bounded) ==
    LET inScope == q.ranked /\ Simple(sql)
    IN  {c \in Codes :
           \/ c = "RANK_ORDER_MISSING" /\ inScope /\ sql.key = "none"
           \/ c = "RANK_DIRECTION" /\ inScope /\ Directed(q)
                /\ OrdersByMetric(q, sql) /\ sql.desc # CriticDescends(q)
           \/ c = "RANK_LIMIT" /\ inScope /\ sql.body # "paged"
                /\ sql.limit # "asked"
           \/ c = "OUTPUT" /\ bounded /\ OutputEdit(q, sql) # sql}

UnknownCodes == {"RANK_INTENT", "RANK_METRIC_BINDING", "RANK_OFFSET",
                 "JOIN_GRAIN", "SQL_STRUCTURE"}

Unknowns(q, sql) ==
    LET inScope == q.ranked /\ Simple(sql)
    IN  {c \in UnknownCodes :
           \/ c = "RANK_INTENT" /\ ~inScope
           \/ c = "RANK_METRIC_BINDING" /\ inScope /\ Directed(q)
                /\ sql.key # "none" /\ ~OrdersByMetric(q, sql)
           \/ c = "RANK_OFFSET" /\ inScope /\ sql.body = "paged"
           \/ c = "JOIN_GRAIN" /\ sql.body = "joined"}

-----------------------------------------------------------------------------
(* Contracts and admission *)

\* The direction compile_repair_contract plans: the English word goes first.
ContractDescends(q) ==
    IF q.english # "none" THEN q.english = "most" ELSE q.span = "cao"

\* Mutant: the edit turns every ranking to descending.
RankEditDescending(q, sql, codes) ==
    [sql EXCEPT !.key   = "metric",
                !.desc  = TRUE,
                !.limit = IF "RANK_LIMIT" \in codes THEN "asked" ELSE @]

\* The edit compile_repair_contract plans once it found the source and metric.
RankEdit(q, sql, codes) ==
    [sql EXCEPT !.key   = "metric",
                !.desc  = IF codes \cap {"RANK_ORDER_MISSING", "RANK_DIRECTION"} # {}
                          THEN ContractDescends(q) ELSE @,
                !.limit = IF "RANK_LIMIT" \in codes THEN "asked" ELSE @]

\* compile_repair_contract: whether the contract is eligible.
RankEditLicensed(q, sql, codes) ==
    /\ codes # {} /\ codes \subseteq RankCodes
    /\ sql.body \notin {"joined", "nested", "paged"}
    /\ q.ranked /\ Directed(q) /\ q.bound /\ q.small
    /\ sql.key = "none" \/ OrdersByMetric(q, sql)

\* admit_repair: only flagged ORDER BY and LIMIT clauses may change.
AdmitRepair(before, after) ==
    LET old == before.sql
        new == after.sql
    IN  /\ after.class = "NONE"
        /\ before.contra # {}
        /\ old.key # "none" /\ new.key = old.key
        /\ "RANK_DIRECTION" \in before.contra \/ new.desc = old.desc
        /\ "RANK_LIMIT" \in before.contra \/ new.limit = old.limit
        /\ new.body = old.body
        /\ after.contra \subseteq before.contra /\ after.contra # before.contra
        /\ after.unknown \subseteq before.unknown

\* admit_contract_repair: the repair is the planned edit, and it helps.
AdmitContractRepair(planned, before, after) ==
    /\ after.class = "NONE"
    /\ after.sql = planned
    /\ after.contra \subseteq before.contra /\ after.contra # before.contra
    /\ after.unknown \subseteq before.unknown
=============================================================================
