---------------------------- MODULE MCA1Pipeline ----------------------------
(* Small instances of A1Pipeline. *)
EXTENDS A1Pipeline

Base == [critic |-> "repair", correction |-> TRUE, obligation |-> TRUE,
         routing |-> TRUE, cpu |-> TRUE, bounded |-> TRUE, text |-> FALSE,
         guarded |-> TRUE, requests |-> 3]

\* The released profile and what the unit tests vary of it, one at a time.
MCSettings ==
    {Base, [Base EXCEPT !.cpu = FALSE],
     [Base EXCEPT !.cpu = FALSE, !.requests = 2, !.text = TRUE],
     [Base EXCEPT !.routing = FALSE, !.cpu = FALSE],
     [Base EXCEPT !.obligation = FALSE, !.bounded = FALSE],
     [Base EXCEPT !.critic = "shadow", !.requests = 1],
     [Base EXCEPT !.critic = "off", !.guarded = FALSE]}

Ask1 == [ranked |-> TRUE, english |-> "most", span |-> "top", bound |-> TRUE,
         small |-> TRUE, output |-> FALSE, sampled |-> FALSE]

MCQuestions ==
    {Ask1, [Ask1 EXCEPT !.english = "least", !.output = TRUE],
     [Ask1 EXCEPT !.english = "none", !.span = "thap"],
     [Ask1 EXCEPT !.english = "least", !.span = "cao"],
     [Ask1 EXCEPT !.bound = FALSE, !.sampled = TRUE],
     [Ask1 EXCEPT !.english = "none"], [Ask1 EXCEPT !.small = FALSE],
     [Ask1 EXCEPT !.ranked = FALSE, !.output = TRUE]}

Star == [kind |-> "read", body |-> "plain", key |-> "none", desc |-> FALSE,
         limit |-> "none"]

\* Without ORDER BY there is no direction.
MCAnswers ==
    {s \in [kind : {"read"}, body : {"plain", "other", "wide", "joined"},
            key : {"none", "metric", "another"}, desc : BOOLEAN,
            limit : {"none", "asked"}] :
       /\ s.key = "none" => ~s.desc
       /\ s.body = "joined" => s.key # "another"}
      \cup {[Star EXCEPT !.body = b] : b \in {"nested", "paged"}}
      \cup {[Star EXCEPT !.kind = k] :
              k \in {"garbled", "write", "foreign", "faulty"}}
=============================================================================
