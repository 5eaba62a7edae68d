---------------------------- MODULE CandidateGate ---------------------------
(***************************************************************************)
(* What a pipeline promises its caller: candidates are judged one after    *)
(* the other, each at most once and no more than Limit of them, and the    *)
(* answer is one that was judged good, or that there is none.              *)
(***************************************************************************)
EXTENDS Naturals, Sequences

CONSTANTS Candidates, Limit, None

VARIABLES pending, \* the candidate to be judged, or None
          judged,  \* the candidates judged so far, [sql, good]
          ended,   \* whether the caller has its answer
          answer   \* the answer's position in judged, 0 for none

Init == pending = None /\ judged = <<>> /\ ended = FALSE /\ answer = 0

Propose ==
    /\ ~ended /\ pending = None /\ Len(judged) < Limit
    /\ pending' \in Candidates
    /\ UNCHANGED <<judged, ended, answer>>

\* The answer is a candidate of list that was good, or none.
Decide(list) ==
    /\ ended' = TRUE
    /\ answer' \in {0} \cup {i \in DOMAIN list : list[i].good}

Judge ==
    /\ ~ended /\ pending # None
    /\ \E good \in BOOLEAN :
         judged' = Append(judged, [sql |-> pending, good |-> good])
    /\ pending' = None
    /\ Decide(judged') \/ UNCHANGED <<ended, answer>>

\* Not judged: it came too late.
Discard ==
    /\ ~ended /\ pending # None
    /\ pending' = None
    /\ UNCHANGED <<judged, ended, answer>>

Answer ==
    /\ ~ended
    /\ Decide(judged)
    /\ pending' = None
    /\ UNCHANGED judged

Next == Propose \/ Judge \/ Discard \/ Answer

Spec == Init /\ [][Next]_<<pending, judged, ended, answer>>
=============================================================================
