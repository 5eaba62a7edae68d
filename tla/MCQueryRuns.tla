----------------------------- MODULE MCQueryRuns ----------------------------
(* Small instances of QueryRuns without a stream. *)
EXTENDS QueryRuns, TLC

CONSTANTS p1, p2, r1, r2

OneProc  == {p1}
TwoProcs == {p1, p2}
OneRun   == {r1}
TwoRuns  == {r1, r2}

Symmetry == Permutations(TwoProcs) \cup Permutations(TwoRuns)
=============================================================================
