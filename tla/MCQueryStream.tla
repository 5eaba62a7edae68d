---------------------------- MODULE MCQueryStream ---------------------------
(* Small instances of QueryStream. *)
EXTENDS QueryStream

CONSTANTS p1, r1, r2

OneProc == {p1}
OneRun  == {r1}
TwoRuns == {r1, r2}
=============================================================================
