---------------------------- MODULE MCFrozenRun -----------------------------
(* Small instances of FrozenRun. *)
EXTENDS FrozenRun, TLC

CONSTANTS b1, b2, v1, v2, d1, d2, c1, c2

TwoBuilders  == {b1, b2}
TwoVersions  == {v1, v2}
TwoDatabases == {d1, d2}

\* Both versions are built for the first database (with different aliases);
\* the second has another schema.
SomeCatalogs == v1 :> c1 @@ v2 :> c1 @@ d1 :> c1 @@ d2 :> c2

BuilderSymmetry == Permutations(TwoBuilders)
=============================================================================
