--------------------------- MODULE MCGuardedSuite ---------------------------
(* Small instances of GuardedSuite. *)
EXTENDS GuardedSuite, FiniteSets, TLC

CONSTANTS s1, s2, p1, p2

OneSuite  == {s1}
TwoSuites == {s1, s2}
OnePid    == {p1}
TwoPids   == {p1, p2}

PidSymmetry   == Permutations(TwoPids)
SuiteSymmetry == Permutations(TwoSuites)

\* Bounds of the two-suite run: the operator passes --recovery-pilot only to a
\* start that would be refused without it,
PilotsRecover == \A s \in Suites : At(s, "loaded") /\ mem[s].pilot => Unclean(s)
\* ... and a run in which both suites are latched is not followed any further.
OneLatch == Cardinality({s \in Suites : latch[s]}) <= 1
=============================================================================
