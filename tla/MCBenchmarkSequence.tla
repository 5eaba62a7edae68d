------------------------ MODULE MCBenchmarkSequence -------------------------
(* Small instances of BenchmarkSequence. *)
EXTENDS BenchmarkSequence

CONSTANTS spider, olist, g1, g2, w1, w2

BothSuites == {spider, olist}
SomeCases  == [s \in BothSuites |-> IF s = spider THEN 2 ELSE 1]
TwoServers == {g1, g2}
TwoWorkers == {w1, w2}
=============================================================================
