----------------------------- MODULE MCPipeline -----------------------------
\* Instances of Pipeline for TLC.
EXTENDS Pipeline, TLC

CONSTANTS a1, d1, e1, w1, w2

OneApp == {a1}
OneDomain == {d1}
OneEnqueuer == {e1}
TwoWorkers == {w1, w2}
OneWorker == {w1}
NoFaults == {}
OneTick == {1}
Symmetry == Permutations(TwoWorkers)

=============================================================================
