----------------------------- MODULE MCJobQueue -----------------------------
\* Instances of JobQueue for TLC.
EXTENDS JobQueue, TLC

CONSTANTS j1, c1, c2, w1, w2

OneJob == {j1}
TwoCalls == {c1, c2}
TwoWorkers == {w1, w2}
OneWorker == {w1}
NoFaults == {}

\* Enqueuers and worker slots are interchangeable; used where only safety is checked.
Symmetry == Permutations(TwoCalls) \cup Permutations(TwoWorkers)

=============================================================================
