---------------------------- MODULE MCScheduler -----------------------------
\* Instances of Scheduler for TLC.
EXTENDS Scheduler, TLC

CONSTANTS s1, s2, p1, p2

OneApp == 1..1
TwoApps == 1..2
TwoScans == {s1, s2}
OneProcess == {p1}
TwoProcesses == {p1, p2}
BothInOne == [s \in TwoScans |-> p1]     \* a scan outlives the polling interval
OneInEach == (s1 :> p1) @@ (s2 :> p2)
Symmetry == Permutations(TwoScans)

=============================================================================
