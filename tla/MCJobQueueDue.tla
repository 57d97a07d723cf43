---------------------------- MODULE MCJobQueueDue ----------------------------
\* Instances of JobQueueDue for TLC.
EXTENDS JobQueueDue

CONSTANTS j1, c1, w1

OneJob == {j1}
OneCall == {c1}
OneWorker == {w1}
NoFaults == {}
LockLoss == {"lock_loss"}

=============================================================================
