----------------------------- MODULE JobQueueDue -----------------------------
(***************************************************************************)
(* JobQueue together with what makes the scheduler call it: the dates      *)
(* nextMarketplaceCheckAt and nextAdsTxtCheckAt of the applications.  Its   *)
(* scans select the rows whose date is set and has come; a date is null as  *)
(* long as nothing has set it (the ads.txt check of an application without  *)
(* a publisher domain), and the handlers move it.                           *)
(*                                                                          *)
(* The safety of the queue needs no dates: JobQueue lets the scheduler call *)
(* for any job, since the page of a scan may be old when its calls are      *)
(* made.  What must happen some day does need them.                         *)
(***************************************************************************)
EXTENDS JobQueue

VARIABLE due    \* the jobs whose next check date is set and has come

dueVars == <<vars, due>>

DueInit == Init /\ due \in SUBSET Jobs

\* Time passes a date, or a handler sets or clears one.
Redate == due' \in SUBSET Jobs /\ UNCHANGED vars

DueNext == \/ Next /\ UNCHANGED due
           \/ Redate

DueSpec == DueInit /\ [][DueNext]_dueVars

-----------------------------------------------------------------------------
SchedulerCall(c, j) == call[c].job = j /\ call[c].trigger = "scheduler"

\* The scheduler calls for a job that stays due, and again as long as it does (a
\* poll every pollIntervalMs), and its calls do not fail at the same await for ever.
\* A call that throws ends the scheduler's process: this assumes that it is
\* started again.  Nothing is assumed of a job that is not due.
SchedulerFairness(j) ==
    /\ SF_vars(j \in due /\ \E c \in Calls : Begin(c, j, "scheduler"))
    /\ SF_vars(\E c \in Calls : SchedulerCall(c, j) /\ ReadRow(c))
    /\ SF_vars(\E c \in Calls : SchedulerCall(c, j) /\ GetJob(c))
    /\ SF_vars(\E c \in Calls : SchedulerCall(c, j) /\ GetState(c))
    /\ SF_vars(\E c \in Calls : SchedulerCall(c, j) /\ Upsert(c))
    /\ SF_vars(\E c \in Calls : SchedulerCall(c, j) /\ Add(c))

\* BullMQ serves every waiting job (strong: slots are busy on and off) and its timers
\* fire; a worker that dies is started again.
WorkerFairness(j) ==
    /\ SF_vars(\E w \in Workers : Take(w, j))
    /\ WF_vars(Promote(j))
    /\ WF_vars(Stall(j))
    /\ WF_vars(Age(j))

\* Every await ends, one way or another.
Fairness == /\ \A j \in Jobs : SchedulerFairness(j) /\ WorkerFairness(j)
            /\ \A w \in Workers : WF_vars(RunStep(w))
            /\ \A c \in Calls : WF_vars(CallStep(c) \/ CallThrows(c))

FairSpec == DueSpec /\ Fairness

-----------------------------------------------------------------------------
\* Whatever crashes and stalls do, a pending job is completed, failed or gone at
\* some time: its retries and stalls are bounded.
EveryJobSettles ==
    \A j \in Jobs : Busy(bull[j].state) ~> ~Busy(bull[j].state)

\* A row that has not succeeded and has no BullMQ job behind it (queue.add failed
\* after the upsert, a crash left it running, the job was evicted) gets one from
\* a later scan if its check is due and stays so.
UnfinishedIsRequeued ==
    \A j \in Jobs :
        (j \in due /\ row[j] \notin {"absent", "succeeded"} /\ bull[j].state = "none")
        ~> (j \notin due \/ row[j] = "succeeded" \/ bull[j].state # "none")

\* The same of every row whose check is due and stays so, a week after a good run
\* too: the scheduler is there to check again (enqueueIfNeeded).
DueIsRequeued ==
    \A j \in Jobs : (j \in due /\ row[j] # "absent" /\ bull[j].state = "none")
                    ~> (j \notin due \/ bull[j].state # "none")

=============================================================================
