------------------------------ MODULE JobQueue ------------------------------
(***************************************************************************)
(* One scraping job per (application, type), kept in two places that no     *)
(* transaction joins: a row of the PostgreSQL table scraping_jobs and a     *)
(* BullMQ job whose id is derived from the same pair.                       *)
(*                                                                          *)
(* Enqueuers (the scheduler, a worker's follow-up, the REST API) run        *)
(* IdempotentJobService: each await is a step of its own, and what it read  *)
(* may be stale when it is used.  Workers run the two job handlers, of      *)
(* which this module keeps what they write to the row and how they end;     *)
(* module Pipeline gives the handlers in full.  BullMQ is external and      *)
(* modelled from how the code uses it.                                      *)
(***************************************************************************)
EXTENDS Naturals

CONSTANTS Jobs,        \* the (applicationId, type) pairs
          Calls,       \* concurrent executions of IdempotentJobService
          Workers,     \* worker slots: one job at a time each
          NoJob,       \* what an idle slot works on
          NoWorker,    \* who holds the lock of a job that nobody processes
          Attempts,    \* config.queue.attempts
          MaxStalled,  \* BullMQ's maxStalledCount
          Faults       \* which of the faults below the environment shows

\* "lock_loss": BullMQ declares the job of a live worker stalled.
\* "remove_error": bullJob.remove() fails, and the code ignores it.
ASSUME FaultsAssumption == Faults \subseteq {"lock_loss", "remove_error"}
ASSUME CountsAssumption == Attempts \in Nat \ {0} /\ MaxStalled \in Nat
ASSUME NullsAssumption == NoJob \notin Jobs /\ NoWorker \notin Workers

VARIABLES row,   \* row[j]: the status of the scraping_jobs row
          bull,  \* bull[j]: the BullMQ job, state "none" when Redis has no such id
          call,  \* call[c]: where an enqueuer stands and what it has read
          run    \* run[w]: where a worker slot stands

vars == <<row, bull, call, run>>

Triggers == {"scheduler", "worker", "api"}
\* "absent": no row yet.  "stale": status 'running' with a startedAt more than
\* staleAfterMs ago; startedAt is read for nothing else.
Statuses == {"absent", "scheduled", "running", "stale", "retrying", "succeeded",
             "failed", "dead_letter"}
BullStates == {"none", "waiting", "active", "delayed", "completed", "failed"}
Returned == {"idle", "enqueued"}           \* "enqueued": the last call returned true
CallPCs == Returned \cup {"row", "get", "state", "remove", "upsert", "add"}
RunPCs == {"idle", "load", "run", "ok", "bad"}

NoBullJob == [state |-> "none", made |-> 0, stalls |-> 0, owner |-> NoWorker]
NewBullJob == [NoBullJob EXCEPT !.state = "waiting"]
IdleCall == [pc |-> "idle", job |-> NoJob, trigger |-> "scheduler",
             existing |-> "absent", ran |-> FALSE]
IdleRun == [pc |-> "idle", job |-> NoJob]

Init ==
    /\ row = [j \in Jobs |-> "absent"]
    /\ bull = [j \in Jobs |-> NoBullJob]
    /\ call = [c \in Calls |-> IdleCall]
    /\ run = [w \in Workers |-> IdleRun]

-----------------------------------------------------------------------------
(* IdempotentJobService                                                      *)

\* 'prioritized' never occurs: the code adds no priority.
Busy(state) == state \in {"active", "waiting", "delayed"}

\* Mutant: a stale running row is refused like a fresh one.
ShouldEnqueueNeverStale(existing, state, trigger) ==
    \/ existing = "absent"
    \/ /\ ~Busy(state)
       /\ existing \notin {"running", "stale"}
       /\ ~(existing = "succeeded" /\ trigger = "scheduler")

ShouldEnqueue(existing, state, trigger) ==
    \/ existing = "absent"
    \/ /\ ~Busy(state)
       /\ existing # "running"
       /\ ~(existing = "succeeded" /\ trigger = "scheduler")

\* Mutant: an UPDATE only, nothing is inserted.
UpsertedNoInsert(existing, now, force) == IF now = "absent" THEN now ELSE "scheduled"

\* What upsertSchedulingState makes of the row `now` when the caller read
\* `existing`: an insert that a unique violation turns into nothing, an update
\* back to 'scheduled', or no write at all.
Upserted(existing, now, force) ==
    IF existing = "absent"
    THEN IF now = "absent" THEN "scheduled" ELSE now
    ELSE IF force \/ existing \in {"failed", "dead_letter", "retrying", "succeeded", "stale"}
         THEN "scheduled"
         ELSE now

Goto(c, pc) ==
    call' = [call EXCEPT ![c] = IF pc \in Returned THEN [IdleCall EXCEPT !.pc = pc]
                                ELSE [@ EXCEPT !.pc = pc]]

\* A call of enqueueIfNeeded (scheduler, worker) or forceEnqueue (api) starts.
\* `ran` is a history variable: a worker took the job since the call began.
Begin(c, j, t) ==
    /\ call[c].pc \in Returned
    /\ call' = [call EXCEPT ![c] = [pc |-> IF t = "api" THEN "get" ELSE "row",
                                    job |-> j, trigger |-> t,
                                    existing |-> "absent", ran |-> FALSE]]
    /\ UNCHANGED <<row, bull, run>>

\* scrapingJobRepository.findOne: first in enqueueIfNeeded, after the removal
\* in forceEnqueue.
ReadRow(c) ==
    /\ call[c].pc = "row"
    /\ call' = [call EXCEPT ![c].existing = row[call[c].job],
                            ![c].pc = IF call[c].trigger = "api" THEN "upsert" ELSE "get"]
    /\ UNCHANGED <<row, bull, run>>

\* Mutant: forceEnqueue does not remove the old job.
DecisionNoRemove(k, found, state) ==
    IF k.trigger = "api"
    THEN IF found /\ Busy(state) THEN "idle" ELSE "row"
    ELSE IF ShouldEnqueue(k.existing, state, k.trigger) THEN "upsert" ELSE "idle"

\* Where the call goes when it knows the BullMQ job (found or not) and its state.
Decision(k, found, state) ==
    IF k.trigger = "api"
    THEN IF found /\ Busy(state) THEN "idle" ELSE IF found THEN "remove" ELSE "row"
    ELSE IF ShouldEnqueue(k.existing, state, k.trigger) THEN "upsert" ELSE "idle"

\* queue.getJob(jobId)
GetJob(c) ==
    /\ call[c].pc = "get"
    /\ Goto(c, IF bull[call[c].job].state = "none"
               THEN Decision(call[c], FALSE, "none") ELSE "state")
    /\ UNCHANGED <<row, bull, run>>

\* bullJob.getState(): by id, so it may be the state of a later job, or
\* 'unknown' (here "none") of one that is gone.
GetState(c) ==
    /\ call[c].pc = "state"
    /\ Goto(c, Decision(call[c], TRUE, bull[call[c].job].state))
    /\ UNCHANGED <<row, bull, run>>

\* Mutant: a removal that does not care for the lock.
RemovableAlways(j) == TRUE

\* BullMQ refuses to remove a job whose lock is held.
Removable(j) == \/ bull[j].state # "active"
                \/ bull[j].owner = NoWorker
                \/ "lock_loss" \in Faults

Remove(c) ==
    LET j == call[c].job IN
    /\ call[c].pc = "remove"
    /\ Removable(j)
    /\ bull' = [bull EXCEPT ![j] = NoBullJob]
    /\ Goto(c, "row")
    /\ UNCHANGED <<row, run>>

\* remove().catch(() => undefined): the call goes on as if it had removed.
RemoveIgnored(c) ==
    /\ call[c].pc = "remove"
    /\ bull[call[c].job].state = "active" \/ "remove_error" \in Faults
    /\ Goto(c, "row")
    /\ UNCHANGED <<row, bull, run>>

Upsert(c) ==
    LET k == call[c] IN
    /\ k.pc = "upsert"
    /\ row' = [row EXCEPT ![k.job] = Upserted(k.existing, @, k.trigger = "api")]
    /\ call' = [call EXCEPT ![c] = [@ EXCEPT !.pc = "add", !.existing = "absent"]]
    /\ UNCHANGED <<bull, run>>

\* queue.add with a jobId: BullMQ adds nothing when it still keeps a job of
\* that id, in whatever state, and the code cannot tell.
Add(c) ==
    LET j == call[c].job IN
    /\ call[c].pc = "add"
    /\ bull' = [bull EXCEPT ![j] = IF @.state = "none" THEN NewBullJob ELSE @]
    /\ Goto(c, "enqueued")
    /\ UNCHANGED <<row, run>>

\* Any await rejects, or the caller's process dies: nothing is undone.
CallThrows(c) ==
    /\ call[c].pc \notin Returned
    /\ Goto(c, "idle")
    /\ UNCHANGED <<row, bull, run>>

-----------------------------------------------------------------------------
(* Workers: MarketplaceProcessor and AdsTxtProcessor                         *)

\* BullMQ hands a waiting job to a free slot and locks it for that slot.
Take(w, j) ==
    /\ run[w].pc = "idle"
    /\ bull[j].state = "waiting"
    /\ bull' = [bull EXCEPT ![j] = [@ EXCEPT !.state = "active", !.owner = w]]
    /\ run' = [run EXCEPT ![w] = [pc |-> "load", job |-> j]]
    /\ call' = [c \in Calls |-> IF call[c].job = j
                                THEN [call[c] EXCEPT !.ran = TRUE] ELSE call[c]]
    /\ UNCHANGED row

\* UPDATE scraping_jobs ... WHERE applicationId AND type: nothing without a row.
WriteRow(w, status, pc) ==
    /\ row' = [row EXCEPT ![run[w].job] = IF @ = "absent" THEN @ ELSE status]
    /\ run' = [run EXCEPT ![w].pc = pc]
    /\ UNCHANGED <<bull, call>>

MarkRunning(w) == run[w].pc = "load" /\ WriteRow(w, "running", "run")

MarkSucceeded(w) == run[w].pc = "run" /\ WriteRow(w, "succeeded", "ok")

\* The catch block: retrying for a retryable code, dead_letter otherwise.  The
\* marketplace handler also comes here when its follow-up enqueue throws after
\* the row says succeeded, and that error is retryable.
MarkFailed(w, status) ==
    /\ \/ run[w].pc = "run"
       \/ run[w].pc = "ok" /\ status = "retrying"
    /\ WriteRow(w, status, "bad")

\* The lock decides whether BullMQ accepts what a worker says of its job.
Holds(w) == LET b == bull[run[w].job] IN b.state = "active" /\ b.owner = w

\* The handler returns: at its end, or because the application is gone.
Return(w) ==
    /\ run[w].pc \in {"load", "ok"}
    /\ bull' = IF Holds(w)
               THEN [bull EXCEPT ![run[w].job] =
                       [@ EXCEPT !.state = "completed", !.owner = NoWorker]]
               ELSE bull
    /\ run' = [run EXCEPT ![w] = IdleRun]
    /\ UNCHANGED <<row, call>>

\* Mutant: a retry that is not counted.
ThrowUncounted(w) ==
    /\ run[w].pc # "idle"
    /\ bull' = IF Holds(w)
               THEN [bull EXCEPT ![run[w].job] = [@ EXCEPT !.state = "delayed", !.owner = NoWorker]]
               ELSE bull
    /\ run' = [run EXCEPT ![w] = IdleRun]
    /\ UNCHANGED <<row, call>>

\* Mutant: a retry however many there have been.
ThrowForEver(w) ==
    /\ run[w].pc # "idle"
    /\ bull' = IF Holds(w)
               THEN [bull EXCEPT ![run[w].job] =
                       [@ EXCEPT !.state = "delayed", !.made = @ + 1, !.owner = NoWorker]]
               ELSE bull
    /\ run' = [run EXCEPT ![w] = IdleRun]
    /\ UNCHANGED <<row, call>>

\* The handler throws: before markJobRunning (no publisher domain), out of the
\* catch block, or because the catch block's own writes fail.  BullMQ retries
\* every error, the ones the code calls permanent too, up to Attempts.
Throw(w) ==
    LET j == run[w].job IN
    /\ run[w].pc # "idle"
    /\ bull' = IF Holds(w)
               THEN [bull EXCEPT ![j] =
                       [state |-> IF bull[j].made + 1 < Attempts THEN "delayed" ELSE "failed",
                        made |-> bull[j].made + 1, stalls |-> bull[j].stalls,
                        owner |-> NoWorker]]
               ELSE bull
    /\ run' = [run EXCEPT ![w] = IdleRun]
    /\ UNCHANGED <<row, call>>

\* The worker process dies; BullMQ's lock is left to expire.
Crash(w) ==
    /\ run[w].pc # "idle"
    /\ bull' = IF Holds(w) THEN [bull EXCEPT ![run[w].job].owner = NoWorker] ELSE bull
    /\ run' = [run EXCEPT ![w] = IdleRun]
    /\ UNCHANGED <<row, call>>

-----------------------------------------------------------------------------
(* BullMQ's own steps and the passing of time                                *)

\* The backoff delay is over.
Promote(j) ==
    /\ bull[j].state = "delayed"
    /\ bull' = [bull EXCEPT ![j].state = "waiting"]
    /\ UNCHANGED <<row, call, run>>

\* The stalled check finds an active job without a lock.
Stall(j) ==
    /\ bull[j].state = "active"
    /\ bull[j].owner = NoWorker \/ "lock_loss" \in Faults
    /\ bull' = [bull EXCEPT ![j] =
                  [state |-> IF bull[j].stalls < MaxStalled THEN "waiting" ELSE "failed",
                   made |-> bull[j].made,
                   stalls |-> IF bull[j].stalls < MaxStalled
                              THEN bull[j].stalls + 1 ELSE bull[j].stalls,
                   owner |-> NoWorker]]
    /\ UNCHANGED <<row, call, run>>

\* removeOnComplete: 1000, removeOnFail: 5000.
Evict(j) ==
    /\ bull[j].state \in {"completed", "failed"}
    /\ bull' = [bull EXCEPT ![j] = NoBullJob]
    /\ UNCHANGED <<row, call, run>>

\* staleAfterMs have passed since the startedAt of the row ...
Age(j) ==
    /\ row[j] = "running"
    /\ row' = [row EXCEPT ![j] = "stale"]
    /\ UNCHANGED <<bull, call, run>>

\* ... or since the one an enqueuer has read.
AgeCopy(c) ==
    /\ call[c].existing = "running"
    /\ call' = [call EXCEPT ![c].existing = "stale"]
    /\ UNCHANGED <<row, bull, run>>

-----------------------------------------------------------------------------
CallStep(c) == \/ ReadRow(c) \/ GetJob(c) \/ GetState(c)
               \/ Remove(c) \/ RemoveIgnored(c) \/ Upsert(c) \/ Add(c)

RunStep(w) == \/ MarkRunning(w) \/ MarkSucceeded(w)
              \/ \E s \in {"retrying", "dead_letter"} : MarkFailed(w, s)
              \/ Return(w) \/ Throw(w)

CallNext(c) == \/ \E j \in Jobs, t \in Triggers : Begin(c, j, t)
               \/ CallStep(c) \/ CallThrows(c) \/ AgeCopy(c)

WorkerNext(w) == \/ \E j \in Jobs : Take(w, j)
                 \/ RunStep(w) \/ Crash(w)

BullNext(j) == Promote(j) \/ Stall(j) \/ Evict(j) \/ Age(j)

Next == \/ \E c \in Calls : CallNext(c)
        \/ \E w \in Workers : WorkerNext(w)
        \/ \E j \in Jobs : BullNext(j)

Spec == Init /\ [][Next]_vars

-----------------------------------------------------------------------------
\* Types: every column, BullMQ field and program counter stays in its domain.
TypeOK ==
    /\ row \in [Jobs -> Statuses]
    /\ bull \in [Jobs -> [state : BullStates, made : 0..Attempts,
                          stalls : 0..MaxStalled, owner : Workers \cup {NoWorker}]]
    /\ call \in [Calls -> [pc : CallPCs, job : Jobs \cup {NoJob}, trigger : Triggers,
                           existing : Statuses, ran : BOOLEAN]]
    /\ run \in [Workers -> [pc : RunPCs, job : Jobs \cup {NoJob}]]

\* The handlers' UPDATEs and increment never miss: whatever job a worker is on,
\* or BullMQ keeps, has its scraping_jobs row (the row is written before
\* queue.add, and a lost insert race means that it is there).
RowBeforeJob ==
    /\ \A j \in Jobs : bull[j].state # "none" => row[j] # "absent"
    /\ \A w \in Workers : run[w].pc # "idle" => row[run[w].job] # "absent"

\* A forced refresh that answers enqueued: true is not answered by an old run:
\* the job is pending, or a worker has taken it since the request arrived
\* (forceEnqueue, with no failed removal ignored).
ForcedRunIsFresh ==
    [][\A c \in Calls :
         (call[c].pc = "add" /\ call[c].trigger = "api" /\ call'[c].pc = "enqueued")
         => call[c].ran \/ Busy(bull'[call[c].job].state)]_vars

\* The same of every call that returns true and logs queue_job_enqueued.
EnqueuedIsPending ==
    [][\A c \in Calls :
         (call[c].pc = "add" /\ call'[c].pc = "enqueued")
         => call[c].ran \/ Busy(bull'[call[c].job].state)]_vars

\* No two worker slots work on one (application, type) at the same time, as
\* long as locks are not lost: enqueuers add, remove and re-add the id under
\* running workers and never produce a second run.
OneRunPerJob ==
    \A w1, w2 \in Workers :
        (run[w1].pc # "idle" /\ run[w2].pc # "idle" /\ w1 # w2)
        => run[w1].job # run[w2].job

\* While a worker runs, its row tells how far it is, or an enqueuer with a stale
\* read has put it back to scheduled: it never shows the end of another run.
RowFollowsRun ==
    \A w \in Workers :
        LET status == row[run[w].job] IN
        /\ run[w].pc = "run" => status \in {"running", "stale", "scheduled"}
        /\ run[w].pc = "ok" => status \in {"succeeded", "scheduled"}
        /\ run[w].pc = "bad" => status \in {"retrying", "dead_letter", "scheduled"}

=============================================================================
