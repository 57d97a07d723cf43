# App Ads Scraper: TLA+ models, checks and proofs

A verification project for the scraper in `src/` (paths below are relative to
the repository's own `src/`, e.g. `modules/queue/...`). The TLA+ modules model
the parts in which several processes meet: the job queue and its database rows,
the scheduler's lock and paging, the distributed rate limiter, the two job
handlers with the entities they load and save, the tables that processes and
handlers fill together, and the HTTP request with its retries. TLC checks them on
small instances, TLAPS proves their safety properties, and the measures behind their
termination, for every instance.

## 1. The system

Three process roles run from one image and share PostgreSQL and Redis.

| Component | State | Operations | Interacts with |
| --- | --- | --- | --- |
| `IdempotentJobService` | `scraping_jobs` rows (PostgreSQL), BullMQ jobs with id `type:applicationId` (Redis) | `enqueueIfNeeded`, `forceEnqueue` | called by scheduler, marketplace handler, REST API |
| `MarketplaceProcessor`, `MarketplaceService` | `applications`, `publishers` | `refreshApplication` | BullMQ, providers, follow-up `enqueueIfNeeded` |
| `AdsTxtProcessor`, `AdsTxtFetcher` | `app_ads_txt`, `applications` | `fetch` | BullMQ, rate limiter, HTTP client |
| `SchedulerService` | Redis key `lock:scheduler:scan`, cursor of a scan | `runDueScans` every `pollIntervalMs`, lock heartbeat | `enqueueIfNeeded` |
| `DistributedRateLimiter` | Redis keys `rate-limit-slot:<key>:<n>` | `acquire`, lease heartbeat, `release` | called by `AdsTxtFetcher` |
| `ReliableHttpClient`, `classifyHttpFailure`, `validateOutboundUrl` | none between calls | `get` with redirects, retries, bounded body | called by `AdsTxtFetcher` |
| domain utilities, error codes | none | `normalizeDomain`, `buildAdsTxtUrl`, `isRetryableErrorCode` | both handlers |
| `SeedService`, `bootstrap` | `applications` | count, then insert | runs once per process |
| REST API | none | two POST routes, one GET | `forceEnqueue` |
| configuration, logging, metrics, health, providers with mock data, migrations, wiring | - | - | - |

What is hard in it:

* No transaction joins PostgreSQL and BullMQ. Each `await` of an enqueuer is a
  point where other enqueuers and workers step in, where the call may throw, and
  after which what was read is stale.
* BullMQ ignores `add` for an id it still keeps, retries every error, hands a job
  of a dead (or merely slow) worker to another one, and evicts old jobs.
* Locks and slots are Redis keys with a TTL, kept alive by timers of processes
  that may be late or die.
* Handlers load an entity, wait for the network, and save the entity.
* Catch and finally blocks write too, after some of the steps before succeeded.

What makes each component correct: one run of a job at a time and a row that
tells its state (queue); one scan at a time and complete paging (scheduler);
limits respected and no slot lost (limiter); good content kept and nobody's
columns overwritten (handlers); bounded requests, each of them checked, and a
verdict that fits what failed (HTTP client); links that name one publisher and
races that are lost once (tables). `PROJECT.json` lists the hazards line by line
with the properties aimed at them.

## 2. Modules

| Module | Models | Extends / instantiates |
| --- | --- | --- |
| `JobQueue` | `idempotent-job.service.ts`, the outline of both handlers, BullMQ | - |
| `JobQueueDue` | the check dates by which `scheduler.service.ts` selects what it calls for, and the fairness of the queue | `JobQueue` |
| `Pipeline` | `marketplace.service.ts`, `ads-txt.fetcher.ts`, their processors, TypeORM's `save` | `JQ == INSTANCE JobQueue` (refinement) |
| `Scheduler` | `scheduler.service.ts`, the Redis lock | - |
| `RateLimiter` | `distributed-rate-limiter.service.ts`, the Redis slots | - |
| `DomainUtils` | `domain.utils.ts` | - |
| `HttpClient` | `reliable-http.client.ts`, `http-error-classifier.ts`, `url-safety.ts`, the parts of `ads-txt.fetcher.ts` before and after the request | `DomainUtils` |
| `Catalog` | `seed.service.ts`, `main.ts`, the publishers in `marketplace.service.ts` | - |
| `JobQueueProofs`, `PipelineProofs`, `SchedulerProofs`, `RateLimiterProofs`, `DomainUtilsProofs`, `HttpClientProofs`, `CatalogProofs` | theorems | the module they are named after, `TLAPS`; `PipelineProofs` also `JP == INSTANCE JobQueueProofs`; `HttpClientProofs` also `DomainUtilsProofs` |
| `MCJobQueue`, `MCJobQueueDue`, `MCPipeline`, `MCScheduler`, `MCRateLimiter`, `MCHttpClient`, `MCCatalog` | instances for TLC | the module they instantiate |

Operators whose comment begins with "Mutant" are no part of a model. Each changes
one definition the way a bug would; with it in place TLC finds the property
violated that `PROJECT.json` names with it.

### JobQueue

`row[j]` is the status of the `scraping_jobs` row of an (application, type)
pair; `"stale"` is `running` with a `startedAt` older than `staleAfterMs`, the
only use of a timestamp. `bull[j]` is the BullMQ job: its state, attempts made,
stalls, and who holds its lock. `call[c]` is an execution of `enqueueIfNeeded`
(triggers `scheduler`, `worker`) or `forceEnqueue` (`api`) at one of its awaits
with what it has read; `run[w]` is a worker slot.

One action per await: `ReadRow` (`findOne`), `GetJob`, `GetState`, `Remove` and
`RemoveIgnored` (`remove().catch`), `Upsert` (`upsertSchedulingState`, with the
unique violation that returns), `Add`, `CallThrows`. `Decision` and
`ShouldEnqueue` are the branches. Workers: `Take`, `MarkRunning`,
`MarkSucceeded`, `MarkFailed`, `Return`, `Throw`, `Crash`. BullMQ (external):
`Promote`, `Stall`, `Evict`, the lock test in `Removable` and `Holds`, and `Add`,
which does nothing if the id exists. `Age` and `AgeCopy` let `startedAt` go stale.

Assumed of BullMQ: `add` with an existing id is a no-op; `remove` refuses a locked
job; only the holder of the lock moves a job on; a job id of the form
`type:id` is accepted, as the repository's tests (which replace the queue by a stub)
assume. BullMQ's documentation asks for custom ids without a `:`, and `package.json:29`
takes any 5.x from 5.58.2 on; BullMQ is not part of the repository, so what that version
does with these ids has to be tried. If it rejects them, every `add` is a `CallThrows`:
the safety properties cover that, the liveness of `JobQueueDue` does not. `Faults` switches on two
things the code does not protect itself from: `"lock_loss"` (a live worker's job
is declared stalled) and `"remove_error"` (a removal fails and is ignored).

Left out: applications that do not exist (the code never deletes one), the
`attempts` counter and `error` text of a row, which nothing reads.

### JobQueueDue

`due` is the set of jobs whose `next*CheckAt` is set and has come; `Redate` changes it in
any way, since time and the handlers move the dates. `JobQueue` lets the scheduler call
for any job, because the page of a scan may be old by the time of the call; only what is
due and stays so is *sure* to be called for. An application without a publisher domain
has null in `nextAdsTxtCheckAt`, so its ads.txt job is never due: when the API forces it,
`fetch` throws before it has touched the row, and the row stays `scheduled` for good.
`UnfinishedIsRequeued` and `DueIsRequeued` therefore speak of jobs that stay due.

### Pipeline

Adds what the handlers do to `app[a]` (the columns `publisherDomain`,
`nextMarketplaceCheckAt`, `nextAdsTxtCheckAt`) and to `ads[a]` (`app_ads_txt`: no row, a row without content, a row
with content). `work[w]` holds a handler's program counter, the entity it has
loaded (`copy`), the record it has read (`old`), and what `save` found to be dirty.
`save` is TypeORM's: a SELECT (`SaveSelect`), then an UPDATE of the columns that
differ (`SaveUpdate`). Every await may throw into the catch block (`Catch`), whose
own writes may throw out of the handler (`Throw`); `Crash` may come anywhere.

A date is null or a tick of the clock `now`: a stored date and the copy a handler has
loaded are the same date for as long as nobody writes it, and both are due when the clock
reaches them (`Due`). `Intervals` is what `addHours` and `addDays` add.

`RunPC` maps a handler's program counter to that of a worker in `JobQueue`, and
`JobQueueSpec == JQ!Spec` is checked as a property: every step of a handler is a
step of a `JobQueue` worker or leaves its variables alone. So `JobQueue` is the
abstract specification of the handlers, and what is proved of it is true of them.
Its worker calls (`calling`) are those of the follow-up.

Left out: the `publishers` table (it is in `Catalog`) and the display columns
(name, URL, status, last-check dates), which no decision reads. Which errors are
permanent is a choice, restricted to the places where a `ScraperError` can come
from; `HttpClient` says which failures of a request they are.

### Scheduler

`lock` is the Redis key (holder and ticks to expiry), `up` the set of processes that run,
`scan[s]` one execution of `runDueScans` in the process `ProcessOf[s]`: `setInterval`
starts one whether or not the previous has ended. `Acquire` is SET NX PX, `Renew` and
`Release` are the two scripts that compare the token, `Query`, `Enqueue` and `LoopDone`
the paging loops, `Tick` time. `LateBeat = FALSE` means that time does not pass a heartbeat
that is due.

An exception in a loop (`ScanThrows`) goes through the finally block and then rejects the
promise of `void this.runDueScans()`, which nothing handles: Node ends the process, with
every execution in it (`Rejected`). A SET, heartbeat or DEL that fails ends it the same
way; together with a kill this is `Crash`. The key of a dead execution stays until its TTL
ends. `Start` is somebody starting a process again: `main.ts` has no handler, the compose
file no restart policy, so it may happen and never has to.

`scan[s].due` is what the loop's fixed `now` selects. `Checked` takes rows out of it while
the scan is on. `FallDue` makes a row due, for any of the running loops, from those with
the latest `now` on: `refreshApplication` takes a date at its line 45 and saves it at
line 87, so that a row can fall due at an instant before the `now` of a loop that has paged
past it. That loop ends without the row, a later one finds it. `scan[s].since` is what a
loop has selected ever since it began, and what `LoopIsComplete` is about.

### RateLimiter

`slot[<<key, n>>]` is a Redis key, `client[c]` a call of `acquire` and then its
lease: `Try` is one SET NX PX, `Undo`, `GiveBack` and `GaveBack` the catch block of
a round, `DelayOver` the poll delay, `Loop` the deadline test, `Renew` the
heartbeat, `Done` the lease's release. `TryThrows` includes the SET that was
executed although its reply was lost. Time may pass a command, a release or a
heartbeat that is due; `late` remembers whether it has, and the properties that
need timeliness say so (`~ late => ...`). `acquire` without a domain is left out:
its only caller passes one.

### DomainUtils

`normalizeDomain` as a function of a sequence of characters, step by step as in the
code (trim, lower case, protocol, path, query, port, dots). Only the kinds of
characters that the function tells apart are distinguished. `IsHost` says what a host
is without those steps, `Spellings(h)` gives ways in which the host `h` may be written.
Fragments, user info and white space other than blanks, which the code does not cut
off, are no characters of the model: a text with one of them would be rate-limited
under another name than the host that is requested. A blank is the character `"blank"`.

### HttpClient

One request for an `app-ads.txt`: `raw` is the publisher's domain as it is written,
`get` holds the locals of `get` and `executeRequest` with the await they are at,
`sent` counts requests, `spent` the ticks that timeouts and back-offs take.

`Build` makes the URL, `Check` and `Lookup` are `validateOutboundUrl`, `Send` is `fetch`,
whose answer is one of `Redirect`, `ErrorStatus`, `Good`, `Breaks`; `Chunk` and `BodyDone`
read the body, `Abort` is the timeout, `Throws` the catch block of `get` with the
decision to retry, `Again` the end of the delay, `Accept` the look at the content type.
A URL is what the validation can tell of it. `classifyHttpFailure`,
`shouldRetryHttpError` and `isRetryableErrorCode` are operators.

Three things are left as they are in the code although they look odd. A hostname that
resolves to a private address is a `NetworkError` (what `ensureSafeAddress` throws is
caught with the lookup's own errors) and is retried, while a private address written
as such is a definitive `SsrfBlocked`. A hostname that does not resolve is let through.
A `Location` that is no URL is a `Temporary` failure.

Left out: the branches for a malformed URL and a missing hostname, which cannot be
reached from a URL that `buildAdsTxtUrl` or `new URL` has made; the timer's going on
after an attempt has thrown, which nobody observes (its controller is not used again);
headers, and the details of errors.

### Catalog

`app[a]` is the link of an application to its publisher, the two columns
`publisherId` and `publisherDomain` that the code writes together; `publisher[i]` the
domain of the row with id `i`, which is unique and is never changed; `role[r]` where a
process is in `bootstrap`; `task[t]` a handler with the entity it has loaded; `lost[x]`
how often a process or a refresh has lost the same race to insert.

`Count` and `Insert` are `SeedService.seed`: the insert is one transaction that
commits or hits a unique constraint, which nothing catches, so that the process ends.
`Load`, `Discover`, `FindPublisher`, `InsertPublisher`, `SaveSelect` and `SaveUpdate` are a
marketplace refresh, `Load` and the two steps of `save` also an ads.txt fetch; `Throws`
leads into the catch block, which saves what the entity holds by then, or out of the
handler. The renaming of a publisher is part of `FindPublisher`, since names are left
out. That one task of an application and kind runs at a time is `OneRunPerJob` of
`JobQueue`.

## 3. Runs

`tlc -config <cfg> <module>`; every bound is a constant of the `.cfg`.

| Run | Checks | Bounds, and why they are enough |
| --- | --- | --- |
| `JobQueueLocked` | `TypeOK`, `RowBeforeJob`, `OneRunPerJob`, `RowFollowsRun`, `ForcedRunIsFresh` | 1 job (jobs share nothing), 2 enqueuers and 2 workers (races are of pairs), 2 attempts, 1 stall, no faults |
| `JobQueueLive` | `EveryJobSettles`, `UnfinishedIsRequeued` (`JobQueueDue`) | 1 enqueuer, 1 worker slot (a second one makes the graph too large for liveness), lock loss, fairness below |
| `JobQueuePending` | violates `EnqueuedIsPending` | finding 2 |
| `JobQueueRecheck` | violates `DueIsRequeued` | finding 1 |
| `SchedulerTimely` | `TypeOK`, `OneScan`, `NeverTwice`, `LoopIsComplete` | 1 process with 2 executions (a scan longer than the polling interval), 2 applications in pages of 1 (the page boundary, and a last page that is full), TTL 3, interval 1, 1 failure |
| `SchedulerLive` | `OwnLockOnly`, `LockComesFree`, `DueIsVisited` | 2 processes with an execution each (one takes over from the other), late heartbeats, TTL 2, 1 application in pages of 2 (the page that is not full), 2 failures (both processes may die) |
| `RateLimiter` | `TypeOK`, `LimitRespected`, `LeaseIsWhole`, `WaitersHoldNothing`, `OwnSlotOnly`, `AcquireEnds`, `SlotsComeFree` | 2 clients on 2 domains, global limit 2 (both its slots), domain limit 1 (a key that is full while another is not), TTL 2, interval, poll delay 1, deadline 2, 1 failure |
| `Pipeline` | `TypeOK`, `OldIsCurrent`, `LastGoodKept`, `FollowUpIsRecorded`, `JobQueueSpec` | 1 application (2 jobs), 2 workers, `MaxCalls` = 2 calls of an enqueuer besides the follow-ups: a marketplace and an ads.txt handler at the same time, and two fetches in a row; `MaxTime` = 1 and an interval of 1: a next check that is stored or loaded falls due |
| `HttpClient` | `TypeOK`, `RequestsBounded`, `RetriesAreRight`, `VerdictsAgree`, `TimeIsBounded`, `SpellingsAgree`, `NormalIsHost`, `OnlyCheckedIsSent`, `BudgetsRunDown`, `GetEnds` | 3 attempts, 2 redirects, bodies up to one unit over a limit of 2, timeout 2, back-offs that meet the limit of 9 in the second attempt, `Retry-After` of 0 or of more than any back-off; every text of up to 5 characters of 8 kinds (37448: each cut-off once, and each inside another) |
| `Catalog` | `TypeOK`, `LinkIsRight`, `UpIsSeeded`, `LosesOnce` | 2 processes, 2 applications, 2 domains, 2 ids; a refresh and a fetch of one application at a time with a refresh of the other: a stale save, a race for a publisher, a change of the publisher under a fetch |
| `PipelineRollback` | violates `FetchedIsKept` | finding 3 |
| `PipelineStaleSave` | violates `OwnColumnsOnly` | finding 4 |

Symmetry (of enqueuers, workers, executions, processes, domains, ids) is used in
runs that check safety only. `CHECK_DEADLOCK FALSE` stands in the Pipeline
configurations, where a behaviour ends when `MaxCalls` is used up, and in that of
HttpClient, where a request ends. `MaxFailures`, `MaxCalls` and `MaxTime` bound behaviours; they
stand in the guards of the actions they bound. `RetryAfters` bounds what servers ask
for, `lost` stops counting at 2.

Fairness. Awaits end, one way or the other, and interval timers fire (weak
fairness of the steps, of `Tick`). BullMQ serves every waiting job (strong: slots
are busy on and off), its timers fire.

`Scheduler` assumes no restart: the polling timer of a process that is up starts another
execution (weak fairness of `Acquire`, which needs its process up), and `DueIsVisited`
leaves out behaviours with a moment without any scheduler. `JobQueueDue` assumes more,
since its question is about the queue: a scheduler polls every `pollIntervalMs`, is
started again when a call that throws has ended it, and so calls `enqueueIfNeeded` again
for a row that is due and stays so, and these calls do not fail at the same await for ever
(strong fairness of each await); a worker that dies is started again. With the compose file
as it is, one exception in a scan ends all scanning until somebody starts the scheduler.

No fairness is assumed of crashes, exceptions, API calls or stale reads. That
a fetch ends at some time, which `RateLimiter` assumes of a lease's holder, is
`GetEnds` of `HttpClient`: it holds with no fairness for servers, since the timers of
Node fire and lookups end.

### Findings

1. **A check that succeeded once is never scheduled again**
   (`idempotent-job.service.ts:177`, `JobQueueRecheck`). `shouldEnqueue` refuses
   every scheduler call for a `succeeded` row. After a good marketplace refresh the
   row stays `succeeded`; seven days later each scan selects the application and
   skips it, unless the API forces a refresh. (ads.txt rows come out of it with a
   marketplace follow-up only.) `FinishedStaysFinished` and `RefreshedForGood` prove that
   this is so in every instance and interleaving, not only in the trace of the run.
2. **`enqueueIfNeeded` returns true although nothing was enqueued**
   (`idempotent-job.service.ts:78`, `JobQueuePending`). BullMQ keeps the last
   1000 completed and 5000 failed jobs and ignores an `add` of their ids;
   `forceEnqueue` removes such a job first, `enqueueIfNeeded` does not. The row says
   `scheduled`, the log says `queue_job_enqueued`, no job is pending.
3. **A failed save undoes a fetch that was stored** (`ads-txt.fetcher.ts:121`,
   `PipelineRollback`). If `applicationRepository.save` throws after the content was
   stored, the catch block saves the record read before the fetch: null content, or
   the older content, over the new one; if there was no record, it inserts a second
   one, fails on the unique constraint and leaves the row `running`. `LastGoodKept`,
   checked by `Pipeline`, is what remains true: a run that *found* good content
   never leaves the application without any; and `LossIsInCatch` proves that no other
   statement than this catch block ever takes stored content away.
4. **A stale entity is saved over newer columns** (`ads-txt.fetcher.ts:88`,
   `PipelineStaleSave`). The application loaded before the request is saved after it. In the
   trace a whole marketplace refresh, which finds the publisher's domain gone, saves between
   the load and the save of an ads.txt handler; the save finds the column different from its
   copy and writes the old domain back. `OwnColumnsOnly` is about the domain, which no other
   write of this handler touches; the refresh's next check is overwritten the same way.

More that was met while modelling, without a run of its own because no property of the
code or its documents is contradicted in a model, or the point is one of text:

* `lockTtlMs` up to 1000 makes the scheduler's heartbeat interval `max(1000, ttl/3)` no
  shorter than the TTL, so that the lock expires under a live scan; the limiter's
  `slotTtlMs` likewise. `BeatTimely` below is the assumption that excludes it.
* `README.md:82` of the repository describes a fallback to `http` for demo domains
  `*.local`. `fetchAdsTxtDocument` has none, and `validateOutboundUrl` refuses `*.local`
  as `SsrfBlocked`, which is definitive: the demo's ads.txt rows end as `dead_letter`.
* `Retry-After` has no upper bound. `TimeIsBounded` excludes what a server asks for:
  for that long the worker's slot and the rate limiter's lease are kept.
* Of several roles that count an empty table at the same time one inserts and the others
  die of the unique constraint; they start once they are started again (`LosesOnce`),
  which the compose file does not do by itself.
* Two applications of one publisher domain with different publisher names rename the
  row back and forth.
* `migrationsRun` is false and no script runs the migration: the tables have to be
  there before the first start.

## 4. Proofs

`tlapm <module>.tla` for each of the seven proof modules. The theorems hold for any sets
of jobs, calls, workers, applications, executions, clients, domains, processes and
rows, any attempts, batch size, limits and times, and texts of any length, that satisfy
the `ASSUME`s next to the constants. Those are what the code guarantees (`app-config`
accepts positive numbers only, ids are positive, the limiter's key "global" is no domain
since a domain has a dot), or say that null values are no members of the sets and texts
are sequences of characters.

| Theorem | Says | Further assumption |
| --- | --- | --- |
| `JobQueueProofs!TypeCorrect` | `Spec => []TypeOK` | - |
| `RowExists` | `Spec => []RowBeforeJob` | - |
| `ForcedIsFresh` | `Spec => ForcedRunIsFresh` | `"remove_error" \notin Faults` |
| `RunsExclude` | `Spec => []OneRunPerJob` | `"lock_loss" \notin Faults` |
| `RowTracksRun` | `Spec => []RowFollowsRun` | `"lock_loss" \notin Faults` |
| `PendingJobsRunDown` | `Spec => PendingRunsDown`: a pending job uses up attempts, stalls and stages | - |
| `ChangesStayBounded` | `Spec => []ChangesBounded`: at most `4 * (Attempts + MaxStalled) + 2` of them | - |
| `FinishedStaysFinished` | `Spec => OnlyOthersRestart`: the scheduler never repeats a good run | - |
| `PipelineProofs!TypeCorrect` | `Spec => []TypeOK` | - |
| `Refinement` | `Spec => JobQueueSpec` | - |
| `RowsAreThere`, `HandlersExclude`, `RowTracksHandler`, `ForcedReachesHandler` | `RowBeforeJob`, `OneRunPerJob`, `RowFollowsRun`, `ForcedRunIsFresh` of the handlers' `JobQueue` (`JQ`) | as of `JobQueueProofs` |
| `FollowUpRecorded` | `Spec => []FollowUpIsRecorded` | - |
| `OldStaysCurrent` | `Spec => []OldIsCurrent` | `"lock_loss" \notin Faults` |
| `GoodContentKept` | `Spec => []LastGoodKept` | `"lock_loss" \notin Faults` |
| `RefreshedForGood` | `Spec => OnlyApiRefreshes`: a good marketplace refresh is repeated by the API only | - |
| `LossIsInCatch` | `Spec => LostByCatchOnly`: content is lost in one statement only | - |
| `SchedulerProofs!TypeCorrect` | `Spec => []TypeOK` | - |
| `PagesNeverRepeat` | `Spec => []NeverTwice` | - |
| `ScansSkipNothing` | `Spec => LoopIsComplete`: a loop hands over all it has selected since it began | - |
| `ScansEnd` | `Spec => ScansRunDown`: every step of a scan lowers what it has left | - |
| `ScansStayBounded` | `Spec => []ScansBounded`: at most `4 * Cardinality(Apps) + 5` steps | - |
| `LockIsOnesOwn` | `Spec => OwnLockOnly` | - |
| `LockAlwaysExpires` | `Spec => []HeldExpires` | - |
| `OrphanedLockExpires` | `Spec => OrphanRunsDown`: a dead execution's lock runs out | - |
| `ScansExclude` | `Spec => []OneScan` | `BeatTimely` |
| `RateLimiterProofs!TypeCorrect` | `Spec => []TypeOK` | - |
| `WaitersFree` | `Spec => []WaitersHoldNothing` | - |
| `SlotsAreOnesOwn` | `Spec => OwnSlotOnly` | - |
| `SlotsAlwaysExpire` | `Spec => []HeldExpires` | - |
| `OrphanedSlotsExpire` | `Spec => OrphansRunDown`: a dead client's slots run out | - |
| `AcquireSpends`, `AcquireStaysBounded` | `Spec => AcquireRunsDown`: every step of `acquire` leaves it less of three natural numbers, in lexicographic order | - |
| `LeasesStayWhole` | `Spec => []LeaseIsWhole` | `BeatTimely` |
| `LimitsHold` | `Spec => []LimitRespected` | `BeatTimely` |
| `DomainUtilsProofs!EverySpelling` | `normalizeDomain` makes the host `h` of every way to write `h` | - |
| `NormalizingTwice` | what it makes of any text is a host, and stays so | - |
| `HttpClientProofs!TypesHold` | `Spec => []TypeOK` | - |
| `RequestsAreBounded` | `Spec => []RequestsBounded` | - |
| `OnlyCheckedGoesOut` | `Spec => OnlyCheckedIsSent` | - |
| `RetriesFollowFailures` | `Spec => []RetriesAreRight` | - |
| `ListsAgree` | `Spec => []VerdictsAgree` | - |
| `TimeStaysBounded` | `Spec => []TimeIsBounded` | - |
| `SpellingsLeadToOneHost` | `Spec => []SpellingsAgree` | - |
| `StoredIsHost` | `Spec => []NormalIsHost` | - |
| `EveryStepSpends` | `Spec => BudgetsRunDown`: every step of a request lowers its budgets | - |
| `CatalogProofs!TypeCorrect` | `Spec => []TypeOK` | - |
| `LinksStayRight` | `Spec => []LinkIsRight` | - |
| `StartedFindsSeed` | `Spec => []UpIsSeeded` | - |
| `RacesAreLostOnce` | `Spec => []LosesOnce` | - |

The further assumptions are needed. A job whose lock is lost runs twice; a removal
that fails is ignored by the code and leaves the old job in place; a heartbeat
that is late, or not more frequent than the TTL, lets a second scan in.

**JobQueue.** Types alone are not inductive: that a worker's step stays within
`0..Attempts` needs to know that a job BullMQ will still run has attempts left, and
that a program counter inside a call or a run names a job. This is `InProgress`,
and `Typed == TypeOK /\ InProgress`. On it rest

* `RowKnown`: what a call has read stays true because rows are never deleted, so a
  call at `add` has its row. Hence `RowBeforeJob`.
* `FreshKnown`: what a forced call knows of the BullMQ job once it has seen it not
  busy. Only a new job can have come in between, and if that is no longer waiting a
  worker has taken it since. Hence an `add` that is ignored is ignored for a job
  that will run.
* `Exclusive`: a slot that runs a job holds its BullMQ lock, and the row shows how far
  the run is. An enqueuer cannot remove a locked job, and its upsert can do no more
  than write `scheduled`.
* `Finished`: the row says `succeeded`, nothing is pending or running, and calls of the
  scheduler for the job stand before the branch that ends them. No step of the scheduler,
  of a slot or of BullMQ leaves it.

`ChangesLeft` counts what BullMQ still allows a pending job: four for each attempt or stall
left (a stage each of delayed, waiting, active and abandoned), and the stages of this one.
`Change` lists what one step can make of a BullMQ job; each of them that leaves it pending
lowers the number.

**Pipeline.** `Handling` says what the program counter of a handler implies about its
locals: which of the two handlers it is in, whether the row has been marked, what job the
follow-up call is about. `Queueing` is `Typed /\ RowKnown` of the queue, of the handlers as
`JobQueue` sees them (`Run`). Neither is inductive without the other: that an `UPDATE` does
not miss its row, so that it is the write `JobQueue` has for it, needs `RowKnown`; that
`RowKnown` is kept needs the step to be one of `JobQueue` (`NextRefines`), and then follows
from the lemma of `JobQueueProofs`, instantiated. The refinement is this step and the initial
states. For the stored file, `Files` says that what a handler has read is what is stored
until it stores something itself: only an ads.txt handler of the same application could
change it, and `Exclusive` of the queue excludes a second one.

What is proved of `JobQueue` is carried over by the refinement's steps, with
the lemmas of `JobQueueProofs` instantiated for the handlers' queue. For `RefreshedForGood`
the invariant `Callers` is needed too: a slot's own call is on only while its handler
follows up, which is about an ads.txt job, and no enqueuer calls in the name of a worker.

**Scheduler.** `Good(r)` says what an execution knows of its loop at each await: at a
query everything selected since the loop began (`since`) up to the cursor has been handed
over and nothing after it; in a page all of it has been handed over, is in the page, or
(the batch was full) is ahead of the page. It is kept because a page is the *lower end* of
what it is taken from (`FirstBatchIs`, a lemma on `ORDER BY id LIMIT n`), and because
`since` can only lose rows while the loop is on; what comes in meanwhile may be in a page
or behind the cursor, and disturbs neither. Both paging theorems follow from it. `Held`
says that a scanning execution owns the key and that the key outlives the next
heartbeat by `Ttl - Beat`; with `BeatTimely` it is inductive, and two executions cannot
both own the key.

`StepsLeft` is what a scan has left at most: two steps for each application that its loop has
not handed over, the query that finds nothing, the ads loop while the marketplace loop is
on, the release. An application of a page is never among those handed over (`Good`), so a
call lowers the number, whatever falls due meanwhile. `HeldExpires` says that a held key
has ticks left; nobody has the token of a dead execution, so its key can only lose them.

**RateLimiter.** A step of a client touches no slot but its own and free ones (`Moves`),
so it is enough to follow the client that moves (`OneMoves`). `Known` says that every
slot with a client's token is among what it has got, that a waiting client has got
nothing, and which keys it has a slot of at each await; it is inductive whatever is
late, and gives `WaitersHoldNothing` and `OwnSlotOnly`. `Whole` is the timed half: slots
of a round were set in this tick, those of a lease have `Ttl - Beat` ticks more than
the heartbeat is away. `LimitRespected` then follows by an injection of the leases of a
key into its slot numbers.

What a call of `acquire` has left is a triple: its time, with a delay that is on counted as
spent; its place in the round; what it still has to do there. While there is time a round
goes loop, try, undo, delay, and the delay takes time; once the time is over
the same places are the way to the error (`Turn` orders them both ways). A client has
finitely many slots (`AllCounted`), so the releases of a round can be counted.

**DomainUtils.** Each step of `normalizeDomain` is a cut at the first or after the last
character of a kind. Where that is cannot be computed by induction here; it is the least
or the greatest of a set of positions, which exists because the positions are
well-founded. For a text that is written as surroundings around a host (`Written`) each
lemma says what one step leaves of the surroundings, and `EverySpelling` composes them.
What has gone through all steps has nothing left that a second pass would cut
(`NormalizingTwice`).

**HttpClient.** `Known` counts: before attempt *a* no more than *(a - 1)* rounds of
requests, timeouts and longest back-offs have gone; within an attempt the redirects
bound the requests and the timer the ticks. What was thrown is one of a list of
failures, for each of which `Verdicts` evaluates the operators of the classification.
That the back-off is a natural number needs that 2^n is one: it is the number of subsets of
a set of n elements, which the library's facts on finite sets give without an induction.

`Budgets` is what a request has left, in the order in which one is spent for another: attempts,
the stages of one, redirects, the awaits of a hop, what of the body is below its limit, ticks
of the timers. `EveryStepSpends` shows that every step lowers the first of them that it changes;
all six are natural numbers (`BudgetsAre`), so that there are finitely many steps.

**Catalog.** Publishers are never deleted and never change their domain, so a link that
was right once stays right, and a copy of any age holds a right link. Since a domain is
unique, two right links differ in both columns or in none: what `save` writes is a
whole link or nothing. `LosesOnce`: who has lost a race knows that the row is there, and
looks before it inserts again.

### Only model-checked

Every invariant and every action property of the passing runs is a theorem. What stays
with TLC:

* Liveness (`EveryJobSettles`, `UnfinishedIsRequeued`, `LockComesFree`, `DueIsVisited`,
  `AcquireEnds`, `SlotsComeFree`, `GetEnds`): `ENABLED` and fairness are out of the prover's
  reach. What these rest on besides fairness is proved, for every instance: the measures that
  each step lowers (`PendingJobsRunDown`, `ScansEnd`, `AcquireSpends`, `EveryStepSpends`)
  and the expiry of what the dead leave (`OrphanedLockExpires`, `OrphanedSlotsExpire`).
  That a step is possible while something is left, and that a due check is found by a later
  scan, is TLC's part.
* The findings, which are counterexamples.

## 5. What is not modelled

* **Providers and mock data.** They answer from a table; `Pipeline` and `Catalog` let the
  answer be anything they can return.
* **Configuration.** Its numbers are constants; parsing and defaults are left out.
* **Logging, metrics, health.** Output only.
* **Schema, migrations, module wiring.** The unique constraints are modelled where the
  code relies on them; the rest has no behaviour at run time.
* **Publisher names, display columns, content hashes.** Stored and shown, not decided by;
  a hash is compared in `Pipeline` as changed or not.
* **Which addresses are private.** The lists of `url-safety.ts` are a table; the model
  starts from the answer.

## 6. Plan

The queue came first because all others call it, then the scheduler, the limiter and the
handlers, then the request and the tables around them. What is left, in this order:

1. The error codes in `Pipeline`: that `Fetch` fails with a code `HttpClient` can end with
   (here a choice between permanent and retryable at the places where either can come).
2. Liveness of the scheduler together with the queue: `Enqueue` of `Scheduler` replaced
   by the calls of `JobQueue`.
