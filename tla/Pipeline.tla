------------------------------ MODULE Pipeline ------------------------------
(***************************************************************************)
(* The two job handlers in full: MarketplaceService.refreshApplication and  *)
(* AdsTxtFetcher.fetch, with the application entity each loads at its start *)
(* and saves at its end, the stored app-ads.txt, the follow-up job, and the *)
(* enqueuers of JobQueue around them.  The handlers refine the workers of   *)
(* JobQueue: see JobQueueSpec.                                              *)
(*                                                                          *)
(* save() of an entity is TypeORM's: a SELECT, then an UPDATE of the        *)
(* columns in which the entity differs from what was selected.  Dates are   *)
(* instants of a clock, `now`, in rows and loaded entities alike.  Left     *)
(* out: the publisher table and the display columns, which no decision      *)
(* reads.                                                                   *)
(***************************************************************************)
EXTENDS Naturals

CONSTANTS Apps,       \* applications
          Domains,    \* publisher domains
          Enqueuers,  \* executions of IdempotentJobService in the scheduler and the API
          Workers,    \* worker slots; a slot makes its follow-up call itself
          NoJob, NoWorker, Attempts, MaxStalled, Faults,  \* as in JobQueue
          Null,       \* no domain, no date
          Intervals,  \* what the handlers add to `now` for the next check, in ticks
          MaxTime,    \* bound on the clock
          MaxCalls    \* bound on the calls of the enqueuers in a behaviour

ASSUME NamesAssumption == /\ Workers \cap Enqueuers = {} /\ Null \notin Domains \cup Nat
                          /\ Intervals \subseteq Nat \ {0}
                          /\ MaxTime \in Nat /\ MaxCalls \in Nat

VARIABLES row, bull, call,  \* as in JobQueue
          app,   \* app[a]: the row of applications
          ads,   \* ads[a]: the content in app_ads_txt, "absent" without a row
          work,  \* work[w]: what a worker slot is doing
          now,   \* the clock
          calls  \* how many calls the enqueuers have made

vars == <<row, bull, call, app, ads, work, now, calls>>

Mkt(a) == <<a, "marketplace">>
Ads(a) == <<a, "ads">>
Jobs == Apps \X {"marketplace", "ads"}

\* What JobQueue assumes of its constants.
ASSUME QueueAssumption == /\ Faults \subseteq {"lock_loss", "remove_error"}
                          /\ Attempts \in Nat \ {0} /\ MaxStalled \in Nat
                          /\ NoJob \notin Jobs /\ NoWorker \notin Workers

\* next*CheckAt, and what of it the scheduler polls.
Checks == {Null} \cup Nat
Due(date) == date # Null /\ date <= now

\* addHours, addDays: when a handler may want the next check.
Later == {now + i : i \in Intervals}

Columns == {"domain", "nextMkt", "nextAds"}
Entities == [domain : Domains \cup {Null}, nextMkt : Checks, nextAds : Checks]
Contents == {"absent", "empty", "filled"}

NewApp == [domain |-> Null, nextMkt |-> 0, nextAds |-> Null]

\* `copy` is the application entity the handler has loaded, `old` the app-ads.txt
\* it has read, `dirty` the columns an UPDATE will write, `status` what the catch
\* block reports, `marked` whether markJobFinished(succeeded) is done.
NoWork == [pc |-> "idle", job |-> NoJob, copy |-> NewApp, old |-> "absent",
           dirty |-> {}, status |-> "retrying", marked |-> FALSE]

\* What JobQueue sees of a handler.
RunPC(r) == IF r.pc \in {"idle", "load"} THEN r.pc
            ELSE IF r.pc = "mark" THEN "load"
            ELSE IF r.pc = "rethrow" THEN "bad"
            ELSE IF r.marked THEN "ok" ELSE "run"

Run == [w \in Workers |-> [pc |-> RunPC(work[w]), job |-> work[w].job]]

JQ == INSTANCE JobQueue WITH Calls <- Enqueuers \cup Workers, run <- Run

Init == /\ row = [j \in Jobs |-> "absent"]
        /\ bull = [j \in Jobs |-> JQ!NoBullJob]
        /\ call = [c \in Enqueuers \cup Workers |-> JQ!IdleCall]
        /\ app = [a \in Apps |-> NewApp]
        /\ ads = [a \in Apps |-> "absent"]
        /\ work = [w \in Workers |-> NoWork]
        /\ now = 0
        /\ calls = 0

App(w) == work[w].job[1]
Is(w, kind) == work[w].job[2] = kind

\* A step inside a handler: `r` is what the slot does next.
To(w, r) == work' = [work EXCEPT ![w] = r]
At(w, pcs) == work[w].pc \in pcs
Local == UNCHANGED <<row, bull, call, app, ads, now, calls>>

-----------------------------------------------------------------------------
(* Enqueuers                                                                 *)

\* The scheduler calls for what is due, the API for anything.
Begin(c, a, k) ==
    /\ calls < MaxCalls
    /\ calls' = calls + 1
    /\ UNCHANGED <<app, ads, work, now>>
    /\ \/ /\ Due(IF k = "ads" THEN app[a].nextAds ELSE app[a].nextMkt)
          /\ JQ!Begin(c, <<a, k>>, "scheduler")
       \/ JQ!Begin(c, <<a, k>>, "api")

EnqueuerStep(c) ==
    /\ UNCHANGED <<app, ads, work, now, calls>>
    /\ JQ!CallStep(c) \/ JQ!CallThrows(c) \/ JQ!AgeCopy(c)

-----------------------------------------------------------------------------
(* Both handlers                                                             *)

Take(w, j) ==
    /\ To(w, [NoWork EXCEPT !.pc = "load", !.job = j])
    /\ UNCHANGED <<app, ads, now, calls>>
    /\ JQ!Take(w, j)

\* applicationRepository.findOne.  The ads.txt handler throws at once for an
\* application without a domain, before markJobRunning.
Load(w) ==
    /\ At(w, {"load"})
    /\ Is(w, "ads") => app[App(w)].domain # Null
    /\ To(w, [work[w] EXCEPT !.pc = "mark", !.copy = app[App(w)]])
    /\ Local

\* Mutant: ... WHERE applicationId, of whatever type.
SetRowOfBoth(w, status) ==
    row' = [row EXCEPT ![Mkt(App(w))] = status, ![Ads(App(w))] = status]

\* UPDATE scraping_jobs, of the row that RowBeforeJob says is there.
SetRow(w, status) == row' = [row EXCEPT ![work[w].job] = status]

MarkRunning(w) ==
    /\ At(w, {"mark"})
    /\ SetRow(w, "running")
    /\ To(w, [work[w] EXCEPT !.pc = IF Is(w, "ads") THEN "read" ELSE "find"])
    /\ UNCHANGED <<bull, call, app, ads, now, calls>>

\* applicationRepository.save, in the try block ("save") or the catch block
\* ("csave"): the SELECT and the UPDATE of what differs.
SaveSelect(w) ==
    /\ At(w, {"save", "csave"})
    /\ To(w, [work[w] EXCEPT !.pc = IF @ = "save" THEN "update" ELSE "cupdate",
                             !.dirty = {k \in Columns : work[w].copy[k] # app[App(w)][k]}])
    /\ Local

\* Mutant: the entity is replaced by the columns that were written.
SavedPartly(w) == [k \in work[w].dirty |-> work[w].copy[k]]

Saved(w) == [k \in Columns |-> IF k \in work[w].dirty THEN work[w].copy[k]
                                                      ELSE app[App(w)][k]]

SaveUpdate(w) ==
    /\ At(w, {"update", "cupdate"})
    /\ app' = [app EXCEPT ![App(w)] = Saved(w)]
    /\ To(w, [work[w] EXCEPT !.pc = IF @ = "update" THEN "succeed" ELSE "fail",
                             !.dirty = {}])
    /\ UNCHANGED <<row, bull, call, ads, now, calls>>

\* The handler is through with its locals.
Forget(r, pc) == [NoWork EXCEPT !.pc = pc, !.job = r.job]

\* markJobFinished(succeeded); then the marketplace handler's follow-up, for an
\* application that is listed and has a domain.
MarkSucceeded(w) ==
    /\ At(w, {"succeed"})
    /\ SetRow(w, "succeeded")
    /\ To(w, IF Is(w, "marketplace") /\ work[w].copy.nextAds # Null
             THEN [work[w] EXCEPT !.pc = "follow", !.marked = TRUE]
             ELSE [Forget(work[w], "done") EXCEPT !.marked = TRUE])
    /\ UNCHANGED <<bull, call, app, ads, now, calls>>

MarkFailed(w) ==
    /\ At(w, {"fail"})
    /\ SetRow(w, work[w].status)
    /\ To(w, Forget(work[w], "rethrow"))
    /\ UNCHANGED <<bull, call, app, ads, now, calls>>

\* The awaits of the try blocks.  ScraperErrors, some of them permanent, come
\* only from the lookup and the fetch.
TryPCs == {"find", "fetch", "store", "save", "update", "succeed"}

Caught(r, status, date) ==
    IF r.job[2] = "ads"
    THEN [r EXCEPT !.pc = "cstore", !.status = status, !.dirty = {}, !.copy.nextAds = date]
    ELSE [r EXCEPT !.pc = "csave", !.status = status, !.dirty = {}, !.copy.nextMkt = date]

Catch(w, status) ==
    /\ At(w, TryPCs)
    /\ status = "dead_letter" => At(w, {"find", "fetch"})
    /\ \E date \in Later : To(w, Caught(work[w], status, date))
    /\ Local

\* The processor returns to BullMQ.
Return(w) ==
    /\ At(w, {"done"})
    /\ To(w, NoWork)
    /\ UNCHANGED <<app, ads, now, calls>>
    /\ JQ!Return(w)

\* It rethrows, or one of the awaits outside the try blocks throws: the loads,
\* the catch block's own writes, the release of the lease.
Throw(w) ==
    /\ At(w, {"load", "mark", "read", "cstore", "csave", "cupdate", "fail", "rethrow", "done"})
    /\ At(w, {"done"}) => Is(w, "ads")
    /\ To(w, NoWork)
    /\ UNCHANGED <<app, ads, now, calls>>
    /\ JQ!Throw(w)

\* A crash in the middle of the follow-up is CallThrows followed by this.
Crash(w) ==
    /\ ~At(w, {"idle", "calling"})
    /\ To(w, NoWork)
    /\ UNCHANGED <<app, ads, now, calls>>
    /\ JQ!Crash(w)

-----------------------------------------------------------------------------
(* MarketplaceService.refreshApplication                                     *)

\* findApplication: not listed, or listed with a domain or none, removed or not.  The
\* app-ads.txt of a listed application with a domain is due at once.
Find(w) ==
    /\ At(w, {"find"})
    /\ \E d \in Domains \cup {Null}, removed \in BOOLEAN, listed \in BOOLEAN, date \in Later :
         To(w, [work[w] EXCEPT !.pc = "save", !.copy =
                  IF ~listed THEN [@ EXCEPT !.nextMkt = date, !.nextAds = Null]
                  ELSE [domain |-> d, nextMkt |-> date,
                        nextAds |-> IF removed \/ d = Null THEN Null ELSE now]])
    /\ Local

\* enqueueIfNeeded(applicationId, ads_txt_fetch, 'worker') ...
Follow(w) ==
    /\ At(w, {"follow"})
    /\ To(w, [work[w] EXCEPT !.pc = "calling"])
    /\ UNCHANGED <<app, ads, now, calls>>
    /\ JQ!Begin(w, Ads(App(w)), "worker")

\* ... which returns something,
FollowStep(w) ==
    /\ At(w, {"calling"})
    /\ \E pc \in {"calling", "done"} :
         /\ To(w, [work[w] EXCEPT !.pc = pc])
         /\ UNCHANGED <<app, ads, now, calls>>
         /\ JQ!CallStep(w) \/ JQ!AgeCopy(w)
         /\ (pc = "done") <=> (call'[w].pc \in JQ!Returned)

\* Mutant: the failure of the follow-up is swallowed.
FollowThrowsIgnored(w) ==
    /\ At(w, {"calling"})
    /\ To(w, [work[w] EXCEPT !.pc = "done"])
    /\ UNCHANGED <<app, ads, now, calls>>
    /\ JQ!CallThrows(w)

\* ... or throws into the catch block of a refresh that has succeeded.
FollowThrows(w) ==
    /\ At(w, {"calling"})
    /\ \E date \in Later : To(w, Caught(work[w], "retrying", date))
    /\ UNCHANGED <<app, ads, now, calls>>
    /\ JQ!CallThrows(w)

-----------------------------------------------------------------------------
(* AdsTxtFetcher.fetch                                                       *)

\* Mutant: no look at the stored record, as if each fetch were the first.
ReadNothing(w) ==
    /\ At(w, {"read"})
    /\ To(w, [work[w] EXCEPT !.pc = "fetch"])
    /\ Local

\* adsTxtRepository.findOne, outside the try block.
ReadAds(w) ==
    /\ At(w, {"read"})
    /\ To(w, [work[w] EXCEPT !.pc = "fetch", !.old = ads[App(w)]])
    /\ Local

\* normalizeDomain, the rate limiter's lease and the HTTP client, with success.
Fetch(w) ==
    /\ At(w, {"fetch"})
    /\ \E date \in Later : To(w, [work[w] EXCEPT !.pc = "store", !.copy.nextAds = date])
    /\ Local

\* adsTxtRepository.save: an insert when no row was read, which the unique
\* constraint rejects if there is one by now, an update otherwise.
Storable(w) == work[w].old = "absent" => ads[App(w)] = "absent"

StoreAds(w) ==
    /\ At(w, {"store"})
    /\ Storable(w)
    /\ ads' = [ads EXCEPT ![App(w)] = "filled"]
    /\ To(w, [work[w] EXCEPT !.pc = "save"])
    /\ UNCHANGED <<row, bull, call, app, now, calls>>

\* Mutant: null, whatever was there.
KeptNothing(old) == "empty"

\* existing?.content ?? null
Kept(old) == IF old = "filled" THEN "filled" ELSE "empty"

\* The catch block: the content that was read is kept, next to the error code.
StoreError(w) ==
    /\ At(w, {"cstore"})
    /\ Storable(w)
    /\ ads' = [ads EXCEPT ![App(w)] = Kept(work[w].old)]
    /\ To(w, [work[w] EXCEPT !.pc = "csave"])
    /\ UNCHANGED <<row, bull, call, app, now, calls>>

-----------------------------------------------------------------------------
\* Time passes: what is stored, or loaded, is due when the clock reaches it.
Tick ==
    /\ now < MaxTime
    /\ now' = now + 1
    /\ UNCHANGED <<row, bull, call, app, ads, work, calls>>

BullStep(j) ==
    /\ UNCHANGED <<app, ads, work, now, calls>>
    /\ JQ!BullNext(j)

HandlerStep(w) ==
    \/ Load(w) \/ MarkRunning(w) \/ SaveSelect(w) \/ SaveUpdate(w) \/ MarkSucceeded(w)
    \/ MarkFailed(w) \/ Return(w) \/ Throw(w) \/ Find(w) \/ Follow(w) \/ FollowStep(w)
    \/ FollowThrows(w) \/ ReadAds(w) \/ Fetch(w) \/ StoreAds(w) \/ StoreError(w)
    \/ \E s \in {"retrying", "dead_letter"} : Catch(w, s)

Next ==
    \/ \E c \in Enqueuers : EnqueuerStep(c)
                            \/ \E a \in Apps, k \in {"marketplace", "ads"} : Begin(c, a, k)
    \/ \E w \in Workers : HandlerStep(w) \/ Crash(w) \/ \E j \in Jobs : Take(w, j)
    \/ \E j \in Jobs : BullStep(j)
    \/ Tick

Spec == Init /\ [][Next]_vars

-----------------------------------------------------------------------------
\* Types of the application, the stored file and the handlers' locals.
TypeOK ==
    /\ calls \in 0..MaxCalls /\ now \in 0..MaxTime
    /\ app \in [Apps -> Entities]
    /\ ads \in [Apps -> Contents]
    /\ \A w \in Workers :
         LET r == work[w] IN
         /\ r.pc \in TryPCs \cup {"idle", "load", "mark", "read", "follow", "calling", "done",
                                  "cstore", "csave", "cupdate", "fail", "rethrow"}
         /\ r.job \in Jobs \cup {NoJob} /\ r.copy \in Entities /\ r.old \in Contents
         /\ r.dirty \subseteq Columns /\ r.status \in {"retrying", "dead_letter"}
         /\ r.marked \in BOOLEAN

\* The handlers do to scraping_jobs and to BullMQ what the workers of JobQueue do:
\* every behaviour of the pipeline is one of that module, with its theorems.
JobQueueSpec == JQ!Spec

\* The app-ads.txt record that a handler has read is still the stored one when its
\* fetch succeeds: no insert hits the unique constraint, no update goes back in time.
OldIsCurrent ==
    \A w \in Workers : work[w].pc \in {"fetch", "store"} => work[w].old = ads[App(w)]

\* A run that has found good content never leaves the application without, however
\* its fetch, its writes and its catch block end.
LastGoodKept ==
    \A w \in Workers : (~At(w, {"idle"}) /\ work[w].old = "filled") => ads[App(w)] = "filled"

\* Content that has been fetched and stored stays stored, of a first fetch too.
FetchedIsKept == [][\A a \in Apps : ads[a] = "filled" => ads'[a] = "filled"]_vars

\* A refresh that ends well for a listed application with a domain has left an
\* ads_txt_fetch row behind, whoever else was enqueueing that job.
FollowUpIsRecorded ==
    \A w \in Workers : (work[w].pc = "done" /\ Is(w, "marketplace") /\ work[w].copy.nextAds # Null)
                       => row[Ads(App(w))] # "absent"

\* Saving the entity that an ads.txt fetch loaded before its HTTP request leaves
\* the publisher domain, which is the marketplace refresh's, as it is in the database.
OwnColumnsOnly ==
    [][\A w \in Workers :
         (work[w].pc \in {"update", "cupdate"} /\ Is(w, "ads") /\ work'[w].pc \in {"succeed", "fail"})
         => app'[App(w)].domain = app[App(w)].domain]_vars

=============================================================================
