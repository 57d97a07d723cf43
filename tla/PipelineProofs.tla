--------------------------- MODULE PipelineProofs ---------------------------
(***************************************************************************)
(* Theorems about Pipeline for any sets of applications, domains, enqueuers *)
(* and worker slots.  The invariants of JobQueue and the lemmas that its    *)
(* steps keep them come from JobQueueProofs, instantiated with the same     *)
(* mapping as JobQueue in Pipeline.                                         *)
(***************************************************************************)
EXTENDS Pipeline, TLAPS

JP == INSTANCE JobQueueProofs WITH Calls <- Enqueuers \cup Workers, run <- Run

-----------------------------------------------------------------------------
\* The constants of Pipeline are constants of JobQueue.
LEMMA QueueConstants == JP!FaultsAssumption /\ JP!CountsAssumption /\ JP!NullsAssumption
  BY QueueAssumption DEF JP!FaultsAssumption, JP!CountsAssumption, JP!NullsAssumption

\* The queue that Pipeline instantiates and the one of the proofs are the same.
LEMMA SameCall ==
    ASSUME NEW c \in Enqueuers \cup Workers
    PROVE  JQ!CallNext(c) <=> JP!CallNext(c)
  BY DEF JQ!CallNext, JP!CallNext, JQ!CallStep, JP!CallStep, JQ!Begin, JP!Begin,
     JQ!ReadRow, JP!ReadRow, JQ!GetJob, JP!GetJob, JQ!GetState, JP!GetState,
     JQ!Remove, JP!Remove, JQ!RemoveIgnored, JP!RemoveIgnored, JQ!Upsert, JP!Upsert,
     JQ!Add, JP!Add, JQ!CallThrows, JP!CallThrows, JQ!AgeCopy, JP!AgeCopy,
     JQ!Goto, JP!Goto, JQ!Decision, JP!Decision, JQ!Busy, JP!Busy,
     JQ!ShouldEnqueue, JP!ShouldEnqueue, JQ!Upserted, JP!Upserted,
     JQ!Removable, JP!Removable, JQ!NoBullJob, JP!NoBullJob, JQ!NewBullJob, JP!NewBullJob,
     JQ!IdleCall, JP!IdleCall, JQ!Returned, JP!Returned, JQ!Triggers, JP!Triggers

LEMMA SameWorker ==
    ASSUME NEW w \in Workers
    PROVE  JQ!WorkerNext(w) <=> JP!WorkerNext(w)
  BY DEF JQ!WorkerNext, JP!WorkerNext, JQ!RunStep, JP!RunStep, JQ!Take, JP!Take,
     JQ!MarkRunning, JP!MarkRunning, JQ!MarkSucceeded, JP!MarkSucceeded,
     JQ!MarkFailed, JP!MarkFailed, JQ!WriteRow, JP!WriteRow, JQ!Return, JP!Return,
     JQ!Throw, JP!Throw, JQ!Crash, JP!Crash, JQ!Holds, JP!Holds, JQ!IdleRun, JP!IdleRun

LEMMA SameBull ==
    ASSUME NEW j \in Jobs
    PROVE  JQ!BullNext(j) <=> JP!BullNext(j)
  BY DEF JQ!BullNext, JP!BullNext, JQ!Promote, JP!Promote, JQ!Stall, JP!Stall,
     JQ!Evict, JP!Evict, JQ!Age, JP!Age, JQ!NoBullJob, JP!NoBullJob

LEMMA SameNext == JQ!Next <=> JP!Next
  BY SameCall, SameWorker, SameBull DEF JQ!Next, JP!Next

-----------------------------------------------------------------------------
\* The records of worker slots.
Works == [pc : TryPCs \cup {"idle", "load", "mark", "read", "follow", "calling", "done",
                            "cstore", "csave", "cupdate", "fail", "rethrow"},
          job : Jobs \cup {NoJob}, copy : Entities, old : Contents, dirty : SUBSET Columns,
          status : {"retrying", "dead_letter"}, marked : BOOLEAN]

\* What a program counter of a handler says about its locals: which of the two
\* handlers it is in, whether the row has been marked, and when `old` was read.
Sound(r) ==
    /\ r.pc # "idle" => r.job \in Jobs
    /\ r.pc \in {"read", "fetch", "store", "cstore"} => r.job[2] = "ads"
    /\ r.pc \in {"find", "follow", "calling"} => r.job[2] = "marketplace"
    /\ r.marked => r.pc \in {"follow", "calling", "done", "csave", "cupdate", "fail"}
    /\ r.pc \in {"follow", "calling", "done"} => r.marked
    /\ (r.marked /\ r.pc \in {"csave", "cupdate", "fail"}) => r.status = "retrying"
    /\ r.old # "absent" => /\ r.job \in Jobs /\ r.job[2] = "ads"
                           /\ r.pc \notin {"idle", "load", "mark", "read"}

\* The follow-up call of a slot is a call of enqueueIfNeeded for the ads.txt job.
Following(w) ==
    work[w].pc = "calling" => /\ call[w].pc \notin {"idle", "enqueued"}
                              /\ call[w].job = Ads(App(w)) /\ call[w].trigger = "worker"

Handling ==
    /\ calls \in 0..MaxCalls /\ now \in 0..MaxTime
    /\ app \in [Apps -> Entities]
    /\ ads \in [Apps -> Contents]
    /\ work \in [Workers -> Works]
    /\ \A w \in Workers : Sound(work[w]) /\ Following(w)

\* The queue's own invariants, of the handlers as JobQueue sees them.
Queueing == JP!Typed /\ JP!RowKnown

\* A job is the pair of its components.
LEMMA JobPairs ==
    ASSUME NEW j \in Jobs
    PROVE  /\ j[1] \in Apps /\ j[2] \in {"marketplace", "ads"} /\ j = <<j[1], j[2]>>
           /\ Ads(j[1]) \in Jobs
  BY DEF Jobs, Ads

\* A slot on a job, in the terms of JobQueue: the job is one, and its row exists.
LEMMA RowOfRun ==
    ASSUME Handling, Queueing, NEW w \in Workers, work[w].pc # "idle"
    PROVE  /\ work[w].job \in Jobs /\ row \in [Jobs -> JP!Statuses]
           /\ row[work[w].job] # "absent"
           /\ Run[w].pc = RunPC(work[w]) /\ Run[w].job = work[w].job
<1>1. /\ Run[w].pc = RunPC(work[w]) /\ Run[w].job = work[w].job
  BY DEF Run
<1>2. RunPC(work[w]) # "idle" /\ work[w].job \in Jobs
  BY DEF RunPC, Handling, Sound
<1> QED
  BY <1>1, <1>2 DEF Queueing, JP!Typed, JP!TypeOK, JP!RowKnown, JP!RowBeforeJob

\* A step to `r` moves one slot, in Pipeline and in what JobQueue sees.
LEMMA Moved ==
    ASSUME Handling, NEW w \in Workers, NEW r, To(w, r)
    PROVE  /\ work'[w] = r /\ (r \in Works => work' \in [Workers -> Works])
           /\ \A v \in Workers \ {w} : work'[v] = work[v]
           /\ Run' = [Run EXCEPT ![w] = [pc |-> RunPC(r), job |-> r.job]]
<1>1. /\ work'[w] = r /\ (r \in Works => work' \in [Workers -> Works])
      /\ \A v \in Workers \ {w} : work'[v] = work[v]
  BY DEF To, Handling
<1>2. \A v \in Workers : Run'[v] = [pc |-> RunPC(work'[v]), job |-> work'[v].job]
  BY DEF Run
<1>3. Run' = [v \in Workers |-> [pc |-> RunPC(work'[v]), job |-> work'[v].job]]
  BY DEF Run
<1>4. [Run EXCEPT ![w] = [pc |-> RunPC(r), job |-> r.job]]
        = [v \in Workers |-> IF v = w THEN [pc |-> RunPC(r), job |-> r.job]
                                      ELSE [pc |-> RunPC(work[v]), job |-> work[v].job]]
  BY DEF Run
<1>5. Run' = [Run EXCEPT ![w] = [pc |-> RunPC(r), job |-> r.job]]
  BY <1>1, <1>3, <1>4
<1> QED
  BY <1>1, <1>5

\* What a handler may store as the date of a check.
LEMMA Dates ==
    ASSUME Handling
    PROVE  now \in Checks /\ Null \in Checks /\ \A date \in Later : date \in Checks
<1>1. now \in Nat
  BY NamesAssumption DEF Handling
<1>2. \A i \in Intervals : now + i \in Nat
  BY <1>1, NamesAssumption
<1> QED
  BY <1>1, <1>2 DEF Checks, Later

\* Where the catch block of a handler begins.
LEMMA CaughtIs ==
    ASSUME NEW q \in Works, q.job \in Jobs, NEW status \in {"retrying", "dead_letter"},
           NEW date \in Checks
    PROVE  LET r == Caught(q, status, date)
           IN  /\ r \in Works /\ r.job = q.job /\ r.old = q.old /\ r.marked = q.marked
               /\ r.status = status
               /\ q.job[2] = "ads" => r.pc = "cstore"
               /\ q.job[2] # "ads" => r.pc = "csave"
<1> DEFINE r == Caught(q, status, date)
           ads1 == [q.copy EXCEPT !.nextAds = date]
           mkt1 == [q.copy EXCEPT !.nextMkt = date]
<1>1. ads1 \in Entities /\ mkt1 \in Entities /\ {} \in SUBSET Columns
  BY DEF Works, Entities
<1>2. /\ q.job[2] = "ads" =>
           r = [q EXCEPT !.pc = "cstore", !.status = status, !.dirty = {}, !.copy = ads1]
      /\ q.job[2] # "ads" =>
           r = [q EXCEPT !.pc = "csave", !.status = status, !.dirty = {}, !.copy = mkt1]
  BY DEF Caught, Works
<1> HIDE DEF r, ads1, mkt1
<1>3. /\ r \in Works /\ r.job = q.job /\ r.old = q.old /\ r.marked = q.marked
      /\ r.status = status
      /\ q.job[2] = "ads" => r.pc = "cstore"
      /\ q.job[2] # "ads" => r.pc = "csave"
  <2>1. CASE q.job[2] = "ads"
    BY <1>1, <1>2, <2>1 DEF Works
  <2>2. CASE q.job[2] # "ads"
    BY <1>1, <1>2, <2>2 DEF Works
  <2> QED
    BY <2>1, <2>2
<1> QED
  BY <1>3 DEF r

\* The handler steps that JobQueue does not see: the locals of the slot, the
\* application and the stored file.
Unseen(w) ==
    \/ Load(w) \/ SaveSelect(w) \/ SaveUpdate(w) \/ Find(w) \/ ReadAds(w) \/ Fetch(w)
    \/ StoreAds(w) \/ StoreError(w)
    \/ \E s \in {"retrying", "dead_letter"} : Catch(w, s)

LEMMA UnseenMoves ==
    ASSUME Handling, NEW w \in Workers, Unseen(w)
    PROVE  \E r \in Works : /\ To(w, r) /\ Sound(r) /\ r.pc # "calling" /\ r.job = work[w].job
                            /\ RunPC(r) = RunPC(work[w])
<1> DEFINE q == work[w]
<1>q. q \in Works /\ Sound(q)
  BY DEF Handling
<1>a. \A b \in Apps : app[b] \in Entities /\ ads[b] \in Contents
  BY DEF Handling
<1>j. q.pc # "idle" => App(w) \in Apps
  BY <1>q, JobPairs DEF App, Sound
<1> DEFINE OK(r) == /\ r \in Works /\ Sound(r) /\ r.pc # "calling" /\ r.job = q.job
                    /\ RunPC(r) = RunPC(q)
<1>s. ASSUME NEW r, To(w, r), OK(r)
      PROVE  \E r_1 \in Works : /\ To(w, r_1) /\ Sound(r_1) /\ r_1.pc # "calling"
                                /\ r_1.job = work[w].job /\ RunPC(r_1) = RunPC(work[w])
  BY <1>s
<1>1. CASE Load(w)
  <2> DEFINE r == [q EXCEPT !.pc = "mark", !.copy = app[App(w)]]
  <2>1. To(w, r) /\ q.pc = "load"
    BY <1>1 DEF Load, At
  <2>2. OK(r)
    BY <2>1, <1>q, <1>a, <1>j DEF Works, Sound, RunPC, TryPCs
  <2> QED
    BY <2>1, <2>2, <1>s
<1>2. CASE SaveSelect(w)
  <2> DEFINE d == {k \in Columns : q.copy[k] # app[App(w)][k]}
             r == [q EXCEPT !.pc = IF q.pc = "save" THEN "update" ELSE "cupdate", !.dirty = d]
  <2>1. To(w, r) /\ q.pc \in {"save", "csave"}
    BY <1>2, Zenon DEF SaveSelect, At
  <2>2. d \in SUBSET Columns
    OBVIOUS
  <2>3. OK(r)
    <3> HIDE DEF d
    <3> QED BY <2>1, <2>2, <1>q DEF Works, Sound, RunPC, TryPCs
  <2> HIDE DEF r, OK
  <2> QED
    BY <2>1, <2>3, <1>s
<1>3. CASE SaveUpdate(w)
  <2> DEFINE r == [q EXCEPT !.pc = IF q.pc = "update" THEN "succeed" ELSE "fail", !.dirty = {}]
  <2>1. To(w, r) /\ q.pc \in {"update", "cupdate"}
    BY <1>3, Zenon DEF SaveUpdate, At
  <2>2. OK(r)
    BY <2>1, <1>q DEF Works, Sound, RunPC, TryPCs
  <2> HIDE DEF r, OK
  <2> QED
    BY <2>1, <2>2, <1>s
<1>4. CASE Find(w)
  <2>1. PICK d \in Domains \cup {Null}, removed \in BOOLEAN, listed \in BOOLEAN, date \in Later :
          To(w, [q EXCEPT !.pc = "save", !.copy =
                   IF ~listed THEN [q.copy EXCEPT !.nextMkt = date, !.nextAds = Null]
                   ELSE [domain |-> d, nextMkt |-> date,
                         nextAds |-> IF removed \/ d = Null THEN Null ELSE now]])
    BY <1>4 DEF Find
  <2> DEFINE copy == IF ~listed THEN [q.copy EXCEPT !.nextMkt = date, !.nextAds = Null]
                     ELSE [domain |-> d, nextMkt |-> date,
                           nextAds |-> IF removed \/ d = Null THEN Null ELSE now]
             r == [q EXCEPT !.pc = "save", !.copy = copy]
  <2>2. q.pc = "find"
    BY <1>4 DEF Find, At
  <2>3. copy \in Entities
    BY <1>q, Dates DEF Works, Entities
  <2>4. OK(r)
    <3> HIDE DEF copy
    <3> QED BY <2>2, <2>3, <1>q DEF Works, Sound, RunPC, TryPCs
  <2> QED
    BY <2>1, <2>4, <1>s
<1>5. CASE ReadAds(w)
  <2> DEFINE r == [q EXCEPT !.pc = "fetch", !.old = ads[App(w)]]
  <2>1. To(w, r) /\ q.pc = "read"
    BY <1>5 DEF ReadAds, At
  <2>2. OK(r)
    BY <2>1, <1>q, <1>a, <1>j DEF Works, Sound, RunPC, TryPCs
  <2> QED
    BY <2>1, <2>2, <1>s
<1>6. CASE Fetch(w)
  <2>0. PICK date \in Later : To(w, [q EXCEPT !.pc = "store", !.copy.nextAds = date])
    BY <1>6 DEF Fetch
  <2> DEFINE r == [q EXCEPT !.pc = "store", !.copy.nextAds = date]
  <2>1. To(w, r) /\ q.pc = "fetch" /\ date \in Checks
    BY <1>6, <2>0, Dates DEF Fetch, At
  <2>2. OK(r)
    BY <2>1, <1>q DEF Works, Sound, RunPC, TryPCs, Entities
  <2> QED
    BY <2>1, <2>2, <1>s
<1>7. CASE StoreAds(w) \/ StoreError(w)
  <2> DEFINE r(pc) == [q EXCEPT !.pc = pc]
  <2>1. \E pc \in {"save", "csave"} : To(w, r(pc)) /\ q.pc = (IF pc = "save" THEN "store" ELSE "cstore")
    BY <1>7 DEF StoreAds, StoreError, At
  <2>2. PICK pc \in {"save", "csave"} :
          To(w, r(pc)) /\ q.pc = (IF pc = "save" THEN "store" ELSE "cstore")
    BY <2>1
  <2>3. OK(r(pc))
    BY <2>2, <1>q DEF Works, Sound, RunPC, TryPCs
  <2> QED
    BY <2>2, <2>3, <1>s
<1>8. ASSUME NEW status \in {"retrying", "dead_letter"}, Catch(w, status)
      PROVE  \E r : To(w, r) /\ OK(r)
  <2>0. PICK date \in Later : To(w, Caught(q, status, date))
    BY <1>8 DEF Catch
  <2> DEFINE r == Caught(q, status, date)
  <2>1. To(w, r) /\ q.pc \in TryPCs /\ date \in Checks
    BY <1>8, <2>0, Dates DEF Catch, At
  <2>2. ~q.marked
    BY <2>1, <1>q DEF Sound, TryPCs
  <2>3. OK(r)
    <3>1. q.job \in Jobs
      BY <2>1, <1>q DEF Sound, TryPCs
    <3>2. /\ r \in Works /\ r.job = q.job /\ r.old = q.old /\ ~r.marked
          /\ q.job[2] = "ads" => r.pc = "cstore"
          /\ q.job[2] # "ads" => r.pc = "csave"
      BY <1>q, <2>1, <2>2, <3>1, CaughtIs
    <3> HIDE DEF r
    <3> QED
      BY <1>q, <2>1, <2>2, <3>1, <3>2 DEF Sound, RunPC, TryPCs
  <2> QED
    BY <2>1, <2>3
<1> QED
  BY <1>1, <1>2, <1>3, <1>4, <1>5, <1>6, <1>7, <1>8, <1>s DEF Unseen

\* A slot that has nothing to do, and one that has forgotten its locals.
LEMMA NoWorkIs ==
    /\ NoWork \in Works /\ NoWork.pc = "idle" /\ NoWork.old = "absent" /\ ~NoWork.marked
    /\ NoWork.copy = NewApp /\ NoWork.job = NoJob
<1>1. NewApp \in Entities /\ {} \in SUBSET Columns
  BY DEF NewApp, Entities, Checks
<1> QED
  BY <1>1 DEF NoWork, Works, Contents

LEMMA ForgetIs ==
    ASSUME NEW q, q.job \in Jobs, NEW pc \in {"done", "rethrow"}
    PROVE  /\ Forget(q, pc) \in Works /\ Forget(q, pc).pc = pc /\ Forget(q, pc).job = q.job
           /\ Forget(q, pc).copy = NewApp /\ Forget(q, pc).old = "absent"
           /\ ~Forget(q, pc).marked
  BY NoWorkIs DEF Forget, Works

\* The handler steps that write the row are the ones JobQueue has for them: the row
\* is there, so that the UPDATE does not miss.
LEMMA MarkMoves ==
    ASSUME Handling, Queueing, NEW w \in Workers,
           MarkRunning(w) \/ MarkSucceeded(w) \/ MarkFailed(w)
    PROVE  /\ JQ!RunStep(w)
           /\ \E r \in Works : To(w, r) /\ Sound(r) /\ r.pc # "calling"
<1> DEFINE q == work[w]
<1>q. q \in Works /\ Sound(q)
  BY DEF Handling
<1>i. q.pc # "idle"
  BY DEF MarkRunning, MarkSucceeded, MarkFailed, At
<1>r. /\ q.job \in Jobs /\ row[q.job] # "absent"
      /\ Run[w].pc = RunPC(q) /\ Run[w].job = q.job
  BY <1>i, RowOfRun
\* To write the row and to go on to `r` is WriteRow.
<1>w. ASSUME NEW status, NEW r, To(w, r), SetRow(w, status), r.job = q.job,
             UNCHANGED <<bull, call>>
      PROVE  JQ!WriteRow(w, status, RunPC(r))
  <2>1. row' = [row EXCEPT ![Run[w].job] = IF @ = "absent" THEN @ ELSE status]
    BY <1>w, <1>r DEF SetRow
  <2>2. Run' = [Run EXCEPT ![w] = [pc |-> RunPC(r), job |-> q.job]]
    BY <1>w, Moved
  <2>3. [Run EXCEPT ![w].pc = RunPC(r)] = [Run EXCEPT ![w] = [pc |-> RunPC(r), job |-> q.job]]
    <3>1. Run[w] = [pc |-> RunPC(q), job |-> q.job]
      BY DEF Run
    <3>2. [Run[w] EXCEPT !.pc = RunPC(r)] = [pc |-> RunPC(r), job |-> q.job]
      BY <3>1
    <3> QED
      BY <3>2
  <2> QED
    BY <2>1, <2>2, <2>3, <1>w DEF JQ!WriteRow
<1>1. CASE MarkRunning(w)
  <2> DEFINE pc == IF Is(w, "ads") THEN "read" ELSE "find"
             r == [q EXCEPT !.pc = pc]
  <2>1. To(w, r) /\ q.pc = "mark" /\ SetRow(w, "running") /\ UNCHANGED <<bull, call>>
    BY <1>1 DEF MarkRunning, At
  <2>2. /\ pc \in {"read", "find"}
        /\ pc = "read" => q.job[2] = "ads"
        /\ pc = "find" => q.job[2] = "marketplace"
    BY <1>r, JobPairs DEF Is
  <2> HIDE DEF pc
  <2>3. /\ r \in Works /\ Sound(r) /\ r.pc # "calling" /\ r.job = q.job
        /\ RunPC(r) = "run" /\ RunPC(q) = "load"
    BY <2>1, <2>2, <1>q DEF Works, Sound, RunPC, TryPCs
  <2> HIDE DEF r
  <2>4. JQ!MarkRunning(w)
    BY <2>1, <2>3, <1>r, <1>w DEF JQ!MarkRunning
  <2> QED
    BY <2>1, <2>3, <2>4 DEF JQ!RunStep
<1>2. CASE MarkSucceeded(w)
  <2>1. PICK r : /\ To(w, r)
                 /\ \/ /\ q.job[2] = "marketplace"
                       /\ r = [q EXCEPT !.pc = "follow", !.marked = TRUE]
                    \/ r = [Forget(q, "done") EXCEPT !.marked = TRUE]
    BY <1>2 DEF MarkSucceeded, Is
  <2>f. Forget(q, "done") \in Works /\ Forget(q, "done").pc = "done"
        /\ Forget(q, "done").job = q.job /\ Forget(q, "done").old = "absent"
    BY <1>r, ForgetIs
  <2>2. q.pc = "succeed" /\ SetRow(w, "succeeded") /\ UNCHANGED <<bull, call>>
    BY <1>2 DEF MarkSucceeded, At
  <2>3. /\ r \in Works /\ Sound(r) /\ r.pc # "calling" /\ r.job = q.job
        /\ RunPC(r) = "ok" /\ RunPC(q) = "run"
    BY <2>1, <2>2, <2>f, <1>q, <1>r DEF Works, Sound, RunPC, TryPCs
  <2>4. JQ!MarkSucceeded(w)
    BY <2>1, <2>2, <2>3, <1>r, <1>w DEF JQ!MarkSucceeded
  <2> QED
    BY <2>1, <2>3, <2>4 DEF JQ!RunStep
<1>3. CASE MarkFailed(w)
  <2> DEFINE r == Forget(q, "rethrow")
  <2>1. To(w, r) /\ q.pc = "fail" /\ SetRow(w, q.status) /\ UNCHANGED <<bull, call>>
    BY <1>3 DEF MarkFailed, At
  <2>2. /\ r \in Works /\ Sound(r) /\ r.pc # "calling" /\ r.job = q.job /\ RunPC(r) = "bad"
    BY <1>r, ForgetIs DEF Sound, RunPC
  <2>3. /\ q.status \in {"retrying", "dead_letter"}
        /\ RunPC(q) = "run" \/ (RunPC(q) = "ok" /\ q.status = "retrying")
    BY <2>1, <1>q DEF Works, Sound, RunPC
  <2> HIDE DEF r
  <2>4. JQ!MarkFailed(w, q.status)
    BY <2>1, <2>2, <2>3, <1>r, <1>w DEF JQ!MarkFailed
  <2> QED
    BY <2>1, <2>2, <2>3, <2>4 DEF JQ!RunStep
<1> QED
  BY <1>1, <1>2, <1>3

\* The handler steps that change BullMQ or the slot's own call contain a step of
\* JobQueue, so that only the locals are to be looked at.
Queued(w) ==
    \/ Return(w) \/ Throw(w) \/ Crash(w) \/ Follow(w) \/ FollowStep(w) \/ FollowThrows(w)
    \/ \E j \in Jobs : Take(w, j)

LEMMA QueuedMoves ==
    ASSUME Handling, NEW w \in Workers, Queued(w)
    PROVE  /\ JQ!WorkerNext(w) \/ JQ!CallNext(w)
           /\ \E r \in Works : /\ To(w, r) /\ Sound(r)
                               /\ r.pc = "calling" => Follow(w) \/ FollowStep(w)
<1> DEFINE q == work[w]
<1>q. q \in Works /\ Sound(q)
  BY DEF Handling
<1>1. CASE Return(w) \/ Throw(w) \/ Crash(w)
  <2>1. To(w, NoWork) /\ NoWork \in Works /\ Sound(NoWork) /\ NoWork.pc # "calling"
    BY <1>1, NoWorkIs DEF Return, Throw, Crash, Sound
  <2>2. JQ!WorkerNext(w)
    BY <1>1 DEF Return, Throw, Crash, JQ!WorkerNext, JQ!RunStep
  <2> QED
    BY <2>1, <2>2
<1>2. ASSUME NEW j \in Jobs, Take(w, j)
      PROVE  /\ JQ!WorkerNext(w)
             /\ \E r \in Works : To(w, r) /\ Sound(r) /\ r.pc # "calling"
  <2> DEFINE r == [NoWork EXCEPT !.pc = "load", !.job = j]
  <2>1. To(w, r) /\ JQ!WorkerNext(w)
    BY <1>2 DEF Take, JQ!WorkerNext
  <2>2. r \in Works /\ Sound(r) /\ r.pc # "calling"
    BY NoWorkIs DEF Works, Sound
  <2> QED
    BY <2>1, <2>2
<1>3. CASE Follow(w)
  <2> DEFINE r == [q EXCEPT !.pc = "calling"]
  <2>1. To(w, r) /\ q.pc = "follow" /\ JQ!Begin(w, Ads(App(w)), "worker")
    BY <1>3 DEF Follow, At
  <2>2. r \in Works /\ Sound(r) /\ Ads(App(w)) \in Jobs
    BY <2>1, <1>q, JobPairs DEF Works, Sound, App
  <2>3. JQ!CallNext(w)
    BY <2>1, <2>2 DEF JQ!CallNext, JQ!Triggers
  <2> QED
    BY <2>1, <2>2, <2>3, <1>3
<1>4. CASE FollowStep(w)
  <2>1. PICK pc \in {"calling", "done"} : To(w, [q EXCEPT !.pc = pc])
    BY <1>4 DEF FollowStep
  <2> DEFINE r == [q EXCEPT !.pc = pc]
  <2>2. r \in Works /\ Sound(r)
    BY <1>4, <1>q DEF FollowStep, At, Works, Sound
  <2>3. JQ!CallNext(w)
    BY <1>4 DEF FollowStep, JQ!CallNext
  <2> QED
    BY <2>1, <2>2, <2>3, <1>4
<1>5. CASE FollowThrows(w)
  <2>0. PICK date \in Later : To(w, Caught(q, "retrying", date))
    BY <1>5 DEF FollowThrows
  <2> DEFINE r == Caught(q, "retrying", date)
  <2>1. To(w, r) /\ q.pc = "calling" /\ JQ!CallNext(w) /\ date \in Checks
    BY <1>5, <2>0, Dates DEF FollowThrows, At, JQ!CallNext
  <2>2. r \in Works /\ Sound(r) /\ r.pc # "calling"
    <3>1. /\ r \in Works /\ r.job = q.job /\ r.old = q.old /\ r.status = "retrying"
          /\ r.marked = q.marked /\ (q.job[2] # "ads" => r.pc = "csave")
      BY <1>q, <2>1, CaughtIs DEF Sound
    <3> HIDE DEF r
    <3> QED
      BY <1>q, <2>1, <3>1 DEF Sound
  <2> QED
    BY <2>1, <2>2
<1> QED
  BY <1>1, <1>2, <1>3, <1>4, <1>5 DEF Queued

-----------------------------------------------------------------------------
(* Refinement                                                                *)

\* The three kinds of handler steps are all there are.
LEMMA HandlerSteps ==
    ASSUME NEW w \in Workers,
           HandlerStep(w) \/ Crash(w) \/ \E j \in Jobs : Take(w, j)
    PROVE  \/ Unseen(w) \/ Queued(w)
           \/ MarkRunning(w) \/ MarkSucceeded(w) \/ MarkFailed(w)
  BY DEF HandlerStep, Unseen, Queued

\* What a slot does is a step of JobQueue or invisible to it.
LEMMA SlotRefines ==
    ASSUME Handling, Queueing, NEW w \in Workers,
           HandlerStep(w) \/ Crash(w) \/ \E j \in Jobs : Take(w, j)
    PROVE  \/ JQ!WorkerNext(w) \/ JQ!CallNext(w)
           \/ UNCHANGED <<row, bull, call, Run>>
<1>1. CASE Unseen(w)
  <2>1. PICK r \in Works : To(w, r) /\ r.job = work[w].job /\ RunPC(r) = RunPC(work[w])
    BY <1>1, UnseenMoves
  <2>2. Run' = [Run EXCEPT ![w] = [pc |-> RunPC(work[w]), job |-> work[w].job]]
    BY <2>1, Moved
  <2>3. Run' = Run
    BY <2>2 DEF Run
  <2>4. UNCHANGED <<row, bull, call>>
    BY <1>1 DEF Unseen, Load, SaveSelect, SaveUpdate, Find, ReadAds, Fetch, StoreAds,
       StoreError, Catch, Local
  <2> QED
    BY <2>3, <2>4
<1>2. CASE MarkRunning(w) \/ MarkSucceeded(w) \/ MarkFailed(w)
  BY <1>2, MarkMoves DEF JQ!WorkerNext
<1>3. CASE Queued(w)
  BY <1>3, QueuedMoves
<1> QED
  BY <1>1, <1>2, <1>3, HandlerSteps

LEMMA EnqueuerRefines ==
    ASSUME NEW c \in Enqueuers,
           EnqueuerStep(c) \/ \E a \in Apps, k \in {"marketplace", "ads"} : Begin(c, a, k)
    PROVE  JQ!CallNext(c) /\ UNCHANGED <<app, ads, work>>
<1>1. CASE EnqueuerStep(c)
  BY <1>1 DEF EnqueuerStep, JQ!CallNext
<1>2. ASSUME NEW a \in Apps, NEW k \in {"marketplace", "ads"}, Begin(c, a, k)
      PROVE  JQ!CallNext(c) /\ UNCHANGED <<app, ads, work>>
  <2>1. <<a, k>> \in Jobs
    BY DEF Jobs
  <2> QED
    BY <1>2, <2>1 DEF Begin, JQ!CallNext, JQ!Triggers
<1> QED
  BY <1>1, <1>2

LEMMA NextRefines ==
    ASSUME Handling, Queueing, [Next]_vars
    PROVE  [JQ!Next]_<<row, bull, call, Run>>
<1>1. ASSUME NEW w \in Workers, HandlerStep(w) \/ Crash(w) \/ \E j \in Jobs : Take(w, j)
      PROVE  [JQ!Next]_<<row, bull, call, Run>>
  BY <1>1, SlotRefines DEF JQ!Next
<1>2. ASSUME NEW c \in Enqueuers,
             EnqueuerStep(c) \/ \E a \in Apps, k \in {"marketplace", "ads"} : Begin(c, a, k)
      PROVE  JQ!Next
  BY <1>2, EnqueuerRefines DEF JQ!Next
<1>3. ASSUME NEW j \in Jobs, BullStep(j)
      PROVE  JQ!Next
  BY <1>3 DEF BullStep, JQ!Next
<1>4. CASE UNCHANGED vars \/ Tick
  BY <1>4 DEF vars, Tick, Run
<1> QED
  BY <1>1, <1>2, <1>3, <1>4 DEF Next

\* Hence the queue's invariants hold after each step of the pipeline.
LEMMA QueueingKept ==
    ASSUME Handling, Queueing, [Next]_vars
    PROVE  Queueing'
<1>1. [JP!Next]_(JP!vars)
  BY NextRefines, SameNext DEF JP!vars
<1>2. JP!Typed'
  BY <1>1, QueueConstants, JP!NextTyped DEF Queueing
<1>3. JP!RowKnown'
  BY <1>1, QueueConstants, JP!NextRowKnown DEF Queueing
<1> QED
  BY <1>2, <1>3 DEF Queueing

-----------------------------------------------------------------------------
(* Types and locals                                                          *)

\* A step of a call touches that call; while it does not return, it stays about the
\* same job.  (A call that ends forgets its job, one that begins gets one.)
LEMMA CallsApart ==
    ASSUME Queueing, NEW c \in Enqueuers \cup Workers, JQ!CallNext(c)
    PROVE  /\ \A d \in (Enqueuers \cup Workers) \ {c} : call'[d] = call[d]
           /\ (JQ!CallStep(c) \/ JQ!AgeCopy(c)) /\ call'[c].pc \notin {"idle", "enqueued"}
              => call'[c].job = call[c].job /\ call'[c].trigger = call[c].trigger
<1>c. \A d \in Enqueuers \cup Workers :
        call[d] \in [pc : JP!CallPCs, job : Jobs \cup {NoJob}, trigger : JP!Triggers,
                    existing : JP!Statuses, ran : BOOLEAN]
  BY DEF Queueing, JP!Typed, JP!TypeOK
<1>d. call \in [Enqueuers \cup Workers ->
               [pc : JP!CallPCs, job : Jobs \cup {NoJob}, trigger : JP!Triggers,
                existing : JP!Statuses, ran : BOOLEAN]]
  BY DEF Queueing, JP!Typed, JP!TypeOK
<1>1. \E r : call' = [call EXCEPT ![c] = r]
  BY DEF JQ!CallNext, JQ!CallStep, JQ!Begin, JQ!ReadRow, JQ!GetJob, JQ!GetState, JQ!Remove,
     JQ!RemoveIgnored, JQ!Upsert, JQ!Add, JQ!CallThrows, JQ!AgeCopy, JQ!Goto
<1>g. ASSUME NEW pc, JQ!Goto(c, pc), call'[c].pc \notin {"idle", "enqueued"}
      PROVE  call'[c].job = call[c].job /\ call'[c].trigger = call[c].trigger
  BY <1>g, <1>c, <1>d DEF JQ!Goto, JQ!Returned, JQ!IdleCall
<1>2. ASSUME JQ!CallStep(c) \/ JQ!AgeCopy(c), call'[c].pc \notin {"idle", "enqueued"}
      PROVE  call'[c].job = call[c].job /\ call'[c].trigger = call[c].trigger
  <2>1. CASE \E pc : JQ!Goto(c, pc)
    BY <2>1, <1>2, <1>g
  <2>2. CASE JQ!ReadRow(c) \/ JQ!Upsert(c) \/ JQ!AgeCopy(c)
    <3>1. CASE JQ!ReadRow(c)
      BY <3>1, <1>c, <1>d DEF JQ!ReadRow
    <3>2. CASE JQ!Upsert(c)
      BY <3>2, <1>c, <1>d DEF JQ!Upsert
    <3>3. CASE JQ!AgeCopy(c)
      BY <3>3, <1>c, <1>d DEF JQ!AgeCopy
    <3> QED
      BY <2>2, <3>1, <3>2, <3>3
  <2> QED
    BY <1>2, <2>1, <2>2 DEF JQ!CallStep, JQ!GetJob, JQ!GetState, JQ!Remove, JQ!RemoveIgnored,
       JQ!Add
<1> QED
  BY <1>1, <1>2, <1>d

\* Steps of workers and of BullMQ leave the calls where they are.
LEMMA CallsStay ==
    ASSUME Queueing, NEW c \in Enqueuers \cup Workers,
           \/ \E w \in Workers : JQ!WorkerNext(w)
           \/ \E j \in Jobs : JQ!BullNext(j)
    PROVE  /\ call'[c].pc = call[c].pc /\ call'[c].job = call[c].job
           /\ call'[c].trigger = call[c].trigger
<1>1. ASSUME NEW w \in Workers, JQ!WorkerNext(w)
      PROVE  /\ call'[c].pc = call[c].pc /\ call'[c].job = call[c].job
             /\ call'[c].trigger = call[c].trigger
  BY <1>1, SameWorker, QueueConstants, JP!WorkerKeepsCalls DEF Queueing
<1>2. ASSUME NEW j \in Jobs, JQ!BullNext(j)
      PROVE  call' = call
  BY <1>2 DEF JQ!BullNext, JQ!Promote, JQ!Stall, JQ!Evict, JQ!Age
<1> QED
  BY <1>1, <1>2

\* Where a slot can get in one step.
LEMMA SlotMoves ==
    ASSUME Handling, Queueing, NEW w \in Workers,
           HandlerStep(w) \/ Crash(w) \/ \E j \in Jobs : Take(w, j)
    PROVE  \E r \in Works : /\ To(w, r) /\ Sound(r)
                            /\ r.pc = "calling" => Follow(w) \/ FollowStep(w)
<1>1. CASE Unseen(w)
  BY <1>1, UnseenMoves
<1>2. CASE MarkRunning(w) \/ MarkSucceeded(w) \/ MarkFailed(w)
  BY <1>2, MarkMoves
<1>3. CASE Queued(w)
  BY <1>3, QueuedMoves
<1> QED
  BY <1>1, <1>2, <1>3, HandlerSteps

\* The follow-up call of a slot stays its own.
LEMMA FollowingKept ==
    ASSUME Handling, Queueing, [Next]_vars, NEW v \in Workers
    PROVE  Following(v)'
<1> DEFINE Same(c) == /\ call'[c].pc = call[c].pc /\ call'[c].job = call[c].job
                      /\ call'[c].trigger = call[c].trigger
<1>s. ASSUME work'[v] = work[v], Same(v)
      PROVE  Following(v)'
  BY <1>s DEF Handling, Following, App
<1>1. ASSUME NEW w \in Workers, HandlerStep(w) \/ Crash(w) \/ \E j \in Jobs : Take(w, j)
      PROVE  Following(v)'
  <2>1. PICK r \in Works : To(w, r) /\ (r.pc = "calling" => Follow(w) \/ FollowStep(w))
    BY <1>1, SlotMoves
  <2>2. work'[w] = r /\ \A u \in Workers \ {w} : work'[u] = work[u]
    BY <2>1, Moved
  <2>3. CASE v # w
    <3>1. Same(v)
      BY <1>1, <2>3, SlotRefines, CallsApart, CallsStay
    <3> QED
      BY <2>2, <2>3, <3>1, <1>s
  <2>4. CASE v = w /\ r.pc # "calling"
    BY <2>2, <2>4 DEF Following
  <2>5. CASE v = w /\ Follow(w)
    <3>1. work'[w] = [work[w] EXCEPT !.pc = "calling"]
      BY <2>5, Moved DEF Follow
    <3>2. work[w] \in Works
      BY DEF Handling
    <3>3. work'[w].job = work[w].job
      BY <3>1, <3>2 DEF Works
    <3>4. call'[w].pc = "row" /\ call'[w].job = Ads(App(w)) /\ call'[w].trigger = "worker"
      BY <2>5 DEF Follow, JQ!Begin, Queueing, JP!Typed, JP!TypeOK
    <3> QED
      BY <2>5, <3>3, <3>4 DEF Following, App
  <2>6. CASE v = w /\ FollowStep(w) /\ r.pc = "calling"
    <3>1. PICK pc \in {"calling", "done"} :
            /\ To(w, [work[w] EXCEPT !.pc = pc])
            /\ JQ!CallStep(w) \/ JQ!AgeCopy(w)
            /\ (pc = "done") <=> (call'[w].pc \in JQ!Returned)
      BY <2>6 DEF FollowStep
    <3>2. work'[w] = [work[w] EXCEPT !.pc = pc] /\ work[w] \in Works
      BY <3>1, Moved DEF Handling
    <3>3. work'[w].job = work[w].job /\ work'[w].pc = pc
      BY <3>2 DEF Works
    <3>4. call'[w].pc \notin {"idle", "enqueued"}
      BY <2>2, <2>6, <3>1, <3>3 DEF JQ!Returned
    <3>5. call'[w].job = call[w].job /\ call'[w].trigger = call[w].trigger
      BY <3>1, <3>4, CallsApart DEF JQ!CallNext
    <3> QED
      BY <2>6, <3>3, <3>4, <3>5 DEF Following, App, Handling, FollowStep, At
  <2> QED
    BY <2>1, <2>3, <2>4, <2>5, <2>6
<1>2. ASSUME NEW c \in Enqueuers,
             EnqueuerStep(c) \/ \E a \in Apps, k \in {"marketplace", "ads"} : Begin(c, a, k)
      PROVE  Following(v)'
  <2>1. JQ!CallNext(c) /\ work' = work /\ v # c
    BY <1>2, EnqueuerRefines, NamesAssumption
  <2>2. call'[v] = call[v]
    BY <2>1, CallsApart
  <2> QED
    BY <2>1, <2>2, <1>s
<1>3. ASSUME NEW j \in Jobs, BullStep(j)
      PROVE  Following(v)'
  <2>1. JQ!BullNext(j) /\ work' = work
    BY <1>3 DEF BullStep
  <2> QED
    BY <2>1, <1>s, CallsStay
<1>4. CASE UNCHANGED vars \/ Tick
  BY <1>4, <1>s DEF vars, Tick
<1> QED
  BY <1>1, <1>2, <1>3, <1>4 DEF Next

\* The application, the stored file and the bound keep their types.
LEMMA TablesKept ==
    ASSUME Handling, Queueing, [Next]_vars
    PROVE  /\ calls' \in 0..MaxCalls /\ now' \in 0..MaxTime
           /\ app' \in [Apps -> Entities] /\ ads' \in [Apps -> Contents]
<1>h. /\ calls \in 0..MaxCalls /\ now \in 0..MaxTime
      /\ app \in [Apps -> Entities] /\ ads \in [Apps -> Contents]
      /\ work \in [Workers -> Works]
  BY DEF Handling
<1>1. ASSUME NEW w \in Workers, SaveUpdate(w)
      PROVE  app' \in [Apps -> Entities] /\ UNCHANGED <<ads, now, calls>>
  <2>1. App(w) \in Apps /\ work[w].copy \in Entities /\ work[w].dirty \in SUBSET Columns
    BY <1>1, JobPairs DEF SaveUpdate, At, Handling, Sound, App, Works
  <2>2. Saved(w) \in Entities
    BY <2>1, <1>h DEF Saved, Entities, Columns
  <2> QED
    BY <1>1, <1>h, <2>2 DEF SaveUpdate
<1>2. ASSUME NEW w \in Workers, StoreAds(w) \/ StoreError(w)
      PROVE  ads' \in [Apps -> Contents] /\ UNCHANGED <<app, now, calls>>
  BY <1>2, <1>h DEF StoreAds, StoreError, Kept, Contents
<1>3. ASSUME NEW w \in Workers, HandlerStep(w) \/ Crash(w) \/ \E j \in Jobs : Take(w, j),
             ~SaveUpdate(w), ~StoreAds(w), ~StoreError(w)
      PROVE  UNCHANGED <<app, ads, now, calls>>
  BY <1>3 DEF HandlerStep, Load, MarkRunning, SaveSelect, MarkSucceeded, MarkFailed, Return,
     Throw, Find, Follow, FollowStep, FollowThrows, ReadAds, Fetch, Catch, Crash, Take, Local
<1>4. ASSUME Tick
      PROVE  now' \in 0..MaxTime /\ UNCHANGED <<app, ads, calls>>
  BY <1>4, <1>h, NamesAssumption DEF Tick
<1>5. ASSUME NEW c \in Enqueuers, NEW a \in Apps, NEW k \in {"marketplace", "ads"},
             Begin(c, a, k)
      PROVE  calls' \in 0..MaxCalls /\ UNCHANGED <<app, ads, now>>
  BY <1>5, <1>h, NamesAssumption DEF Begin
<1>6. ASSUME \/ \E c \in Enqueuers : EnqueuerStep(c)
             \/ \E j \in Jobs : BullStep(j)
             \/ UNCHANGED vars
      PROVE  UNCHANGED <<app, ads, now, calls>>
  BY <1>6 DEF EnqueuerStep, BullStep, vars
<1> QED
  BY <1>h, <1>1, <1>2, <1>3, <1>4, <1>5, <1>6 DEF Next

LEMMA HandlingKept ==
    ASSUME Handling, Queueing, [Next]_vars
    PROVE  Handling'
<1>1. work' \in [Workers -> Works] /\ \A w \in Workers : Sound(work'[w])
  <2>1. ASSUME NEW w \in Workers, HandlerStep(w) \/ Crash(w) \/ \E j \in Jobs : Take(w, j)
        PROVE  work' \in [Workers -> Works] /\ \A v \in Workers : Sound(work'[v])
    <3>1. PICK r \in Works : To(w, r) /\ Sound(r)
      BY <2>1, SlotMoves
    <3> QED
      BY <3>1, Moved DEF Handling
  <2>2. ASSUME \/ \E c \in Enqueuers : EnqueuerStep(c)
                       \/ \E a \in Apps, k \in {"marketplace", "ads"} : Begin(c, a, k)
               \/ \E j \in Jobs : BullStep(j)
               \/ Tick
               \/ UNCHANGED vars
        PROVE  work' = work
    BY <2>2 DEF EnqueuerStep, Begin, BullStep, Tick, vars
  <2> QED
    BY <2>1, <2>2 DEF Next, Handling
<1> QED
  BY <1>1, FollowingKept, TablesKept DEF Handling

LEMMA InitHolds == Init => Handling /\ Queueing /\ JQ!Init
<1> SUFFICES ASSUME Init PROVE Handling /\ Queueing /\ JQ!Init
  OBVIOUS
<1>1. Run = [w \in Workers |-> JQ!IdleRun]
  BY NoWorkIs DEF Init, Run, RunPC, JQ!IdleRun
<1>2. JQ!Init
  BY <1>1 DEF Init, JQ!Init
<1>3. JQ!Init <=> JP!Init
  BY DEF JQ!Init, JP!Init, JQ!NoBullJob, JP!NoBullJob, JQ!IdleCall, JP!IdleCall,
     JQ!IdleRun, JP!IdleRun
<1>4. Queueing
  BY <1>2, <1>3, QueueConstants, JP!InitTyped, JP!InitKnown DEF Queueing
<1>5. Handling
  BY NoWorkIs, NamesAssumption
     DEF Init, Handling, Sound, Following, NewApp, Entities, Checks, Contents
<1> QED
  BY <1>2, <1>4, <1>5

\* The rows of applications and app-ads.txt files and the locals of handlers are of
\* their types.
THEOREM TypeCorrect == Spec => []TypeOK
<1>1. Handling => TypeOK
  BY DEF Handling, TypeOK, Works
<1> QED
  BY <1>1, InitHolds, HandlingKept, QueueingKept, PTL DEF Spec

\* What the handlers, their follow-up calls and the enqueuers do to scraping_jobs and
\* BullMQ is a behaviour of JobQueue, for any number of each.
THEOREM Refinement == Spec => JobQueueSpec
<1>1. Handling /\ Queueing /\ [Next]_vars => [JQ!Next]_(JQ!vars)
  BY NextRefines DEF JQ!vars
<1> QED
  BY <1>1, InitHolds, HandlingKept, QueueingKept, PTL DEF Spec, JobQueueSpec, JQ!Spec

-----------------------------------------------------------------------------
(* The follow-up                                                             *)

\* When enqueueIfNeeded returns, true or false, the row of its job exists: it was read,
\* or written before the add.
LEMMA ReturnedHasRow ==
    ASSUME Queueing, NEW c \in Enqueuers \cup Workers, JQ!CallStep(c) \/ JQ!AgeCopy(c),
           call[c].trigger = "worker", call[c].pc \notin {"idle", "enqueued"},
           call'[c].pc \in {"idle", "enqueued"}
    PROVE  row[call[c].job] # "absent" /\ row' = row
<1>k. /\ call[c].existing # "absent" => row[call[c].job] # "absent"
      /\ call[c].pc = "add" => row[call[c].job] # "absent"
  BY DEF Queueing, JP!RowKnown
<1>d. call \in [Enqueuers \cup Workers ->
               [pc : JP!CallPCs, job : Jobs \cup {NoJob}, trigger : JP!Triggers,
                existing : JP!Statuses, ran : BOOLEAN]]
  BY DEF Queueing, JP!Typed, JP!TypeOK
<1>g. ASSUME NEW pc, JQ!Goto(c, pc)
      PROVE  call'[c].pc = pc
  BY <1>g, <1>d DEF JQ!Goto, JQ!IdleCall, JQ!Returned
<1>e. ASSUME NEW found \in BOOLEAN, NEW state, JQ!Decision(call[c], found, state) = "idle"
      PROVE  call[c].existing # "absent"
  BY <1>e DEF JQ!Decision, JQ!ShouldEnqueue
<1>1. CASE JQ!GetJob(c)
  BY <1>1, <1>e, <1>g, <1>k DEF JQ!GetJob, JQ!Decision
<1>2. CASE JQ!GetState(c)
  BY <1>2, <1>e, <1>g, <1>k DEF JQ!GetState, JQ!Decision
<1>3. CASE JQ!Add(c)
  BY <1>3, <1>k DEF JQ!Add
<1>4. CASE JQ!Remove(c) \/ JQ!RemoveIgnored(c)
  BY <1>4, <1>g DEF JQ!Remove, JQ!RemoveIgnored
<1>5. CASE JQ!ReadRow(c)
  BY <1>5, <1>d DEF JQ!ReadRow
<1>6. CASE JQ!Upsert(c)
  BY <1>6, <1>d DEF JQ!Upsert
<1>7. CASE JQ!AgeCopy(c)
  BY <1>7, <1>d DEF JQ!AgeCopy
<1> QED
  BY <1>1, <1>2, <1>3, <1>4, <1>5, <1>6, <1>7 DEF JQ!CallStep

\* The two halves of a save.
LEMMA SaveMoves ==
    ASSUME Handling, NEW w \in Workers, SaveSelect(w) \/ SaveUpdate(w)
    PROVE  \E pc \in {"update", "cupdate", "succeed", "fail"}, d \in SUBSET Columns :
             work'[w] = [work[w] EXCEPT !.pc = pc, !.dirty = d]
<1>1. CASE SaveSelect(w)
  <2> DEFINE pc == IF work[w].pc = "save" THEN "update" ELSE "cupdate"
             d == {k \in Columns : work[w].copy[k] # app[App(w)][k]}
  <2>1. To(w, [work[w] EXCEPT !.pc = pc, !.dirty = d])
    BY <1>1, Zenon DEF SaveSelect
  <2>2. pc \in {"update", "cupdate"} /\ d \in SUBSET Columns
    OBVIOUS
  <2> HIDE DEF pc, d
  <2>3. work'[w] = [work[w] EXCEPT !.pc = pc, !.dirty = d]
    BY <2>1, Moved
  <2> QED
    BY <2>2, <2>3
<1>2. CASE SaveUpdate(w)
  <2> DEFINE pc == IF work[w].pc = "update" THEN "succeed" ELSE "fail"
  <2>1. To(w, [work[w] EXCEPT !.pc = pc, !.dirty = {}])
    BY <1>2, Zenon DEF SaveUpdate
  <2>2. pc \in {"succeed", "fail"}
    OBVIOUS
  <2> HIDE DEF pc
  <2>3. work'[w] = [work[w] EXCEPT !.pc = pc, !.dirty = {}]
    BY <2>1, Moved
  <2> QED
    BY <2>2, <2>3
<1> QED
  BY <1>1, <1>2

\* A slot whose handler is done, with a copy it has not forgotten, comes from a
\* follow-up call that returned.
LEMMA DoneMoves ==
    ASSUME Handling, NEW w \in Workers,
           HandlerStep(w) \/ Crash(w) \/ \E j \in Jobs : Take(w, j),
           work'[w].pc = "done", work'[w].copy.nextAds # Null
    PROVE  /\ JQ!CallStep(w) \/ JQ!AgeCopy(w)
           /\ work[w].pc = "calling" /\ work'[w].job = work[w].job
           /\ call'[w].pc \in {"idle", "enqueued"}
<1> DEFINE q == work[w]
<1>q. q \in Works /\ Sound(q)
  BY DEF Handling
<1>n. NewApp.nextAds = Null
  BY DEF NewApp
<1>1. CASE Unseen(w)
  <2>1. PICK r \in Works : To(w, r) /\ Sound(r) /\ RunPC(r) = RunPC(q)
    BY <1>1, UnseenMoves
  <2>2. q.pc \in TryPCs \cup {"load", "read", "csave", "cupdate", "cstore"}
    BY <1>1 DEF Unseen, Load, SaveSelect, SaveUpdate, Find, ReadAds, Fetch, StoreAds,
       StoreError, Catch, At, TryPCs
  <2>3. work'[w] = r
    BY <2>1, Moved
  <2>4. RunPC(r) = "ok" /\ q.marked
    BY <2>1, <2>2, <2>3 DEF Sound, RunPC, TryPCs
  <2>5. q.pc \in {"csave", "cupdate"}
    BY <2>2, <2>4, <1>q DEF Sound, TryPCs
  <2>6. SaveSelect(w) \/ SaveUpdate(w)
    BY <1>1, <2>5 DEF Unseen, Load, Find, ReadAds, Fetch, StoreAds, StoreError, Catch, At, TryPCs
  <2>7. r.pc \in {"update", "cupdate", "succeed", "fail"}
    BY <2>3, <2>6, <1>q, SaveMoves DEF Works
  <2> QED
    BY <2>3, <2>7
<1>2. CASE MarkRunning(w) \/ MarkSucceeded(w) \/ MarkFailed(w)
  <2>1. q.job \in Jobs
    BY <1>2, <1>q DEF MarkRunning, MarkSucceeded, MarkFailed, At, Sound
  <2>2. CASE MarkRunning(w)
    BY <2>2, <1>q DEF MarkRunning, To, Handling, Works
  <2>3. CASE MarkFailed(w)
    BY <2>1, <2>3, <1>n, ForgetIs DEF MarkFailed, To, Handling
  <2>4. CASE MarkSucceeded(w)
    <3>1. \/ work'[w] = [q EXCEPT !.pc = "follow", !.marked = TRUE]
          \/ work'[w] = [Forget(q, "done") EXCEPT !.marked = TRUE]
      BY <2>4 DEF MarkSucceeded, To, Handling
    <3>2. Forget(q, "done") \in Works /\ Forget(q, "done").copy = NewApp
      BY <2>1, ForgetIs
    <3> QED
      BY <3>1, <3>2, <1>q, <1>n DEF Works
  <2> QED
    BY <1>2, <2>2, <2>3, <2>4
<1>3. CASE FollowStep(w)
  <2>1. PICK pc \in {"calling", "done"} :
          /\ To(w, [q EXCEPT !.pc = pc]) /\ (JQ!CallStep(w) \/ JQ!AgeCopy(w))
          /\ (pc = "done") <=> (call'[w].pc \in JQ!Returned)
    BY <1>3 DEF FollowStep
  <2>2. work'[w] = [q EXCEPT !.pc = pc]
    BY <2>1, Moved
  <2>3. work'[w].pc = pc /\ work'[w].job = q.job
    BY <2>2, <1>q DEF Works
  <2> QED
    BY <1>3, <2>1, <2>3 DEF FollowStep, At, JQ!Returned
<1>4. CASE Follow(w)
  BY <1>4, <1>q DEF Follow, To, Handling, Works
<1>5. CASE FollowThrows(w)
  <2>0. PICK date \in Later : To(w, Caught(q, "retrying", date))
    BY <1>5 DEF FollowThrows
  <2>1. work'[w] = Caught(q, "retrying", date) /\ q.job \in Jobs /\ date \in Checks
    BY <1>5, <1>q, <2>0, Dates, Moved DEF FollowThrows, At, Sound
  <2> QED
    BY <2>1, <1>q, CaughtIs
<1>6. CASE Return(w) \/ Throw(w) \/ Crash(w)
  BY <1>6, NoWorkIs DEF Return, Throw, Crash, To, Handling
<1>7. ASSUME NEW j \in Jobs, Take(w, j)
      PROVE  FALSE
  BY <1>7, NoWorkIs DEF Take, To, Handling, Works
<1> QED
  BY <1>1, <1>2, <1>3, <1>4, <1>5, <1>6, <1>7, HandlerSteps DEF Queued

LEMMA FollowUpKept ==
    ASSUME Handling, Queueing, FollowUpIsRecorded, [Next]_vars
    PROVE  FollowUpIsRecorded'
<1> SUFFICES ASSUME NEW v \in Workers, work'[v].pc = "done", work'[v].job[2] = "marketplace",
                    work'[v].copy.nextAds # Null
             PROVE  row'[Ads(work'[v].job[1])] # "absent"
  BY DEF FollowUpIsRecorded, Is, App
<1>r. \A j \in Jobs : row[j] # "absent" => row'[j] # "absent"
  <2>1. [JP!Next]_(JP!vars)
    BY NextRefines, SameNext DEF JP!vars
  <2> QED
    BY <2>1, QueueConstants, JP!RowsStay DEF Queueing
<1>1. CASE work'[v] = work[v]
  <2>1. Ads(work[v].job[1]) \in Jobs
    BY <1>1, JobPairs DEF Handling, Sound
  <2> QED
    BY <1>1, <1>r, <2>1 DEF FollowUpIsRecorded, Is, App
<1>2. CASE work'[v] # work[v]
  <2>1. HandlerStep(v) \/ Crash(v) \/ \E j \in Jobs : Take(v, j)
    <3>1. ASSUME NEW w \in Workers, w # v,
                 HandlerStep(w) \/ Crash(w) \/ \E j \in Jobs : Take(w, j)
          PROVE  FALSE
      BY <1>2, <3>1, SlotMoves, Moved
    <3>2. ~ \/ \E c \in Enqueuers : EnqueuerStep(c)
                 \/ \E a \in Apps, k \in {"marketplace", "ads"} : Begin(c, a, k)
            \/ \E j \in Jobs : BullStep(j)
            \/ Tick
            \/ UNCHANGED vars
      BY <1>2 DEF EnqueuerStep, Begin, BullStep, Tick, vars
    <3> QED
      BY <3>1, <3>2 DEF Next
  <2>2. /\ JQ!CallStep(v) \/ JQ!AgeCopy(v)
        /\ work[v].pc = "calling" /\ work'[v].job = work[v].job
        /\ call'[v].pc \in {"idle", "enqueued"}
    BY <2>1, DoneMoves
  <2>3. /\ call[v].trigger = "worker" /\ call[v].pc \notin {"idle", "enqueued"}
        /\ call[v].job = Ads(work[v].job[1])
    BY <2>2 DEF Handling, Following, App
  <2> QED
    BY <2>2, <2>3, ReturnedHasRow
<1> QED
  BY <1>1, <1>2

\* A refresh that ends well for a listed application with a domain has left a row for
\* its ads.txt job, whoever enqueues that job at the same time.
THEOREM FollowUpRecorded == Spec => []FollowUpIsRecorded
<1>1. Init => FollowUpIsRecorded
  BY NoWorkIs DEF Init, FollowUpIsRecorded
<1> QED
  BY <1>1, InitHolds, HandlingKept, QueueingKept, FollowUpKept, PTL DEF Spec

-----------------------------------------------------------------------------
(* The stored file                                                           *)

\* What a handler has read of app_ads_txt.
Files ==
    \A w \in Workers :
        /\ work[w].pc \in {"fetch", "store"} => work[w].old = ads[App(w)]
        /\ work[w].old = "filled" => ads[App(w)] = "filled"

\* While no lock is lost, two slots are on different jobs.
LEMMA SlotsApart ==
    ASSUME JP!Exclusive, NEW v \in Workers, NEW w \in Workers, v # w, Handling,
           work[v].pc # "idle", work[w].pc # "idle"
    PROVE  work[v].job # work[w].job
<1>1. /\ Run[v].pc # "idle" /\ Run[v].job = work[v].job
      /\ Run[w].pc # "idle" /\ Run[w].job = work[w].job
  BY DEF Run, RunPC
<1> QED
  BY <1>1 DEF JP!Exclusive, JP!LockHeld

\* The steps of a slot by what they do to the file and to what was read of it.
Unread(w) == ads' = ads /\ work'[w].old = "absent" /\ work'[w].pc \notin {"fetch", "store"}
Reading(w) == ads' = ads /\ work'[w].old = ads[App(w)] /\ work'[w].job = work[w].job
Keeping(w) == /\ ads' = ads /\ work'[w].old = work[w].old
              /\ work[w].old # "absent" => work'[w].job = work[w].job
              /\ work'[w].pc \in {"fetch", "store"} =>
                   work[w].pc \in {"fetch", "store"} /\ work'[w].job = work[w].job
Storing(w) == /\ work[w].pc \in {"store", "cstore"} /\ work'[w].pc \in {"save", "csave"}
              /\ work'[w].old = work[w].old /\ work'[w].job = work[w].job
              /\ \E c : /\ ads' = [ads EXCEPT ![App(w)] = c]
                        /\ work[w].old = "filled" => c = "filled"

LEMMA FileMoves ==
    ASSUME Handling, Queueing, NEW w \in Workers,
           HandlerStep(w) \/ Crash(w) \/ \E j \in Jobs : Take(w, j)
    PROVE  Unread(w) \/ Reading(w) \/ Keeping(w) \/ Storing(w)
<1> DEFINE q == work[w]
<1>q. q \in Works /\ Sound(q)
  BY DEF Handling
<1>1. CASE Return(w) \/ Throw(w) \/ Crash(w)
  BY <1>1, Moved, NoWorkIs DEF Return, Throw, Crash, Unread
<1>2. ASSUME NEW j \in Jobs, Take(w, j)
      PROVE  Unread(w)
  <2>1. work'[w] = [NoWork EXCEPT !.pc = "load", !.job = j]
    BY <1>2, Moved DEF Take
  <2> QED
    BY <1>2, <2>1, NoWorkIs DEF Take, Unread, Works
<1>3. CASE MarkFailed(w)
  BY <1>3, <1>q, Moved, ForgetIs DEF MarkFailed, At, Sound, Unread
<1>4. CASE MarkSucceeded(w)
  <2>1. q.job \in Jobs
    BY <1>4, <1>q DEF MarkSucceeded, At, Sound
  <2>2. \/ work'[w] = [q EXCEPT !.pc = "follow", !.marked = TRUE]
        \/ work'[w] = [Forget(q, "done") EXCEPT !.marked = TRUE]
    BY <1>4, Moved DEF MarkSucceeded
  <2>3. /\ Forget(q, "done") \in Works /\ Forget(q, "done").old = "absent"
        /\ Forget(q, "done").pc = "done"
    BY <2>1, ForgetIs
  <2> QED
    BY <1>4, <2>2, <2>3, <1>q DEF MarkSucceeded, Unread, Keeping, Works
<1>5. CASE ReadAds(w)
  <2>1. work'[w] = [q EXCEPT !.pc = "fetch", !.old = ads[App(w)]]
    BY <1>5, Moved DEF ReadAds
  <2> QED
    BY <1>5, <2>1, <1>q DEF ReadAds, Local, Reading, Works
<1>6. CASE StoreAds(w)
  <2>1. work'[w] = [q EXCEPT !.pc = "save"]
    BY <1>6, Moved DEF StoreAds
  <2> QED
    BY <1>6, <2>1, <1>q DEF StoreAds, At, Storing, Works
<1>7. CASE StoreError(w)
  <2>1. work'[w] = [q EXCEPT !.pc = "csave"]
    BY <1>7, Moved DEF StoreError
  <2> QED
    BY <1>7, <2>1, <1>q DEF StoreError, At, Kept, Storing, Works
<1>8. ASSUME NEW status \in {"retrying", "dead_letter"}, Catch(w, status) \/ FollowThrows(w)
      PROVE  Keeping(w)
  <2>1. PICK s \in {"retrying", "dead_letter"}, date \in Checks :
          work'[w] = Caught(q, s, date) /\ ads' = ads
    BY <1>8, Dates, Moved DEF Catch, FollowThrows, Local
  <2>2. q.job \in Jobs
    BY <1>8, <1>q DEF Catch, FollowThrows, At, Sound, TryPCs
  <2> QED
    BY <2>1, <2>2, <1>q, CaughtIs DEF Keeping
\* The other steps leave what was read, the job and the file alone.
<1>k. ASSUME NEW pc, NEW copy, ads' = ads, work'[w] = [q EXCEPT !.pc = pc, !.copy = copy],
             pc \in {"fetch", "store"} => q.pc \in {"fetch", "store"}
      PROVE  Keeping(w)
  BY <1>k, <1>q DEF Keeping, Works
<1>9. CASE Load(w) \/ MarkRunning(w) \/ Fetch(w) \/ Find(w)
  <2>1. CASE Load(w)
    <3>1. work'[w] = [q EXCEPT !.pc = "mark", !.copy = app[App(w)]] /\ ads' = ads
      BY <2>1, Moved DEF Load, Local
    <3> QED
      BY <3>1, <1>k
  <2>2. CASE MarkRunning(w)
    <3>1. PICK pc \in {"read", "find"} : work'[w] = [q EXCEPT !.pc = pc]
      BY <2>2, Moved DEF MarkRunning
    <3> QED
      BY <2>2, <3>1, <1>q DEF MarkRunning, Keeping, Works
  <2>3. CASE Fetch(w)
    <3>1. PICK date \in Later : work'[w] = [q EXCEPT !.pc = "store", !.copy.nextAds = date]
      BY <2>3, Moved DEF Fetch
    <3>2. work'[w] = [q EXCEPT !.pc = "store", !.copy = [q.copy EXCEPT !.nextAds = date]]
      BY <3>1, <1>q DEF Works
    <3> QED
      BY <2>3, <3>2, <1>k DEF Fetch, At, Local
  <2>4. CASE Find(w)
    <3>1. PICK copy : To(w, [q EXCEPT !.pc = "save", !.copy = copy])
      BY <2>4, Zenon DEF Find
    <3>2. work'[w] = [q EXCEPT !.pc = "save", !.copy = copy] /\ ads' = ads
      BY <2>4, <3>1, Moved DEF Find, Local
    <3> QED
      BY <3>2, <1>k
  <2> QED
    BY <1>9, <2>1, <2>2, <2>3, <2>4
<1>10. CASE SaveSelect(w) \/ SaveUpdate(w)
  <2>1. PICK pc \in {"update", "cupdate", "succeed", "fail"}, d \in SUBSET Columns :
          work'[w] = [q EXCEPT !.pc = pc, !.dirty = d]
    BY <1>10, SaveMoves
  <2> QED
    BY <1>10, <2>1, <1>q DEF SaveSelect, SaveUpdate, Local, Keeping, Works
<1>11. CASE Follow(w) \/ FollowStep(w)
  <2>1. PICK pc \in {"calling", "done"} : work'[w] = [q EXCEPT !.pc = pc]
    BY <1>11, Moved DEF Follow, FollowStep
  <2> QED
    BY <1>11, <2>1, <1>q DEF Follow, FollowStep, Keeping, Works
<1> QED
  BY <1>1, <1>2, <1>3, <1>4, <1>5, <1>6, <1>7, <1>8, <1>9, <1>10, <1>11 DEF HandlerStep

\* A slot that writes the file is on an ads.txt job.
LEMMA StoresOwnFile ==
    ASSUME Handling, NEW w \in Workers,
           work[w].pc \in {"fetch", "store", "cstore"} \/ work[w].old = "filled"
    PROVE  /\ work[w].pc # "idle" /\ work[w].job \in Jobs /\ work[w].job[2] = "ads"
           /\ App(w) \in Apps
<1>1. work[w].pc # "idle" /\ work[w].job \in Jobs /\ work[w].job[2] = "ads"
  BY DEF Handling, Sound
<1> QED
  BY <1>1, JobPairs DEF App

LEMMA FilesKept ==
    ASSUME Handling, Queueing, JP!Exclusive, Files, [Next]_vars
    PROVE  Files'
<1>h. ads \in [Apps -> Contents]
  BY DEF Handling
<1> DEFINE Fit(v) == /\ work'[v].pc \in {"fetch", "store"} => work'[v].old = ads'[work'[v].job[1]]
                     /\ work'[v].old = "filled" => ads'[work'[v].job[1]] = "filled"
<1>1. ASSUME NEW w \in Workers, HandlerStep(w) \/ Crash(w) \/ \E j \in Jobs : Take(w, j),
             NEW v \in Workers
      PROVE  Fit(v)
  <2>1. Unread(w) \/ Reading(w) \/ Keeping(w) \/ Storing(w)
    BY <1>1, FileMoves
  <2>2. v # w => work'[v] = work[v]
    BY <1>1, SlotMoves, Moved
  <2>3. CASE v = w /\ Unread(w)
    BY <2>3 DEF Unread
  <2>4. CASE v = w /\ Reading(w)
    BY <2>4 DEF Reading, App
  <2>5. CASE v = w /\ Keeping(w)
    BY <2>5 DEF Keeping, Files, App
  <2>6. CASE v = w /\ Storing(w)
    <3>1. App(w) \in Apps
      BY <2>6, StoresOwnFile DEF Storing
    <3> QED
      BY <2>6, <3>1, <1>h DEF Storing, App
  <2>7. CASE v # w /\ ads' = ads
    BY <2>2, <2>7 DEF Files, App
  <2>8. CASE v # w /\ Storing(w) /\ (work[v].pc \in {"fetch", "store"} \/ work[v].old = "filled")
    <3>1. /\ work[v].pc # "idle" /\ work[v].job \in Jobs /\ work[v].job[2] = "ads"
          /\ work[w].pc # "idle" /\ work[w].job \in Jobs /\ work[w].job[2] = "ads"
      BY <2>8, StoresOwnFile DEF Storing
    <3>2. work[v].job # work[w].job
      BY <2>8, <3>1, SlotsApart
    <3>3. App(v) # App(w) /\ App(v) \in Apps
      BY <3>1, <3>2, JobPairs DEF App
    <3> QED
      BY <2>2, <2>8, <3>3, <1>h DEF Storing, Files, App
  <2>9. CASE v # w /\ ~(work[v].pc \in {"fetch", "store"} \/ work[v].old = "filled")
    BY <2>2, <2>9
  <2> QED
    BY <2>1, <2>3, <2>4, <2>5, <2>6, <2>7, <2>8, <2>9 DEF Unread, Reading, Keeping
<1>2. ASSUME \/ \E c \in Enqueuers : EnqueuerStep(c)
                     \/ \E a \in Apps, k \in {"marketplace", "ads"} : Begin(c, a, k)
             \/ \E j \in Jobs : BullStep(j)
             \/ Tick
             \/ UNCHANGED vars
      PROVE  UNCHANGED <<work, ads>>
  BY <1>2 DEF EnqueuerStep, Begin, BullStep, Tick, vars
<1>3. \A v \in Workers : Fit(v)
  BY <1>1, <1>2 DEF Next, Files, App
<1> QED
  BY <1>3 DEF Files, App

LEMMA ExclusiveKept ==
    ASSUME "lock_loss" \notin Faults, Handling, Queueing, JP!Exclusive, [Next]_vars
    PROVE  JP!Exclusive'
<1>1. [JP!Next]_(JP!vars)
  BY NextRefines, SameNext DEF JP!vars
<1> QED
  BY <1>1, QueueConstants, JP!NextExclusive DEF Queueing

LEMMA InitFiles == Init => Files /\ JP!Exclusive
<1>1. JQ!Init => JP!Init
  BY DEF JQ!Init, JP!Init, JQ!NoBullJob, JP!NoBullJob, JQ!IdleCall, JP!IdleCall,
     JQ!IdleRun, JP!IdleRun
<1>2. Init => JP!Exclusive
  BY <1>1, InitHolds, QueueConstants, JP!InitKnown
<1> QED
  BY <1>2, NoWorkIs DEF Init, Files

\* The record that a fetch has read is the stored one when the fetch ends.
THEOREM OldStaysCurrent ==
    ASSUME "lock_loss" \notin Faults
    PROVE  Spec => []OldIsCurrent
<1>1. Files => OldIsCurrent
  BY DEF Files, OldIsCurrent
<1> QED
  BY <1>1, InitHolds, InitFiles, HandlingKept, QueueingKept, ExclusiveKept, FilesKept,
     PTL DEF Spec

\* A run that has found good content leaves good content, however it ends.
THEOREM GoodContentKept ==
    ASSUME "lock_loss" \notin Faults
    PROVE  Spec => []LastGoodKept
<1>1. Files => LastGoodKept
  BY DEF Files, LastGoodKept
<1> QED
  BY <1>1, InitHolds, InitFiles, HandlingKept, QueueingKept, ExclusiveKept, FilesKept,
     PTL DEF Spec

-----------------------------------------------------------------------------
(* What the queue promises, of the handlers themselves                       *)

\* The mapping of Pipeline's queue and that of its proofs name the same formulas.
LEMMA SameInit == JQ!Init <=> JP!Init
  BY DEF JQ!Init, JP!Init, JQ!NoBullJob, JP!NoBullJob, JQ!IdleCall, JP!IdleCall,
     JQ!IdleRun, JP!IdleRun

LEMMA SameRow == JQ!RowBeforeJob <=> JP!RowBeforeJob
  BY DEF JQ!RowBeforeJob, JP!RowBeforeJob

LEMMA SameFollow == JQ!RowFollowsRun <=> JP!RowFollowsRun
  BY DEF JQ!RowFollowsRun, JP!RowFollowsRun

\* The UPDATEs of the handlers never miss: the row of a job that BullMQ keeps, or that a
\* slot is on, exists from Take to the last await of the handler.
THEOREM RowsAreThere == Spec => []JQ!RowBeforeJob
<1>1. Queueing => JQ!RowBeforeJob
  BY SameRow DEF Queueing, JP!RowKnown
<1> QED
  BY <1>1, InitHolds, HandlingKept, QueueingKept, PTL DEF Spec

\* Two handlers are never on the same job of the same application: what one has loaded,
\* fetched and not yet saved is not overtaken by another run of that job.
OneHandlerPerJob ==
    \A v, w \in Workers : (v # w /\ ~At(v, {"idle"}) /\ ~At(w, {"idle"}))
                         => work[v].job # work[w].job

THEOREM HandlersExclude ==
    ASSUME "lock_loss" \notin Faults
    PROVE  Spec => []OneHandlerPerJob
<1>1. Handling /\ JP!Exclusive => OneHandlerPerJob
  BY SlotsApart DEF OneHandlerPerJob, At
<1> QED
  BY <1>1, InitHolds, InitFiles, HandlingKept, QueueingKept, ExclusiveKept, PTL DEF Spec

\* The row of scraping_jobs under a handler tells how far that handler is, through its
\* whole body, its saves, its follow-up call and its catch block.
THEOREM RowTracksHandler ==
    ASSUME "lock_loss" \notin Faults
    PROVE  Spec => []JQ!RowFollowsRun
<1>1. JP!Exclusive => JQ!RowFollowsRun
  BY SameFollow DEF JP!Exclusive
<1> QED
  BY <1>1, InitHolds, InitFiles, HandlingKept, QueueingKept, ExclusiveKept, PTL DEF Spec

\* A forced refresh of the API that answers true is followed, or was joined, by a run of
\* the handler: whatever the other enqueuers and the follow-up calls of handlers do to
\* the same job meanwhile, as long as a failed remove() is not swallowed.
THEOREM ForcedReachesHandler ==
    ASSUME "remove_error" \notin Faults
    PROVE  Spec => JQ!ForcedRunIsFresh
<1>1. JQ!Spec => JP!Spec
  <2>1. [JQ!Next]_(JQ!vars) => [JP!Next]_(JP!vars)
    BY SameNext DEF JQ!vars, JP!vars
  <2> QED
    BY <2>1, SameInit, PTL DEF JQ!Spec, JP!Spec
<1>2. JP!Spec => JP!ForcedRunIsFresh
  BY QueueConstants, JP!ForcedIsFresh
<1>3. JP!ForcedRunIsFresh => JQ!ForcedRunIsFresh
  <2>1. [\A c \in Enqueuers \cup Workers :
           (call[c].pc = "add" /\ call[c].trigger = "api" /\ call'[c].pc = "enqueued")
           => call[c].ran \/ JP!Busy(bull'[call[c].job].state)]_(JP!vars)
        => [\A c \in Enqueuers \cup Workers :
              (call[c].pc = "add" /\ call[c].trigger = "api" /\ call'[c].pc = "enqueued")
              => call[c].ran \/ JQ!Busy(bull'[call[c].job].state)]_(JQ!vars)
    BY DEF JQ!vars, JP!vars, JQ!Busy, JP!Busy
  <2> QED
    BY <2>1, PTL DEF JP!ForcedRunIsFresh, JQ!ForcedRunIsFresh
<1> QED
  BY <1>1, <1>2, <1>3, Refinement, PTL DEF JobQueueSpec

-----------------------------------------------------------------------------
(* What no scan, handler or clock restarts                                   *)

\* Whose calls are under way: a slot's own only while its handler follows up, and an
\* enqueuer's never in the name of a worker.
Callers ==
    /\ \A w \in Workers : work[w].pc # "calling" => call[w].pc \in JQ!Returned
    /\ \A c \in Enqueuers : call[c].pc \notin JQ!Returned => call[c].trigger # "worker"

\* A call that is where it was.
Stays(c) == call'[c].pc = call[c].pc /\ call'[c].trigger = call[c].trigger

LEMMA CallersKept ==
    ASSUME Handling, Queueing, Callers, [Next]_vars
    PROVE  Callers'
<1>d. call \in [Enqueuers \cup Workers ->
               [pc : JP!CallPCs, job : Jobs \cup {NoJob}, trigger : JP!Triggers,
                existing : JP!Statuses, ran : BOOLEAN]]
  BY DEF Queueing, JP!Typed, JP!TypeOK
<1>s. ASSUME \A c \in Enqueuers \cup Workers : Stays(c),
             \A w \in Workers : work'[w].pc # "calling" => work[w].pc # "calling"
      PROVE  Callers'
  BY <1>s DEF Callers, Stays, JQ!Returned
\* A call that a slot makes itself, and that leaves the other slots where they are.
<1>o. ASSUME NEW w \in Workers, JQ!CallNext(w), NEW r \in Works, To(w, r),
             r.pc # "calling" => call'[w].pc \in JQ!Returned
      PROVE  Callers'
  <2>1. \A c \in (Enqueuers \cup Workers) \ {w} : call'[c] = call[c]
    BY <1>o, CallsApart
  <2>2. work'[w] = r /\ \A v \in Workers \ {w} : work'[v] = work[v]
    BY <1>o, Moved
  <2>3. \A c \in Enqueuers : c # w
    BY NamesAssumption
  <2> QED
    BY <1>o, <2>1, <2>2, <2>3 DEF Callers, JQ!Returned
<1>1. ASSUME NEW w \in Workers, HandlerStep(w) \/ Crash(w) \/ \E j \in Jobs : Take(w, j)
      PROVE  Callers'
  <2>1. PICK r \in Works : To(w, r) /\ (r.pc = "calling" => Follow(w) \/ FollowStep(w))
    BY <1>1, SlotMoves
  <2>2. work'[w] = r /\ \A v \in Workers \ {w} : work'[v] = work[v]
    BY <2>1, Moved
  <2>3. CASE Follow(w)
    <3>1. JQ!Begin(w, Ads(App(w)), "worker") /\ work'[w].pc = "calling"
      <4>1. work'[w] = [work[w] EXCEPT !.pc = "calling"] /\ work[w] \in Works
        BY <2>3, Moved DEF Follow, Handling
      <4> QED
        BY <2>3, <4>1 DEF Follow, Works
    <3>2. Ads(App(w)) \in Jobs
      BY <2>3, JobPairs DEF Follow, At, App, Handling, Sound
    <3>3. JQ!CallNext(w)
      BY <3>1, <3>2 DEF JQ!CallNext, JQ!Triggers
    <3> QED
      BY <1>o, <2>1, <2>2, <3>1, <3>3
  <2>4. CASE FollowStep(w)
    <3>1. PICK pc \in {"calling", "done"} :
            /\ To(w, [work[w] EXCEPT !.pc = pc])
            /\ JQ!CallStep(w) \/ JQ!AgeCopy(w)
            /\ (pc = "done") <=> (call'[w].pc \in JQ!Returned)
      BY <2>4 DEF FollowStep
    <3>2. work'[w] = [work[w] EXCEPT !.pc = pc] /\ work[w] \in Works
      BY <3>1, Moved DEF Handling
    <3>3. work'[w].pc = pc
      BY <3>2 DEF Works
    <3> QED
      BY <1>o, <2>1, <2>2, <3>1, <3>3 DEF JQ!CallNext
  <2>5. CASE FollowThrows(w)
    <3>1. call'[w].pc = "idle" /\ JQ!CallNext(w)
      BY <2>5, <1>d DEF FollowThrows, JQ!CallNext, JQ!CallThrows, JQ!Goto, JQ!IdleCall, JQ!Returned
    <3> QED
      BY <1>o, <2>1, <3>1 DEF JQ!Returned
  <2>6. CASE ~Follow(w) /\ ~FollowStep(w) /\ ~FollowThrows(w)
    <3>1. CASE \E j \in Jobs : Take(w, j)
      <4>1. JQ!WorkerNext(w)
        BY <3>1 DEF Take, JQ!WorkerNext
      <4>2. \A c \in Enqueuers \cup Workers : Stays(c)
        BY <4>1, CallsStay DEF Stays
      <4>3. work[w].pc # "calling"
        BY <3>1 DEF Take, JQ!Take, Run, RunPC, Handling, Sound
      <4> QED
        BY <1>s, <2>2, <4>2, <4>3
    <3>2. CASE HandlerStep(w) \/ Crash(w)
      <4>1. call' = call /\ work[w].pc # "calling"
        BY <3>2, <2>6 DEF HandlerStep, Load, MarkRunning, SaveSelect, SaveUpdate, MarkSucceeded,
           MarkFailed, Return, Throw, Find, ReadAds, Fetch, StoreAds, StoreError, Catch, Crash,
           Local, At, TryPCs, JQ!Return, JQ!Throw, JQ!Crash
      <4> QED
        BY <1>s, <2>2, <4>1 DEF Stays
    <3> QED
      BY <1>1, <3>1, <3>2
  <2> QED
    BY <2>3, <2>4, <2>5, <2>6
<1>2. ASSUME NEW c \in Enqueuers,
             EnqueuerStep(c) \/ \E a \in Apps, k \in {"marketplace", "ads"} : Begin(c, a, k)
      PROVE  Callers'
  <2>1. JQ!CallNext(c) /\ work' = work
    BY <1>2, EnqueuerRefines
  <2>2. /\ \A d \in (Enqueuers \cup Workers) \ {c} : call'[d] = call[d]
        /\ (JQ!CallStep(c) \/ JQ!AgeCopy(c)) /\ call'[c].pc \notin {"idle", "enqueued"}
             => call'[c].trigger = call[c].trigger
    BY <2>1, CallsApart
  <2>3. call'[c].pc \notin JQ!Returned => call'[c].trigger # "worker"
    <3>1. CASE EnqueuerStep(c)
      <4>1. JQ!CallStep(c) \/ JQ!AgeCopy(c) \/ JQ!CallThrows(c)
        BY <3>1 DEF EnqueuerStep
      <4>2. JQ!CallStep(c) \/ JQ!CallThrows(c) => call[c].pc \notin JQ!Returned
        BY DEF JQ!CallStep, JQ!CallThrows, JQ!ReadRow, JQ!GetJob, JQ!GetState, JQ!Remove,
           JQ!RemoveIgnored, JQ!Upsert, JQ!Add, JQ!Returned
      <4>3. JQ!CallThrows(c) => call'[c].pc = "idle"
        BY <1>d DEF JQ!CallThrows, JQ!Goto, JQ!IdleCall, JQ!Returned
      <4>4. JQ!AgeCopy(c) => call'[c].pc = call[c].pc
        BY <1>d DEF JQ!AgeCopy
      <4> QED
        BY <2>2, <4>1, <4>2, <4>3, <4>4 DEF Callers, JQ!Returned
    <3>2. ASSUME NEW a \in Apps, NEW k \in {"marketplace", "ads"}, Begin(c, a, k)
          PROVE  call'[c].trigger # "worker"
      BY <3>2, <1>d DEF Begin, JQ!Begin
    <3> QED
      BY <1>2, <3>1, <3>2
  <2>4. \A w \in Workers : w # c
    BY NamesAssumption
  <2> QED
    BY <2>1, <2>2, <2>3, <2>4 DEF Callers
<1>3. ASSUME NEW j \in Jobs, BullStep(j)
      PROVE  Callers'
  <2>1. JQ!BullNext(j) /\ work' = work
    BY <1>3 DEF BullStep
  <2> QED
    BY <2>1, <1>s, CallsStay DEF Stays
<1>4. CASE UNCHANGED vars \/ Tick
  BY <1>4, <1>s DEF vars, Tick, Stays
<1> QED
  BY <1>1, <1>2, <1>3, <1>4 DEF Next

LEMMA SameBegin ==
    ASSUME NEW c \in Enqueuers \cup Workers, NEW j \in Jobs, NEW t
    PROVE  JP!Begin(c, j, t) <=> JQ!Begin(c, j, t)
  BY DEF JQ!Begin, JP!Begin, JQ!Returned, JP!Returned

\* Once the marketplace refresh of an application has succeeded, and its handler is through,
\* it stays so until the API asks for it: no scan that finds it due, no follow-up, no retry
\* and no eviction of its BullMQ job starts it again.
OnlyApiRefreshes ==
    [][\A a \in Apps : JP!Finished(Mkt(a)) =>
         JP!Finished(Mkt(a))' \/ \E c \in Enqueuers : JQ!Begin(c, Mkt(a), "api")]_vars

THEOREM RefreshedForGood == Spec => OnlyApiRefreshes
<1>1. Init => Callers
  BY NoWorkIs DEF Init, Callers, JQ!IdleCall, JQ!Returned
<1>2. Handling /\ Queueing /\ Callers /\ [Next]_vars =>
        [\A a \in Apps : JP!Finished(Mkt(a)) =>
           JP!Finished(Mkt(a))' \/ \E c \in Enqueuers : JQ!Begin(c, Mkt(a), "api")]_vars
  <2> SUFFICES ASSUME Handling, Queueing, Callers, Next, NEW a \in Apps,
                      JP!Finished(Mkt(a)), ~ JP!Finished(Mkt(a))'
               PROVE  \E c \in Enqueuers : JQ!Begin(c, Mkt(a), "api")
    OBVIOUS
  <2>1. Mkt(a) \in Jobs /\ Mkt(a)[2] = "marketplace"
    BY DEF Mkt, Jobs
  <2>2. PICK c \in Enqueuers \cup Workers :
               JQ!Begin(c, Mkt(a), "api") \/ JQ!Begin(c, Mkt(a), "worker")
    <3>1. [JP!Next]_(JP!vars)
      BY NextRefines, SameNext DEF JP!vars
    <3> QED
      BY <2>1, <3>1, SameBegin, QueueConstants, JP!RestartsAre DEF Queueing
  <2>3. Callers' /\ Handling'
    BY CallersKept, HandlingKept
  <2>4. /\ call'[c].pc \notin JQ!Returned /\ call'[c].job = Mkt(a)
        /\ JQ!Begin(c, Mkt(a), "worker") => call'[c].trigger = "worker"
    BY <2>2 DEF JQ!Begin, JQ!Returned, Queueing, JP!Typed, JP!TypeOK
  <2>5. ASSUME c \in Workers
        PROVE  FALSE
    <3>1. work'[c].pc = "calling"
      BY <2>3, <2>4, <2>5 DEF Callers, JQ!Returned
    <3>2. call'[c].job = Ads(App(c))'
      BY <2>3, <2>5, <3>1 DEF Handling, Following
    <3> QED
      BY <2>1, <2>4, <3>2 DEF Ads, Mkt
  <2> QED
    BY <2>2, <2>3, <2>4, <2>5 DEF Callers
<1> QED
  BY <1>1, <1>2, InitHolds, HandlingKept, QueueingKept, CallersKept, PTL
     DEF Spec, OnlyApiRefreshes

-----------------------------------------------------------------------------
(* Where fetched content can be lost                                         *)

\* The one way to lose content that is stored, with and without lock loss: the catch block
\* of a fetch that had read a record without content.  (With no record read its insert is
\* rejected, and content that was read is written back.)
LostByCatchOnly ==
    [][\A a \in Apps : (ads[a] = "filled" /\ ads'[a] # "filled") =>
         \E w \in Workers : StoreError(w) /\ App(w) = a /\ work[w].old = "empty"]_vars

THEOREM LossIsInCatch == Spec => LostByCatchOnly
<1>1. Handling /\ Queueing /\ [Next]_vars =>
        [\A a \in Apps : (ads[a] = "filled" /\ ads'[a] # "filled") =>
           \E w \in Workers : StoreError(w) /\ App(w) = a /\ work[w].old = "empty"]_vars
  <2> SUFFICES ASSUME Handling, Queueing, Next, NEW a \in Apps, ads[a] = "filled",
                      ads'[a] # "filled"
               PROVE  \E w \in Workers : StoreError(w) /\ App(w) = a /\ work[w].old = "empty"
    OBVIOUS
  <2>h. ads \in [Apps -> Contents] /\ \A w \in Workers : work[w].old \in Contents
    BY DEF Handling, Works
  <2>1. PICK w \in Workers : HandlerStep(w) \/ Crash(w) \/ \E j \in Jobs : Take(w, j)
    BY DEF Next, EnqueuerStep, Begin, BullStep, Tick
  <2>2. ~StoreAds(w)
    BY <2>h DEF StoreAds
  <2>3. CASE StoreError(w)
    <3>1. App(w) = a /\ Kept(work[w].old) # "filled"
      BY <2>3, <2>h DEF StoreError
    <3>2. work[w].old # "absent"
      BY <2>3, <3>1 DEF StoreError, Storable
    <3> QED
      BY <2>3, <2>h, <3>1, <3>2 DEF Kept, Contents
  <2>4. CASE ~StoreError(w)
    <3>1. ads' = ads
      BY <2>1, <2>2, <2>4 DEF HandlerStep, Load, MarkRunning, SaveSelect, SaveUpdate,
         MarkSucceeded, MarkFailed, Return, Throw, Find, Follow, FollowStep, FollowThrows,
         ReadAds, Fetch, Catch, Crash, Take, Local
    <3> QED
      BY <3>1
  <2> QED
    BY <2>3, <2>4
<1> QED
  BY <1>1, InitHolds, HandlingKept, QueueingKept, PTL DEF Spec, LostByCatchOnly

=============================================================================
