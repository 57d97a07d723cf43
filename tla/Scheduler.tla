----------------------------- MODULE Scheduler ------------------------------
(***************************************************************************)
(* SchedulerService: executions of runDueScans, in one scheduler process or *)
(* in several, that compete for the Redis lock lock:scheduler:scan, keep it *)
(* alive with a heartbeat, page through the due applications by id, and     *)
(* hand each to enqueueIfNeeded (module JobQueue; here a call that returns  *)
(* or throws).  Nobody handles a rejection of runDueScans: it ends the      *)
(* process, with all its executions.  Time is counted in ticks, on the      *)
(* Redis server and in the schedulers alike.                                *)
(***************************************************************************)
EXTENDS Integers, FiniteSets

CONSTANTS Apps,       \* ids of the applications
          Processes,  \* the scheduler processes
          Scans,      \* concurrent executions of runDueScans
          ProcessOf,  \* ProcessOf[s]: whose timer starts execution s
          Batch,      \* config.scheduler.batchSize
          Ttl,        \* config.scheduler.lockTtlMs, in ticks
          MinBeat,    \* the 1000 ms of startLockHeartbeat, in ticks
          Free,       \* no lock in Redis
          Dead,       \* the lock carries the token of an execution that died
          LateBeat,   \* whether a heartbeat may come later than its timer
          MaxFailures \* bound on the ends of processes and exceptions of a behaviour

ASSUME AppsAssumption == Apps \subseteq Nat \ {0} /\ IsFiniteSet(Apps)
ASSUME ScansAssumption == /\ Free \notin Scans /\ Dead \notin Scans /\ Free # Dead
                          /\ ProcessOf \in [Scans -> Processes]
ASSUME ConfigAssumption == /\ Batch \in Nat \ {0} /\ Ttl \in Nat \ {0}
                           /\ MinBeat \in Nat \ {0} /\ LateBeat \in BOOLEAN
                           /\ MaxFailures \in Nat

VARIABLES due,    \* due[p]: applications whose next check of kind p has come
          lock,   \* the Redis key: whose token it holds and the ticks to its expiry
          scan,   \* scan[s]: an execution of runDueScans
          up,     \* the processes that run
          failures  \* how many exceptions, and ends without one, there were

vars == <<due, lock, scan, up, failures>>

Kinds == {"marketplace", "ads"}
NoLock == [holder |-> Free, left |-> 0]   \* on a held key, left = 0: no expiry

\* Mutant: a heartbeat once per TTL.
BeatAtExpiry == Ttl

\* startLockHeartbeat's interval.
Beat == IF Ttl \div 3 < MinBeat THEN MinBeat ELSE Ttl \div 3

\* `due` is what the execution's fixed `now` selects, `page` what is left of the
\* batch it has fetched, `full` whether that batch had `Batch` rows, `beat` the
\* ticks to its next heartbeat.  History: `since` is what the loop has selected
\* ever since it began, `seen` what each loop has handed to enqueueIfNeeded.
Idle == [pc |-> "idle", kind |-> "marketplace", due |-> {}, since |-> {}, last |-> 0,
         page |-> {}, full |-> FALSE, beat |-> 0, seen |-> [k \in Kinds |-> {}]]

Scanning(s) == scan[s].pc \in {"query", "enqueue"}

Init == /\ due \in [Kinds -> SUBSET Apps]
        /\ lock = NoLock
        /\ scan = [s \in Scans |-> Idle]
        /\ up = Processes
        /\ failures = 0

\* The rows of one page: ORDER BY id ASC LIMIT batchSize.
FirstBatch(S) == {a \in S : Cardinality({b \in S : b < a}) < Batch}

Lowest(S) == CHOOSE a \in S : \A b \in S : a <= b

\* A loop of scheduleDue...Checks starts: `now` is read once, cursor 0.
Loop(r, kind) == [r EXCEPT !.pc = "query", !.kind = kind, !.due = due[kind],
                           !.since = due[kind], !.last = 0, !.page = {}, !.full = FALSE]

\* The finally block, with the heartbeat cleared.
Ending(r) == [Idle EXCEPT !.pc = "release", !.seen = r.seen]

\* Mutant: one loop per scan.
LoopDoneAtOnce(r) == Ending(r)

\* ... and returns: to the second loop, or to the finally block.
LoopDone(r) == IF r.kind = "marketplace" THEN Loop(r, "ads")
               ELSE Ending(r)

\* Mutant: a lock without PX.
TokenForEver(s) == [holder |-> s, left |-> 0]

\* What the SET leaves in Redis.
Token(s) == [holder |-> s, left |-> Ttl]

\* The timer of a process, or its start: SET lock token PX ttl NX.  The execution
\* that fails to get the lock just returns.
Acquire(s) ==
    /\ ProcessOf[s] \in up
    /\ scan[s].pc = "idle"
    /\ lock.holder = Free
    /\ lock' = Token(s)
    /\ scan' = [scan EXCEPT ![s] = Loop([Idle EXCEPT !.beat = Beat], "marketplace")]
    /\ UNCHANGED <<due, up, failures>>

\* Mutant: the cursor's row comes again.
AheadOrAt(r) == {a \in r.due : a >= r.last}

\* Mutant: paging by OFFSET.
AheadByOffset(r) ==
    {a \in r.due : Cardinality({b \in r.due : b < a}) >= Cardinality(r.seen[r.kind])}

\* id > lastId among what is still due.
Ahead(r) == {a \in r.due : a > r.last}

\* getMany()
Query(s) ==
    LET found == FirstBatch(Ahead(scan[s])) IN
    /\ scan[s].pc = "query"
    /\ scan' = [scan EXCEPT ![s] =
                  IF found = {} THEN LoopDone(@)
                  ELSE [@ EXCEPT !.pc = "enqueue", !.page = found,
                                 !.full = (Cardinality(found) >= Batch)]]
    /\ UNCHANGED <<due, lock, up, failures>>

\* await enqueueIfNeeded for the next row; the cursor and the loop's exit test
\* after the last one.
Enqueue(s) ==
    LET r == scan[s]
        a == Lowest(r.page)
        visited == [r EXCEPT !.page = @ \ {a}, !.seen[r.kind] = @ \cup {a}] IN
    /\ r.pc = "enqueue"
    /\ scan' = [scan EXCEPT ![s] =
                  IF visited.page # {} THEN visited
                  ELSE IF r.full THEN [visited EXCEPT !.pc = "query", !.last = a]
                  ELSE LoopDone(visited)]
    /\ UNCHANGED <<due, lock, up, failures>>

\* The query or enqueueIfNeeded throws: on to the finally block.
ScanThrows(s) ==
    /\ Scanning(s)
    /\ failures < MaxFailures
    /\ failures' = failures + 1
    /\ scan' = [scan EXCEPT ![s] = [Ending(@) EXCEPT !.pc = "failed"]]
    /\ UNCHANGED <<due, lock, up>>

\* Mutant: the TTL is added to what is left of it.
RenewAdds(s) ==
    /\ Scanning(s)
    /\ scan[s].beat = 0
    /\ lock' = IF lock.holder = s THEN [lock EXCEPT !.left = @ + Ttl] ELSE lock
    /\ scan' = [scan EXCEPT ![s].beat = Beat]
    /\ UNCHANGED <<due, up, failures>>

\* The heartbeat's interval fires: PEXPIRE if the key still holds the token.
Renew(s) ==
    /\ Scanning(s)
    /\ scan[s].beat = 0
    /\ lock' = IF lock.holder = s THEN [lock EXCEPT !.left = Ttl] ELSE lock
    /\ scan' = [scan EXCEPT ![s].beat = Beat]
    /\ UNCHANGED <<due, up, failures>>

\* Mutant: DEL whoever holds the key.
ReleaseAnyones(s) ==
    /\ scan[s].pc \in {"release", "failed"}
    /\ lock' = NoLock
    /\ scan' = [scan EXCEPT ![s] = IF @.pc = "release" THEN Idle
                                   ELSE [@ EXCEPT !.pc = "rejected"]]
    /\ UNCHANGED <<due, up, failures>>

\* DEL if the key still holds the token; then an exception goes on.
Release(s) ==
    /\ scan[s].pc \in {"release", "failed"}
    /\ lock' = IF lock.holder = s THEN NoLock ELSE lock
    /\ scan' = [scan EXCEPT ![s] = IF @.pc = "release" THEN Idle
                                   ELSE [@ EXCEPT !.pc = "rejected"]]
    /\ UNCHANGED <<due, up, failures>>

\* A process ends, with all its executions; nobody has their tokens any more.
Exit(p) ==
    /\ lock' = IF \E s \in Scans : ProcessOf[s] = p /\ lock.holder = s
               THEN [lock EXCEPT !.holder = Dead] ELSE lock
    /\ scan' = [s \in Scans |-> IF ProcessOf[s] = p THEN Idle ELSE scan[s]]
    /\ up' = up \ {p}
    /\ UNCHANGED due

\* The promise of runDueScans rejects without a handler: that ends the process.
Rejected(s) ==
    /\ scan[s].pc = "rejected"
    /\ Exit(ProcessOf[s])
    /\ UNCHANGED failures

\* The process is stopped or killed, or a SET, a heartbeat or a DEL fails, which
\* ends it as well.
Crash(p) ==
    /\ p \in up
    /\ failures < MaxFailures
    /\ failures' = failures + 1
    /\ Exit(p)

\* Somebody starts the process again; nothing in the repository does.
Start(p) ==
    /\ p \in Processes \ up
    /\ up' = up \cup {p}
    /\ UNCHANGED <<due, lock, scan, failures>>

\* One tick: Redis drops the key at the end of its TTL, interval timers run.
\* With timely heartbeats the one that is due is sent before time goes on.
Tick ==
    /\ LateBeat \/ \A s \in Scans : Scanning(s) => scan[s].beat > 0
    /\ lock' = IF lock.left = 1 THEN NoLock
               ELSE [lock EXCEPT !.left = IF @ > 0 THEN @ - 1 ELSE 0]
    /\ scan' = [s \in Scans |-> IF scan[s].beat > 0
                                THEN [scan[s] EXCEPT !.beat = @ - 1] ELSE scan[s]]
    /\ UNCHANGED <<due, up, failures>>

\* A worker finishes the check of an application, or dates it anew: its row leaves
\* the selection of every running scan.
Checked(a, k) ==
    /\ a \in due[k]
    /\ due' = [due EXCEPT ![k] = @ \ {a}]
    /\ scan' = [s \in Scans |-> IF scan[s].kind = k
                                THEN [scan[s] EXCEPT !.due = @ \ {a}, !.since = @ \ {a}]
                                ELSE scan[s]]
    /\ UNCHANGED <<lock, up, failures>>

\* The loops of a kind that are on.
Loops(k) == {s \in Scans : Scanning(s) /\ scan[s].kind = k}

\* A check is due, at an instant that may lie before the `now` of some running loops
\* (S): a date is saved some awaits after it was taken.  The later a loop's `now`,
\* the more it selects.
FallDue(a, k) ==
    /\ a \notin due[k]
    /\ due' = [due EXCEPT ![k] = @ \cup {a}]
    /\ \E S \in SUBSET Loops(k) :
         /\ \A s \in S, t \in Loops(k) \ S : scan[t].due \subseteq scan[s].due
         /\ scan' = [s \in Scans |-> IF s \in S THEN [scan[s] EXCEPT !.due = @ \cup {a}]
                                     ELSE scan[s]]
    /\ UNCHANGED <<lock, up, failures>>

ScanStep(s) == Query(s) \/ Enqueue(s) \/ Release(s) \/ Rejected(s)

Next == \/ \E s \in Scans : Acquire(s) \/ ScanStep(s) \/ ScanThrows(s) \/ Renew(s)
        \/ \E p \in Processes : Crash(p) \/ Start(p)
        \/ Tick
        \/ \E a \in Apps, k \in Kinds : Checked(a, k) \/ FallDue(a, k)

Spec == Init /\ [][Next]_vars

\* Time passes, awaits end, interval timers fire, and the polling timer of a process
\* that is up starts another execution.  That a process comes back is not assumed.
Fairness == /\ WF_vars(Tick)
            /\ WF_vars(\E s \in Scans : Acquire(s))
            /\ \A s \in Scans : WF_vars(ScanStep(s)) /\ WF_vars(Renew(s))

FairSpec == Spec /\ Fairness

-----------------------------------------------------------------------------
\* Types: timers stay within the configured TTL and interval, pages within a batch.
TypeOK ==
    /\ due \in [Kinds -> SUBSET Apps]
    /\ lock \in [holder : Scans \cup {Free, Dead}, left : 0..Ttl]
    /\ scan \in [Scans -> [pc : {"idle", "query", "enqueue", "release", "failed", "rejected"},
                           kind : Kinds, due : SUBSET Apps, since : SUBSET Apps,
                           last : Apps \cup {0}, page : SUBSET Apps,
                           full : BOOLEAN, beat : 0..Beat, seen : [Kinds -> SUBSET Apps]]]
    /\ up \subseteq Processes
    /\ failures \in 0..MaxFailures

\* "scheduler x N: only one instance executes the scan thanks to the Redis lock":
\* no two executions of runDueScans are in their loops at the same time.
OneScan == \A s, t \in Scans : Scanning(s) /\ Scanning(t) => s = t

\* Nobody takes another execution's lock away: a holder loses it by ending or by
\* the expiry of the key, not by the release of one that had lost the lock before.
OwnLockOnly ==
    [][\A s \in Scans : (lock.holder = s /\ lock'.holder # s)
                        => lock.left = 1 \/ scan'[s].pc \in {"idle", "rejected"}]_vars

\* A page never brings back an application that the same loop has handed over,
\* whatever rows left the selection between two pages.
NeverTwice == \A s \in Scans : scan[s].page \cap scan[s].seen[scan[s].kind] = {}

\* A loop that returns, rather than throws, has handed over every application
\* that it has selected ever since it began: paging by id skips nothing when rows
\* disappear before the cursor, or come in behind it.
LoopIsComplete ==
    [][\A s \in Scans :
         (/\ Scanning(s)
          /\ scan'[s].pc = "release" \/ (scan[s].kind = "marketplace" /\ scan'[s].kind = "ads"))
         => scan[s].since \subseteq scan'[s].seen[scan[s].kind]]_vars

\* No crash, exception or lost heartbeat leaves the lock taken for ever.
LockComesFree == lock.holder # Free ~> lock.holder = Free

\* Every due check is handed to enqueueIfNeeded or ceases to be due, unless there is
\* a moment without any scheduler process: one that is up takes over from those that
\* an exception, a failed heartbeat or a kill has ended, whatever they held.
DueIsVisited ==
    \A a \in Apps, k \in Kinds :
        a \in due[k] ~> \/ a \notin due[k]
                       \/ \E s \in Scans : a \in scan[s].seen[k]
                       \/ up = {}

=============================================================================
