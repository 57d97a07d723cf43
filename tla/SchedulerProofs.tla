-------------------------- MODULE SchedulerProofs ---------------------------
(***************************************************************************)
(* Theorems about Scheduler for any applications, executions, batch size    *)
(* and TTL.  Paging: what an execution knows of its loop at each await      *)
(* (Good) is inductive, and gives that a loop neither repeats nor skips.    *)
(* Locking: a scanning execution holds the lock with more ticks left than   *)
(* its next heartbeat is away; a lock that is left behind expires.  Ending: *)
(* a number of steps left that each step of a scan lowers.                  *)
(***************************************************************************)
EXTENDS Scheduler, FiniteSetTheorems, WellFoundedInduction, TLAPS

ScanRecords == [pc : {"idle", "query", "enqueue", "release", "failed", "rejected"},
                kind : Kinds, due : SUBSET Apps, since : SUBSET Apps,
                last : Apps \cup {0}, page : SUBSET Apps,
                full : BOOLEAN, beat : 0..Beat, seen : [Kinds -> SUBSET Apps]]

\* The interval is at least a tick.
LEMMA BeatIsPositive == Beat \in Nat \ {0}
  BY ConfigAssumption DEF Beat

-----------------------------------------------------------------------------
(* Pages                                                                     *)

\* A set of ids has a lowest one.
LEMMA LowestIs ==
    ASSUME NEW S \in SUBSET Nat, S # {}
    PROVE  Lowest(S) \in S /\ \A b \in S : Lowest(S) <= b
<1>1. PICK a \in S : \A b \in S : ~ (<<b, a>> \in OpToRel(<, Nat))
  BY NatLessThanWellFounded, WFMin
<1>2. \A b \in S : ~ (b < a)
  <2> TAKE b \in S
  <2>1. b < a => <<b, a>> \in OpToRel(<, Nat)
    BY Zenon DEF OpToRel
  <2> QED
    BY <1>1, <2>1
<1>3. \A b \in S : a <= b
  BY <1>2
<1> QED
  BY <1>3 DEF Lowest

\* A page is the lower end of what it is taken from: empty only if that is, and
\* all of it when there are fewer rows than `Batch`.
LEMMA FirstBatchIs ==
    ASSUME NEW S \in SUBSET Nat, IsFiniteSet(S)
    PROVE  /\ FirstBatch(S) \subseteq S
           /\ \A a \in FirstBatch(S), b \in S \ FirstBatch(S) : a < b
           /\ S # {} => FirstBatch(S) # {}
           /\ ~ (Cardinality(FirstBatch(S)) >= Batch) => FirstBatch(S) = S
<1> DEFINE Below(a) == {b \in S : b < a}
<1>0. \A a \in S : a \in Nat
  OBVIOUS
<1>1. \A a \in S : /\ IsFiniteSet(Below(a)) /\ Cardinality(Below(a)) \in Nat
                   /\ a \in FirstBatch(S) <=> Cardinality(Below(a)) < Batch
  <2> TAKE a \in S
  <2>1. IsFiniteSet(Below(a)) /\ Cardinality(Below(a)) \in Nat
    BY FS_Subset, FS_CardinalityType
  <2> QED
    BY <2>1 DEF FirstBatch
<1>2. \A a \in S, b \in S : b <= a => Cardinality(Below(b)) <= Cardinality(Below(a))
  <2>1. SUFFICES ASSUME NEW a \in S, NEW b \in S, b <= a
                 PROVE  Cardinality(Below(b)) <= Cardinality(Below(a))
    OBVIOUS
  <2>2. \A x \in S : x < b => x < a
    BY <2>1, <1>0
  <2>3. Below(b) \in SUBSET Below(a)
    BY <2>2
  <2> QED
    BY <2>3, <1>1, FS_Subset
<1>3. IsFiniteSet(FirstBatch(S)) /\ Cardinality(FirstBatch(S)) \in Nat /\ FirstBatch(S) \subseteq S
  BY FS_Subset, FS_CardinalityType DEF FirstBatch
<1>4. \A a \in S : Cardinality(Below(a)) = 0 => a \in FirstBatch(S)
  BY <1>1, ConfigAssumption
<1> HIDE DEF Below
<1>5. \A a \in FirstBatch(S), b \in S \ FirstBatch(S) : a < b
  <2>1. SUFFICES ASSUME NEW a \in FirstBatch(S), NEW b \in S \ FirstBatch(S), ~ (a < b)
                 PROVE  FALSE
    OBVIOUS
  <2>2. a \in Nat /\ b \in Nat
    BY <1>0, <1>3
  <2>3. b <= a
    BY <2>1, <2>2
  <2>4. Cardinality(Below(b)) <= Cardinality(Below(a)) /\ Cardinality(Below(a)) < Batch
    BY <2>3, <1>1, <1>2, <1>3
  <2>5. Cardinality(Below(b)) \in Nat /\ Cardinality(Below(a)) \in Nat /\ Batch \in Nat
    BY <1>1, <1>3, ConfigAssumption
  <2>6. Cardinality(Below(b)) < Batch
    BY <2>4, <2>5
  <2> QED
    BY <2>6, <1>1
<1>6. S # {} => FirstBatch(S) # {}
  <2>1. SUFFICES ASSUME S # {} PROVE FirstBatch(S) # {}
    OBVIOUS
  <2>2. PICK m \in S : \A b \in S : m <= b
    BY <2>1, LowestIs
  <2>3. \A b \in S : ~ (b < m)
    BY <2>2, <1>0
  <2>4. Below(m) = {}
    BY <2>3 DEF Below
  <2> QED
    BY <2>4, <1>4, FS_EmptySet
<1>7. ~ (Cardinality(FirstBatch(S)) >= Batch) => FirstBatch(S) = S
  <2>1. SUFFICES ASSUME FirstBatch(S) # S PROVE Cardinality(FirstBatch(S)) >= Batch
    OBVIOUS
  <2>2. S \ FirstBatch(S) # {} /\ S \ FirstBatch(S) \in SUBSET Nat
    BY <2>1, <1>3
  <2>3. PICK m \in S \ FirstBatch(S) : \A b \in S \ FirstBatch(S) : m <= b
    BY <2>2, LowestIs
  <2>4. \A x \in S : x < m => x \in FirstBatch(S)
    BY <2>3, <1>0
  <2>5. Below(m) \in SUBSET FirstBatch(S)
    BY <2>4 DEF Below
  <2>6. Cardinality(Below(m)) <= Cardinality(FirstBatch(S))
    BY <2>5, <1>3, FS_Subset
  <2> QED
    BY <2>3, <2>6, <1>1, <1>3, ConfigAssumption
<1> QED
  BY <1>3, <1>5, <1>6, <1>7

-----------------------------------------------------------------------------
(* What an execution knows of its loop                                       *)

\* At a query everything due since the loop began up to the cursor, and nothing after
\* it, has been handed over; in a page everything due since the loop began has been,
\* is in the page, or is ahead of it.
Good(r) ==
    /\ r \in ScanRecords
    /\ r.since \subseteq r.due
    /\ r.pc = "enqueue" <=> r.page # {}
    /\ r.pc \in {"query", "enqueue"} /\ r.kind = "marketplace" => r.seen["ads"] = {}
    /\ r.pc = "query" =>
         /\ \A a \in r.seen[r.kind] : a <= r.last
         /\ \A a \in r.since : a <= r.last => a \in r.seen[r.kind]
    /\ r.pc = "enqueue" =>
         /\ \A a \in r.seen[r.kind], b \in r.page : a < b
         /\ \A a \in r.since : \/ a \in r.seen[r.kind] \cup r.page
                               \/ r.full /\ \A b \in r.page : b < a

\* What Query and Enqueue make of an execution.
AfterQuery(r) ==
    LET found == FirstBatch(Ahead(r)) IN
    IF found = {} THEN LoopDone(r)
    ELSE [r EXCEPT !.pc = "enqueue", !.page = found, !.full = (Cardinality(found) >= Batch)]

Visited(r) == [r EXCEPT !.page = @ \ {Lowest(r.page)},
                        !.seen[r.kind] = @ \cup {Lowest(r.page)}]

AfterEnqueue(r) ==
    IF Visited(r).page # {} THEN Visited(r)
    ELSE IF r.full THEN [Visited(r) EXCEPT !.pc = "query", !.last = Lowest(r.page)]
    ELSE LoopDone(Visited(r))

DueTyped == due \in [Kinds -> SUBSET Apps]

LEMMA IdsAreNatural == Apps \in SUBSET Nat /\ 0 \notin Apps /\ (\A a \in Apps \cup {0} : a \in Nat)
  BY AppsAssumption

\* No loop is on in an idle or an ending execution.
LEMMA IdleGood == Good(Idle) /\ \A r \in ScanRecords : Good(Ending(r))
<1>1. Idle \in ScanRecords /\ Idle.pc = "idle" /\ Idle.page = {}
      /\ Idle.since = {}
  <2>1. 0 \in 0..Beat
    BY BeatIsPositive
  <2> QED
    BY <2>1, Zenon DEF Idle, ScanRecords, Kinds
<1>2. ASSUME NEW r \in ScanRecords
      PROVE  /\ Ending(r) \in ScanRecords /\ Ending(r).pc = "release" /\ Ending(r).page = {}
             /\ Ending(r).since = {}
  <2>1. r.seen \in [Kinds -> SUBSET Apps]
    BY DEF ScanRecords
  <2>2. "release" \in {"idle", "query", "enqueue", "release", "failed", "rejected"}
        /\ "release" # "idle"
    OBVIOUS
  <2> QED
    BY <1>1, <2>1, <2>2 DEF Ending, Idle, ScanRecords
<1> QED
  BY <1>1, <1>2 DEF Good

\* A loop starts with nothing handed over and nothing due up to its cursor, 0.
LEMMA LoopGood ==
    ASSUME DueTyped, NEW r \in ScanRecords, NEW k \in Kinds, r.seen[k] = {},
           k = "marketplace" => r.seen["ads"] = {}
    PROVE  /\ Good(Loop(r, k))
           /\ Loop(r, k).seen = r.seen /\ Loop(r, k).beat = r.beat
           /\ Loop(r, k).pc = "query" /\ Loop(r, k).kind = k
<1>1. Loop(r, k) \in ScanRecords /\ Loop(r, k).page = {} /\ Loop(r, k).due = due[k]
      /\ Loop(r, k).since = due[k] /\ Loop(r, k).last = 0 /\ Loop(r, k).seen = r.seen /\ Loop(r, k).beat = r.beat
      /\ Loop(r, k).pc = "query" /\ Loop(r, k).kind = k
  BY DEF Loop, ScanRecords, DueTyped
<1>2. \A a \in due[k] : ~ (a <= 0)
  BY IdsAreNatural DEF DueTyped
<1> QED
  BY <1>1, <1>2 DEF Good

\* The end of a loop, whatever it is the end of.
LEMMA LoopDoneGood ==
    ASSUME DueTyped, NEW r \in ScanRecords, r.kind = "marketplace" => r.seen["ads"] = {}
    PROVE  /\ Good(LoopDone(r)) /\ LoopDone(r).seen = r.seen
           /\ \/ LoopDone(r).pc = "release"
              \/ LoopDone(r).pc = "query" /\ LoopDone(r).beat = r.beat
<1>1. CASE r.kind = "marketplace"
  BY <1>1, LoopGood DEF LoopDone, Kinds
<1>2. CASE r.kind # "marketplace"
  <2>1. LoopDone(r) = Ending(r)
    BY <1>2 DEF LoopDone
  <2>2. Ending(r).seen = r.seen /\ Ending(r).pc = "release"
    BY DEF Ending, Idle, ScanRecords
  <2> QED
    BY <2>1, <2>2, IdleGood
<1> QED
  BY <1>1, <1>2

\* A query: the loop is over with all that is due handed over, or a page begins.
LEMMA QueryGood ==
    ASSUME DueTyped, NEW r, Good(r), r.pc = "query"
    PROVE  /\ Good(AfterQuery(r)) /\ AfterQuery(r).seen = r.seen
           /\ \/ AfterQuery(r).pc = "release" \/ AfterQuery(r).beat = r.beat
           /\ \/ r.since \subseteq r.seen[r.kind]
              \/ AfterQuery(r).pc = "enqueue" /\ AfterQuery(r).kind = r.kind
<1> DEFINE S == Ahead(r)
           found == FirstBatch(S)
           next == [r EXCEPT !.pc = "enqueue", !.page = found,
                             !.full = (Cardinality(found) >= Batch)]
<1>1. r \in ScanRecords /\ r.due \in SUBSET Apps /\ r.last \in Apps \cup {0}
      /\ r.seen \in [Kinds -> SUBSET Apps] /\ r.kind \in Kinds
      /\ r.since \subseteq r.due
  BY DEF Good, ScanRecords
<1>2. S \in SUBSET Apps /\ S \in SUBSET Nat /\ IsFiniteSet(S)
  BY <1>1, IdsAreNatural, AppsAssumption, FS_Subset DEF Ahead
<1>3. \A a \in r.since : a \in S \/ a <= r.last
  <2>0. r.last \in Nat /\ \A a \in r.due : a \in Nat
    BY <1>1, IdsAreNatural
  <2>1. \A a \in r.due : a \in S \/ a <= r.last
    BY <2>0 DEF Ahead
  <2> QED
    BY <1>1, <2>1
<1>4. \A a \in S : r.last < a
  BY <1>1, IdsAreNatural DEF Ahead
<1>5. /\ found \subseteq S
      /\ \A a \in found, b \in S \ found : a < b
      /\ S # {} => found # {}
      /\ ~ (Cardinality(found) >= Batch) => found = S
  BY <1>2, FirstBatchIs
<1> HIDE DEF found, S
<1>6. CASE found = {}
  <2>1. r.since \subseteq r.seen[r.kind]
    BY <1>3, <1>5, <1>6 DEF Good
  <2>2. AfterQuery(r) = LoopDone(r)
    BY <1>6 DEF AfterQuery, found, S
  <2> QED
    BY <2>1, <2>2, <1>1, LoopDoneGood DEF Good
<1>7. CASE found # {}
  <2>1. AfterQuery(r) = next
    BY <1>7 DEF AfterQuery, found, S
  <2>2. /\ next \in ScanRecords /\ next.pc = "enqueue" /\ next.page = found
        /\ next.full = (Cardinality(found) >= Batch) /\ next.seen = r.seen
        /\ next.kind = r.kind /\ next.due = r.due /\ next.since = r.since
        /\ next.beat = r.beat
    <3>1. found \in SUBSET Apps /\ (Cardinality(found) >= Batch) \in BOOLEAN
      BY <1>2, <1>5
    <3> QED
      BY <1>1, <3>1 DEF ScanRecords
  <2>3. \A a \in r.seen[r.kind], b \in found : a < b
    <3>1. TAKE a \in r.seen[r.kind], b \in found
    <3>2. a <= r.last /\ r.last < b
      BY <1>4, <1>5 DEF Good
    <3>3. a \in Nat /\ b \in Nat /\ r.last \in Nat
      BY <1>1, <1>2, <1>5, IdsAreNatural
    <3> QED
      BY <3>2, <3>3
  <2>4. \A a \in r.since : \/ a \in r.seen[r.kind] \cup found
                           \/ next.full /\ \A b \in found : b < a
    BY <1>3, <1>5, <2>2 DEF Good
  <2> HIDE DEF next
  <2> QED
    BY <2>1, <2>2, <2>3, <2>4, <1>7 DEF Good
<1> QED
  BY <1>6, <1>7

\* The lowest application of the page is handed over: the page goes on, the next
\* one is queried from it, or the loop is over with all that is due handed over.
LEMMA EnqueueGood ==
    ASSUME DueTyped, NEW r, Good(r), r.pc = "enqueue"
    PROVE  /\ Good(AfterEnqueue(r)) /\ AfterEnqueue(r).seen = Visited(r).seen
           /\ \/ AfterEnqueue(r).pc = "release" \/ AfterEnqueue(r).beat = r.beat
           /\ \/ r.since \subseteq Visited(r).seen[r.kind]
              \/ AfterEnqueue(r).pc \in {"query", "enqueue"} /\ AfterEnqueue(r).kind = r.kind
<1> DEFINE low == Lowest(r.page)
           v == Visited(r)
<1>1. /\ r \in ScanRecords /\ r.due \in SUBSET Apps /\ r.page \in SUBSET Apps
      /\ r.since \subseteq r.due
      /\ r.seen \in [Kinds -> SUBSET Apps] /\ r.kind \in Kinds /\ r.page # {}
      /\ r.kind = "marketplace" => r.seen["ads"] = {}
      /\ \A a \in r.seen[r.kind], b \in r.page : a < b
      /\ \A a \in r.since : \/ a \in r.seen[r.kind] \cup r.page
                            \/ r.full /\ \A b \in r.page : b < a
  <2>1. r \in ScanRecords
    BY DEF Good
  <2>2. /\ r.due \in SUBSET Apps /\ r.page \in SUBSET Apps
        /\ r.seen \in [Kinds -> SUBSET Apps] /\ r.kind \in Kinds
    BY <2>1 DEF ScanRecords
  <2> QED
    BY <2>1, <2>2, Zenon DEF Good
<1>2. low \in r.page /\ low \in Apps /\ (\A b \in r.page : low <= b)
  <2>1. r.page \in SUBSET Nat
    BY <1>1, IdsAreNatural
  <2> QED
    BY <2>1, <1>1, LowestIs
<1>3. /\ v \in ScanRecords /\ v.page = r.page \ {low} /\ v.pc = "enqueue"
      /\ v.kind = r.kind /\ v.due = r.due /\ v.since = r.since
      /\ v.full = r.full /\ v.beat = r.beat
      /\ v.seen[r.kind] = r.seen[r.kind] \cup {low}
      /\ r.kind = "marketplace" => v.seen["ads"] = {}
  <2> DEFINE ids == r.page \ {low}
             handed == [r.seen EXCEPT ![r.kind] = @ \cup {low}]
  <2>1. v = [r EXCEPT !.page = ids, !.seen = handed]
    BY <1>1 DEF Visited, ScanRecords
  <2>2. handed \in [Kinds -> SUBSET Apps] /\ handed[r.kind] = r.seen[r.kind] \cup {low}
        /\ (r.kind = "marketplace" => handed["ads"] = {})
    BY <1>1, <1>2 DEF Kinds
  <2>3. ids \in SUBSET Apps
    BY <1>1
  <2> HIDE DEF ids, handed, v
  <2>4. v \in ScanRecords
    BY <2>1, <2>2, <2>3, <1>1 DEF ScanRecords
  <2>5. /\ v.page = ids /\ v.seen = handed /\ v.pc = r.pc /\ v.kind = r.kind
        /\ v.due = r.due /\ v.since = r.since /\ v.full = r.full /\ v.beat = r.beat
    BY <2>1, <1>1 DEF ScanRecords
  <2> QED
    BY <2>2, <2>4, <2>5 DEF ids
<1>4. \A a \in Apps : a \in Nat
  BY IdsAreNatural
<1>5. \A a \in r.seen[r.kind] : a \in Apps
  BY <1>1
<1> HIDE DEF low, v
<1>6. CASE v.page # {}
  <2>1. AfterEnqueue(r) = v
    BY <1>6 DEF AfterEnqueue, v
  <2>2. \A a \in v.seen[r.kind], b \in v.page : a < b
    <3>1. \A b \in v.page : b \in r.page /\ b # low /\ low <= b /\ b \in Nat
      BY <1>1, <1>2, <1>3, <1>4
    <3>2. \A b \in v.page : low < b
      BY <3>1, <1>2, <1>4
    <3> QED
      BY <3>1, <3>2, <1>1, <1>3
  <2>3. \A a \in v.since : \/ a \in v.seen[r.kind] \cup v.page
                           \/ v.full /\ \A b \in v.page : b < a
    BY <1>1, <1>2, <1>3
  <2> QED
    BY <2>1, <2>2, <2>3, <1>3, <1>6 DEF Good, v
<1>7. CASE v.page = {} /\ r.full
  <2> DEFINE next == [v EXCEPT !.pc = "query", !.last = low]
  <2>1. AfterEnqueue(r) = next
    BY <1>7 DEF AfterEnqueue, v, low
  <2>2. /\ next \in ScanRecords /\ next.pc = "query" /\ next.last = low /\ next.page = {}
        /\ next.kind = r.kind /\ next.due = r.due /\ next.since = r.since
        /\ next.seen = v.seen
        /\ next.beat = r.beat
    BY <1>2, <1>3, <1>7 DEF ScanRecords
  <2>3. \A a \in next.seen[r.kind] : a <= low
    BY <2>2, <1>1, <1>2, <1>3, <1>4, <1>5
  <2>4. \A a \in next.since : a <= low => a \in next.seen[r.kind]
    <3>1. \A a \in r.since : ~ (low < a /\ a <= low)
      BY <1>1, <1>2, <1>4
    <3>2. r.page = {low}
      BY <1>2, <1>3, <1>7
    <3> QED
      BY <3>1, <3>2, <2>2, <1>1, <1>3
  <2> HIDE DEF next
  <2> QED
    BY <2>1, <2>2, <2>3, <2>4, <1>3 DEF Good, v
<1>8. CASE v.page = {} /\ ~ r.full
  <2>1. AfterEnqueue(r) = LoopDone(v)
    BY <1>8 DEF AfterEnqueue, v
  <2>2. r.page = {low}
    BY <1>2, <1>3, <1>8
  <2>3. r.since \subseteq v.seen[r.kind]
    BY <2>2, <1>1, <1>3, <1>8
  <2> QED
    BY <2>1, <2>3, <1>3, LoopDoneGood DEF v
<1> QED
  BY <1>6, <1>7, <1>8

\* A heartbeat or a tick changes nothing of the loop.
LEMMA OtherBeat ==
    ASSUME NEW r, Good(r), NEW b \in 0..Beat
    PROVE  LET q == [r EXCEPT !.beat = b]
           IN  /\ Good(q) /\ q.beat = b /\ q.pc = r.pc /\ q.kind = r.kind /\ q.due = r.due
               /\ q.page = r.page /\ q.seen = r.seen
<1> DEFINE q == [r EXCEPT !.beat = b]
<1>1. /\ q \in ScanRecords /\ q.pc = r.pc /\ q.kind = r.kind /\ q.due = r.due
      /\ q.since = r.since /\ q.page = r.page /\ q.seen = r.seen /\ q.last = r.last /\ q.full = r.full
      /\ q.beat = b
  BY DEF Good, ScanRecords
<1> HIDE DEF q
<1>2. Good(q)
  BY <1>1 DEF Good
<1> QED
  BY <1>1, <1>2 DEF q

\* What is due may change as long as what has been due since the loop began does not
\* grow: nothing new has to be handed over.
LEMMA OtherDue ==
    ASSUME NEW r, Good(r), NEW D \in SUBSET Apps, NEW E \in SUBSET r.since, E \subseteq D
    PROVE  LET q == [r EXCEPT !.due = D, !.since = E]
           IN  /\ Good(q) /\ q.beat = r.beat /\ q.pc = r.pc /\ q.kind = r.kind
               /\ q.page = r.page /\ q.seen = r.seen
<1> DEFINE q == [r EXCEPT !.due = D, !.since = E]
<1>1. /\ q \in ScanRecords /\ q.pc = r.pc /\ q.kind = r.kind /\ q.due = D
      /\ q.since = E /\ q.page = r.page /\ q.seen = r.seen /\ q.last = r.last
      /\ q.full = r.full /\ q.beat = r.beat
  BY DEF Good, ScanRecords
<1> HIDE DEF q
<1>2. Good(q)
  BY <1>1 DEF Good
<1> QED
  BY <1>1, <1>2 DEF q

-----------------------------------------------------------------------------
(* The first invariant                                                       *)

LockTyped == lock \in [holder : Scans \cup {Free, Dead}, left : 0..Ttl]
ScanGood == scan \in [Scans -> ScanRecords] /\ \A s \in Scans : Good(scan[s])

Typed == /\ DueTyped /\ LockTyped /\ ScanGood
         /\ up \subseteq Processes /\ failures \in 0..MaxFailures

LEMMA TypedGivesType == Typed => TypeOK
  BY DEF Typed, DueTyped, LockTyped, ScanGood, TypeOK, ScanRecords

\* One execution moves on, the others stay.
LEMMA OneMoves ==
    ASSUME ScanGood, NEW s \in Scans, NEW r, Good(r), scan' = [scan EXCEPT ![s] = r]
    PROVE  ScanGood' /\ scan'[s] = r /\ \A t \in Scans \ {s} : scan'[t] = scan[t]
<1>1. r \in ScanRecords
  BY DEF Good
<1>2. scan' \in [Scans -> ScanRecords] /\ scan'[s] = r /\ \A t \in Scans \ {s} : scan'[t] = scan[t]
  BY <1>1 DEF ScanGood
<1> QED
  BY <1>2 DEF ScanGood

LEMMA InitTyped == Init => Typed
<1> SUFFICES ASSUME Init PROVE Typed
  OBVIOUS
<1>1. DueTyped /\ LockTyped /\ up \subseteq Processes /\ failures \in 0..MaxFailures
  BY ConfigAssumption DEF Init, DueTyped, LockTyped, NoLock
<1>2. ScanGood
  BY IdleGood DEF Init, ScanGood, Good
<1> QED
  BY <1>1, <1>2 DEF Typed

\* What a scan's query does, in terms of AfterQuery.
LEMMA QueryStep ==
    ASSUME Typed, NEW s \in Scans, Query(s)
    PROVE  /\ scan[s].pc = "query" /\ Good(scan[s]) /\ Good(AfterQuery(scan[s]))
           /\ ScanGood' /\ scan'[s] = AfterQuery(scan[s])
           /\ \A t \in Scans \ {s} : scan'[t] = scan[t]
<1>1. scan[s].pc = "query" /\ Good(scan[s]) /\ ScanGood /\ DueTyped
  BY DEF Query, Typed, ScanGood
<1>2. scan' = [scan EXCEPT ![s] = AfterQuery(scan[s])]
  BY DEF Query, AfterQuery, Typed, ScanGood
<1>3. Good(AfterQuery(scan[s]))
  BY <1>1, QueryGood
<1> QED
  BY <1>1, <1>2, <1>3, OneMoves

LEMMA EnqueueStep ==
    ASSUME Typed, NEW s \in Scans, Enqueue(s)
    PROVE  /\ scan[s].pc = "enqueue" /\ Good(scan[s]) /\ Good(AfterEnqueue(scan[s]))
           /\ ScanGood' /\ scan'[s] = AfterEnqueue(scan[s])
           /\ \A t \in Scans \ {s} : scan'[t] = scan[t]
<1>1. scan[s].pc = "enqueue" /\ Good(scan[s]) /\ ScanGood /\ DueTyped
  BY DEF Enqueue, Typed, ScanGood
<1>2. scan' = [scan EXCEPT ![s] = AfterEnqueue(scan[s])]
  BY DEF Enqueue, AfterEnqueue, Visited, Typed, ScanGood
<1>3. Good(AfterEnqueue(scan[s]))
  BY <1>1, EnqueueGood
<1> QED
  BY <1>1, <1>2, <1>3, OneMoves

\* An execution that gets the lock starts its first loop.
LEMMA AcquireStep ==
    ASSUME Typed, NEW s \in Scans, Acquire(s)
    PROVE  /\ ScanGood' /\ scan[s].pc = "idle"
           /\ scan'[s].pc = "query" /\ scan'[s].kind = "marketplace" /\ scan'[s].beat = Beat
           /\ \A t \in Scans \ {s} : scan'[t] = scan[t]
<1> DEFINE r == [Idle EXCEPT !.beat = Beat]
<1>1. Beat \in 0..Beat
  BY BeatIsPositive
<1>2. Good(r) /\ r.beat = Beat /\ r.seen = Idle.seen
  BY <1>1, IdleGood, OtherBeat
<1>3. r \in ScanRecords /\ r.seen["marketplace"] = {} /\ r.seen["ads"] = {}
      /\ "marketplace" \in Kinds
  BY <1>2 DEF Good, Idle, Kinds
<1> HIDE DEF r
<1>4. /\ Good(Loop(r, "marketplace")) /\ Loop(r, "marketplace").beat = Beat
      /\ Loop(r, "marketplace").pc = "query" /\ Loop(r, "marketplace").kind = "marketplace"
  BY <1>2, <1>3, LoopGood DEF Typed
<1>5. scan' = [scan EXCEPT ![s] = Loop(r, "marketplace")] /\ scan[s].pc = "idle"
  BY DEF Acquire, r
<1> QED
  BY <1>4, <1>5, OneMoves DEF Typed

\* Time, or a heartbeat, changes the timers only.
LEMMA TimersMove ==
    ASSUME ScanGood, NEW b \in [Scans -> 0..Beat],
           scan' = [s \in Scans |-> [scan[s] EXCEPT !.beat = b[s]]]
    PROVE  ScanGood'
           /\ \A s \in Scans : /\ scan'[s].beat = b[s] /\ scan'[s].pc = scan[s].pc
                               /\ scan'[s].kind = scan[s].kind
                               /\ scan'[s].seen = scan[s].seen
<1>1. \A s \in Scans : /\ Good(scan'[s]) /\ scan'[s].beat = b[s] /\ scan'[s].pc = scan[s].pc
                       /\ scan'[s].kind = scan[s].kind /\ scan'[s].seen = scan[s].seen
  <2> TAKE s \in Scans
  <2> DEFINE q == [scan[s] EXCEPT !.beat = b[s]]
  <2>1. Good(scan[s]) /\ b[s] \in 0..Beat /\ scan'[s] = q
    BY DEF ScanGood
  <2>2. /\ Good(q) /\ q.beat = b[s] /\ q.pc = scan[s].pc /\ q.kind = scan[s].kind
        /\ q.seen = scan[s].seen
    BY <2>1, OtherBeat
  <2> HIDE DEF q
  <2> QED
    BY <2>1, <2>2
<1>2. \A s \in Scans : scan'[s] \in ScanRecords
  BY <1>1 DEF Good
<1>3. scan' = [s \in Scans |-> scan'[s]]
  OBVIOUS
<1>4. scan' \in [Scans -> ScanRecords]
  BY <1>2, <1>3
<1> QED
  BY <1>1, <1>4 DEF ScanGood

LEMMA RenewStep ==
    ASSUME Typed, NEW s \in Scans, Renew(s)
    PROVE  ScanGood' /\ scan'[s].beat = Beat
           /\ (\A t \in Scans \ {s} : scan'[t] = scan[t])
           /\ \A t \in Scans : /\ scan'[t].pc = scan[t].pc /\ scan'[t].kind = scan[t].kind
                               /\ scan'[t].seen = scan[t].seen
<1> DEFINE r == [scan[s] EXCEPT !.beat = Beat]
<1>1. Beat \in 0..Beat
  BY BeatIsPositive
<1>2. Good(scan[s]) /\ ScanGood /\ scan \in [Scans -> ScanRecords]
  BY DEF Typed, ScanGood
<1>3. /\ Good(r) /\ r.beat = Beat /\ r.pc = scan[s].pc /\ r.kind = scan[s].kind
      /\ r.seen = scan[s].seen
  BY <1>1, <1>2, OtherBeat
<1>4. scan' = [scan EXCEPT ![s] = r]
  BY <1>2 DEF Renew
<1> HIDE DEF r
<1> QED
  BY <1>2, <1>3, <1>4, OneMoves

LEMMA TickStep ==
    ASSUME Typed, Tick
    PROVE  ScanGood'
           /\ \A s \in Scans : /\ scan'[s].beat = IF scan[s].beat > 0 THEN scan[s].beat - 1 ELSE 0
                               /\ scan'[s].pc = scan[s].pc /\ scan'[s].kind = scan[s].kind
                               /\ scan'[s].seen = scan[s].seen
<1> DEFINE b == [s \in Scans |-> IF scan[s].beat > 0 THEN scan[s].beat - 1 ELSE 0]
<1>1. ScanGood /\ \A s \in Scans : scan[s] \in ScanRecords /\ scan[s].beat \in 0..Beat
  BY DEF Typed, ScanGood, ScanRecords
<1>2. b \in [Scans -> 0..Beat]
  BY <1>1, BeatIsPositive
<1>3. \A s \in Scans :
        (IF scan[s].beat > 0 THEN [scan[s] EXCEPT !.beat = @ - 1] ELSE scan[s])
        = [scan[s] EXCEPT !.beat = b[s]]
  <2> TAKE s \in Scans
  <2>1. scan[s] \in ScanRecords /\ scan[s].beat \in 0..Beat
    BY <1>1
  <2>2. CASE scan[s].beat > 0
    BY <2>2, <2>1 DEF ScanRecords
  <2>3. CASE ~ (scan[s].beat > 0)
    <3>1. b[s] = scan[s].beat
      BY <2>1, <2>3, BeatIsPositive
    <3> QED
      BY <3>1, <2>1, <2>3 DEF ScanRecords
  <2> QED
    BY <2>2, <2>3
<1>4. scan' = [s \in Scans |-> [scan[s] EXCEPT !.beat = b[s]]]
  BY <1>3 DEF Tick
<1>5. \A s \in Scans : b[s] = IF scan[s].beat > 0 THEN scan[s].beat - 1 ELSE 0
  OBVIOUS
<1> HIDE DEF b
<1> QED
  BY <1>1, <1>2, <1>4, <1>5, TimersMove

LEMMA CheckedStep ==
    ASSUME Typed, NEW a \in Apps, NEW k \in Kinds, Checked(a, k)
    PROVE  ScanGood'
           /\ \A s \in Scans : /\ scan'[s].beat = scan[s].beat /\ scan'[s].pc = scan[s].pc
                               /\ scan'[s].kind = scan[s].kind /\ scan'[s].seen = scan[s].seen
<1>1. scan \in [Scans -> ScanRecords] /\ \A s \in Scans : Good(scan[s])
  BY DEF Typed, ScanGood
<1>2. ASSUME NEW s \in Scans
      PROVE  /\ Good(scan'[s]) /\ scan'[s].beat = scan[s].beat /\ scan'[s].pc = scan[s].pc
             /\ scan'[s].kind = scan[s].kind /\ scan'[s].seen = scan[s].seen
  <2>1. CASE scan[s].kind = k
    <3> DEFINE r == scan[s]
               D == r.due \ {a}
               E == r.since \ {a}
    <3>1. scan'[s] = [r EXCEPT !.due = D, !.since = E]
      BY <1>1, <2>1 DEF Checked, ScanRecords
    <3>2. Good(r) /\ D \in SUBSET Apps /\ E \in SUBSET r.since /\ E \subseteq D
      BY <1>1 DEF Good, ScanRecords
    <3> HIDE DEF r, D, E
    <3>3. LET q == [r EXCEPT !.due = D, !.since = E]
          IN  /\ Good(q) /\ q.beat = r.beat /\ q.pc = r.pc /\ q.kind = r.kind
              /\ q.page = r.page /\ q.seen = r.seen
      BY <3>2, OtherDue, Zenon
    <3> QED
      BY <3>1, <3>3, Zenon DEF r
  <2>2. CASE scan[s].kind # k
    BY <1>1, <2>2 DEF Checked
  <2> QED
    BY <2>1, <2>2
<1>3. scan' = [s \in Scans |-> scan'[s]]
  BY DEF Checked
<1>4. scan' \in [Scans -> ScanRecords]
  BY <1>2, <1>3 DEF Good
<1> QED
  BY <1>2, <1>4 DEF ScanGood

LEMMA FallDueStep ==
    ASSUME Typed, NEW a \in Apps, NEW k \in Kinds, FallDue(a, k)
    PROVE  ScanGood'
           /\ \A s \in Scans : /\ scan'[s].beat = scan[s].beat /\ scan'[s].pc = scan[s].pc
                               /\ scan'[s].kind = scan[s].kind /\ scan'[s].seen = scan[s].seen
<1>1. scan \in [Scans -> ScanRecords] /\ \A s \in Scans : Good(scan[s])
  BY DEF Typed, ScanGood
<1>2. PICK S \in SUBSET Loops(k) :
        scan' = [s \in Scans |-> IF s \in S THEN [scan[s] EXCEPT !.due = @ \cup {a}]
                                 ELSE scan[s]]
  BY DEF FallDue
<1>3. ASSUME NEW s \in Scans
      PROVE  /\ Good(scan'[s]) /\ scan'[s].beat = scan[s].beat /\ scan'[s].pc = scan[s].pc
             /\ scan'[s].kind = scan[s].kind /\ scan'[s].seen = scan[s].seen
  <2>1. CASE s \in S
    <3> DEFINE r == scan[s]
               D == r.due \cup {a}
               E == r.since
    <3>1. scan'[s] = [r EXCEPT !.due = D, !.since = E]
      BY <1>1, <1>2, <2>1 DEF ScanRecords
    <3>2. Good(r) /\ D \in SUBSET Apps /\ E \in SUBSET r.since /\ E \subseteq D
      BY <1>1 DEF Good, ScanRecords
    <3> HIDE DEF r, D, E
    <3>3. LET q == [r EXCEPT !.due = D, !.since = E]
          IN  /\ Good(q) /\ q.beat = r.beat /\ q.pc = r.pc /\ q.kind = r.kind
              /\ q.page = r.page /\ q.seen = r.seen
      BY <3>2, OtherDue, Zenon
    <3> QED
      BY <3>1, <3>3, Zenon DEF r
  <2>2. CASE s \notin S
    BY <1>1, <1>2, <2>2
  <2> QED
    BY <2>1, <2>2
<1>4. scan' = [s \in Scans |-> scan'[s]]
  BY <1>2
<1>5. scan' \in [Scans -> ScanRecords]
  BY <1>3, <1>4 DEF Good
<1> QED
  BY <1>3, <1>5 DEF ScanGood

\* Outside its loops an execution knows nothing.
LEMMA FailedGood ==
    ASSUME NEW r \in ScanRecords, NEW pc \in {"failed", "rejected"}, r.page = {}, r.since = {}
    PROVE  Good([r EXCEPT !.pc = pc]) /\ [r EXCEPT !.pc = pc].pc = pc
<1> DEFINE q == [r EXCEPT !.pc = pc]
<1>1. q \in ScanRecords /\ q.pc = pc /\ q.page = {} /\ q.since = {}
  BY DEF ScanRecords
<1> HIDE DEF q
<1>2. Good(q)
  BY <1>1 DEF Good
<1> QED
  BY <1>1, <1>2 DEF q

\* An exception ends the loop of one execution.
LEMMA ThrowsStep ==
    ASSUME Typed, NEW s \in Scans, ScanThrows(s)
    PROVE  /\ ScanGood' /\ scan'[s].pc = "failed" /\ scan'[s].kind = "marketplace"
           /\ Scanning(s) /\ \A t \in Scans \ {s} : scan'[t] = scan[t]
<1> DEFINE e == Ending(scan[s])
           r == [e EXCEPT !.pc = "failed"]
<1>1. ScanGood /\ scan[s] \in ScanRecords
  BY DEF Typed, ScanGood
<1>2. Good(e)
  BY <1>1, IdleGood
<1>3. e \in ScanRecords /\ e.page = {} /\ e.since = {} /\ e.kind = "marketplace"
  BY <1>1, <1>2 DEF Good, Ending, Idle
<1> HIDE DEF e
<1>4. Good(r) /\ r.pc = "failed"
  BY <1>3, FailedGood
<1>5. r.kind = "marketplace"
  BY <1>3 DEF ScanRecords
<1>6. scan' = [scan EXCEPT ![s] = r]
  BY DEF ScanThrows, e
<1>7. Scanning(s)
  BY DEF ScanThrows
<1> QED
  BY <1>1, <1>4, <1>5, <1>6, <1>7, OneMoves

\* The release: an execution that has not failed is done.
LEMMA ReleaseStep ==
    ASSUME Typed, NEW s \in Scans, Release(s)
    PROVE  /\ ScanGood'
           /\ \/ scan[s].pc = "release" /\ scan'[s].pc = "idle"
              \/ scan[s].pc = "failed" /\ scan'[s].pc = "rejected"
           /\ \A t \in Scans \ {s} : scan'[t] = scan[t]
<1> DEFINE r == [scan[s] EXCEPT !.pc = "rejected"]
<1>1. /\ ScanGood /\ Good(scan[s]) /\ scan[s] \in ScanRecords
      /\ scan[s].pc \in {"release", "failed"}
  BY DEF Typed, ScanGood, Release
<1>2. CASE scan[s].pc = "release"
  <2>1. scan' = [scan EXCEPT ![s] = Idle] /\ Idle.pc = "idle"
    BY <1>2 DEF Release, Idle
  <2> QED
    BY <1>1, <1>2, <2>1, IdleGood, OneMoves
<1>3. CASE scan[s].pc = "failed"
  <2>1. scan' = [scan EXCEPT ![s] = r]
    BY <1>3 DEF Release
  <2>2. r.pc = "rejected" /\ r \in ScanRecords /\ r.page = scan[s].page /\ r.since = scan[s].since
    BY <1>1 DEF ScanRecords
  <2>3. Good(r)
    BY <1>1, <1>3, <2>2 DEF Good
  <2> QED
    BY <1>1, <1>3, <2>1, <2>2, <2>3, OneMoves
<1> QED
  BY <1>1, <1>2, <1>3

\* The end of a process takes its executions with it.
LEMMA ExitStep ==
    ASSUME Typed, NEW p, Exit(p)
    PROVE  /\ ScanGood' /\ LockTyped' /\ (up \subseteq Processes => up' \subseteq Processes)
           /\ \A s \in Scans : IF ProcessOf[s] = p
                                THEN scan'[s] = Idle /\ scan'[s].pc = "idle"
                                     /\ scan'[s].kind = "marketplace"
                                ELSE scan'[s] = scan[s]
<1>1. /\ scan \in [Scans -> ScanRecords] /\ (\A s \in Scans : Good(scan[s]))
      /\ lock \in [holder : Scans \cup {Free, Dead}, left : 0..Ttl]
  BY DEF Typed, ScanGood, LockTyped
<1>2. scan' = [s \in Scans |-> IF ProcessOf[s] = p THEN Idle ELSE scan[s]]
  BY DEF Exit
<1>3. Good(Idle) /\ Idle \in ScanRecords /\ Idle.pc = "idle" /\ Idle.kind = "marketplace"
  BY IdleGood DEF Good, Idle
<1>4. \A s \in Scans : scan'[s] = IF ProcessOf[s] = p THEN Idle ELSE scan[s]
  BY <1>2
<1>5. ScanGood'
  BY <1>1, <1>2, <1>3 DEF ScanGood
<1>6. LockTyped'
  BY <1>1 DEF Exit, LockTyped
<1>7. up \subseteq Processes => up' \subseteq Processes
  BY DEF Exit
<1> QED
  BY <1>3, <1>4, <1>5, <1>6, <1>7

\* No step leaves the types, or what an execution knows of its loop.
LEMMA NextTyped == Typed /\ [Next]_vars => Typed'
<1> SUFFICES ASSUME Typed, [Next]_vars PROVE Typed'
  OBVIOUS
<1> USE DEF DueTyped, LockTyped
<1>1. Ttl \in 0..Ttl /\ Ttl \in Nat \ {0} /\ 0 \in 0..Ttl /\ MaxFailures \in Nat
  BY ConfigAssumption
<1>2. /\ due \in [Kinds -> SUBSET Apps] /\ failures \in 0..MaxFailures
      /\ up \subseteq Processes
      /\ lock \in [holder : Scans \cup {Free, Dead}, left : 0..Ttl]
      /\ NoLock \in [holder : Scans \cup {Free, Dead}, left : 0..Ttl]
  BY <1>1 DEF Typed, NoLock
<1>3. ASSUME NEW s \in Scans, Acquire(s) PROVE Typed'
  <2>1. LockTyped'
    BY <1>1, <1>3 DEF Acquire, Token
  <2> QED
    BY <1>2, <1>3, <2>1, AcquireStep DEF Acquire, Typed
<1>4. ASSUME NEW s \in Scans, Query(s) PROVE Typed'
  BY <1>2, <1>4, QueryStep DEF Query, Typed
<1>5. ASSUME NEW s \in Scans, Enqueue(s) PROVE Typed'
  BY <1>2, <1>5, EnqueueStep DEF Enqueue, Typed
<1>6. ASSUME NEW s \in Scans, ScanThrows(s) PROVE Typed'
  <2>1. failures' \in 0..MaxFailures
    BY <1>1, <1>2, <1>6 DEF ScanThrows
  <2> QED
    BY <1>2, <1>6, <2>1, ThrowsStep DEF ScanThrows, Typed
<1>7. ASSUME NEW s \in Scans, Renew(s) PROVE Typed'
  <2>1. LockTyped'
    BY <1>1, <1>2, <1>7 DEF Renew
  <2> QED
    BY <1>2, <1>7, <2>1, RenewStep DEF Renew, Typed
<1>8. ASSUME NEW s \in Scans, Release(s) PROVE Typed'
  <2>1. LockTyped'
    BY <1>2, <1>8 DEF Release
  <2> QED
    BY <1>2, <1>8, <2>1, ReleaseStep DEF Release, Typed
<1>9. ASSUME NEW p, Exit(p), failures' \in 0..MaxFailures PROVE Typed'
  <2>1. DueTyped'
    BY <1>2, <1>9 DEF Exit
  <2> QED
    BY <1>2, <1>9, <2>1, ExitStep DEF Typed
<1>14. ASSUME NEW s \in Scans, Rejected(s) PROVE Typed'
  BY <1>2, <1>9, <1>14 DEF Rejected
<1>15. ASSUME NEW p \in Processes, Crash(p) PROVE Typed'
  <2>1. failures' \in 0..MaxFailures
    BY <1>1, <1>2, <1>15 DEF Crash
  <2> QED
    BY <1>9, <1>15, <2>1 DEF Crash
<1>16. ASSUME NEW p \in Processes, Start(p) PROVE Typed'
  <2>1. up' \subseteq Processes
    BY <1>2, <1>16 DEF Start
  <2> QED
    BY <1>2, <1>16, <2>1 DEF Start, Typed, ScanGood
<1>10. ASSUME Tick PROVE Typed'
  <2>1. LockTyped'
    <3>1. lock.left \in 0..Ttl /\ (IF lock.left > 0 THEN lock.left - 1 ELSE 0) \in 0..Ttl
      BY <1>1, <1>2
    <3> QED
      BY <1>2, <1>10, <3>1 DEF Tick
  <2> QED
    BY <1>2, <1>10, <2>1, TickStep DEF Tick, Typed
<1>11. ASSUME NEW a \in Apps, NEW k \in Kinds, Checked(a, k) PROVE Typed'
  <2>1. DueTyped'
    BY <1>2, <1>11 DEF Checked
  <2> QED
    BY <1>2, <1>11, <2>1, CheckedStep DEF Checked, Typed
<1>12. ASSUME NEW a \in Apps, NEW k \in Kinds, FallDue(a, k) PROVE Typed'
  <2>1. DueTyped'
    BY <1>2, <1>12 DEF FallDue
  <2> QED
    BY <1>2, <1>12, <2>1, FallDueStep DEF FallDue, Typed
<1>13. CASE UNCHANGED vars
  BY <1>13 DEF vars, Typed, ScanGood
<1> QED
  BY <1>3, <1>4, <1>5, <1>6, <1>7, <1>8, <1>10, <1>11, <1>12, <1>13, <1>14, <1>15, <1>16
  DEF Next, ScanStep

LEMMA AlwaysTyped == Spec => []Typed
  BY InitTyped, NextTyped, PTL DEF Spec

-----------------------------------------------------------------------------
(* Paging                                                                    *)

\* Every reachable state is well typed: timers within TTL and interval, cursors
\* and pages within the applications.
THEOREM TypeCorrect == Spec => []TypeOK
  BY AlwaysTyped, TypedGivesType, PTL

LEMMA TypedNeverTwice == Typed => NeverTwice
<1> SUFFICES ASSUME Typed, NEW s \in Scans
             PROVE  scan[s].page \cap scan[s].seen[scan[s].kind] = {}
  BY DEF NeverTwice
<1>1. Good(scan[s])
  BY DEF Typed, ScanGood
<1>2. scan[s].page \in SUBSET Nat
  BY <1>1, IdsAreNatural DEF Good, ScanRecords
<1>3. scan[s].page # {} => \A a \in scan[s].seen[scan[s].kind], b \in scan[s].page : a < b
  BY <1>1 DEF Good
<1> QED
  BY <1>2, <1>3

\* Whatever the batch size, and whatever leaves the selection while a scan is on,
\* no page brings back an application that its loop has handed over.
THEOREM PagesNeverRepeat == Spec => []NeverTwice
  BY AlwaysTyped, TypedNeverTwice, PTL

\* What a step may do to the loop of one execution.
LoopStep(s) ==
    (/\ Scanning(s)
     /\ scan'[s].pc = "release" \/ (scan[s].kind = "marketplace" /\ scan'[s].kind = "ads"))
    => scan[s].since \subseteq scan'[s].seen[scan[s].kind]

LEMMA NextLoopStep ==
    ASSUME Typed, [Next]_vars, NEW s \in Scans
    PROVE  LoopStep(s)
<1>1. Good(scan[s])
  BY DEF Typed, ScanGood
<1>2. scan'[s].pc = scan[s].pc /\ scan'[s].kind = scan[s].kind => LoopStep(s)
  BY DEF LoopStep, Scanning
<1>3. scan[s].pc \notin {"query", "enqueue"} => LoopStep(s)
  BY DEF LoopStep, Scanning
<1>4. ASSUME NEW t \in Scans, Acquire(t) PROVE LoopStep(s)
  BY <1>2, <1>3, <1>4, AcquireStep
<1>5. ASSUME NEW t \in Scans, Query(t) PROVE LoopStep(s)
  <2>1. CASE t = s
    BY <1>1, <1>5, <2>1, QueryStep, QueryGood DEF LoopStep, Typed
  <2>2. CASE t # s
    BY <1>2, <1>5, <2>2, QueryStep
  <2> QED
    BY <2>1, <2>2
<1>6. ASSUME NEW t \in Scans, Enqueue(t) PROVE LoopStep(s)
  <2>1. CASE t = s
    BY <1>1, <1>6, <2>1, EnqueueStep, EnqueueGood DEF LoopStep, Typed
  <2>2. CASE t # s
    BY <1>2, <1>6, <2>2, EnqueueStep
  <2> QED
    BY <2>1, <2>2
<1>7. ASSUME NEW t \in Scans, ScanThrows(t) PROVE LoopStep(s)
  <2>1. CASE t = s
    BY <1>7, <2>1, ThrowsStep DEF LoopStep
  <2>2. CASE t # s
    BY <1>2, <1>7, <2>2, ThrowsStep
  <2> QED
    BY <2>1, <2>2
<1>8. ASSUME NEW t \in Scans, Renew(t) PROVE LoopStep(s)
  BY <1>2, <1>8, RenewStep
<1>9. ASSUME NEW t \in Scans, Release(t) PROVE LoopStep(s)
  BY <1>2, <1>3, <1>9, ReleaseStep
<1>10. ASSUME Tick PROVE LoopStep(s)
  BY <1>2, <1>10, TickStep
<1>11. ASSUME NEW a \in Apps, NEW k \in Kinds, Checked(a, k) \/ FallDue(a, k)
       PROVE  LoopStep(s)
  BY <1>2, <1>11, CheckedStep, FallDueStep
<1>12. ASSUME NEW p, Exit(p) PROVE LoopStep(s)
  <2>1. CASE ProcessOf[s] = p
    BY <1>12, <2>1, ExitStep DEF LoopStep
  <2>2. CASE ProcessOf[s] # p
    BY <1>2, <1>12, <2>2, ExitStep
  <2> QED
    BY <2>1, <2>2
<1>13. CASE UNCHANGED scan
  BY <1>2, <1>13
<1> QED
  BY <1>4, <1>5, <1>6, <1>7, <1>8, <1>9, <1>10, <1>11, <1>12, <1>13
  DEF Next, ScanStep, Rejected, Crash, Start, vars

\* A loop that ends without an exception has handed over every application that has
\* been due for it since it began: no row is skipped at a page boundary, for any batch
\* size, whatever rows leave the selection or come in behind the cursor.
THEOREM ScansSkipNothing == Spec => LoopIsComplete
<1>1. Typed /\ [Next]_vars =>
        [\A s \in Scans :
           (/\ Scanning(s)
            /\ scan'[s].pc = "release" \/ (scan[s].kind = "marketplace" /\ scan'[s].kind = "ads"))
           => scan[s].since \subseteq scan'[s].seen[scan[s].kind]]_vars
  BY NextLoopStep DEF LoopStep
<1> QED
  BY <1>1, AlwaysTyped, PTL DEF Spec, LoopIsComplete

-----------------------------------------------------------------------------
(* The end of a scan                                                         *)

\* The most queries, calls of enqueueIfNeeded and releases that an execution still
\* has before it: for each application that its loop has not handed over a call, and
\* a query after it, the query that finds nothing more, the whole of the ads loop
\* while the marketplace loop is on, and the release; after an exception, the release
\* and the end of the process.
StepsLeft(r) ==
    CASE r.pc = "idle" -> 0
      [] r.pc \in {"release", "rejected"} -> 1
      [] r.pc = "failed" -> 2
      [] r.pc \in {"query", "enqueue"} ->
           2 * Cardinality(Apps \ r.seen[r.kind]) + (IF r.pc = "query" THEN 3 ELSE 2)
           + (IF r.kind = "marketplace" THEN 2 * Cardinality(Apps) + 2 ELSE 0)

LEMMA AppsCount ==
    ASSUME NEW S \in SUBSET Apps
    PROVE  /\ Cardinality(Apps) \in Nat /\ Cardinality(Apps \ S) \in Nat
           /\ Cardinality(Apps \ S) <= Cardinality(Apps)
           /\ \A a \in Apps \ S : Cardinality(Apps \ (S \cup {a})) = Cardinality(Apps \ S) - 1
<1>1. IsFiniteSet(Apps) /\ IsFiniteSet(Apps \ S)
  BY AppsAssumption, FS_Subset
<1>2. Cardinality(Apps \ S) <= Cardinality(Apps)
  BY <1>1, FS_Subset
<1>3. ASSUME NEW a \in Apps \ S
      PROVE  Cardinality(Apps \ (S \cup {a})) = Cardinality(Apps \ S) - 1
  <2>1. Apps \ (S \cup {a}) = (Apps \ S) \ {a}
    OBVIOUS
  <2> QED
    BY <1>1, <1>3, <2>1, FS_RemoveElement
<1> QED
  BY <1>1, <1>2, <1>3, FS_CardinalityType

\* The bound, and what is left to a loop, by its place in it.
LEMMA StepsAre ==
    ASSUME NEW r \in ScanRecords
    PROVE  /\ StepsLeft(r) \in 0..(4 * Cardinality(Apps) + 5)
           /\ r.pc = "idle" => StepsLeft(r) = 0
           /\ r.pc \in {"release", "rejected"} => StepsLeft(r) = 1
           /\ r.pc = "failed" => StepsLeft(r) = 2
           /\ r.pc \in {"query", "enqueue"} =>
                StepsLeft(r) = 2 * Cardinality(Apps \ r.seen[r.kind])
                               + (IF r.pc = "query" THEN 3 ELSE 2)
                               + (IF r.kind = "marketplace" THEN 2 * Cardinality(Apps) + 2 ELSE 0)
<1>1. /\ r.pc \in {"idle", "query", "enqueue", "release", "failed", "rejected"}
      /\ r.seen[r.kind] \in SUBSET Apps
  BY DEF ScanRecords
<1>2. /\ Cardinality(Apps) \in Nat /\ Cardinality(Apps \ r.seen[r.kind]) \in Nat
      /\ Cardinality(Apps \ r.seen[r.kind]) <= Cardinality(Apps)
  BY <1>1, AppsCount
<1> QED
  BY <1>1, <1>2 DEF StepsLeft

LEMMA StepsAtTheEnd ==
    ASSUME NEW r \in ScanRecords
    PROVE  /\ StepsLeft(r) \in Nat
           /\ r.pc = "idle" <=> StepsLeft(r) = 0
           /\ r.pc \in {"release", "rejected"} => StepsLeft(r) = 1
           /\ r.pc = "failed" => StepsLeft(r) = 2
           /\ r.pc \in {"query", "enqueue"} => StepsLeft(r) >= 2
<1>1. /\ r.seen[r.kind] \in SUBSET Apps
      /\ r.pc \in {"idle", "query", "enqueue", "release", "failed", "rejected"}
  BY DEF ScanRecords
<1>2. Cardinality(Apps) \in Nat /\ Cardinality(Apps \ r.seen[r.kind]) \in Nat
  BY <1>1, AppsCount
<1> QED
  BY <1>1, <1>2 DEF StepsLeft

\* The end of a loop leaves less than any place in the loop, the ads loop included.
LEMMA LoopDoneIsLess ==
    ASSUME DueTyped, NEW r \in ScanRecords, r.pc \in {"query", "enqueue"},
           r.kind = "marketplace" => r.seen["ads"] = {},
           NEW m, m = StepsLeft(r) \/ m = StepsLeft(r) + 2
    PROVE  StepsLeft(LoopDone(r)) < m
<1>1. LoopDone(r) \in ScanRecords
  BY LoopDoneGood DEF Good
<1>2. r.kind \in Kinds /\ r.seen[r.kind] \in SUBSET Apps
  BY DEF ScanRecords
<1>3. Cardinality(Apps) \in Nat /\ Cardinality(Apps \ r.seen[r.kind]) \in Nat
  BY <1>2, AppsCount
<1>4. CASE r.kind = "marketplace"
  <2> DEFINE q == Loop(r, "ads")
  <2>1. LoopDone(r) = q /\ q.pc = "query" /\ q.kind = "ads" /\ q.seen["ads"] = {}
    BY <1>4, LoopGood DEF LoopDone, Kinds
  <2> HIDE DEF q
  <2>2. Apps \ q.seen["ads"] = Apps
    BY <2>1
  <2>3. StepsLeft(q) = 2 * Cardinality(Apps) + 3
    BY <1>1, <1>3, <2>1, <2>2, StepsAre
  <2> QED
    BY <1>3, <1>4, <2>1, <2>3, StepsAre
<1>5. CASE r.kind # "marketplace"
  <2>1. LoopDone(r).pc = "release"
    BY <1>5 DEF LoopDone, Ending, Idle
  <2>2. StepsLeft(LoopDone(r)) = 1
    BY <1>1, <2>1, StepsAre
  <2> QED
    BY <1>3, <1>5, <2>2, StepsAre
<1> QED
  BY <1>4, <1>5

LEMMA QuerySpends ==
    ASSUME DueTyped, NEW r, Good(r), r.pc = "query"
    PROVE  StepsLeft(AfterQuery(r)) < StepsLeft(r)
<1> DEFINE found == FirstBatch(Ahead(r))
           next == [r EXCEPT !.pc = "enqueue", !.page = found,
                             !.full = (Cardinality(found) >= Batch)]
<1>1. r \in ScanRecords /\ (r.kind = "marketplace" => r.seen["ads"] = {})
  BY DEF Good
<1>2. CASE found = {}
  BY <1>1, <1>2, LoopDoneIsLess DEF AfterQuery
<1>3. CASE found # {}
  <2>1. AfterQuery(r) = next /\ Good(AfterQuery(r))
    BY <1>3, QueryGood DEF AfterQuery
  <2>2. next.pc = "enqueue" /\ next.kind = r.kind /\ next.seen = r.seen
    BY <1>1 DEF ScanRecords
  <2>3. next \in ScanRecords
    BY <2>1 DEF Good
  <2> HIDE DEF next
  <2>4. Cardinality(Apps) \in Nat /\ Cardinality(Apps \ r.seen[r.kind]) \in Nat
    BY <1>1, AppsCount DEF ScanRecords
  <2> QED
    BY <1>1, <2>1, <2>2, <2>3, <2>4, StepsAre
<1> QED
  BY <1>2, <1>3

LEMMA EnqueueSpends ==
    ASSUME DueTyped, NEW r, Good(r), r.pc = "enqueue"
    PROVE  StepsLeft(AfterEnqueue(r)) < StepsLeft(r)
<1> DEFINE low == Lowest(r.page)
           v == Visited(r)
<1>1. /\ r \in ScanRecords /\ r.page \in SUBSET Apps /\ r.page # {} /\ r.kind \in Kinds
      /\ r.seen \in [Kinds -> SUBSET Apps] /\ r.seen[r.kind] \in SUBSET Apps
      /\ r.kind = "marketplace" => r.seen["ads"] = {}
      /\ \A a \in r.seen[r.kind], b \in r.page : a < b
  <2>1. r \in ScanRecords
    BY DEF Good
  <2>2. r.page \in SUBSET Apps /\ r.kind \in Kinds /\ r.seen \in [Kinds -> SUBSET Apps]
    BY <2>1 DEF ScanRecords
  <2> QED
    BY <2>1, <2>2, Zenon DEF Good
<1>2. low \in r.page /\ low \in Apps /\ low \in Nat
  <2>1. r.page \in SUBSET Nat
    BY <1>1, IdsAreNatural
  <2> QED
    BY <2>1, <1>1, LowestIs
<1>3. low \in Apps \ r.seen[r.kind]
  BY <1>1, <1>2
<1> DEFINE handed == [r.seen EXCEPT ![r.kind] = @ \cup {low}]
<1>4. /\ handed \in [Kinds -> SUBSET Apps] /\ handed[r.kind] = r.seen[r.kind] \cup {low}
      /\ r.kind = "marketplace" => handed["ads"] = {}
  BY <1>1, <1>2 DEF Kinds
<1>5. v = [r EXCEPT !.page = r.page \ {low}, !.seen = handed]
  BY <1>1 DEF Visited, ScanRecords
<1> HIDE DEF handed, low, v
<1>6. /\ v \in ScanRecords /\ v.pc = "enqueue" /\ v.kind = r.kind
      /\ v.seen = handed /\ v.page = r.page \ {low}
  BY <1>1, <1>4, <1>5 DEF ScanRecords
<1>7. /\ Cardinality(Apps) \in Nat /\ Cardinality(Apps \ r.seen[r.kind]) \in Nat
      /\ Cardinality(Apps \ v.seen[v.kind]) = Cardinality(Apps \ r.seen[r.kind]) - 1
      /\ Cardinality(Apps \ v.seen[v.kind]) \in Nat
  <2>1. v.seen[v.kind] = r.seen[r.kind] \cup {low} /\ v.seen[v.kind] \in SUBSET Apps
    BY <1>1, <1>4, <1>6
  <2> QED
    BY <1>1, <1>3, <2>1, AppsCount
<1>8. StepsLeft(v) + 2 = StepsLeft(r) /\ StepsLeft(v) \in Nat /\ StepsLeft(r) \in Nat
  BY <1>1, <1>6, <1>7, StepsAre
<1>9. CASE v.page # {}
  <2>1. AfterEnqueue(r) = v
    BY <1>9 DEF AfterEnqueue, v
  <2> QED
    BY <1>8, <2>1
<1>10. CASE v.page = {} /\ r.full
  <2> DEFINE next == [v EXCEPT !.pc = "query", !.last = low]
  <2>1. AfterEnqueue(r) = next
    BY <1>10 DEF AfterEnqueue, v, low
  <2>2. next \in ScanRecords /\ next.pc = "query" /\ next.kind = v.kind /\ next.seen = v.seen
    BY <1>2, <1>6 DEF ScanRecords
  <2> HIDE DEF next
  <2>3. StepsLeft(next) = StepsLeft(v) + 1
    BY <1>6, <1>7, <2>2, StepsAre
  <2> QED
    BY <1>8, <2>1, <2>3
<1>11. CASE v.page = {} /\ ~ r.full
  <2>1. AfterEnqueue(r) = LoopDone(v)
    BY <1>11 DEF AfterEnqueue, v
  <2>2. v.kind = "marketplace" => v.seen["ads"] = {}
    BY <1>4, <1>6
  <2> QED
    BY <1>6, <1>8, <2>1, <2>2, LoopDoneIsLess
<1> QED
  BY <1>9, <1>10, <1>11

\* What a step may do to what an execution in its scan has left.
Spends(s) == scan[s].pc # "idle" =>
                /\ StepsLeft(scan'[s]) <= StepsLeft(scan[s])
                /\ ScanStep(s) => StepsLeft(scan'[s]) < StepsLeft(scan[s])

LEMMA NextSpends ==
    ASSUME Typed, [Next]_vars, NEW s \in Scans
    PROVE  Spends(s)
<1>1. /\ Good(scan[s]) /\ scan[s] \in ScanRecords /\ DueTyped /\ Typed'
      /\ scan'[s] \in ScanRecords
  BY NextTyped DEF Typed, ScanGood, Good
<1>2. /\ StepsLeft(scan[s]) \in Nat /\ StepsLeft(scan'[s]) \in Nat
      /\ scan[s].pc # "idle" => StepsLeft(scan[s]) # 0
      /\ scan'[s].pc = "idle" => StepsLeft(scan'[s]) = 0
      /\ scan[s].pc \in {"release", "rejected"} => StepsLeft(scan[s]) = 1
      /\ scan'[s].pc \in {"release", "rejected"} => StepsLeft(scan'[s]) = 1
      /\ scan[s].pc = "failed" => StepsLeft(scan[s]) = 2
      /\ scan'[s].pc = "failed" => StepsLeft(scan'[s]) = 2
      /\ scan[s].pc \in {"query", "enqueue"} => StepsLeft(scan[s]) >= 2
  BY <1>1, StepsAtTheEnd
<1>4. ASSUME ScanStep(s) PROVE StepsLeft(scan'[s]) < StepsLeft(scan[s])
  <2>1. CASE Query(s)
    BY <1>1, <2>1, QueryStep, QuerySpends
  <2>2. CASE Enqueue(s)
    BY <1>1, <2>2, EnqueueStep, EnqueueSpends
  <2>3. CASE Release(s)
    <3>1. \/ scan[s].pc = "release" /\ scan'[s].pc = "idle"
          \/ scan[s].pc = "failed" /\ scan'[s].pc = "rejected"
      BY <2>3, ReleaseStep
    <3> QED
      BY <1>2, <3>1
  <2>4. CASE Rejected(s)
    <3>1. scan[s].pc = "rejected" /\ scan'[s].pc = "idle"
      BY <2>4, ExitStep DEF Rejected
    <3> QED
      BY <1>2, <3>1
  <2> QED
    BY <1>4, <2>1, <2>2, <2>3, <2>4 DEF ScanStep
<1>5. scan'[s].pc = scan[s].pc /\ scan'[s].kind = scan[s].kind /\ scan'[s].seen = scan[s].seen
      => StepsLeft(scan'[s]) <= StepsLeft(scan[s])
  <2>1. scan'[s].pc = scan[s].pc /\ scan'[s].kind = scan[s].kind /\ scan'[s].seen = scan[s].seen
        => StepsLeft(scan'[s]) = StepsLeft(scan[s])
    BY DEF StepsLeft
  <2> QED
    BY <1>2, <2>1
<1>6. SUFFICES ASSUME scan[s].pc # "idle"
               PROVE  StepsLeft(scan'[s]) <= StepsLeft(scan[s])
  BY <1>4 DEF Spends
<1>7. ASSUME NEW t \in Scans, Acquire(t) PROVE StepsLeft(scan'[s]) <= StepsLeft(scan[s])
  BY <1>5, <1>6, <1>7, AcquireStep
<1>8. ASSUME NEW t \in Scans, Query(t) \/ Enqueue(t) \/ Release(t)
      PROVE  StepsLeft(scan'[s]) <= StepsLeft(scan[s])
  <2>1. CASE t = s
    BY <1>2, <1>4, <1>8, <2>1 DEF ScanStep
  <2>2. CASE t # s
    <3>1. scan'[s] = scan[s]
      BY <1>8, <2>2, QueryStep, EnqueueStep, ReleaseStep
    <3> QED
      BY <1>5, <3>1
  <2> QED
    BY <2>1, <2>2
<1>9. ASSUME NEW t \in Scans, ScanThrows(t) PROVE StepsLeft(scan'[s]) <= StepsLeft(scan[s])
  <2>1. CASE t = s
    <3>1. scan[s].pc \in {"query", "enqueue"} /\ scan'[s].pc = "failed"
      BY <1>9, <2>1, ThrowsStep DEF Scanning
    <3> QED
      BY <1>2, <3>1
  <2>2. CASE t # s
    <3>1. scan'[s] = scan[s]
      BY <1>9, <2>2, ThrowsStep
    <3> QED
      BY <1>5, <3>1
  <2> QED
    BY <2>1, <2>2
<1>14. ASSUME NEW p, Exit(p) PROVE StepsLeft(scan'[s]) <= StepsLeft(scan[s])
  <2>1. CASE ProcessOf[s] = p
    <3>1. scan'[s].pc = "idle"
      BY <1>14, <2>1, ExitStep
    <3> QED
      BY <1>2, <3>1
  <2>2. CASE ProcessOf[s] # p
    <3>1. scan'[s] = scan[s]
      BY <1>14, <2>2, ExitStep
    <3> QED
      BY <1>5, <3>1
  <2> QED
    BY <2>1, <2>2
<1>10. ASSUME NEW t \in Scans, Renew(t) PROVE StepsLeft(scan'[s]) <= StepsLeft(scan[s])
  BY <1>5, <1>10, RenewStep
<1>11. ASSUME Tick PROVE StepsLeft(scan'[s]) <= StepsLeft(scan[s])
  BY <1>5, <1>11, TickStep
<1>12. ASSUME NEW a \in Apps, NEW k \in Kinds, Checked(a, k) \/ FallDue(a, k)
       PROVE  StepsLeft(scan'[s]) <= StepsLeft(scan[s])
  BY <1>5, <1>12, CheckedStep, FallDueStep
<1>13. CASE UNCHANGED scan
  BY <1>5, <1>13
<1> QED
  BY <1>7, <1>8, <1>9, <1>10, <1>11, <1>12, <1>13, <1>14
  DEF Next, ScanStep, Rejected, Crash, Start, vars

\* A scan ends: each query, enqueueIfNeeded and release lowers what its execution
\* has left, and nothing that the others, the timers, a worker or time do raises it,
\* however many checks fall due and are done meanwhile.
ScansRunDown ==
    [][\A s \in Scans : scan[s].pc # "idle" =>
         /\ StepsLeft(scan'[s]) <= StepsLeft(scan[s])
         /\ ScanStep(s) => StepsLeft(scan'[s]) < StepsLeft(scan[s])]_vars

THEOREM ScansEnd == Spec => ScansRunDown
<1>1. Typed /\ [Next]_vars =>
        [\A s \in Scans : scan[s].pc # "idle" =>
           /\ StepsLeft(scan'[s]) <= StepsLeft(scan[s])
           /\ ScanStep(s) => StepsLeft(scan'[s]) < StepsLeft(scan[s])]_vars
  BY NextSpends DEF Spends
<1> QED
  BY <1>1, AlwaysTyped, PTL DEF Spec, ScansRunDown

\* One execution makes at most 4 * |Apps| + 5 of these steps: what it has left is
\* never more, whatever the batch size.
ScansBounded == \A s \in Scans : StepsLeft(scan[s]) \in 0..(4 * Cardinality(Apps) + 5)

THEOREM ScansStayBounded == Spec => []ScansBounded
<1>1. Typed => ScansBounded
  BY StepsAre DEF Typed, ScanGood, ScansBounded
<1> QED
  BY <1>1, AlwaysTyped, PTL

-----------------------------------------------------------------------------
(* The lock                                                                  *)

LEMMA NextLockStep ==
    ASSUME Typed, [Next]_vars, NEW s \in Scans, lock.holder = s, lock'.holder # s
    PROVE  lock.left = 1 \/ scan'[s].pc \in {"idle", "rejected"}
<1>1. lock \in [holder : Scans \cup {Free, Dead}, left : 0..Ttl] /\ s # Free
  BY ScansAssumption DEF Typed, LockTyped
<1>2. ASSUME NEW t \in Scans, Acquire(t) PROVE FALSE
  BY <1>1, <1>2 DEF Acquire
<1>3. ASSUME NEW t \in Scans, Renew(t) PROVE FALSE
  BY <1>1, <1>3 DEF Renew
<1>4. ASSUME NEW t \in Scans, Release(t) PROVE scan'[s].pc \in {"idle", "rejected"}
  <2>1. t = s
    BY <1>1, <1>4 DEF Release
  <2> QED
    BY <1>4, <2>1, ReleaseStep
<1>5. ASSUME NEW p, Exit(p) PROVE scan'[s].pc = "idle"
  <2>1. ProcessOf[s] = p
    BY <1>1, <1>5 DEF Exit
  <2> QED
    BY <1>5, <2>1, ExitStep
<1>6. ASSUME Tick PROVE lock.left = 1
  BY <1>1, <1>6 DEF Tick
<1>7. CASE UNCHANGED lock
  BY <1>7
<1> QED
  BY <1>2, <1>3, <1>4, <1>5, <1>6, <1>7
  DEF Next, ScanStep, Query, Enqueue, ScanThrows, Rejected, Crash, Start, Checked, FallDue, vars

\* Whatever the timing, and even with heartbeats that come too late, an execution
\* loses the lock to the expiry of the key or to its own end only.
THEOREM LockIsOnesOwn == Spec => OwnLockOnly
<1>1. Typed /\ [Next]_vars =>
        [\A s \in Scans : (lock.holder = s /\ lock'.holder # s)
                          => lock.left = 1 \/ scan'[s].pc \in {"idle", "rejected"}]_vars
  BY NextLockStep
<1> QED
  BY <1>1, AlwaysTyped, PTL DEF Spec, OwnLockOnly

\* Every key that is held will expire: SET gives it a TTL, PEXPIRE a new one, and
\* what the death of its holder leaves behind keeps the one it had.
HeldExpires == lock.holder # Free => lock.left \in 1..Ttl

LEMMA NextExpires ==
    ASSUME Typed, HeldExpires, [Next]_vars
    PROVE  HeldExpires'
<1>1. /\ lock \in [holder : Scans \cup {Free, Dead}, left : 0..Ttl]
      /\ Ttl \in Nat \ {0}
  BY ConfigAssumption DEF Typed, LockTyped
<1>2. CASE \E t \in Scans : Acquire(t) \/ Renew(t) \/ Release(t)
  BY <1>1, <1>2, ScansAssumption DEF HeldExpires, Acquire, Token, Renew, Release, NoLock
<1>5. ASSUME NEW p, Exit(p) PROVE HeldExpires'
  BY <1>1, <1>5, ScansAssumption DEF HeldExpires, Exit
<1>3. CASE Tick
  BY <1>1, <1>3 DEF HeldExpires, Tick, NoLock
<1>4. CASE UNCHANGED lock
  BY <1>4 DEF HeldExpires
<1> QED
  BY <1>2, <1>3, <1>4, <1>5
  DEF Next, ScanStep, Query, Enqueue, ScanThrows, Rejected, Crash, Start, Checked, FallDue, vars

\* Whoever dies, and whatever the heartbeats do: no key is in Redis without expiry.
THEOREM LockAlwaysExpires == Spec => []HeldExpires
<1>1. Init => HeldExpires
  BY DEF Init, HeldExpires, NoLock
<1>2. Typed /\ HeldExpires /\ [Next]_vars => HeldExpires'
  BY NextExpires
<1> QED
  BY <1>1, <1>2, AlwaysTyped, PTL DEF Spec

LEMMA NextOrphan ==
    ASSUME Typed, HeldExpires, [Next]_vars, lock.holder = Dead
    PROVE  /\ lock'.holder \in {Dead, Free}
           /\ lock'.left <= lock.left
           /\ Tick => lock'.left = lock.left - 1
<1>1. /\ lock \in [holder : Scans \cup {Free, Dead}, left : 0..Ttl]
      /\ Ttl \in Nat \ {0} /\ lock.left \in 1..Ttl
  BY ConfigAssumption, ScansAssumption DEF Typed, LockTyped, HeldExpires
<1>2. \A t \in Scans : ~ Acquire(t) /\ t # Dead
  BY ScansAssumption DEF Acquire
<1>3. CASE (\E t \in Scans : Renew(t) \/ Release(t)) \/ (\E p : Exit(p))
  <2>1. lock' = lock
    BY <1>2, <1>3 DEF Renew, Release, Exit
  <2>2. ~ Tick
    BY <1>1, <2>1 DEF Tick, NoLock
  <2> QED
    BY <1>1, <2>1, <2>2
<1>4. CASE Tick
  BY <1>1, <1>4 DEF Tick, NoLock
<1>5. CASE lock' = lock
  <2>1. ~ Tick
    BY <1>1, <1>5 DEF Tick, NoLock
  <2> QED
    BY <1>1, <1>5, <2>1
<1> QED
  BY <1>2, <1>3, <1>4, <1>5
  DEF Next, ScanStep, Query, Enqueue, ScanThrows, Rejected, Crash, Start, Checked, FallDue, vars

\* The key of an execution that died is nobody's again after at most Ttl ticks: no
\* step renews or deletes it, or puts another token in its place, and each tick
\* takes one from what it has left.
OrphanRunsDown ==
    [][lock.holder = Dead => /\ lock'.holder \in {Dead, Free}
                             /\ lock'.left <= lock.left
                             /\ Tick => lock'.left = lock.left - 1]_vars

THEOREM OrphanedLockExpires == Spec => OrphanRunsDown
<1>1. Typed /\ HeldExpires /\ [Next]_vars =>
        [lock.holder = Dead => /\ lock'.holder \in {Dead, Free}
                               /\ lock'.left <= lock.left
                               /\ Tick => lock'.left = lock.left - 1]_vars
  BY NextOrphan
<1> QED
  BY <1>1, AlwaysTyped, LockAlwaysExpires, PTL DEF Spec, OrphanRunsDown

\* What mutual exclusion rests on: heartbeats are sent in time, and the interval
\* is shorter than the TTL.
BeatTimely == ~ LateBeat /\ Beat < Ttl

\* A scanning execution holds the lock, and the key outlives the interval.
Held == \A s \in Scans : Scanning(s) => /\ lock.holder = s
                                        /\ lock.left = scan[s].beat + (Ttl - Beat)

LEMMA NextHeld ==
    ASSUME BeatTimely, Typed, Held, [Next]_vars
    PROVE  Held'
<1>1. /\ lock \in [holder : Scans \cup {Free, Dead}, left : 0..Ttl]
      /\ Ttl \in Nat \ {0} /\ Beat \in Nat \ {0} /\ Beat < Ttl
      /\ \A s \in Scans : scan[s].beat \in 0..Beat
  BY ConfigAssumption, BeatIsPositive DEF BeatTimely, Typed, LockTyped, ScanGood, ScanRecords
<1>2. SUFFICES ASSUME NEW s \in Scans, Scanning(s)'
               PROVE  lock'.holder = s /\ lock'.left = scan'[s].beat + (Ttl - Beat)
  BY DEF Held
<1>3. scan'[s].pc \in {"query", "enqueue"}
  BY <1>2 DEF Scanning
<1>4. Scanning(s) => lock.holder = s /\ lock.left = scan[s].beat + (Ttl - Beat)
  BY DEF Held
<1>5. lock' = lock /\ Scanning(s) /\ scan'[s].beat = scan[s].beat
      => lock'.holder = s /\ lock'.left = scan'[s].beat + (Ttl - Beat)
  BY <1>4
<1>6. scan'[s] = scan[s] => Scanning(s)
  BY <1>3 DEF Scanning
<1>7. CASE \E t \in Scans : Acquire(t)
  <2>1. PICK t \in Scans : Acquire(t)
    BY <1>7
  <2>2. lock.holder = Free /\ lock' = [holder |-> t, left |-> Ttl]
    BY <2>1 DEF Acquire, Token
  <2>3. t = s
    BY <2>1, <2>2, <1>4, <1>6, AcquireStep, ScansAssumption
  <2> QED
    BY <2>1, <2>2, <2>3, <1>1, AcquireStep
<1>8. CASE \E t \in Scans : Query(t) \/ Enqueue(t)
  <2>1. PICK t \in Scans : Query(t) \/ Enqueue(t)
    BY <1>8
  <2>2. lock' = lock
    BY <2>1 DEF Query, Enqueue
  <2>3. CASE t = s
    <3>1. Scanning(s)
      BY <2>1, <2>3, QueryStep, EnqueueStep DEF Scanning
    <3>2. scan'[s].beat = scan[s].beat
      BY <1>3, <2>1, <2>3, QueryStep, EnqueueStep, QueryGood, EnqueueGood DEF Typed
    <3> QED
      BY <1>5, <2>2, <3>1, <3>2
  <2>4. CASE t # s
    BY <1>5, <1>6, <2>1, <2>2, <2>4, QueryStep, EnqueueStep
  <2> QED
    BY <2>3, <2>4
<1>9. CASE \E t \in Scans : ScanThrows(t) \/ Release(t)
  <2>1. PICK t \in Scans : ScanThrows(t) \/ Release(t)
    BY <1>9
  <2>2. t # s /\ scan'[s] = scan[s]
    BY <1>3, <2>1, ThrowsStep, ReleaseStep
  <2>3. lock.holder = s /\ lock.holder # t
    BY <1>4, <1>6, <2>2
  <2>4. lock' = lock
    BY <2>1, <2>3 DEF ScanThrows, Release
  <2> QED
    BY <1>5, <1>6, <2>2, <2>4
<1>14. CASE \E p : Exit(p)
  <2>1. PICK p : Exit(p)
    BY <1>14
  <2>2. ProcessOf[s] # p /\ scan'[s] = scan[s]
    BY <1>3, <2>1, ExitStep
  <2>3. lock.holder = s
    BY <1>4, <1>6, <2>2
  <2>4. lock' = lock
    BY <2>1, <2>2, <2>3 DEF Exit
  <2> QED
    BY <1>5, <1>6, <2>2, <2>4
<1>10. CASE \E t \in Scans : Renew(t)
  <2>1. PICK t \in Scans : Renew(t)
    BY <1>10
  <2>2. Scanning(t) /\ lock.holder = t /\ lock' = [lock EXCEPT !.left = Ttl]
    BY <2>1 DEF Renew, Held
  <2>3. Scanning(s)
    BY <1>3, <2>1, RenewStep DEF Scanning
  <2>4. t = s
    BY <1>4, <2>2, <2>3
  <2> QED
    BY <1>1, <2>1, <2>2, <2>4, RenewStep
<1>11. CASE Tick
  <2>1. Scanning(s)
    BY <1>3, <1>11, TickStep DEF Scanning
  <2>2. scan[s].beat > 0 /\ scan'[s].beat = scan[s].beat - 1
    BY <1>11, <2>1, TickStep DEF Tick, BeatTimely
  <2>3. lock.left > 1 /\ lock.holder = s
    BY <1>1, <1>4, <2>1, <2>2
  <2>4. lock' = [lock EXCEPT !.left = lock.left - 1]
    BY <1>1, <1>11, <2>3 DEF Tick
  <2> QED
    BY <1>1, <1>4, <2>1, <2>2, <2>3, <2>4
<1>12. CASE \E a \in Apps, k \in Kinds : Checked(a, k) \/ FallDue(a, k)
  <2>1. PICK a \in Apps, k \in Kinds : Checked(a, k) \/ FallDue(a, k)
    BY <1>12
  <2>2. lock' = lock
    BY <2>1 DEF Checked, FallDue
  <2> QED
    BY <1>3, <1>5, <2>1, <2>2, CheckedStep, FallDueStep DEF Scanning
<1>13. CASE UNCHANGED <<lock, scan>>
  BY <1>5, <1>6, <1>13
<1> QED
  BY <1>7, <1>8, <1>9, <1>10, <1>11, <1>12, <1>13, <1>14
  DEF Next, ScanStep, Rejected, Crash, Start, vars

\* With timely heartbeats, and an interval shorter than the TTL, no two executions
\* of runDueScans are in their loops together, whatever crashes or throws.
THEOREM ScansExclude ==
    ASSUME BeatTimely
    PROVE  Spec => []OneScan
<1>1. Init => Held
  BY DEF Init, Held, Scanning, Idle
<1>2. Typed /\ Held /\ [Next]_vars => Held'
  BY NextHeld
<1>3. Held => OneScan
  BY DEF Held, OneScan
<1> QED
  BY <1>1, <1>2, <1>3, AlwaysTyped, PTL DEF Spec

=============================================================================
