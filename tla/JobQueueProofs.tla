--------------------------- MODULE JobQueueProofs ---------------------------
(***************************************************************************)
(* Theorems about JobQueue for any sets of jobs, calls and workers, any     *)
(* number of attempts and stalls, and any interleaving.  Each invariant is  *)
(* proved from a strengthening of it that is inductive: what a program      *)
(* counter implies about the job it is about.  Then what a pending job has  *)
(* left until it settles, and what the scheduler cannot start again.        *)
(***************************************************************************)
EXTENDS JobQueue, TLAPS

\* Only what is in progress names a job, and a job that BullMQ will still run
\* has attempts left.
InProgress ==
    /\ \A c \in Calls : call[c].pc \notin Returned => call[c].job \in Jobs
    /\ \A w \in Workers : run[w].pc # "idle" => run[w].job \in Jobs
    /\ \A j \in Jobs : Busy(bull[j].state) => bull[j].made < Attempts

Typed == TypeOK /\ InProgress

\* What BullMQ makes of a job record stays one.
BullJobs == [state : BullStates, made : 0..Attempts, stalls : 0..MaxStalled,
             owner : Workers \cup {NoWorker}]

LEMMA NullRecords ==
    /\ NoBullJob \in BullJobs /\ ~Busy(NoBullJob.state) /\ NoBullJob.state = "none"
    /\ NewBullJob \in BullJobs /\ NewBullJob.made < Attempts /\ NewBullJob.state = "waiting"
  BY CountsAssumption
     DEF NoBullJob, NewBullJob, BullJobs, BullStates, Busy

\* Init gives every variable its type.
LEMMA InitTyped == Init => Typed
  BY NullRecords DEF Init, Typed, TypeOK, InProgress, BullJobs, IdleCall, IdleRun, CallPCs,
     Returned, Triggers, Statuses, RunPCs

CallRecords == [pc : CallPCs, job : Jobs \cup {NoJob}, trigger : Triggers,
                existing : Statuses, ran : BOOLEAN]

\* Goto moves one call: it keeps what the call has read, or forgets it on return.
LEMMA GotoMoves ==
    ASSUME Typed, NEW c \in Calls, NEW pc \in CallPCs, call[c].pc \notin Returned,
           Goto(c, pc)
    PROVE  /\ call' \in [Calls -> CallRecords]
           /\ \A d \in Calls \ {c} : call'[d] = call[d]
           /\ call'[c].pc = pc
           /\ pc \notin Returned => /\ call'[c].job = call[c].job
                                    /\ call'[c].job \in Jobs
                                    /\ call'[c].trigger = call[c].trigger
                                    /\ call'[c].existing = call[c].existing
                                    /\ call'[c].ran = call[c].ran
           /\ pc \in Returned => call'[c].existing = "absent" /\ call'[c].ran = FALSE
<1>1. IdleCall \in CallRecords /\ IdleCall.existing = "absent" /\ IdleCall.ran = FALSE
  BY DEF IdleCall, CallRecords, CallPCs, Returned, Triggers, Statuses
<1>2. call \in [Calls -> CallRecords] /\ call[c].job \in Jobs
  BY DEF Typed, TypeOK, InProgress, CallRecords
<1>3. CASE pc \in Returned
  <2>1. call' = [call EXCEPT ![c] = [IdleCall EXCEPT !.pc = pc]]
    BY <1>3 DEF Goto
  <2> QED
    BY <1>1, <1>2, <1>3, <2>1 DEF CallRecords, Returned
<1>4. CASE pc \notin Returned
  <2>1. call' = [call EXCEPT ![c].pc = pc]
    BY <1>4 DEF Goto
  <2> QED
    BY <1>2, <1>4, <2>1 DEF CallRecords
<1> QED
  BY <1>3, <1>4

\* A decision continues at a step that exists.
LEMMA DecisionGoes ==
    ASSUME NEW k, NEW found \in BOOLEAN, NEW state
    PROVE  Decision(k, found, state) \in {"idle", "remove", "row", "upsert"}
  BY DEF Decision

\* A step of an enqueuer keeps the types.
LEMMA CallTyped ==
    ASSUME Typed, NEW c \in Calls, CallNext(c)
    PROVE  Typed'
<1> USE DEF CallPCs, Returned
<1>g. ASSUME NEW pc \in CallPCs, call[c].pc \notin Returned, Goto(c, pc),
             UNCHANGED <<row, run>>,
             \/ bull' = bull
             \/ bull' \in [Jobs -> BullJobs] /\ \A j \in Jobs : bull'[j].made < Attempts
                                                               \/ bull'[j] = bull[j]
      PROVE  Typed'
  <2>1. call' \in [Calls -> CallRecords] /\ \A d \in Calls \ {c} : call'[d] = call[d]
    BY <1>g, GotoMoves
  <2>2. call'[c].pc \notin Returned => call'[c].job \in Jobs
    BY <1>g, GotoMoves
  <2>3. TypeOK'
    BY <1>g, <2>1 DEF Typed, TypeOK, CallRecords, BullJobs
  <2>4. InProgress'
    BY <1>g, <2>1, <2>2 DEF Typed, InProgress
  <2> QED
    BY <2>3, <2>4 DEF Typed
<1>1. ASSUME NEW j \in Jobs, NEW t \in Triggers, Begin(c, j, t)
      PROVE  Typed'
  BY <1>1 DEF Begin, Statuses, Typed, TypeOK, InProgress
<1>2. CASE ReadRow(c)
  BY <1>2 DEF ReadRow, Typed, TypeOK, InProgress
<1>3. CASE GetJob(c)
  BY <1>3, <1>g, DecisionGoes DEF GetJob
<1>4. CASE GetState(c)
  BY <1>4, <1>g, DecisionGoes DEF GetState
<1>5. CASE Remove(c)
  <2>1. bull' \in [Jobs -> BullJobs]
    BY <1>5, NullRecords DEF Remove, Typed, TypeOK, BullJobs
  <2>2. \A j \in Jobs : bull'[j].made < Attempts \/ bull'[j] = bull[j]
    BY <1>5, CountsAssumption DEF Remove, Typed, TypeOK, NoBullJob
  <2> QED
    BY <1>5, <1>g, <2>1, <2>2 DEF Remove
<1>6. CASE RemoveIgnored(c)
  BY <1>6, <1>g DEF RemoveIgnored
<1>7. CASE Upsert(c)
  <2>1. row' \in [Jobs -> Statuses]
    BY <1>7 DEF Upsert, Upserted, Statuses, Typed, TypeOK
  <2>2. /\ call' = [call EXCEPT ![c] = [@ EXCEPT !.pc = "add", !.existing = "absent"]]
        /\ UNCHANGED <<bull, run>>
        /\ call[c].pc = "upsert"
    BY <1>7 DEF Upsert
  <2>3. call' \in [Calls -> CallRecords]
    <3>1. call[c] \in CallRecords
      BY DEF Typed, TypeOK, CallRecords
    <3>2. [call[c] EXCEPT !.pc = "add", !.existing = "absent"] \in CallRecords
      BY <3>1 DEF CallRecords, Statuses
    <3> QED
      BY <2>2, <3>2 DEF Typed, TypeOK, CallRecords
  <2>5. TypeOK'
    BY <2>1, <2>2, <2>3 DEF Typed, TypeOK, CallRecords
  <2>4. InProgress'
    BY <2>2 DEF Typed, TypeOK, InProgress
  <2> QED
    BY <2>4, <2>5 DEF Typed
<1>8. CASE Add(c)
  <2>1. bull' \in [Jobs -> BullJobs]
    BY <1>8, NullRecords DEF Add, Typed, TypeOK, BullJobs
  <2>2. \A j \in Jobs : bull'[j].made < Attempts \/ bull'[j] = bull[j]
    BY <1>8, NullRecords DEF Add, Typed, TypeOK
  <2> QED
    BY <1>8, <1>g, <2>1, <2>2 DEF Add
<1>9. CASE CallThrows(c)
  BY <1>9, <1>g DEF CallThrows
<1>10. CASE AgeCopy(c)
  BY <1>10 DEF AgeCopy, Statuses, Typed, TypeOK, InProgress
<1> QED
  BY <1>1, <1>2, <1>3, <1>4, <1>5, <1>6, <1>7, <1>8, <1>9, <1>10 DEF CallNext, CallStep


RunRecords == [pc : RunPCs, job : Jobs \cup {NoJob}]

\* A worker or BullMQ changes one job, to another job record.
LEMMA OneBullJob ==
    ASSUME Typed, NEW j \in Jobs
    PROVE  /\ bull \in [Jobs -> BullJobs] /\ bull[j] \in BullJobs
           /\ \A b \in BullJobs : bull' = [bull EXCEPT ![j] = b] => bull' \in [Jobs -> BullJobs]
<1>1. bull \in [Jobs -> BullJobs]
  BY DEF Typed, TypeOK, BullJobs
<1> QED
  BY <1>1

\* A step of a worker, or a crash, keeps the types.
LEMMA WorkerTyped ==
    ASSUME Typed, NEW w \in Workers, WorkerNext(w)
    PROVE  Typed'
<1> USE DEF RunPCs
<1>w. ASSUME NEW status \in Statuses, NEW pc \in RunPCs, run[w].pc # "idle",
             WriteRow(w, status, pc)
      PROVE  Typed'
  <2>1. row' \in [Jobs -> Statuses]
    BY <1>w DEF WriteRow, Typed, TypeOK
  <2> QED
    BY <1>w, <2>1 DEF WriteRow, Typed, TypeOK, InProgress
<1>i. ASSUME run' = [run EXCEPT ![w] = IdleRun], UNCHANGED <<row, call>>,
             bull' \in [Jobs -> BullJobs],
             \A j \in Jobs : Busy(bull'[j].state) => bull'[j].made < Attempts
      PROVE  Typed'
  BY <1>i DEF Typed, TypeOK, InProgress, IdleRun, BullJobs
<1>1. ASSUME NEW j \in Jobs, Take(w, j)
      PROVE  Typed'
  <2>1. row' \in [Jobs -> Statuses] /\ call' \in [Calls -> CallRecords]
    <3>1. call \in [Calls -> CallRecords] /\ row \in [Jobs -> Statuses]
      BY DEF Typed, TypeOK, CallRecords
    <3>2. \A c \in Calls : [call[c] EXCEPT !.ran = TRUE] \in CallRecords
      BY <3>1 DEF CallRecords
    <3> QED
      BY <1>1, <3>1, <3>2 DEF Take
  <2>2. \A c \in Calls : call'[c].pc = call[c].pc /\ call'[c].job = call[c].job
    BY <1>1 DEF Take, Typed, TypeOK
  <2>3. bull' \in [Jobs -> BullJobs]
    <3>1. [bull[j] EXCEPT !.state = "active", !.owner = w] \in BullJobs
      BY OneBullJob DEF BullJobs, BullStates
    <3> QED
      BY <1>1, <3>1, OneBullJob DEF Take
  <2>4. \A i \in Jobs : Busy(bull'[i].state) => bull'[i].made < Attempts
    BY <1>1 DEF Take, Typed, TypeOK, InProgress, Busy
  <2>5. TypeOK'
    BY <1>1, <2>1, <2>3 DEF Take, Typed, TypeOK, BullJobs, CallRecords
  <2>6. InProgress'
    BY <1>1, <2>2, <2>4 DEF Take, Typed, TypeOK, InProgress
  <2> QED
    BY <2>5, <2>6 DEF Typed
<1>2. CASE MarkRunning(w)
  BY <1>2, <1>w DEF MarkRunning, Statuses
<1>3. CASE MarkSucceeded(w)
  BY <1>3, <1>w DEF MarkSucceeded, Statuses
<1>4. ASSUME NEW s \in {"retrying", "dead_letter"}, MarkFailed(w, s)
      PROVE  Typed'
  BY <1>4, <1>w DEF MarkFailed, Statuses
<1>5. CASE Return(w)
  <2>1. bull' \in [Jobs -> BullJobs]
    <3>1. run[w].job \in Jobs
      BY <1>5 DEF Return, Typed, InProgress
    <3>2. [bull[run[w].job] EXCEPT !.state = "completed", !.owner = NoWorker] \in BullJobs
      BY <3>1, OneBullJob DEF BullJobs, BullStates
    <3> QED
      BY <1>5, <3>1, <3>2, OneBullJob DEF Return
  <2>2. \A j \in Jobs : Busy(bull'[j].state) => bull'[j].made < Attempts
    BY <1>5 DEF Return, Typed, TypeOK, InProgress, Busy
  <2> QED
    BY <1>5, <1>i, <2>1, <2>2 DEF Return
<1>6. CASE Throw(w)
  <2> DEFINE j == run[w].job
             more == bull[j].made + 1 < Attempts
  <2>1. j \in Jobs
    BY <1>6 DEF Throw, Typed, InProgress
  <2>2. CASE Holds(w)
    <3>1. bull[j].made \in Nat /\ bull[j].made < Attempts
      BY <2>1, <2>2, CountsAssumption DEF Holds, Typed, TypeOK, InProgress, Busy
    <3>2. bull' = [bull EXCEPT ![j] =
                     [state |-> IF more THEN "delayed" ELSE "failed",
                      made |-> bull[j].made + 1, stalls |-> bull[j].stalls,
                      owner |-> NoWorker]]
      BY <1>6, <2>2 DEF Throw
    <3>3. bull[j].stalls \in 0..MaxStalled /\ bull[j].made + 1 \in 0..Attempts
      BY <2>1, <3>1, CountsAssumption DEF Typed, TypeOK
    <3>4. bull' \in [Jobs -> BullJobs]
      BY <2>1, <3>2, <3>3 DEF Typed, TypeOK, BullJobs, BullStates
    <3>5. \A i \in Jobs : Busy(bull'[i].state) => bull'[i].made < Attempts
      BY <2>1, <3>2 DEF Typed, TypeOK, InProgress, Busy
    <3> QED
      BY <1>6, <1>i, <3>4, <3>5 DEF Throw
  <2>3. CASE ~Holds(w)
    BY <1>6, <1>i, <2>3 DEF Throw, Typed, TypeOK, InProgress, BullJobs
  <2> QED
    BY <2>2, <2>3
<1>7. CASE Crash(w)
  <2>1. bull' \in [Jobs -> BullJobs]
    <3>1. run[w].job \in Jobs
      BY <1>7 DEF Crash, Typed, InProgress
    <3>2. [bull[run[w].job] EXCEPT !.owner = NoWorker] \in BullJobs
      BY <3>1, OneBullJob DEF BullJobs
    <3> QED
      BY <1>7, <3>1, <3>2, OneBullJob DEF Crash
  <2>2. \A j \in Jobs : Busy(bull'[j].state) => bull'[j].made < Attempts
    BY <1>7 DEF Crash, Typed, TypeOK, InProgress, Busy
  <2> QED
    BY <1>7, <1>i, <2>1, <2>2 DEF Crash
<1> QED
  BY <1>1, <1>2, <1>3, <1>4, <1>5, <1>6, <1>7 DEF WorkerNext, RunStep

\* So does a step of BullMQ or of the clock.
LEMMA BullTyped ==
    ASSUME Typed, NEW j \in Jobs, BullNext(j)
    PROVE  Typed'
<1>b. ASSUME UNCHANGED <<row, call, run>>, bull' \in [Jobs -> BullJobs],
             \A i \in Jobs : Busy(bull'[i].state) => bull'[i].made < Attempts
      PROVE  Typed'
  BY <1>b DEF Typed, TypeOK, InProgress, BullJobs
<1>1. CASE Promote(j)
  <2>1. bull' \in [Jobs -> BullJobs]
    BY <1>1 DEF Promote, Typed, TypeOK, BullJobs, BullStates
  <2>2. \A i \in Jobs : Busy(bull'[i].state) => bull'[i].made < Attempts
    BY <1>1 DEF Promote, Typed, TypeOK, InProgress, Busy
  <2> QED
    BY <1>1, <1>b, <2>1, <2>2 DEF Promote
<1>2. CASE Stall(j)
  <2> DEFINE again == bull[j].stalls < MaxStalled
  <2>1. bull' = [bull EXCEPT ![j] =
                   [state |-> IF again THEN "waiting" ELSE "failed",
                    made |-> bull[j].made,
                    stalls |-> IF again THEN bull[j].stalls + 1 ELSE bull[j].stalls,
                    owner |-> NoWorker]]
    BY <1>2 DEF Stall
  <2>2. /\ bull[j].stalls \in 0..MaxStalled /\ bull[j].made \in 0..Attempts
        /\ again => bull[j].stalls + 1 \in 0..MaxStalled
        /\ bull[j].made < Attempts
    BY <1>2, CountsAssumption DEF Stall, Typed, TypeOK, InProgress, Busy
  <2>3. bull' \in [Jobs -> BullJobs]
    BY <2>1, <2>2 DEF Typed, TypeOK, BullJobs, BullStates
  <2>4. \A i \in Jobs : Busy(bull'[i].state) => bull'[i].made < Attempts
    BY <2>1, <2>2 DEF Typed, TypeOK, InProgress
  <2> QED
    BY <1>2, <1>b, <2>3, <2>4 DEF Stall
<1>3. CASE Evict(j)
  <2>1. bull' \in [Jobs -> BullJobs]
    BY <1>3, NullRecords DEF Evict, Typed, TypeOK, BullJobs
  <2>2. \A i \in Jobs : Busy(bull'[i].state) => bull'[i].made < Attempts
    BY <1>3, NullRecords DEF Evict, Typed, TypeOK, InProgress
  <2> QED
    BY <1>3, <1>b, <2>1, <2>2 DEF Evict
<1>4. CASE Age(j)
  BY <1>4 DEF Age, Typed, TypeOK, InProgress, Statuses
<1> QED
  BY <1>1, <1>2, <1>3, <1>4 DEF BullNext

\* Typed is inductive.
LEMMA NextTyped == Typed /\ [Next]_vars => Typed'
<1> SUFFICES ASSUME Typed, [Next]_vars PROVE Typed'
  OBVIOUS
<1>1. CASE UNCHANGED vars
  BY <1>1 DEF vars, Typed, TypeOK, InProgress
<1> QED
  BY <1>1, CallTyped, WorkerTyped, BullTyped DEF Next

\* The rows, BullMQ jobs, calls and runs of every execution are of their types.
THEOREM TypeCorrect == Spec => []TypeOK
<1>1. Typed => TypeOK
  BY DEF Typed
<1> QED
  BY <1>1, InitTyped, NextTyped, PTL DEF Spec


-----------------------------------------------------------------------------
\* The inductive form of RowBeforeJob: a call that has read a row, or is about
\* to add the job, knows that there is one.
RowKnown ==
    /\ RowBeforeJob
    /\ \A c \in Calls :
         /\ call[c].existing # "absent" => call[c].pc \notin Returned
                                           /\ row[call[c].job] # "absent"
         /\ call[c].pc = "add" => row[call[c].job] # "absent"

\* Rows are never deleted.
LEMMA RowsStay ==
    ASSUME Typed, [Next]_vars, NEW j \in Jobs, row[j] # "absent"
    PROVE  row'[j] # "absent"
<1> USE DEF Typed, TypeOK
<1>1. ASSUME NEW c \in Calls, CallNext(c)
      PROVE  row'[j] # "absent"
  <2>1. CASE Upsert(c)
    BY <2>1 DEF Upsert, Upserted
  <2>2. CASE ~Upsert(c)
    BY <1>1, <2>2 DEF CallNext, CallStep, Begin, ReadRow, GetJob, GetState, Remove,
       RemoveIgnored, Add, CallThrows, AgeCopy
  <2> QED
    BY <2>1, <2>2
<1>2. ASSUME NEW w \in Workers, WorkerNext(w)
      PROVE  row'[j] # "absent"
  BY <1>2 DEF WorkerNext, RunStep, Take, MarkRunning, MarkSucceeded, MarkFailed, WriteRow,
     Return, Throw, Crash
<1>3. ASSUME NEW i \in Jobs, BullNext(i)
      PROVE  row'[j] # "absent"
  BY <1>3 DEF BullNext, Promote, Stall, Evict, Age
<1> QED
  BY <1>1, <1>2, <1>3 DEF Next, vars

\* A step of an enqueuer keeps RowKnown.
LEMMA CallRowKnown ==
    ASSUME Typed, RowKnown, NEW c \in Calls, CallNext(c)
    PROVE  RowKnown'
<1>s. \A j \in Jobs : row[j] # "absent" => row'[j] # "absent"
  BY RowsStay DEF Next
<1>j. call[c].pc \notin Returned => call[c].job \in Jobs
  BY DEF Typed, InProgress
<1> USE DEF CallPCs, Returned
<1>g. ASSUME NEW pc \in CallPCs, pc # "add", call[c].pc \notin Returned, Goto(c, pc),
             UNCHANGED <<row, run>>,
             \A j \in Jobs : bull'[j].state # "none" => bull[j].state # "none"
      PROVE  RowKnown'
  <2>1. \A d \in Calls \ {c} : call'[d] = call[d]
    BY <1>g, GotoMoves
  <2>2. call'[c].pc = pc
    BY <1>g, GotoMoves
  <2>3. call'[c].existing # "absent" => /\ pc \notin Returned
                                         /\ call'[c].existing = call[c].existing
                                         /\ call'[c].job = call[c].job
    BY <1>g, GotoMoves
  <2> QED
    BY <1>g, <2>1, <2>2, <2>3 DEF RowKnown, RowBeforeJob
<1>1. ASSUME NEW j \in Jobs, NEW t \in Triggers, Begin(c, j, t)
      PROVE  RowKnown'
  BY <1>1 DEF Begin, RowKnown, RowBeforeJob, Typed, TypeOK
<1>2. CASE ReadRow(c)
  BY <1>2, <1>j DEF ReadRow, RowKnown, RowBeforeJob, Typed, TypeOK
<1>3. CASE GetJob(c)
  BY <1>3, <1>g, DecisionGoes DEF GetJob
<1>4. CASE GetState(c)
  BY <1>4, <1>g, DecisionGoes DEF GetState
<1>5. CASE Remove(c)
  BY <1>5, <1>g, NullRecords DEF Remove, Typed, TypeOK
<1>6. CASE RemoveIgnored(c)
  BY <1>6, <1>g DEF RemoveIgnored
<1>7. CASE Upsert(c)
  <2>1. /\ call' = [call EXCEPT ![c] = [@ EXCEPT !.pc = "add", !.existing = "absent"]]
        /\ UNCHANGED <<bull, run>>
        /\ call[c].job \in Jobs
    BY <1>7, <1>j DEF Upsert
  <2>2. row'[call[c].job] # "absent"
    BY <1>7, <2>1 DEF Upsert, Upserted, Typed, TypeOK, RowKnown
  <2>3. \A d \in Calls : /\ call'[d].job = call[d].job
                         /\ d # c => call'[d] = call[d]
                         /\ d = c => call'[d].existing = "absent"
    BY <2>1 DEF Typed, TypeOK
  <2>4. \A d \in Calls : call[d].pc \notin Returned => call[d].job \in Jobs
    BY DEF Typed, InProgress
  <2>5. RowBeforeJob'
    BY <1>s, <2>1 DEF RowKnown, RowBeforeJob, Typed, InProgress
  <2> QED
    BY <1>s, <2>2, <2>3, <2>4, <2>5 DEF RowKnown
<1>8. CASE Add(c)
  <2>1. /\ \A d \in Calls \ {c} : call'[d] = call[d]
        /\ call'[c].pc = "enqueued" /\ call'[c].existing = "absent"
    BY <1>8, GotoMoves DEF Add
  <2>2. \A j \in Jobs : bull'[j].state # "none" => bull[j].state # "none" \/ j = call[c].job
    BY <1>8 DEF Add, Typed, TypeOK
  <2> QED
    BY <1>8, <2>1, <2>2 DEF Add, RowKnown, RowBeforeJob
<1>9. CASE CallThrows(c)
  BY <1>9, <1>g DEF CallThrows
<1>10. CASE AgeCopy(c)
  BY <1>10 DEF AgeCopy, RowKnown, RowBeforeJob, Typed, TypeOK
<1> QED
  BY <1>1, <1>2, <1>3, <1>4, <1>5, <1>6, <1>7, <1>8, <1>9, <1>10 DEF CallNext, CallStep

\* RowKnown is inductive.
LEMMA NextRowKnown == Typed /\ RowKnown /\ [Next]_vars => RowKnown'
<1> SUFFICES ASSUME Typed, RowKnown, [Next]_vars PROVE RowKnown'
  OBVIOUS
<1>s. \A j \in Jobs : row[j] # "absent" => row'[j] # "absent"
  BY RowsStay
<1>j. /\ \A c \in Calls : call[c].pc \notin Returned => call[c].job \in Jobs
      /\ \A w \in Workers : run[w].pc # "idle" => run[w].job \in Jobs
  BY DEF Typed, InProgress
\* Steps that take no new job and add none.
<1>k. ASSUME \A c \in Calls : /\ call'[c].pc = call[c].pc
                              /\ call'[c].job = call[c].job
                              /\ call'[c].existing = call[c].existing,
             \A w \in Workers : \/ run'[w].pc = "idle"
                                \/ run[w].pc # "idle" /\ run'[w].job = run[w].job
                                \/ \E j \in Jobs : bull[j].state # "none" /\ run'[w].job = j,
             \A j \in Jobs : bull'[j].state # "none" => bull[j].state # "none"
      PROVE  RowKnown'
  <2>1. RowBeforeJob'
    BY <1>s, <1>j, <1>k DEF RowKnown, RowBeforeJob
  <2>2. \A c \in Calls : call[c].existing # "absent" \/ call[c].pc = "add"
                         => row'[call[c].job] # "absent"
    BY <1>s, <1>j DEF RowKnown, Returned
  <2> QED
    BY <1>k, <2>1, <2>2 DEF RowKnown
<1>1. ASSUME NEW c \in Calls, CallNext(c)
      PROVE  RowKnown'
  BY <1>1, CallRowKnown
<1>2. ASSUME NEW w \in Workers, WorkerNext(w)
      PROVE  RowKnown'
  <2> USE DEF Typed, TypeOK
  <2>1. ASSUME NEW j \in Jobs, Take(w, j)
        PROVE  RowKnown'
    BY <2>1, <1>k DEF Take
  <2>2. CASE MarkRunning(w) \/ MarkSucceeded(w)
             \/ \E s \in {"retrying", "dead_letter"} : MarkFailed(w, s)
    BY <2>2, <1>k DEF MarkRunning, MarkSucceeded, MarkFailed, WriteRow
  <2>3. CASE Return(w)
    BY <2>3, <1>k, <1>j DEF Return, IdleRun, Holds
  <2>4. CASE Throw(w)
    BY <2>4, <1>k, <1>j DEF Throw, IdleRun, Holds
  <2>5. CASE Crash(w)
    BY <2>5, <1>k, <1>j DEF Crash, IdleRun
  <2> QED
    BY <1>2, <2>1, <2>2, <2>3, <2>4, <2>5 DEF WorkerNext, RunStep
<1>3. ASSUME NEW j \in Jobs, BullNext(j)
      PROVE  RowKnown'
  <2> USE DEF Typed, TypeOK
  <2>1. CASE Promote(j)
    BY <2>1, <1>k DEF Promote
  <2>2. CASE Stall(j)
    BY <2>2, <1>k DEF Stall
  <2>3. CASE Evict(j)
    BY <2>3, <1>k, NullRecords DEF Evict
  <2>4. CASE Age(j)
    BY <2>4, <1>k DEF Age
  <2> QED
    BY <1>3, <2>1, <2>2, <2>3, <2>4 DEF BullNext
<1>4. CASE UNCHANGED vars
  BY <1>4 DEF vars, RowKnown, RowBeforeJob
<1> QED
  BY <1>1, <1>2, <1>3, <1>4 DEF Next

\* In every execution a BullMQ job, and a worker's current job, has its
\* scraping_jobs row, so that no UPDATE of a handler is lost.
THEOREM RowExists == Spec => []RowBeforeJob
<1>1. Init => RowKnown
  BY DEF Init, RowKnown, RowBeforeJob, IdleCall, IdleRun, NoBullJob
<1>2. RowKnown => RowBeforeJob
  BY DEF RowKnown
<1> QED
  BY <1>1, <1>2, InitTyped, NextTyped, NextRowKnown, PTL DEF Spec


-----------------------------------------------------------------------------
\* What a forced call knows of the BullMQ job once it has seen it not busy:
\* nothing but a new job can have come, and if that one has left "waiting" a
\* worker took it.
Fresh(c) ==
    call[c].trigger = "api" =>
        /\ call[c].pc = "remove" =>
             call[c].ran \/ bull[call[c].job].state \in {"none", "completed", "failed", "waiting"}
        /\ call[c].pc \in {"row", "upsert", "add"} =>
             call[c].ran \/ bull[call[c].job].state \in {"none", "waiting"}

FreshKnown == \A c \in Calls : Fresh(c)

\* How one step changes the state of a BullMQ job.
BullMove(j) ==
    \/ bull'[j].state \in {bull[j].state, "none"}
    \/ bull[j].state = "none" /\ bull'[j].state = "waiting"
    \/ bull[j].state \in {"active", "delayed"}
    \/ \A c \in Calls : call[c].job = j => call'[c].ran

LEMMA BullMoves ==
    ASSUME Typed, [Next]_vars, NEW j \in Jobs
    PROVE  BullMove(j)
<1> USE NullRecords DEF Typed, TypeOK, BullMove
<1>1. ASSUME NEW c \in Calls, CallNext(c)
      PROVE  BullMove(j)
  BY <1>1 DEF CallNext, CallStep, Begin, ReadRow, GetJob, GetState, Remove, RemoveIgnored,
     Upsert, Add, CallThrows, AgeCopy
<1>2. ASSUME NEW w \in Workers, WorkerNext(w)
      PROVE  BullMove(j)
  <2>1. ASSUME NEW i \in Jobs, Take(w, i)
        PROVE  BullMove(j)
    BY <2>1 DEF Take
  <2>2. CASE Return(w) \/ Throw(w) \/ Crash(w)
    BY <2>2 DEF Return, Throw, Crash, Holds
  <2>3. CASE MarkRunning(w) \/ MarkSucceeded(w)
             \/ \E s \in {"retrying", "dead_letter"} : MarkFailed(w, s)
    BY <2>3 DEF MarkRunning, MarkSucceeded, MarkFailed, WriteRow
  <2> QED
    BY <1>2, <2>1, <2>2, <2>3 DEF WorkerNext, RunStep
<1>3. ASSUME NEW i \in Jobs, BullNext(i)
      PROVE  BullMove(j)
  BY <1>3 DEF BullNext, Promote, Stall, Evict, Age
<1> QED
  BY <1>1, <1>2, <1>3 DEF Next, vars

\* A worker's step changes nothing of a call but the history variable.
LEMMA WorkerKeepsCalls ==
    ASSUME Typed, NEW w \in Workers, WorkerNext(w), NEW c \in Calls
    PROVE  /\ call'[c].pc = call[c].pc /\ call'[c].job = call[c].job
           /\ call'[c].trigger = call[c].trigger /\ call'[c].existing = call[c].existing
           /\ call[c].ran => call'[c].ran
<1>1. ASSUME NEW j \in Jobs, Take(w, j)
      PROVE  \/ call'[c] = call[c]
             \/ call'[c] = [call[c] EXCEPT !.ran = TRUE]
  BY <1>1 DEF Take
<1>2. CASE \A j \in Jobs : ~Take(w, j)
  <2>1. call' = call
    BY <1>2 DEF WorkerNext, RunStep, MarkRunning, MarkSucceeded, MarkFailed, WriteRow,
       Return, Throw, Crash
  <2> QED
    BY <2>1
<1> QED
  BY <1>1, <1>2 DEF Typed, TypeOK

\* FreshKnown is inductive when no failed removal is ignored.
LEMMA NextFreshKnown ==
    ASSUME "remove_error" \notin Faults
    PROVE  Typed /\ FreshKnown /\ [Next]_vars => FreshKnown'
<1> SUFFICES ASSUME Typed, FreshKnown, [Next]_vars PROVE FreshKnown'
  OBVIOUS
<1>m. \A j \in Jobs : BullMove(j)
  BY BullMoves
<1>j. \A c \in Calls : call[c].pc \notin Returned => call[c].job \in Jobs
  BY DEF Typed, InProgress
<1> USE DEF Returned, CallPCs
\* A call that another step leaves where it is, taken or not, stays fresh.
<1>k. ASSUME NEW d \in Calls, call'[d].pc = call[d].pc, call'[d].job = call[d].job,
             call'[d].trigger = call[d].trigger, call[d].ran => call'[d].ran
      PROVE  Fresh(d)'
  <2>1. CASE call[d].pc \in {"remove", "row", "upsert", "add"}
    <3>1. Fresh(d) /\ call[d].job \in Jobs
      BY <2>1, <1>j DEF FreshKnown
    <3> QED
      BY <1>k, <1>m, <2>1, <3>1 DEF Fresh, BullMove
  <2>2. CASE call[d].pc \notin {"remove", "row", "upsert", "add"}
    BY <1>k, <2>2 DEF Fresh
  <2> QED
    BY <2>1, <2>2
<1>1. ASSUME NEW c \in Calls, CallNext(c)
      PROVE  FreshKnown'
  <2>o. \A d \in Calls \ {c} : call'[d] = call[d]
    BY <1>1 DEF CallNext, CallStep, Begin, ReadRow, GetJob, GetState, Remove, RemoveIgnored,
       Upsert, Add, CallThrows, AgeCopy, Goto, Typed, TypeOK
  <2>d. ASSUME Fresh(c)' PROVE FreshKnown'
    BY <1>k, <2>o, <2>d DEF FreshKnown
  <2>1. ASSUME NEW j \in Jobs, NEW t \in Triggers, Begin(c, j, t)
        PROVE  FreshKnown'
    <3>1. call'[c].pc = IF t = "api" THEN "get" ELSE "row"
      BY <2>1 DEF Begin, Typed, TypeOK
    <3>2. call'[c].trigger = t
      BY <2>1 DEF Begin, Typed, TypeOK
    <3> QED
      BY <2>d, <3>1, <3>2 DEF Fresh
  <2>2. CASE ReadRow(c)
    <3>1. Fresh(c) /\ call[c].pc = "row" /\ call[c] \in CallRecords /\ UNCHANGED bull
      BY <2>2 DEF ReadRow, FreshKnown, Typed, TypeOK, CallRecords
    <3>2. call'[c] = [call[c] EXCEPT !.existing = row[call[c].job],
                                     !.pc = IF call[c].trigger = "api" THEN "upsert" ELSE "get"]
      BY <2>2 DEF ReadRow, Typed, TypeOK
    <3>3. /\ call'[c].pc \in {"upsert", "get"} /\ call'[c].job = call[c].job
          /\ call'[c].trigger = call[c].trigger /\ call'[c].ran = call[c].ran
      BY <3>1, <3>2 DEF CallRecords
    <3> QED
      BY <2>d, <3>1, <3>3 DEF Fresh
  <2>3. CASE GetJob(c) \/ GetState(c)
    <3> DEFINE j == call[c].job
               state == bull[j].state
    <3>1. j \in Jobs /\ state \in BullStates /\ UNCHANGED bull
      BY <2>3, <1>j DEF GetJob, GetState, Typed, TypeOK
    <3>2. PICK pc \in {"state", "idle", "remove", "row", "upsert"} :
            /\ Goto(c, pc)
            /\ call[c].trigger = "api" => /\ pc = "remove" => ~Busy(state)
                                          /\ pc = "row" => state = "none"
                                          /\ pc # "upsert"
      BY <2>3 DEF GetJob, GetState, Decision
    <3>3. call[c].pc \notin Returned
      BY <2>3 DEF GetJob, GetState
    <3>4. /\ call'[c].pc = pc
          /\ pc # "idle" => call'[c].job = j /\ call'[c].trigger = call[c].trigger
      BY <3>2, <3>3, GotoMoves
    <3>5. ~Busy(state) => state \in {"none", "completed", "failed"}
      BY <3>1 DEF BullStates, Busy
    <3> QED
      BY <2>d, <3>1, <3>2, <3>4, <3>5 DEF Fresh
  <2>5. CASE Remove(c) \/ RemoveIgnored(c)
    <3> DEFINE j == call[c].job
    <3>1. Goto(c, "row") /\ call[c].pc = "remove"
      BY <2>5 DEF Remove, RemoveIgnored
    <3>2. /\ call'[c].pc = "row" /\ call'[c].job = j
          /\ call'[c].trigger = call[c].trigger /\ call'[c].ran = call[c].ran
      BY <3>1, GotoMoves
    <3>3. call[c].trigger = "api" => call[c].ran \/ bull'[j].state = "none"
      BY <2>5, <3>1, <1>j, NullRecords DEF Remove, RemoveIgnored, FreshKnown, Fresh, Typed, TypeOK
    <3> QED
      BY <2>d, <3>2, <3>3 DEF Fresh
  <2>7. CASE Upsert(c)
    BY <2>7, <2>d DEF Upsert, Fresh, FreshKnown, Typed, TypeOK
  <2>8. CASE Add(c) \/ CallThrows(c)
    <3>1. PICK pc \in {"enqueued", "idle"} : Goto(c, pc) /\ call[c].pc \notin Returned
      BY <2>8 DEF Add, CallThrows
    <3>2. call'[c].pc = pc
      BY <3>1, GotoMoves
    <3> QED
      BY <2>d, <3>2 DEF Fresh
  <2>10. CASE AgeCopy(c)
    BY <2>10, <1>k, <2>o DEF AgeCopy, FreshKnown, Typed, TypeOK
  <2> QED
    BY <1>1, <2>1, <2>2, <2>3, <2>5, <2>7, <2>8, <2>10 DEF CallNext, CallStep
<1>2. ASSUME NEW w \in Workers, WorkerNext(w)
      PROVE  FreshKnown'
  BY <1>2, <1>k, WorkerKeepsCalls DEF FreshKnown
<1>3. CASE (\E j \in Jobs : BullNext(j)) \/ UNCHANGED vars
  <2>1. UNCHANGED call
    BY <1>3 DEF BullNext, Promote, Stall, Evict, Age, vars
  <2> QED
    BY <1>k, <2>1 DEF FreshKnown
<1> QED
  BY <1>1, <1>2, <1>3 DEF Next

\* A forced refresh that answers true is followed, or was joined, by a run: as
\* long as a failed remove() is not swallowed, and whatever happens to locks.
THEOREM ForcedIsFresh ==
    ASSUME "remove_error" \notin Faults
    PROVE  Spec => ForcedRunIsFresh
<1>1. Init => FreshKnown
  BY DEF Init, FreshKnown, Fresh, IdleCall
<1>2. Typed /\ FreshKnown /\ [Next]_vars =>
        [\A c \in Calls :
           (call[c].pc = "add" /\ call[c].trigger = "api" /\ call'[c].pc = "enqueued")
           => call[c].ran \/ Busy(bull'[call[c].job].state)]_vars
  <2> SUFFICES ASSUME Typed, FreshKnown, [Next]_vars, NEW c \in Calls, call[c].pc = "add",
                      call[c].trigger = "api", call'[c].pc = "enqueued", ~call[c].ran
               PROVE  Busy(bull'[call[c].job].state)
    OBVIOUS
  <2> DEFINE j == call[c].job
  <2>1. bull[j].state \in {"none", "waiting"} /\ j \in Jobs
    BY DEF FreshKnown, Fresh, Typed, InProgress, Returned
  <2>2. Add(c)
    <3>1. ASSUME NEW d \in Calls, CallNext(d), d # c
          PROVE  call'[c] = call[c]
      BY <3>1 DEF CallNext, CallStep, Begin, ReadRow, GetJob, GetState, Remove, RemoveIgnored,
         Upsert, Add, CallThrows, AgeCopy, Goto, Typed, TypeOK
    <3>2. CASE CallNext(c)
      <4>1. ~CallThrows(c)
        <5>1. "idle" \in CallPCs /\ "enqueued" # "idle" /\ call[c].pc \notin Returned
          BY DEF CallPCs, Returned
        <5>2. CallThrows(c) => call'[c].pc = "idle"
          BY <5>1, GotoMoves DEF CallThrows
        <5> QED
          BY <5>1, <5>2
      <4>2. ~AgeCopy(c)
        BY DEF AgeCopy, Typed, TypeOK
      <4> QED
        BY <3>2, <4>1, <4>2 DEF CallNext, CallStep, Begin, ReadRow, GetJob, GetState, Remove,
           RemoveIgnored, Upsert, Returned
    <3>3. ASSUME NEW w \in Workers, WorkerNext(w)
          PROVE  call'[c].pc = call[c].pc
      BY <3>3, WorkerKeepsCalls
    <3>4. ASSUME NEW i \in Jobs, BullNext(i)
          PROVE  call' = call
      BY <3>4 DEF BullNext, Promote, Stall, Evict, Age
    <3> QED
      BY <3>1, <3>2, <3>3, <3>4 DEF Next, vars
  <2> QED
    BY <2>1, <2>2, NullRecords DEF Add, Busy, Typed, TypeOK
<1> QED
  BY <1>1, <1>2, InitTyped, NextTyped, NextFreshKnown, PTL DEF Spec, ForcedRunIsFresh


-----------------------------------------------------------------------------
\* Without lock loss a busy slot owns the lock of its job, and the row shows how
\* far that slot is.
LockHeld ==
    \A w \in Workers : run[w].pc # "idle" => /\ bull[run[w].job].state = "active"
                                             /\ bull[run[w].job].owner = w

Exclusive == LockHeld /\ RowFollowsRun

\* A step of an enqueuer neither takes a lock away nor writes a row, except that
\* it may write 'scheduled'.
LEMMA CallExclusive ==
    ASSUME "lock_loss" \notin Faults, Typed, Exclusive, NEW c \in Calls, CallNext(c)
    PROVE  Exclusive'
<1>j. \A w \in Workers : run[w].pc # "idle" => run[w].job \in Jobs /\ run[w].job # NoJob
  BY NullsAssumption DEF Typed, InProgress
<1>1. UNCHANGED run
  BY DEF CallNext, CallStep, Begin, ReadRow, GetJob, GetState, Remove, RemoveIgnored,
     Upsert, Add, CallThrows, AgeCopy
<1>2. \A j \in Jobs : \/ bull'[j] = bull[j]
                      \/ bull[j].state # "active" \/ bull[j].owner = NoWorker
  BY DEF CallNext, CallStep, Begin, ReadRow, GetJob, GetState, Remove, Removable,
     RemoveIgnored, Upsert, Add, CallThrows, AgeCopy, Typed, TypeOK
<1>3. \A j \in Jobs : row'[j] \in {row[j], "scheduled"}
  BY DEF CallNext, CallStep, Begin, ReadRow, GetJob, GetState, Remove, RemoveIgnored,
     Upsert, Upserted, Add, CallThrows, AgeCopy, Typed, TypeOK
<1>4. LockHeld'
  BY <1>j, <1>1, <1>2, NullsAssumption DEF Exclusive, LockHeld
<1>5. RowFollowsRun'
  BY <1>j, <1>1, <1>3 DEF Exclusive, RowFollowsRun
<1> QED
  BY <1>4, <1>5 DEF Exclusive

\* A worker changes the job and the row of its own run only, and nobody else is
\* on that job.
LEMMA WorkerExclusive ==
    ASSUME Typed, RowKnown, Exclusive, NEW w \in Workers, WorkerNext(w)
    PROVE  Exclusive'
<1>j. \A v \in Workers : run[v].pc # "idle" => run[v].job \in Jobs
  BY DEF Typed, InProgress
<1>o. \A v \in Workers \ {w} :
        (run[v].pc # "idle" /\ run[w].pc # "idle") => run[v].job # run[w].job
  BY DEF Exclusive, LockHeld
<1> USE DEF Typed, TypeOK
<1>1. ASSUME NEW j \in Jobs, Take(w, j)
      PROVE  Exclusive'
  <2>1. /\ UNCHANGED row /\ bull[j].state = "waiting"
        /\ bull'[j].state = "active" /\ bull'[j].owner = w
        /\ \A i \in Jobs \ {j} : bull'[i] = bull[i]
    BY <1>1 DEF Take
  <2>2. /\ run'[w] = [pc |-> "load", job |-> j]
        /\ \A v \in Workers \ {w} : run'[v] = run[v]
    BY <1>1 DEF Take
  <2>3. LockHeld'
    BY <1>j, <2>1, <2>2 DEF Exclusive, LockHeld
  <2>4. RowFollowsRun'
    BY <2>1, <2>2 DEF Exclusive, RowFollowsRun
  <2> QED
    BY <2>3, <2>4 DEF Exclusive
<1>2. ASSUME NEW status, NEW pc, run[w].pc # "idle", WriteRow(w, status, pc),
             \/ pc = "run" /\ status = "running"
             \/ pc = "ok" /\ status = "succeeded"
             \/ pc = "bad" /\ status \in {"retrying", "dead_letter"}
      PROVE  Exclusive'
  <2>1. /\ run'[w] = [run[w] EXCEPT !.pc = pc] /\ UNCHANGED bull
        /\ \A v \in Workers \ {w} : run'[v] = run[v]
    BY <1>2 DEF WriteRow
  <2>2. row'[run[w].job] = status
    BY <1>2, <1>j DEF WriteRow, RowKnown, RowBeforeJob
  <2>3. \A i \in Jobs \ {run[w].job} : row'[i] = row[i]
    BY <1>2 DEF WriteRow
  <2>4. LockHeld'
    BY <1>2, <2>1 DEF Exclusive, LockHeld
  <2>5. \A v \in Workers \ {w} : run[v].pc # "idle" => row'[run[v].job] = row[run[v].job]
    BY <1>2, <1>j, <1>o, <2>3
  <2>6. RowFollowsRun'
    BY <1>2, <2>1, <2>2, <2>5 DEF Exclusive, RowFollowsRun
  <2> QED
    BY <2>4, <2>6 DEF Exclusive
<1>3. ASSUME run' = [run EXCEPT ![w] = IdleRun], UNCHANGED row, run[w].pc # "idle",
             \A i \in Jobs \ {run[w].job} : bull'[i] = bull[i]
      PROVE  Exclusive'
  <2>1. run'[w].pc = "idle" /\ \A v \in Workers \ {w} : run'[v] = run[v]
    BY <1>3 DEF IdleRun
  <2>2. LockHeld'
    BY <1>3, <1>j, <1>o, <2>1 DEF Exclusive, LockHeld
  <2>3. RowFollowsRun'
    BY <1>3, <2>1 DEF Exclusive, RowFollowsRun
  <2> QED
    BY <2>2, <2>3 DEF Exclusive
<1>4. CASE MarkRunning(w) \/ MarkSucceeded(w)
           \/ \E s \in {"retrying", "dead_letter"} : MarkFailed(w, s)
  BY <1>4, <1>2 DEF MarkRunning, MarkSucceeded, MarkFailed
<1>5. CASE Return(w) \/ Throw(w) \/ Crash(w)
  BY <1>5, <1>3 DEF Return, Throw, Crash
<1> QED
  BY <1>1, <1>4, <1>5 DEF WorkerNext, RunStep

\* Without lock loss BullMQ and the clock leave a held job alone.
LEMMA BullExclusive ==
    ASSUME "lock_loss" \notin Faults, Typed, Exclusive, NEW j \in Jobs, BullNext(j)
    PROVE  Exclusive'
<1>1. UNCHANGED run
  BY DEF BullNext, Promote, Stall, Evict, Age
<1>2. \A i \in Jobs : \/ bull'[i] = bull[i]
                      \/ bull[i].state # "active" \/ bull[i].owner = NoWorker
  BY DEF BullNext, Promote, Stall, Evict, Age, Typed, TypeOK
<1>3. \A i \in Jobs : row'[i] = row[i] \/ (row[i] = "running" /\ row'[i] = "stale")
  BY SMTT(30) DEF BullNext, Promote, Stall, Evict, Age, Typed, TypeOK
<1>j. \A w \in Workers : run[w].pc # "idle" => run[w].job \in Jobs
  BY DEF Typed, InProgress
<1>4. LockHeld'
  BY <1>j, <1>1, <1>2, NullsAssumption DEF Exclusive, LockHeld
<1>5. RowFollowsRun'
  BY <1>j, <1>1, <1>3 DEF Exclusive, RowFollowsRun
<1> QED
  BY <1>4, <1>5 DEF Exclusive

\* Exclusive is inductive.
LEMMA NextExclusive ==
    ASSUME "lock_loss" \notin Faults
    PROVE  Typed /\ RowKnown /\ Exclusive /\ [Next]_vars => Exclusive'
<1> SUFFICES ASSUME Typed, RowKnown, Exclusive, [Next]_vars PROVE Exclusive'
  OBVIOUS
<1>1. CASE UNCHANGED vars
  BY <1>1 DEF vars, Exclusive, LockHeld, RowFollowsRun
<1> QED
  BY <1>1, CallExclusive, WorkerExclusive, BullExclusive DEF Next

\* Init has no run, hence nothing to exclude.
LEMMA InitKnown == Init => RowKnown /\ Exclusive
  BY DEF Init, RowKnown, RowBeforeJob, Exclusive, LockHeld, RowFollowsRun, IdleCall, IdleRun,
     NoBullJob

\* Two slots are never on the same job, whatever enqueuers remove and add again.
THEOREM RunsExclude ==
    ASSUME "lock_loss" \notin Faults
    PROVE  Spec => []OneRunPerJob
<1>1. Exclusive => OneRunPerJob
  BY DEF Exclusive, LockHeld, OneRunPerJob
<1> QED
  BY <1>1, InitTyped, InitKnown, NextTyped, NextRowKnown, NextExclusive, PTL DEF Spec

\* The row of a running job never shows the end of another run.
THEOREM RowTracksRun ==
    ASSUME "lock_loss" \notin Faults
    PROVE  Spec => []RowFollowsRun
<1>1. Exclusive => RowFollowsRun
  BY DEF Exclusive
<1> QED
  BY <1>1, InitTyped, InitKnown, NextTyped, NextRowKnown, NextExclusive, PTL DEF Spec

-----------------------------------------------------------------------------
(* What a pending job has left                                               *)

\* Where a pending job stands between two attempts, counted down to the end of one.
StageLeft(b) == CASE b.state = "delayed" -> 3
                  [] b.state = "waiting" -> 2
                  [] b.state = "active" /\ b.owner # NoWorker -> 1
                  [] OTHER -> 0

\* The attempts and stalls that BullMQ still allows, and the way to the next of them.
ChangesLeft(b) == 4 * ((Attempts - b.made) + (MaxStalled - b.stalls)) + StageLeft(b)

MostChanges == 4 * (Attempts + MaxStalled) + 2

\* A pending job that changes and is still pending has fewer changes left.
PendingRunsDown ==
    [][\A j \in Jobs :
         (Busy(bull[j].state) /\ Busy(bull'[j].state) /\ bull'[j] # bull[j])
         => ChangesLeft(bull'[j]) < ChangesLeft(bull[j])]_vars

\* A new job has at most MostChanges of them, and no job ever has more, or less than none.
ChangesBounded ==
    \A j \in Jobs : Busy(bull[j].state) => ChangesLeft(bull[j]) \in 0..MostChanges


\* What one step can make of a BullMQ job.
Change(b, c) ==
    \/ c = b \/ c = NoBullJob
    \/ b.state = "none" /\ c = NewBullJob
    \/ b.state = "active" /\ ~Busy(c.state)
    \/ \E w \in Workers : b.state = "waiting" /\ c = [b EXCEPT !.state = "active", !.owner = w]
    \/ b.state = "delayed" /\ c = [b EXCEPT !.state = "waiting"]
    \/ b.state = "active" /\ b.owner # NoWorker /\ c = [b EXCEPT !.owner = NoWorker]
    \/ b.state = "active" /\ c = [state |-> "delayed", made |-> b.made + 1,
                                  stalls |-> b.stalls, owner |-> NoWorker]
    \/ b.state = "active" /\ c = [state |-> "waiting", made |-> b.made,
                                  stalls |-> b.stalls + 1, owner |-> NoWorker]

LEMMA Changes ==
    ASSUME Typed, [Next]_vars, NEW j \in Jobs
    PROVE  Change(bull[j], bull'[j])
<1>b. bull \in [Jobs -> BullJobs]
  BY DEF Typed, TypeOK, BullJobs
<1>1. ASSUME NEW k \in Calls, CallNext(k)
      PROVE  Change(bull[j], bull'[j])
  <2>1. CASE Remove(k) \/ Add(k)
    BY <2>1, <1>b DEF Remove, Add, Change
  <2>2. CASE ~Remove(k) /\ ~Add(k)
    BY <1>1, <2>2 DEF CallNext, CallStep, Begin, ReadRow, GetJob, GetState, RemoveIgnored,
       Upsert, CallThrows, AgeCopy, Change
  <2> QED
    BY <2>1, <2>2
<1>2. ASSUME NEW w \in Workers, WorkerNext(w)
      PROVE  Change(bull[j], bull'[j])
  <2>1. ASSUME NEW i \in Jobs, Take(w, i)
        PROVE  Change(bull[j], bull'[j])
    BY <2>1, <1>b DEF Take, Change
  <2>2. CASE Return(w)
    BY <2>2, <1>b DEF Return, Holds, Change, Busy, BullJobs
  <2>5. CASE Crash(w)
    <3>1. \/ bull'[j] = bull[j]
          \/ /\ bull[j].state = "active" /\ bull[j].owner = w
             /\ bull'[j] = [bull[j] EXCEPT !.owner = NoWorker]
      BY <2>5, <1>b DEF Crash, Holds
    <3> QED
      BY <3>1, NullsAssumption DEF Change
  <2>3. CASE Throw(w)
    BY <2>3, <1>b DEF Throw, Holds, Change, Busy
  <2>4. CASE MarkRunning(w) \/ MarkSucceeded(w)
             \/ \E s \in {"retrying", "dead_letter"} : MarkFailed(w, s)
    BY <2>4 DEF MarkRunning, MarkSucceeded, MarkFailed, WriteRow, Change
  <2> QED
    BY <1>2, <2>1, <2>2, <2>3, <2>4, <2>5 DEF WorkerNext, RunStep
<1>3. ASSUME NEW i \in Jobs, BullNext(i)
      PROVE  Change(bull[j], bull'[j])
  <2>1. CASE Promote(i) \/ Evict(i) \/ Age(i)
    BY <2>1, <1>b DEF Promote, Evict, Age, Change
  <2>2. CASE Stall(i)
    BY <2>2, <1>b DEF Stall, Change, Busy
  <2> QED
    BY <1>3, <2>1, <2>2 DEF BullNext
<1> QED
  BY <1>1, <1>2, <1>3 DEF Next, vars, Change

\* Every change of a pending job into a pending one lowers what it has left.
LEMMA ChangesGoDown ==
    ASSUME NEW b \in BullJobs, NEW c \in BullJobs, Change(b, c),
           Busy(b.state), Busy(c.state), c # b
    PROVE  ChangesLeft(c) < ChangesLeft(b)
<1>b. /\ b.made \in Nat /\ b.stalls \in Nat /\ Attempts \in Nat /\ MaxStalled \in Nat
      /\ c.made \in Nat /\ c.stalls \in Nat
  BY CountsAssumption DEF BullJobs
<1>r. StageLeft(b) \in 0..3 /\ StageLeft(c) \in 0..3
  BY DEF StageLeft
<1>1. \/ c.made = b.made /\ c.stalls = b.stalls /\ StageLeft(c) < StageLeft(b)
      \/ c.made + c.stalls = b.made + b.stalls + 1 /\ StageLeft(c) <= StageLeft(b) + 3
  <2>1. CASE b.state = "active" /\ c \in {[state |-> "delayed", made |-> b.made + 1,
                                          stalls |-> b.stalls, owner |-> NoWorker],
                                         [state |-> "waiting", made |-> b.made,
                                          stalls |-> b.stalls + 1, owner |-> NoWorker]}
    BY <1>b, <1>r, <2>1
  <2>2. CASE b.state = "active" /\ b.owner # NoWorker /\ c = [b EXCEPT !.owner = NoWorker]
    BY <2>2 DEF StageLeft, BullJobs
  <2>3. ASSUME NEW w \in Workers, b.state = "waiting",
               c = [b EXCEPT !.state = "active", !.owner = w]
        PROVE  c.made = b.made /\ c.stalls = b.stalls /\ StageLeft(c) < StageLeft(b)
    BY <2>3 DEF StageLeft, BullJobs
  <2>4. CASE b.state = "delayed" /\ c = [b EXCEPT !.state = "waiting"]
    BY <2>4 DEF StageLeft, BullJobs
  <2> QED
    BY <2>1, <2>2, <2>3, <2>4, NullRecords DEF Change, Busy
<1> QED
  BY <1>1, <1>b, <1>r DEF ChangesLeft

\* A retry uses up an attempt, a lost lock a stall, and neither comes back while the job is
\* pending: the reason behind EveryJobSettles, for any counts and with lock loss.
THEOREM PendingJobsRunDown == Spec => PendingRunsDown
<1>1. Typed /\ [Next]_vars =>
        [\A j \in Jobs :
           (Busy(bull[j].state) /\ Busy(bull'[j].state) /\ bull'[j] # bull[j])
           => ChangesLeft(bull'[j]) < ChangesLeft(bull[j])]_vars
  <2> SUFFICES ASSUME Typed, [Next]_vars, NEW j \in Jobs, Busy(bull[j].state),
                      Busy(bull'[j].state), bull'[j] # bull[j]
               PROVE  ChangesLeft(bull'[j]) < ChangesLeft(bull[j])
    OBVIOUS
  <2>1. bull[j] \in BullJobs /\ bull'[j] \in BullJobs
    BY NextTyped DEF Typed, TypeOK, BullJobs
  <2> QED
    BY <2>1, Changes, ChangesGoDown
<1> QED
  BY <1>1, InitTyped, NextTyped, PTL DEF Spec, PendingRunsDown

\* A pending job is new, or has come from a pending one: it goes through no more than
\* MostChanges changes before BullMQ has completed, failed or removed it.
THEOREM ChangesStayBounded == Spec => []ChangesBounded
<1>1. Init => ChangesBounded
  BY NullRecords DEF Init, ChangesBounded
<1>2. Typed /\ ChangesBounded /\ [Next]_vars => ChangesBounded'
  <2> SUFFICES ASSUME Typed, ChangesBounded, [Next]_vars, NEW j \in Jobs, Busy(bull'[j].state)
               PROVE  ChangesLeft(bull'[j]) \in 0..MostChanges
    BY DEF ChangesBounded
  <2>1. bull[j] \in BullJobs /\ bull'[j] \in BullJobs
    BY NextTyped DEF Typed, TypeOK, BullJobs
  <2>2. MostChanges \in Nat /\ ChangesLeft(bull'[j]) \in Nat
    <3>1. /\ bull'[j].made \in 0..Attempts /\ bull'[j].stalls \in 0..MaxStalled
          /\ StageLeft(bull'[j]) \in 0..3
      BY <2>1 DEF BullJobs, StageLeft
    <3> QED
      BY <3>1, CountsAssumption DEF MostChanges, ChangesLeft
  <2>3. CASE Busy(bull[j].state)
    <3>1. ChangesLeft(bull[j]) \in 0..MostChanges
      BY <2>3 DEF ChangesBounded
    <3>2. bull'[j] = bull[j] \/ ChangesLeft(bull'[j]) < ChangesLeft(bull[j])
      BY <2>1, <2>3, Changes, ChangesGoDown
    <3> QED
      BY <2>2, <3>1, <3>2
  <2>4. CASE ~Busy(bull[j].state)
    <3>1. bull'[j] = NewBullJob
      BY <2>4, Changes, NullRecords DEF Change, Busy
    <3>2. ChangesLeft(NewBullJob) = MostChanges
      BY CountsAssumption DEF ChangesLeft, MostChanges, StageLeft, NewBullJob, NoBullJob
    <3> QED
      BY <2>2, <3>1, <3>2
  <2> QED
    BY <2>3, <2>4
<1> QED
  BY <1>1, <1>2, InitTyped, NextTyped, PTL DEF Spec

-----------------------------------------------------------------------------
(* What the scheduler cannot do                                              *)

\* A good run is over: its row says so, BullMQ has nothing pending and no slot works on the
\* job.  Calls of the scheduler for it may be under way, as far as they can come.
Finished(j) ==
    /\ row[j] = "succeeded" /\ ~Busy(bull[j].state)
    /\ \A w \in Workers : run[w].pc # "idle" => run[w].job # j
    /\ \A c \in Calls :
         (call[c].pc \notin Returned /\ call[c].job = j) =>
           /\ call[c].trigger = "scheduler" /\ call[c].pc \in {"row", "get", "state"}
           /\ call[c].pc # "row" => call[c].existing = "succeeded"

\* A finished job stays finished until the API or a worker's follow-up asks for it.
OnlyOthersRestart ==
    [][\A j \in Jobs : Finished(j) =>
         Finished(j)' \/ \E c \in Calls : Begin(c, j, "api") \/ Begin(c, j, "worker")]_vars

\* A step of an enqueuer changes no other call.
LEMMA CallAlone ==
    ASSUME Typed, NEW c \in Calls, CallNext(c)
    PROVE  \A d \in Calls \ {c} : call'[d] = call[d]
  BY DEF CallNext, CallStep, Begin, ReadRow, GetJob, GetState, Remove, RemoveIgnored,
     Upsert, Add, CallThrows, AgeCopy, Goto, Typed, TypeOK

\* What the last conjunct of Finished says of one call.
Idling(k, j) ==
    (k.pc \notin Returned /\ k.job = j) =>
      /\ k.trigger = "scheduler" /\ k.pc \in {"row", "get", "state"}
      /\ k.pc # "row" => k.existing = "succeeded"

LEMMA CallLeavesFinished ==
    ASSUME Typed, NEW j \in Jobs, Finished(j), NEW c \in Calls, CallNext(c),
           ~Begin(c, j, "api"), ~Begin(c, j, "worker")
    PROVE  Finished(j)'
<1>t. /\ call \in [Calls -> CallRecords] /\ call[c] \in CallRecords
      /\ bull \in [Jobs -> BullJobs] /\ \A d \in Calls : Idling(call[d], j)
      /\ call[c].pc \notin Returned => call[c].job \in Jobs
      /\ row[j] = "succeeded" /\ ~Busy(bull[j].state)
  BY DEF Typed, TypeOK, InProgress, CallRecords, BullJobs, Finished, Idling
<1>d. ASSUME UNCHANGED run, Idling(call'[c], j), row'[j] = row[j], bull'[j] = bull[j]
      PROVE  Finished(j)'
  <2>1. \A d \in Calls : Idling(call'[d], j)
    BY <1>t, <1>d, CallAlone
  <2> QED
    BY <1>d, <2>1 DEF Finished, Idling
\* A call that goes on as the scheduler's may, or returns.
<1>g. ASSUME NEW pc \in {"state", "idle"}, Goto(c, pc), call[c].pc \in {"get", "state"}
      PROVE  Idling(call'[c], j)
  <2>1. /\ pc \in CallPCs /\ call[c].pc \notin Returned /\ call[c].pc # "row"
        /\ pc = "idle" <=> pc \in Returned
    BY <1>g DEF Returned, CallPCs
  <2>2. /\ call'[c].pc = pc
        /\ pc # "idle" => /\ call'[c].job = call[c].job /\ call'[c].trigger = call[c].trigger
                          /\ call'[c].existing = call[c].existing
    BY <1>g, <2>1, GotoMoves
  <2>3. call[c].job = j => call[c].trigger = "scheduler" /\ call[c].existing = "succeeded"
    BY <1>t, <2>1 DEF Idling
  <2> QED
    BY <2>1, <2>2, <2>3 DEF Idling
<1>1. ASSUME NEW i \in Jobs, NEW t \in Triggers, Begin(c, i, t)
      PROVE  Finished(j)'
  <2>1. /\ UNCHANGED <<row, bull, run>>
        /\ call'[c] = [pc |-> IF t = "api" THEN "get" ELSE "row", job |-> i, trigger |-> t,
                       existing |-> "absent", ran |-> FALSE]
    BY <1>1, <1>t DEF Begin
  <2>2. i = j => t = "scheduler"
    BY <1>1 DEF Triggers
  <2>3. Idling(call'[c], j)
    BY <2>1, <2>2 DEF Idling
  <2> QED
    BY <1>d, <2>1, <2>3
<1>2. CASE call[c].job # j /\ call[c].pc \notin Returned
  <2>1. \A i \in Jobs, t \in Triggers : ~Begin(c, i, t)
    BY <1>2 DEF Begin
  <2>2. /\ UNCHANGED run /\ row'[j] = row[j] /\ bull'[j] = bull[j]
    BY <1>2, <1>t, <2>1 DEF CallNext, CallStep, ReadRow, GetJob, GetState, Remove,
       RemoveIgnored, Upsert, Add, CallThrows, AgeCopy, Typed, TypeOK
  <2>3. call'[c].pc \in Returned \/ call'[c].job = call[c].job
    <3>1. ASSUME NEW pc \in CallPCs, Goto(c, pc)
          PROVE  call'[c].pc \in Returned \/ call'[c].job = call[c].job
      BY <1>2, <3>1, GotoMoves
    <3>2. CASE GetJob(c) \/ GetState(c)
      <4>1. \A found \in BOOLEAN : \A state : Decision(call[c], found, state) \in CallPCs
        BY DecisionGoes DEF CallPCs, Returned
      <4>2. \E pc \in CallPCs : Goto(c, pc)
        BY <3>2, <4>1 DEF GetJob, GetState, CallPCs
      <4> QED
        BY <3>1, <4>2
    <3>3. CASE Remove(c) \/ RemoveIgnored(c) \/ Add(c) \/ CallThrows(c)
      <4>1. \E pc \in CallPCs : Goto(c, pc)
        BY <3>3 DEF Remove, RemoveIgnored, Add, CallThrows, CallPCs, Returned
      <4> QED
        BY <3>1, <4>1
    <3>4. CASE ReadRow(c) \/ Upsert(c) \/ AgeCopy(c)
      BY <3>4, <1>t DEF ReadRow, Upsert, AgeCopy, CallRecords
    <3> QED
      BY <2>1, <3>2, <3>3, <3>4 DEF CallNext, CallStep
  <2> QED
    BY <1>2, <1>d, <2>2, <2>3 DEF Idling
<1>3. CASE call[c].job = j /\ call[c].pc \notin Returned
  <2>1. /\ call[c].trigger = "scheduler" /\ call[c].pc \in {"row", "get", "state"}
        /\ call[c].pc # "row" => call[c].existing = "succeeded"
    BY <1>3, <1>t DEF Idling
  <2>2. CASE ReadRow(c)
    <3>1. call'[c] = [call[c] EXCEPT !.existing = row[j], !.pc = "get"]
      BY <1>3, <1>t, <2>1, <2>2 DEF ReadRow
    <3>2. Idling(call'[c], j)
      BY <1>t, <2>1, <3>1 DEF Idling, CallRecords
    <3> QED
      BY <1>d, <2>2, <3>2 DEF ReadRow
  <2>3. CASE GetJob(c) \/ GetState(c)
    <3>1. \A found \in BOOLEAN : \A state :
            call[c].pc # "row" => Decision(call[c], found, state) = "idle"
      BY <2>1 DEF Decision, ShouldEnqueue
    <3>2. PICK pc \in {"state", "idle"} : Goto(c, pc) /\ call[c].pc \in {"get", "state"}
      BY <2>3, <3>1 DEF GetJob, GetState
    <3> QED
      BY <1>d, <1>g, <2>3, <3>2 DEF GetJob, GetState
  <2>4. CASE CallThrows(c)
    <3>1. call'[c].pc = "idle"
      BY <2>4, <1>3, GotoMoves DEF CallThrows, Returned, CallPCs
    <3> QED
      BY <1>d, <2>4, <3>1 DEF CallThrows, Idling, Returned
  <2>5. CASE AgeCopy(c)
    <3>1. call[c].pc = "row"
      BY <2>1, <2>5 DEF AgeCopy
    <3>2. call'[c] = [call[c] EXCEPT !.existing = "stale"]
      BY <2>5, <1>t DEF AgeCopy
    <3>3. Idling(call'[c], j)
      BY <1>t, <2>1, <3>1, <3>2 DEF Idling, CallRecords
    <3> QED
      BY <1>d, <2>5, <3>3 DEF AgeCopy
  <2> QED
    BY <1>1, <2>1, <2>2, <2>3, <2>4, <2>5
       DEF CallNext, CallStep, Remove, RemoveIgnored, Upsert, Add
<1>4. CASE call[c].pc \in Returned
  <2>1. (\E i \in Jobs, t \in Triggers : Begin(c, i, t)) \/ AgeCopy(c)
    BY <1>4 DEF CallNext, CallStep, ReadRow, GetJob, GetState, Remove, RemoveIgnored,
       Upsert, Add, CallThrows, Returned
  <2>2. CASE AgeCopy(c)
    <3>1. call'[c] = [call[c] EXCEPT !.existing = "stale"]
      BY <2>2, <1>t DEF AgeCopy
    <3>2. call'[c].pc \in Returned
      BY <1>4, <1>t, <3>1 DEF CallRecords
    <3> QED
      BY <1>d, <2>2, <3>2 DEF AgeCopy, Idling
  <2> QED
    BY <1>1, <2>1, <2>2
<1> QED
  BY <1>2, <1>3, <1>4

\* No slot takes a job that is not waiting, and what other slots do is not about it.
LEMMA WorkerLeavesFinished ==
    ASSUME Typed, NEW j \in Jobs, Finished(j), NEW w \in Workers, WorkerNext(w)
    PROVE  Finished(j)'
<1>j. /\ \A v \in Workers : run[v].pc # "idle" => run[v].job # j /\ run[v].job \in Jobs
      /\ row \in [Jobs -> Statuses] /\ bull \in [Jobs -> BullJobs]
      /\ run \in [Workers -> [pc : RunPCs, job : Jobs \cup {NoJob}]]
  BY DEF Finished, Typed, TypeOK, InProgress, BullJobs
<1>d. ASSUME row'[j] = row[j], bull'[j] = bull[j],
             \A v \in Workers : run'[v].pc # "idle" => run'[v].job # j
      PROVE  Finished(j)'
  <2>1. \A c \in Calls : Idling(call'[c], j)
    BY WorkerKeepsCalls DEF Finished, Idling
  <2> QED
    BY <1>d, <2>1 DEF Finished, Idling
<1>1. ASSUME NEW i \in Jobs, Take(w, i)
      PROVE  Finished(j)'
  <2>1. i # j
    BY <1>1 DEF Take, Finished, Busy
  <2> QED
    BY <1>1, <1>d, <1>j, <2>1 DEF Take
<1>2. CASE MarkRunning(w) \/ MarkSucceeded(w)
           \/ \E s \in {"retrying", "dead_letter"} : MarkFailed(w, s)
  <2>1. /\ run[w].pc # "idle" /\ bull' = bull
        /\ \E pc : run' = [run EXCEPT ![w].pc = pc]
        /\ \A i \in Jobs \ {run[w].job} : row'[i] = row[i]
    BY <1>2, <1>j DEF MarkRunning, MarkSucceeded, MarkFailed, WriteRow
  <2> QED
    BY <1>d, <1>j, <2>1
<1>3. CASE Return(w) \/ Throw(w) \/ Crash(w)
  <2>1. /\ run[w].pc # "idle" /\ row' = row /\ run' = [run EXCEPT ![w] = IdleRun]
        /\ \A i \in Jobs \ {run[w].job} : bull'[i] = bull[i]
    BY <1>3, <1>j DEF Return, Throw, Crash
  <2> QED
    BY <1>d, <1>j, <2>1 DEF IdleRun
<1> QED
  BY <1>1, <1>2, <1>3 DEF WorkerNext, RunStep

LEMMA BullLeavesFinished ==
    ASSUME Typed, NEW j \in Jobs, Finished(j), NEW i \in Jobs, BullNext(i)
    PROVE  Finished(j)'
<1>1. /\ UNCHANGED <<call, run>>
      /\ row'[j] = row[j]
      /\ bull'[j] = bull[j] \/ bull'[j] = NoBullJob
  BY DEF BullNext, Promote, Stall, Evict, Age, Finished, Busy, Typed, TypeOK
<1> QED
  BY <1>1, NullRecords DEF Finished

\* Nothing else than a call of the API or of a follow-up ends it.
LEMMA RestartsAre ==
    ASSUME Typed, [Next]_vars, NEW j \in Jobs, Finished(j), ~ Finished(j)'
    PROVE  \E c \in Calls : Begin(c, j, "api") \/ Begin(c, j, "worker")
<1>1. CASE UNCHANGED vars
  BY <1>1 DEF vars, Finished
<1> QED
  BY <1>1, CallLeavesFinished, WorkerLeavesFinished, BullLeavesFinished DEF Next

\* After a good run nothing that the scheduler does, however often it finds the application
\* due and however its calls interleave, makes a job of it again: DueIsRequeued fails for
\* every instance, not only in the run that shows it.
THEOREM FinishedStaysFinished == Spec => OnlyOthersRestart
<1>1. Typed /\ [Next]_vars =>
        [\A j \in Jobs : Finished(j) =>
           Finished(j)' \/ \E c \in Calls : Begin(c, j, "api") \/ Begin(c, j, "worker")]_vars
  BY RestartsAre
<1> QED
  BY <1>1, InitTyped, NextTyped, PTL DEF Spec, OnlyOthersRestart

=============================================================================
