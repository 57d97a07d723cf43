---------------------------- MODULE RateLimiter -----------------------------
(***************************************************************************)
(* DistributedRateLimiter: a lease is one numbered Redis slot of the key    *)
(* "global" and one of the key of a domain, each a string with a TTL that   *)
(* holds the token of its client.  A client tries the slots of a key one    *)
(* SET NX at a time, gives back what it has when a key is full, waits and   *)
(* starts again until its time is up; a heartbeat renews a complete lease.  *)
(***************************************************************************)
EXTENDS Integers, FiniteSets

CONSTANTS Clients,      \* ads.txt fetches in progress, in all workers
          Domains,
          GlobalLimit,  \* config.rateLimit.globalLimit
          DomainLimit,  \* config.rateLimit.perDomainLimit
          Ttl,          \* config.rateLimit.slotTtlMs, in ticks
          MinBeat,      \* the 1000 ms of startHeartbeat, in ticks
          Timeout,      \* config.rateLimit.acquireTimeoutMs, in ticks
          Poll,         \* config.rateLimit.pollMs, in ticks
          Free, Dead,   \* no slot in Redis; the token of nobody alive
          MaxFailures   \* bound on the Redis errors and crashes of a behaviour

ASSUME ClientsAssumption == Free \notin Clients /\ Dead \notin Clients /\ Free # Dead
ASSUME LimitsAssumption == /\ GlobalLimit \in Nat \ {0} /\ DomainLimit \in Nat \ {0}
                           /\ Ttl \in Nat \ {0} /\ MinBeat \in Nat \ {0}
                           /\ Timeout \in Nat \ {0} /\ Poll \in Nat \ {0}
                           /\ MaxFailures \in Nat
ASSUME DomainsAssumption == "global" \notin Domains /\ Domains # {}

VARIABLES slot,     \* slot[i]: the Redis key rate-limit-slot:<key>:<attempt>
          client,   \* client[c]: a call of acquire and the lease it may return
          failures,
          late      \* whether a command or a heartbeat has been slower than a tick

vars == <<slot, client, failures, late>>

Keys == {"global"} \cup Domains
Limit(k) == IF k = "global" THEN GlobalLimit ELSE DomainLimit
SlotIds == {i \in Keys \X (0..(GlobalLimit + DomainLimit)) : i[2] < Limit(i[1])}
NoToken == [holder |-> Free, left |-> 0]    \* on a held slot, left = 0: no expiry

\* Mutant: a heartbeat once per TTL.
BeatAtExpiry == Ttl

\* startHeartbeat's interval.
Beat == IF Ttl \div 3 < MinBeat THEN MinBeat ELSE Ttl \div 3

PCs == {"idle", "loop", "try", "undo", "delay", "hold", "release"}

\* `key` and `attempt` are the loop variables of acquire and tryAcquireKey, `got`
\* the acquired slots, `timer` the heartbeat's or the delay's, `broken` whether a
\* releaseSlot has thrown.
Idle == [pc |-> "idle", domain |-> CHOOSE d \in Domains : TRUE, key |-> "global",
         attempt |-> 0, got |-> {}, waited |-> 0, timer |-> 0, broken |-> FALSE]

Init == /\ slot = [i \in SlotIds |-> NoToken]
        /\ client = [c \in Clients |-> Idle]
        /\ failures = 0
        /\ late = FALSE

Fails == failures < MaxFailures /\ failures' = failures + 1 /\ UNCHANGED late

\* acquire(domain) is called.
Begin(c, d) ==
    /\ client[c].pc = "idle"
    /\ client' = [client EXCEPT ![c] = [Idle EXCEPT !.pc = "loop", !.domain = d]]
    /\ UNCHANGED <<slot, failures, late>>

\* Mutant: no deadline.
LoopForEver(c) ==
    /\ client[c].pc = "loop"
    /\ client' = [client EXCEPT ![c].pc = "try"]
    /\ UNCHANGED <<slot, failures, late>>

\* The while condition: another round over the keys, or the RateLimited error.
Loop(c) ==
    /\ client[c].pc = "loop"
    /\ client' = [client EXCEPT ![c] =
                    IF @.waited < Timeout
                    THEN [@ EXCEPT !.pc = "try"]
                    ELSE Idle]
    /\ UNCHANGED <<slot, failures, late>>

\* Mutant: a lease as soon as one key has a slot.
WonOneKey(r, i) ==
    [Idle EXCEPT !.pc = "hold", !.domain = r.domain, !.got = r.got \cup {i}, !.timer = Beat]

\* The client after SET NX has answered OK for slot i: the next key, or the lease.
Won(r, i) ==
    IF r.key = "global"
    THEN [r EXCEPT !.got = @ \cup {i}, !.key = r.domain, !.attempt = 0]
    ELSE [Idle EXCEPT !.pc = "hold", !.domain = r.domain, !.got = r.got \cup {i},
                      !.timer = Beat]

\* Mutant: the catch block forgets what the round has got.
UndoForgets(r) == [r EXCEPT !.pc = "undo", !.key = "global", !.attempt = 0, !.got = {}]

\* The catch block: back to the start of the keys.
Undo(r) == [r EXCEPT !.pc = "undo", !.key = "global", !.attempt = 0]

\* Mutant: one slot more than the limit.
LostOffByOne(r) == IF r.attempt + 1 <= Limit(r.key) THEN [r EXCEPT !.attempt = @ + 1]
                   ELSE Undo(r)

\* ... and after it has not: the key's next slot, or the catch block.
Lost(r) == IF r.attempt + 1 < Limit(r.key) THEN [r EXCEPT !.attempt = @ + 1]
           ELSE Undo(r)

\* Mutant: a slot without PX.
TokenForEver(c) == [holder |-> c, left |-> 0]

\* What the SET leaves in Redis.
Token(c) == [holder |-> c, left |-> Ttl]

\* SET slotKey token PX slotTtlMs NX
Try(c) ==
    LET i == <<client[c].key, client[c].attempt>> IN
    /\ client[c].pc = "try"
    /\ IF slot[i].holder = Free
       THEN /\ slot' = [slot EXCEPT ![i] = Token(c)]
            /\ client' = [client EXCEPT ![c] = Won(@, i)]
       ELSE /\ client' = [client EXCEPT ![c] = Lost(@)]
            /\ UNCHANGED slot
    /\ UNCHANGED <<failures, late>>

\* The SET throws; Redis may have executed it, and then nobody knows the token.
TryThrows(c) ==
    LET i == <<client[c].key, client[c].attempt>> IN
    /\ client[c].pc = "try"
    /\ Fails
    /\ client' = [client EXCEPT ![c] = Undo(@)]
    /\ \/ UNCHANGED slot
       \/ /\ slot[i].holder = Free
          /\ slot' = [slot EXCEPT ![i] = Token(Dead)]

\* Mutant: DEL whoever holds the slot.
GivenAnyones(c, i) == [slot EXCEPT ![i] = NoToken]

\* releaseSlot: DEL if the slot still holds the token.
Given(c, i) == IF slot[i].holder = c THEN [slot EXCEPT ![i] = NoToken] ELSE slot

Giving(c) == client[c].pc \in {"undo", "release"}

GiveBack(c, i) ==
    /\ Giving(c)
    /\ i \in client[c].got
    /\ slot' = Given(c, i)
    /\ client' = [client EXCEPT ![c].got = @ \ {i}]
    /\ UNCHANGED <<failures, late>>

\* One releaseSlot of the Promise.all throws; the others are on their way.
GiveBackThrows(c, i) ==
    /\ Giving(c)
    /\ i \in client[c].got
    /\ Fails
    /\ slot' = IF slot[i].holder = c THEN [slot EXCEPT ![i].holder = Dead] ELSE slot
    /\ client' = [client EXCEPT ![c].got = @ \ {i}, ![c].broken = TRUE]

\* All is given back: the lease is over, or acquire waits, or it throws what a
\* releaseSlot threw.
GaveBack(c) ==
    /\ Giving(c)
    /\ client[c].got = {}
    /\ client' = [client EXCEPT ![c] =
                    IF @.pc = "undo" /\ ~@.broken
                    THEN [@ EXCEPT !.pc = "delay", !.timer = Poll] ELSE Idle]
    /\ UNCHANGED <<slot, failures, late>>

DelayOver(c) ==
    /\ client[c].pc = "delay"
    /\ client[c].timer = 0
    /\ client' = [client EXCEPT ![c].pc = "loop"]
    /\ UNCHANGED <<slot, failures, late>>

\* The heartbeat's interval fires: PEXPIRE of each slot that still holds the
\* token.  It is sent in one go and never tells the holder that a slot is lost.
Renew(c) ==
    /\ client[c].pc = "hold"
    /\ client[c].timer = 0
    /\ slot' = [i \in SlotIds |-> IF i \in client[c].got /\ slot[i].holder = c
                                  THEN [slot[i] EXCEPT !.left = Ttl] ELSE slot[i]]
    /\ client' = [client EXCEPT ![c].timer = Beat]
    /\ UNCHANGED <<failures, late>>

\* The fetch is over: lease.release() clears the heartbeat.
Done(c) ==
    /\ client[c].pc = "hold"
    /\ client' = [client EXCEPT ![c] = [@ EXCEPT !.pc = "release", !.timer = 0]]
    /\ UNCHANGED <<slot, failures, late>>

\* The worker dies, of a failed heartbeat too (its rejection has no handler).
Crash(c) ==
    /\ client[c].pc # "idle"
    /\ Fails
    /\ slot' = [i \in SlotIds |-> IF slot[i].holder = c
                                  THEN [slot[i] EXCEPT !.holder = Dead] ELSE slot[i]]
    /\ client' = [client EXCEPT ![c] = Idle]

\* Nothing of c is late if time goes on now: a round of SETs, a release and a
\* heartbeat that is due are over within their tick.
InTime(c) == \/ client[c].pc \in {"idle", "loop"}
             \/ client[c].pc \in {"hold", "delay"} /\ client[c].timer > 0

Older(r) == [r EXCEPT !.waited = IF r.pc \in {"idle", "hold", "release"} \/ @ = Timeout
                                 THEN @ ELSE @ + 1,
                      !.timer = IF @ > 0 THEN @ - 1 ELSE 0]

Tick ==
    /\ late' = (late \/ \E c \in Clients : ~ InTime(c))
    /\ slot' = [i \in SlotIds |-> IF slot[i].left = 1 THEN NoToken
                                  ELSE IF slot[i].left > 1 THEN [slot[i] EXCEPT !.left = @ - 1]
                                  ELSE slot[i]]
    /\ client' = [c \in Clients |-> Older(client[c])]
    /\ UNCHANGED failures

\* What a client does by itself until its lease is over.
Step(c) == \/ Loop(c) \/ Try(c) \/ GaveBack(c) \/ DelayOver(c) \/ Renew(c)
           \/ \E i \in SlotIds : GiveBack(c, i)

Next == \/ \E c \in Clients : \/ \E d \in Domains : Begin(c, d)
                              \/ Step(c) \/ Done(c) \/ TryThrows(c) \/ Crash(c)
                              \/ \E i \in SlotIds : GiveBackThrows(c, i)
        \/ Tick

Spec == Init /\ [][Next]_vars

\* Time passes, awaits end, and every fetch is over at some time: the HTTP client
\* has a timeout and a retry limit (GetEnds of HttpClient).
Fairness == WF_vars(Tick) /\ \A c \in Clients : WF_vars(Step(c)) /\ WF_vars(Done(c))

FairSpec == Spec /\ Fairness

-----------------------------------------------------------------------------
\* Types: loop variables stay within the limits, timers within their settings.
TypeOK ==
    /\ slot \in [SlotIds -> [holder : Clients \cup {Free, Dead}, left : 0..Ttl]]
    /\ \A c \in Clients :
         LET r == client[c] IN
         /\ r.pc \in PCs /\ r.domain \in Domains /\ r.key \in {"global", r.domain}
         /\ r.attempt \in 0..(Limit(r.key) - 1)
         /\ r.got \subseteq SlotIds /\ r.broken \in BOOLEAN
         /\ r.waited \in 0..Timeout
         /\ r.timer \in 0..(IF Beat < Poll THEN Poll ELSE Beat)
    /\ failures \in 0..MaxFailures /\ late \in BOOLEAN

Users(k) == {c \in Clients : client[c].pc = "hold" /\ k \in {"global", client[c].domain}}

\* The point of the limiter: never more fetches at a time than the limit of
\* "global" or of their domain, as long as no command or heartbeat has been late.
LimitRespected == ~ late => \A k \in Keys : Cardinality(Users(k)) <= Limit(k)

\* Why it holds: a lease that is in use still has both of its slots in Redis.
LeaseIsWhole ==
    ~ late => \A c \in Clients : client[c].pc = "hold" =>
        \A k \in {"global", client[c].domain} :
            \E i \in client[c].got : i[1] = k /\ slot[i].holder = c

\* A slot is taken from its client by that client (release, undo, crash) or by
\* its expiry, never by the release of one whose slot has expired before.
OwnSlotOnly ==
    [][\A i \in SlotIds, c \in Clients :
         (slot[i].holder = c /\ slot'[i].holder # c)
         => slot[i].left = 1 \/ client'[c].pc = "idle" \/ i \in client[c].got \ client'[c].got]_vars

\* A client that is waiting for its next round, or is gone, blocks nobody: what
\* it got in a round that failed half-way has been given back.
WaitersHoldNothing ==
    \A c \in Clients : client[c].pc \in {"idle", "loop", "delay"} =>
        \A i \in SlotIds : slot[i].holder # c

\* acquire returns a lease or throws, however full the keys stay.
AcquireEnds == \A c \in Clients : client[c].pc = "loop" ~> client[c].pc \in {"hold", "idle"}

\* No error or crash makes a slot unusable: each is free again at some time.
SlotsComeFree == \A i \in SlotIds : slot[i].holder # Free ~> slot[i].holder = Free

=============================================================================
