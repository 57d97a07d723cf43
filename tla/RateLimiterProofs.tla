------------------------- MODULE RateLimiterProofs --------------------------
(***************************************************************************)
(* Theorems about RateLimiter for any clients, domains, limits and times.   *)
(* A step of a client touches no slot but its own and free ones; what a     *)
(* client knows of its slots (Known) is therefore inductive, and while no   *)
(* heartbeat or command is late so is that it still has them (Whole).       *)
(* Slots that are left behind expire, and every step of acquire leaves it less.  *)
(***************************************************************************)
EXTENDS RateLimiter, FiniteSetTheorems, TLAPS

-----------------------------------------------------------------------------
(* Types                                                                     *)

MaxTimer == IF Beat < Poll THEN Poll ELSE Beat

Calls == {r \in [pc : PCs, domain : Domains, key : Keys,
                 attempt : 0..(GlobalLimit + DomainLimit), got : SUBSET SlotIds,
                 waited : 0..Timeout, timer : 0..MaxTimer, broken : BOOLEAN] :
            r.key \in {"global", r.domain} /\ r.attempt < Limit(r.key)}

Tokens == [holder : Clients \cup {Free, Dead}, left : 0..Ttl]

\* What a client knows at each await, with r its call and s the slots: every slot
\* with its token is one it has got, and what it has got fits where it stands.
Known(c, r, s) ==
    /\ r \in Calls
    /\ \A i \in SlotIds : s[i].holder = c => i \in r.got
    /\ r.pc \in {"idle", "loop", "delay"} => r.got = {}
    /\ r.pc \in {"loop", "undo", "delay"} => r.key = "global"
    /\ r.pc = "try" /\ r.key # "global" => \E i \in r.got : i[1] = "global"
    /\ r.pc = "hold" => \A k \in {"global", r.domain} : \E i \in r.got : i[1] = k

\* While nothing is late: what it has got in a round was set in this very tick, and
\* a lease has Ttl - Beat ticks more than its next heartbeat is away.
Whole(c, r, s) ==
    /\ r.pc = "try" => \A i \in r.got : s[i].holder = c /\ s[i].left = Ttl
    /\ r.pc = "hold" => \A i \in r.got : s[i].holder = c /\ s[i].left = Ttl - Beat + r.timer

Typed == /\ slot \in [SlotIds -> Tokens]
         /\ client \in [Clients -> Calls]
         /\ failures \in 0..MaxFailures /\ late \in BOOLEAN

AllKnown == Typed /\ \A c \in Clients : Known(c, client[c], slot)
AllWhole == ~ late => \A c \in Clients : Whole(c, client[c], slot)

\* c's call becomes r; only its own slots and free ones change, into its own, free
\* or dead ones, and its own only if it gives them up.
Moves(c, r) ==
    /\ client' = [client EXCEPT ![c] = r]
    /\ late' = late /\ failures' \in 0..MaxFailures
    /\ slot' \in [SlotIds -> Tokens]
    /\ \A i \in SlotIds : \/ slot'[i] = slot[i]
                          \/ /\ slot[i].holder \in {c, Free}
                             /\ slot'[i].holder \in {c, Free, Dead}
                             /\ slot[i].holder = c /\ slot'[i].holder # c
                                => r.pc = "idle" \/ i \notin r.got

LEMMA BeatIsPositive == Beat \in Nat \ {0}
BY LimitsAssumption DEF Beat

LEMMA TimesAre ==
    /\ Beat \in 0..MaxTimer /\ Poll \in 0..MaxTimer /\ MaxTimer \in Nat /\ Ttl \in 0..Ttl
    /\ \A k \in Keys : Limit(k) \in Nat \ {0} /\ Limit(k) <= GlobalLimit + DomainLimit
    /\ GlobalLimit \in Nat /\ DomainLimit \in Nat /\ Timeout \in Nat /\ MaxFailures \in Nat
<1>1. Ttl \in Nat /\ Poll \in Nat /\ GlobalLimit \in Nat \ {0} /\ DomainLimit \in Nat \ {0}
      /\ Timeout \in Nat /\ MaxFailures \in Nat
    BY LimitsAssumption
<1>2. Beat \in 0..MaxTimer /\ Poll \in 0..MaxTimer /\ MaxTimer \in Nat
    BY <1>1, BeatIsPositive DEF MaxTimer
<1> QED BY <1>1, <1>2 DEF Limit

LEMMA IdleIsKnown ==
    ASSUME NEW d \in Domains
    PROVE  /\ Idle \in Calls /\ [Idle EXCEPT !.pc = "loop", !.domain = d] \in Calls
           /\ Idle.pc = "idle" /\ Idle.key = "global" /\ Idle.got = {}
<1>1. (CHOOSE x \in Domains : TRUE) \in Domains
    OBVIOUS
<1>2. "global" \in Keys /\ 0 < Limit("global")
    BY TimesAre, LimitsAssumption DEF Keys, Limit
<1>3. 0 \in 0..Timeout /\ 0 \in 0..MaxTimer /\ 0 \in 0..(GlobalLimit + DomainLimit)
    BY TimesAre
<1> QED BY <1>1, <1>2, <1>3 DEF Idle, Calls, PCs

\* The slot a client is about to try.
LEMMA SlotOf ==
    ASSUME NEW r \in Calls
    PROVE  <<r.key, r.attempt>> \in SlotIds
BY DEF Calls, SlotIds

LEMMA NoTokenIs == NoToken \in Tokens /\ NoToken.holder = Free
BY LimitsAssumption DEF NoToken, Tokens

LEMMA KnownInit == Init => AllKnown /\ AllWhole
<1> SUFFICES ASSUME Init PROVE AllKnown /\ AllWhole
    OBVIOUS
<1>0. PICK d \in Domains : TRUE
    BY DomainsAssumption
<1>1. Typed
    <2>1. Idle \in Calls
        BY <1>0, IdleIsKnown
    <2>2. slot \in [SlotIds -> Tokens]
        BY NoTokenIs DEF Init
    <2>3. client \in [Clients -> Calls]
        BY <2>1 DEF Init
    <2>4. 0 \in 0..MaxFailures
        BY TimesAre
    <2> QED BY <2>2, <2>3, <2>4 DEF Init, Typed
<1>2. ASSUME NEW c \in Clients
      PROVE  Known(c, client[c], slot) /\ Whole(c, client[c], slot)
    <2>1. client[c] = Idle /\ \A i \in SlotIds : slot[i].holder # c
        BY NoTokenIs, ClientsAssumption DEF Init
    <2> QED BY <1>0, <2>1, IdleIsKnown DEF Known, Whole
<1> QED BY <1>1, <1>2 DEF AllKnown, AllWhole

-----------------------------------------------------------------------------
(* One client's step                                                         *)

\* It is enough to follow the client that moves.
LEMMA OneMoves ==
    ASSUME AllKnown, NEW c \in Clients, NEW r, Moves(c, r), Known(c, r, slot')
    PROVE  /\ AllKnown'
           /\ (AllWhole /\ (Whole(c, client[c], slot) => Whole(c, r, slot'))) => AllWhole'
<1>1. /\ client' = [client EXCEPT ![c] = r] /\ r \in Calls
      /\ late' = late /\ failures' \in 0..MaxFailures
      /\ slot' \in [SlotIds -> Tokens]
    BY DEF Moves, Known
<1>2. Typed'
    BY <1>1 DEF AllKnown, Typed
<1>3. client'[c] = r
    BY <1>1 DEF AllKnown, Typed
<1>4. ASSUME NEW d \in Clients, d # c
      PROVE  /\ client'[d] = client[d]
             /\ Known(d, client[d], slot')
             /\ Whole(d, client[d], slot) => Whole(d, client[d], slot')
    <2>1. client'[d] = client[d]
        BY <1>1, <1>4 DEF AllKnown, Typed
    <2>2. \A i \in SlotIds : slot[i].holder = d => slot'[i] = slot[i]
        BY <1>4, ClientsAssumption DEF Moves
    <2>3. \A i \in SlotIds : slot'[i].holder = d => slot[i].holder = d
        BY <1>4, ClientsAssumption DEF Moves
    <2>4. Known(d, client[d], slot) /\ client[d].got \subseteq SlotIds
        BY DEF AllKnown, Known, Calls
    <2>5. Known(d, client[d], slot')
        BY <2>3, <2>4 DEF Known
    <2>6. Whole(d, client[d], slot) => Whole(d, client[d], slot')
        BY <2>2, <2>4 DEF Whole
    <2> QED BY <2>1, <2>5, <2>6
<1>5. \A d \in Clients : Known(d, client'[d], slot')
    BY <1>3, <1>4
<1>6. ASSUME AllWhole, Whole(c, client[c], slot) => Whole(c, r, slot')
      PROVE  ~ late' => \A d \in Clients : Whole(d, client'[d], slot')
    BY <1>1, <1>3, <1>4, <1>6 DEF AllWhole
<1> QED BY <1>2, <1>5, <1>6 DEF AllKnown, AllWhole

\* c's step, and what c knows after it.
Goes(c) == \E r : /\ Moves(c, r) /\ Known(c, r, slot')
                  /\ Whole(c, client[c], slot) => Whole(c, r, slot')

LEMMA CallOf ==
    ASSUME AllKnown, NEW c \in Clients
    PROVE  /\ client[c] \in Calls /\ Known(c, client[c], slot)
           /\ slot \in [SlotIds -> Tokens] /\ failures \in 0..MaxFailures
           /\ c # Free /\ c # Dead
BY ClientsAssumption DEF AllKnown, Typed

\* A step that leaves the slots alone and ends outside "try" and "hold".
LEMMA Waits ==
    ASSUME AllKnown, NEW c \in Clients, NEW r \in Calls,
           client' = [client EXCEPT ![c] = r], UNCHANGED <<slot, failures, late>>,
           r.got = client[c].got, r.pc \notin {"try", "hold"},
           r.pc \in {"idle", "loop", "delay"} => r.got = {},
           r.pc \in {"loop", "undo", "delay"} => r.key = "global"
    PROVE  Goes(c)
<1>1. Moves(c, r)
    BY CallOf DEF Moves
<1>2. Known(c, r, slot') /\ Whole(c, r, slot')
    BY CallOf DEF Known, Whole
<1> QED BY <1>1, <1>2 DEF Goes

LEMMA BeginGoes ==
    ASSUME AllKnown, NEW c \in Clients, NEW d \in Domains, Begin(c, d)
    PROVE  Goes(c)
<1> DEFINE r == [Idle EXCEPT !.pc = "loop", !.domain = d]
<1>1. r \in Calls /\ r.got = {} /\ r.pc = "loop" /\ r.key = "global"
    BY IdleIsKnown DEF Idle
<1>2. client[c].got = {}
    BY CallOf DEF Begin, Known
<1>3. client' = [client EXCEPT ![c] = r] /\ UNCHANGED <<slot, failures, late>>
    BY DEF Begin
<1> QED BY <1>1, <1>2, <1>3, Waits

LEMMA LoopGoes ==
    ASSUME AllKnown, NEW c \in Clients, Loop(c)
    PROVE  Goes(c)
<1>1. /\ client[c] \in Calls /\ client[c].got = {} /\ client[c].key = "global"
      /\ UNCHANGED <<slot, failures, late>>
    BY CallOf DEF Loop, Known
<1>2. CASE client[c].waited < Timeout
    <2> DEFINE r == [client[c] EXCEPT !.pc = "try"]
    <2>1. r \in Calls /\ r.got = {} /\ r.pc = "try" /\ r.key = "global"
        BY <1>1 DEF Calls, PCs
    <2>2. client' = [client EXCEPT ![c] = r]
        BY <1>2 DEF Loop
    <2>3. Moves(c, r)
        BY <1>1, <2>2, CallOf DEF Moves
    <2>4. Known(c, r, slot') /\ Whole(c, r, slot')
        BY <1>1, <2>1, CallOf DEF Known, Whole
    <2> QED BY <2>3, <2>4 DEF Goes
<1>3. CASE ~ (client[c].waited < Timeout)
    <2>1. client' = [client EXCEPT ![c] = Idle]
        BY <1>3 DEF Loop
    <2> QED BY <1>1, <2>1, IdleIsKnown, DomainsAssumption, Waits
<1> QED BY <1>2, <1>3

LEMMA UndoIs ==
    ASSUME NEW r \in Calls
    PROVE  /\ Undo(r) \in Calls /\ Undo(r).got = r.got /\ Undo(r).pc = "undo"
           /\ Undo(r).key = "global"
<1>1. "global" \in Keys /\ 0 < Limit("global") /\ 0 \in 0..(GlobalLimit + DomainLimit)
    BY TimesAre DEF Keys
<1> QED BY <1>1 DEF Undo, Calls, PCs

LEMMA TryWins ==
    ASSUME AllKnown, NEW c \in Clients, Try(c),
           slot[<<client[c].key, client[c].attempt>>].holder = Free
    PROVE  Goes(c)
<1> DEFINE i == <<client[c].key, client[c].attempt>>
<1>1. /\ client[c] \in Calls /\ client[c].pc = "try" /\ i \in SlotIds
      /\ UNCHANGED <<failures, late>>
    BY CallOf, SlotOf DEF Try
<1>2. /\ slot' = [slot EXCEPT ![i] = Token(c)]
      /\ client' = [client EXCEPT ![c] = Won(client[c], i)]
    BY DEF Try
<1>3. Token(c) \in Tokens /\ Token(c).holder = c /\ Token(c).left = Ttl
    BY TimesAre DEF Token, Tokens
<1>4. i[1] = client[c].key
    OBVIOUS
<1> HIDE DEF i
<1>5. Moves(c, Won(client[c], i))
    BY <1>1, <1>2, <1>3, CallOf DEF Moves, i
<1>6. \A j \in SlotIds : slot'[j].holder = c => j \in client[c].got \cup {i}
    BY <1>1, <1>2, CallOf DEF Known
<1>7. /\ slot'[i].holder = c /\ slot'[i].left = Ttl
      /\ Whole(c, client[c], slot) => \A j \in client[c].got \cup {i} :
                                         slot'[j].holder = c /\ slot'[j].left = Ttl
    <2>1. client[c].got \subseteq SlotIds
        BY <1>1 DEF Calls
    <2> QED BY <1>1, <1>2, <1>3, <2>1, CallOf DEF Whole
<1>8. CASE client[c].key = "global"
    <2> DEFINE r == [client[c] EXCEPT !.got = @ \cup {i}, !.key = client[c].domain, !.attempt = 0]
    <2>1. Won(client[c], i) = r
        BY <1>8 DEF Won
    <2>2. client[c].domain \in Keys /\ 0 < Limit(client[c].domain)
          /\ 0 \in 0..(GlobalLimit + DomainLimit)
        <3>1. client[c].domain \in Keys
            BY <1>1 DEF Calls, Keys
        <3>2. Limit(client[c].domain) \in Nat \ {0}
            BY <3>1, TimesAre
        <3>3. 0 \in 0..(GlobalLimit + DomainLimit)
            BY TimesAre
        <3> QED BY <3>1, <3>2, <3>3
    <2>3. r \in Calls /\ r.pc = "try" /\ r.got = client[c].got \cup {i}
        BY <1>1, <2>2 DEF Calls
    <2>4. Known(c, r, slot') /\ (Whole(c, client[c], slot) => Whole(c, r, slot'))
        BY <1>4, <1>6, <1>7, <1>8, <2>3 DEF Known, Whole
    <2> QED BY <1>5, <2>1, <2>4 DEF Goes
<1>9. CASE client[c].key # "global"
    <2> DEFINE r == [Idle EXCEPT !.pc = "hold", !.domain = client[c].domain,
                                 !.got = client[c].got \cup {i}, !.timer = Beat]
    <2>1. Won(client[c], i) = r
        BY <1>9 DEF Won
    <2>2. client[c].domain \in Domains /\ client[c].got \subseteq SlotIds
          /\ client[c].key = client[c].domain
        BY <1>1, <1>9 DEF Calls
    <2>3. Idle \in Calls /\ Idle.key = "global"
        BY <2>2, IdleIsKnown
    <2>4. /\ r \in Calls /\ r.pc = "hold" /\ r.got = client[c].got \cup {i}
          /\ r.timer = Beat /\ r.domain = client[c].domain
        BY <1>1, <2>2, <2>3, TimesAre DEF Calls, PCs
    <2>5. \E j \in client[c].got : j[1] = "global"
        BY <1>1, <1>9, CallOf DEF Known
    <2>6. Known(c, r, slot')
        BY <1>4, <1>6, <2>2, <2>4, <2>5 DEF Known
    <2>7. Ttl - Beat + Beat = Ttl
        BY BeatIsPositive, LimitsAssumption
    <2>8. Whole(c, client[c], slot) => Whole(c, r, slot')
        BY <1>7, <2>4, <2>7 DEF Whole
    <2> QED BY <1>5, <2>1, <2>6, <2>8 DEF Goes
<1> QED BY <1>8, <1>9

LEMMA TryLoses ==
    ASSUME AllKnown, NEW c \in Clients, Try(c),
           slot[<<client[c].key, client[c].attempt>>].holder # Free
    PROVE  Goes(c)
<1>1. /\ client[c] \in Calls /\ client[c].pc = "try"
      /\ UNCHANGED <<slot, failures, late>>
      /\ client' = [client EXCEPT ![c] = Lost(client[c])]
    BY CallOf DEF Try
<1>2. CASE client[c].attempt + 1 < Limit(client[c].key)
    <2> DEFINE r == [client[c] EXCEPT !.attempt = @ + 1]
    <2>1. Lost(client[c]) = r
        BY <1>2 DEF Lost
    <2>2. client[c].attempt + 1 \in 0..(GlobalLimit + DomainLimit)
        BY <1>1, <1>2, TimesAre DEF Calls
    <2>3. r \in Calls /\ r.pc = "try" /\ r.got = client[c].got /\ r.key = client[c].key
        BY <1>1, <1>2, <2>2 DEF Calls
    <2>4. Moves(c, r)
        BY <1>1, <2>1, CallOf DEF Moves
    <2>5. Known(c, r, slot') /\ (Whole(c, client[c], slot) => Whole(c, r, slot'))
        BY <1>1, <2>3, CallOf DEF Known, Whole
    <2> QED BY <2>4, <2>5 DEF Goes
<1>3. CASE ~ (client[c].attempt + 1 < Limit(client[c].key))
    <2>1. Lost(client[c]) = Undo(client[c])
        BY <1>3 DEF Lost
    <2> QED BY <1>1, <2>1, UndoIs, Waits
<1> QED BY <1>2, <1>3

LEMMA TryThrowsGoes ==
    ASSUME AllKnown, NEW c \in Clients, TryThrows(c)
    PROVE  Goes(c)
<1> DEFINE i == <<client[c].key, client[c].attempt>>
<1>1. /\ client[c] \in Calls /\ client[c].pc = "try" /\ i \in SlotIds
      /\ client' = [client EXCEPT ![c] = Undo(client[c])]
    BY CallOf, SlotOf DEF TryThrows
<1>2. failures' \in 0..MaxFailures /\ late' = late
    BY CallOf, TimesAre DEF TryThrows, Fails
<1>3. Token(Dead) \in Tokens /\ Token(Dead).holder = Dead
    BY TimesAre DEF Token, Tokens
<1>4. \/ slot' = slot
      \/ slot[i].holder = Free /\ slot' = [slot EXCEPT ![i] = Token(Dead)]
    BY DEF TryThrows
<1> HIDE DEF i
<1>5. Moves(c, Undo(client[c]))
    BY <1>1, <1>2, <1>3, <1>4, CallOf DEF Moves
<1>6. \A j \in SlotIds : slot'[j].holder = c => slot[j].holder = c
    BY <1>3, <1>4, CallOf
<1>7. Known(c, Undo(client[c]), slot') /\ Whole(c, Undo(client[c]), slot')
    BY <1>1, <1>6, UndoIs, CallOf DEF Known, Whole
<1> QED BY <1>5, <1>7 DEF Goes

LEMMA GiveBackGoes ==
    ASSUME AllKnown, NEW c \in Clients, NEW i \in SlotIds, GiveBack(c, i)
    PROVE  Goes(c)
<1> DEFINE r == [client[c] EXCEPT !.got = @ \ {i}]
<1>1. /\ client[c] \in Calls /\ client[c].pc \in {"undo", "release"}
      /\ client' = [client EXCEPT ![c] = r]
      /\ slot' = IF slot[i].holder = c THEN [slot EXCEPT ![i] = NoToken] ELSE slot
      /\ UNCHANGED <<failures, late>>
    BY CallOf DEF GiveBack, Giving, Given
<1>2. r \in Calls /\ r.pc = client[c].pc /\ r.got = client[c].got \ {i} /\ r.key = client[c].key
    BY <1>1 DEF Calls
<1>3. Moves(c, r)
    BY <1>1, <1>2, NoTokenIs, CallOf DEF Moves
<1>4. \A j \in SlotIds : slot'[j].holder = c => j # i /\ slot[j].holder = c
    BY <1>1, NoTokenIs, CallOf
<1>5. Known(c, r, slot') /\ Whole(c, r, slot')
    BY <1>1, <1>2, <1>4, CallOf DEF Known, Whole
<1> QED BY <1>3, <1>5 DEF Goes

LEMMA GiveBackThrowsGoes ==
    ASSUME AllKnown, NEW c \in Clients, NEW i \in SlotIds, GiveBackThrows(c, i)
    PROVE  Goes(c)
<1> DEFINE r == [client[c] EXCEPT !.got = @ \ {i}, !.broken = TRUE]
<1>a. client' = [client EXCEPT ![c] = r]
    BY DEF GiveBackThrows
<1>1. /\ client[c] \in Calls /\ client[c].pc \in {"undo", "release"}
      /\ client' = [client EXCEPT ![c] = r]
    BY <1>a, CallOf DEF GiveBackThrows, Giving
<1>9. /\ slot' = IF slot[i].holder = c THEN [slot EXCEPT ![i].holder = Dead] ELSE slot
      /\ slot[i] \in Tokens
    BY CallOf DEF GiveBackThrows
<1>2. failures' \in 0..MaxFailures /\ late' = late
    BY CallOf, TimesAre DEF GiveBackThrows, Fails
<1>3. r \in Calls /\ r.pc = client[c].pc /\ r.got = client[c].got \ {i} /\ r.key = client[c].key
    BY <1>1 DEF Calls
<1>4. slot' \in [SlotIds -> Tokens]
    BY <1>9, CallOf DEF Tokens
<1>5. \A j \in SlotIds : \/ slot'[j] = slot[j]
                         \/ slot[j].holder = c /\ slot'[j].holder = Dead
    <2>1. [slot[i] EXCEPT !.holder = Dead].holder = Dead
        BY <1>9 DEF Tokens
    <2> QED BY <1>9, <2>1, CallOf
<1>6. Moves(c, r)
    <2>1. \A j \in SlotIds : slot'[j].holder # slot[j].holder => j = i
        BY <1>9, CallOf
    <2> QED BY <1>1, <1>2, <1>3, <1>4, <1>5, <2>1 DEF Moves
<1>7. \A j \in SlotIds : slot'[j].holder = c => j # i /\ slot[j].holder = c
    BY <1>9, CallOf DEF Tokens
<1>8. Known(c, r, slot') /\ Whole(c, r, slot')
    BY <1>1, <1>3, <1>7, CallOf DEF Known, Whole
<1> QED BY <1>6, <1>8 DEF Goes

LEMMA GaveBackGoes ==
    ASSUME AllKnown, NEW c \in Clients, GaveBack(c)
    PROVE  Goes(c)
<1>1. /\ client[c] \in Calls /\ client[c].got = {} /\ client[c].pc \in {"undo", "release"}
      /\ UNCHANGED <<slot, failures, late>>
    BY CallOf DEF GaveBack, Giving
<1>2. CASE client[c].pc = "undo" /\ ~ client[c].broken
    <2> DEFINE r == [client[c] EXCEPT !.pc = "delay", !.timer = Poll]
    <2>1. r \in Calls /\ r.pc = "delay" /\ r.got = {} /\ r.key = client[c].key
        BY <1>1, TimesAre DEF Calls, PCs
    <2>2. client[c].key = "global"
        BY <1>2, CallOf DEF Known
    <2>3. client' = [client EXCEPT ![c] = r]
        BY <1>2 DEF GaveBack
    <2> QED BY <1>1, <2>1, <2>2, <2>3, Waits
<1>3. CASE ~ (client[c].pc = "undo" /\ ~ client[c].broken)
    <2>1. client' = [client EXCEPT ![c] = Idle]
        BY <1>3 DEF GaveBack
    <2> QED BY <1>1, <2>1, IdleIsKnown, DomainsAssumption, Waits
<1> QED BY <1>2, <1>3

LEMMA DelayOverGoes ==
    ASSUME AllKnown, NEW c \in Clients, DelayOver(c)
    PROVE  Goes(c)
<1> DEFINE r == [client[c] EXCEPT !.pc = "loop"]
<1>1. /\ client[c] \in Calls /\ client[c].got = {} /\ client[c].key = "global"
      /\ UNCHANGED <<slot, failures, late>> /\ client' = [client EXCEPT ![c] = r]
    BY CallOf DEF DelayOver, Known
<1>2. r \in Calls /\ r.pc = "loop" /\ r.got = {} /\ r.key = "global"
    BY <1>1 DEF Calls, PCs
<1> QED BY <1>1, <1>2, Waits

LEMMA RenewGoes ==
    ASSUME AllKnown, NEW c \in Clients, Renew(c)
    PROVE  Goes(c)
<1> DEFINE r == [client[c] EXCEPT !.timer = Beat]
<1>1. /\ client[c] \in Calls /\ client[c].pc = "hold" /\ client[c].got \subseteq SlotIds
      /\ UNCHANGED <<failures, late>> /\ client' = [client EXCEPT ![c] = r]
    BY CallOf DEF Renew, Calls
<1>2. slot' = [i \in SlotIds |-> IF i \in client[c].got /\ slot[i].holder = c
                                  THEN [slot[i] EXCEPT !.left = Ttl] ELSE slot[i]]
    BY DEF Renew
<1>3. /\ r \in Calls /\ r.pc = "hold" /\ r.got = client[c].got /\ r.timer = Beat
      /\ r.domain = client[c].domain
    BY <1>1, TimesAre DEF Calls
<1>4. slot' \in [SlotIds -> Tokens]
    BY <1>2, TimesAre, CallOf DEF Tokens
<1>5. \A i \in SlotIds : slot'[i].holder = slot[i].holder
    BY <1>2, CallOf DEF Tokens
<1>6. \A i \in SlotIds : slot'[i] = slot[i] \/ slot[i].holder = c
    BY <1>2
<1>7. Moves(c, r)
    BY <1>1, <1>4, <1>5, <1>6, CallOf DEF Moves
<1>8. Known(c, r, slot')
    BY <1>1, <1>3, <1>5, CallOf DEF Known
<1>9. ASSUME Whole(c, client[c], slot)
      PROVE  Whole(c, r, slot')
    <2>1. \A i \in r.got : i \in SlotIds /\ slot[i].holder = c
        BY <1>1, <1>3, <1>9 DEF Whole
    <2>2. \A i \in r.got : slot'[i].holder = c /\ slot'[i].left = Ttl
        BY <1>2, <1>3, <2>1, CallOf DEF Tokens
    <2>3. Ttl - Beat + Beat = Ttl
        BY BeatIsPositive, LimitsAssumption
    <2> QED BY <1>3, <2>2, <2>3 DEF Whole
<1> QED BY <1>7, <1>8, <1>9 DEF Goes

LEMMA DoneGoes ==
    ASSUME AllKnown, NEW c \in Clients, Done(c)
    PROVE  Goes(c)
<1> DEFINE r == [client[c] EXCEPT !.pc = "release", !.timer = 0]
<1>1. /\ client[c] \in Calls
      /\ UNCHANGED <<slot, failures, late>> /\ client' = [client EXCEPT ![c] = r]
    BY CallOf DEF Done
<1>a. 0 \in 0..MaxTimer
    BY TimesAre
<1>2. r \in Calls /\ r.pc = "release" /\ r.got = client[c].got
    BY <1>1, <1>a DEF Calls, PCs
<1> QED BY <1>1, <1>2, Waits

LEMMA CrashGoes ==
    ASSUME AllKnown, NEW c \in Clients, Crash(c)
    PROVE  Goes(c)
<1>1. client' = [client EXCEPT ![c] = Idle] /\ Idle \in Calls /\ Idle.got = {} /\ Idle.pc = "idle"
    BY IdleIsKnown, DomainsAssumption DEF Crash
<1>2. slot' = [i \in SlotIds |-> IF slot[i].holder = c
                                  THEN [slot[i] EXCEPT !.holder = Dead] ELSE slot[i]]
    BY DEF Crash
<1>3. failures' \in 0..MaxFailures /\ late' = late
    BY CallOf, TimesAre DEF Crash, Fails
<1>4. slot' \in [SlotIds -> Tokens]
    BY <1>2, CallOf DEF Tokens
<1>5. \A i \in SlotIds : \/ slot'[i] = slot[i] /\ slot[i].holder # c
                         \/ slot[i].holder = c /\ slot'[i].holder = Dead
    <2> TAKE i \in SlotIds
    <2>1. CASE slot[i].holder = c
        <3>1. slot'[i] = [slot[i] EXCEPT !.holder = Dead]
            BY <1>2, <2>1
        <3>2. slot[i] \in Tokens
            BY CallOf
        <3>3. slot'[i].holder = Dead
            BY <3>1, <3>2 DEF Tokens
        <3> QED BY <2>1, <3>3
    <2>2. CASE slot[i].holder # c
        BY <1>2, <2>2
    <2> QED BY <2>1, <2>2
<1>6. Moves(c, Idle)
    BY <1>1, <1>3, <1>4, <1>5 DEF Moves
<1>7. Known(c, Idle, slot') /\ Whole(c, Idle, slot')
    BY <1>1, <1>5, CallOf DEF Known, Whole
<1> QED BY <1>6, <1>7 DEF Goes

-----------------------------------------------------------------------------
(* Time                                                                      *)

LEMMA OlderIs ==
    ASSUME NEW r \in Calls
    PROVE  /\ Older(r) \in Calls /\ Older(r).pc = r.pc /\ Older(r).got = r.got
           /\ Older(r).key = r.key /\ Older(r).domain = r.domain
           /\ r.timer > 0 => Older(r).timer = r.timer - 1
<1> DEFINE w == IF r.pc \in {"idle", "hold", "release"} \/ r.waited = Timeout
                THEN r.waited ELSE r.waited + 1
           t == IF r.timer > 0 THEN r.timer - 1 ELSE 0
<1>1. r.waited \in 0..Timeout /\ r.timer \in 0..MaxTimer
    BY DEF Calls
<1>2. w \in 0..Timeout /\ t \in 0..MaxTimer /\ (r.timer > 0 => t = r.timer - 1)
    BY <1>1, TimesAre
<1>3. Older(r) = [r EXCEPT !.waited = w, !.timer = t]
    BY DEF Older
<1> HIDE DEF w, t
<1> QED BY <1>2, <1>3 DEF Calls

LEMMA TickSlots ==
    ASSUME AllKnown, Tick
    PROVE  /\ slot' \in [SlotIds -> Tokens]
           /\ \A i \in SlotIds : /\ slot'[i].holder \in {slot[i].holder, Free}
                                 /\ slot[i].left > 1 => /\ slot'[i].holder = slot[i].holder
                                                        /\ slot'[i].left = slot[i].left - 1
                                 /\ slot'[i].holder # slot[i].holder => slot[i].left = 1
<1> SUFFICES ASSUME NEW i \in SlotIds
             PROVE  /\ slot'[i] \in Tokens
                    /\ slot'[i].holder \in {slot[i].holder, Free}
                    /\ slot[i].left > 1 => /\ slot'[i].holder = slot[i].holder
                                           /\ slot'[i].left = slot[i].left - 1
                    /\ slot'[i].holder # slot[i].holder => slot[i].left = 1
    BY DEF Tick
<1>1. slot[i] \in Tokens
    BY DEF AllKnown, Typed
<1>2. slot'[i] = IF slot[i].left = 1 THEN NoToken
                 ELSE IF slot[i].left > 1 THEN [slot[i] EXCEPT !.left = slot[i].left - 1]
                 ELSE slot[i]
    BY DEF Tick
<1>3. slot[i].left \in 0..Ttl /\ Ttl \in Nat
    BY <1>1, LimitsAssumption DEF Tokens
<1>4. CASE slot[i].left > 1
    BY <1>1, <1>2, <1>3, <1>4 DEF Tokens
<1>5. CASE slot[i].left = 1
    BY <1>2, <1>5, NoTokenIs
<1>6. CASE slot[i].left = 0
    BY <1>1, <1>2, <1>6
<1> QED BY <1>3, <1>4, <1>5, <1>6

LEMMA TickKeeps ==
    ASSUME AllKnown, Tick
    PROVE  AllKnown' /\ (Beat < Ttl /\ AllWhole => AllWhole')
<1>1. slot' \in [SlotIds -> Tokens] /\ \A i \in SlotIds : slot'[i].holder \in {slot[i].holder, Free}
    BY TickSlots
<1>2. \A c \in Clients : client[c] \in Calls /\ client'[c] = Older(client[c])
    BY CallOf DEF Tick
<1>3. Typed'
    <2>1. client' \in [Clients -> Calls]
        BY <1>2, OlderIs DEF Tick
    <2>2. late' \in BOOLEAN /\ failures' \in 0..MaxFailures
        BY DEF Tick, AllKnown, Typed
    <2> QED BY <1>1, <2>1, <2>2 DEF Typed
<1>4. ASSUME NEW c \in Clients
      PROVE  Known(c, client'[c], slot')
    <2>1. \A i \in SlotIds : slot'[i].holder = c => slot[i].holder = c
        BY <1>1, CallOf
    <2> QED BY <1>2, <2>1, OlderIs, CallOf DEF Known
<1>5. ASSUME Beat < Ttl, AllWhole, ~ late', NEW c \in Clients
      PROVE  Whole(c, client'[c], slot')
    <2>1. ~ late /\ InTime(c)
        BY <1>5 DEF Tick
    <2>2. CASE client[c].pc # "hold"
        <3>1. client[c].pc \notin {"try", "hold"}
            BY <2>1, <2>2 DEF InTime
        <3> QED BY <1>2, <3>1, OlderIs DEF Whole
    <2>3. CASE client[c].pc = "hold"
        <3>1. client[c].timer > 0 /\ client[c].timer \in Nat /\ client[c].got \subseteq SlotIds
            BY <1>2, <2>1, <2>3, TimesAre DEF InTime, Calls
        <3>2. /\ client'[c].got = client[c].got /\ client'[c].pc = "hold"
              /\ client'[c].timer = client[c].timer - 1
            BY <1>2, <2>3, <3>1, OlderIs
        <3>3. Whole(c, client[c], slot)
            BY <1>5, <2>1 DEF AllWhole
        <3>4. ASSUME NEW i \in client[c].got
              PROVE  slot'[i].holder = c /\ slot'[i].left = Ttl - Beat + client'[c].timer
            <4>1. i \in SlotIds /\ slot[i].holder = c /\ slot[i].left = Ttl - Beat + client[c].timer
                BY <2>3, <3>1, <3>3, <3>4 DEF Whole
            <4>2. slot[i].left > 1
                BY <1>5, <3>1, <4>1, BeatIsPositive, LimitsAssumption
            <4>3. slot'[i].holder = c /\ slot'[i].left = slot[i].left - 1
                BY <4>1, <4>2, TickSlots
            <4> QED BY <3>1, <3>2, <4>1, <4>3, BeatIsPositive, LimitsAssumption
        <3> QED BY <3>2, <3>4 DEF Whole
    <2> QED BY <2>2, <2>3
<1> QED BY <1>3, <1>4, <1>5 DEF AllKnown, AllWhole

-----------------------------------------------------------------------------
(* All steps                                                                 *)

LEMMA StepOfGoes ==
    ASSUME AllKnown, NEW c \in Clients, Step(c)
    PROVE  Goes(c)
<1>1. CASE Loop(c)
    BY <1>1, LoopGoes
<1>2. CASE Try(c)
    BY <1>2, TryWins, TryLoses
<1>3. CASE GaveBack(c)
    BY <1>3, GaveBackGoes
<1>4. CASE DelayOver(c)
    BY <1>4, DelayOverGoes
<1>5. CASE Renew(c)
    BY <1>5, RenewGoes
<1>6. ASSUME NEW i \in SlotIds, GiveBack(c, i) PROVE Goes(c)
    BY <1>6, GiveBackGoes
<1> QED BY <1>1, <1>2, <1>3, <1>4, <1>5, <1>6 DEF Step

\* A step that is not Tick is one of a client that Goes.
LEMMA StepGoes ==
    ASSUME AllKnown, Next
    PROVE  Tick \/ \E c \in Clients : Goes(c)
<1>1. ASSUME NEW c \in Clients, NEW d \in Domains, Begin(c, d) PROVE Goes(c)
    BY <1>1, BeginGoes
<1>2. ASSUME NEW c \in Clients, Step(c) PROVE Goes(c)
    BY <1>2, StepOfGoes
<1>3. ASSUME NEW c \in Clients, Done(c) PROVE Goes(c)
    BY <1>3, DoneGoes
<1>4. ASSUME NEW c \in Clients, TryThrows(c) PROVE Goes(c)
    BY <1>4, TryThrowsGoes
<1>5. ASSUME NEW c \in Clients, Crash(c) PROVE Goes(c)
    BY <1>5, CrashGoes
<1>6. ASSUME NEW c \in Clients, NEW i \in SlotIds, GiveBackThrows(c, i) PROVE Goes(c)
    BY <1>6, GiveBackThrowsGoes
<1> QED BY <1>1, <1>2, <1>3, <1>4, <1>5, <1>6 DEF Next

LEMMA NextKnown ==
    ASSUME AllKnown, [Next]_vars
    PROVE  AllKnown' /\ (Beat < Ttl /\ AllWhole => AllWhole')
<1>1. CASE Tick
    BY <1>1, TickKeeps
<1>2. ASSUME NEW c \in Clients, Goes(c)
      PROVE  AllKnown' /\ (AllWhole => AllWhole')
    <2>1. PICK r : /\ Moves(c, r) /\ Known(c, r, slot')
                   /\ Whole(c, client[c], slot) => Whole(c, r, slot')
        BY <1>2 DEF Goes
    <2> QED BY <2>1, OneMoves
<1>3. CASE UNCHANGED vars
    BY <1>3 DEF vars, AllKnown, Typed, AllWhole
<1> QED BY <1>1, <1>2, <1>3, StepGoes

LEMMA AlwaysKnown == Spec => []AllKnown
<1>1. Init => AllKnown
    BY KnownInit
<1>2. AllKnown /\ [Next]_vars => AllKnown'
    BY NextKnown
<1> QED BY <1>1, <1>2, PTL DEF Spec

\* Slots, loop variables, deadlines and timers of the limiter stay in their ranges.
THEOREM TypeCorrect == Spec => []TypeOK
<1>1. AllKnown => TypeOK
    <2> SUFFICES ASSUME AllKnown PROVE TypeOK
        OBVIOUS
    <2>1. /\ slot \in [SlotIds -> [holder : Clients \cup {Free, Dead}, left : 0..Ttl]]
          /\ failures \in 0..MaxFailures /\ late \in BOOLEAN
        BY DEF AllKnown, Typed, Tokens
    <2>2. ASSUME NEW c \in Clients
          PROVE  /\ client[c].pc \in PCs /\ client[c].domain \in Domains
                 /\ client[c].key \in {"global", client[c].domain}
                 /\ client[c].attempt \in 0..(Limit(client[c].key) - 1)
                 /\ client[c].got \subseteq SlotIds /\ client[c].broken \in BOOLEAN
                 /\ client[c].waited \in 0..Timeout
                 /\ client[c].timer \in 0..(IF Beat < Poll THEN Poll ELSE Beat)
        <3>1. client[c] \in Calls
            BY CallOf
        <3>2. client[c].key \in Keys /\ client[c].attempt < Limit(client[c].key)
              /\ client[c].attempt \in 0..(GlobalLimit + DomainLimit)
            BY <3>1 DEF Calls
        <3>3. client[c].attempt \in 0..(Limit(client[c].key) - 1)
            BY <3>2, TimesAre
        <3> QED BY <3>1, <3>3 DEF Calls, MaxTimer
    <2> QED BY <2>1, <2>2 DEF TypeOK
<1> QED BY <1>1, AlwaysKnown, PTL

\* A waiting call of acquire, or one that has thrown, holds no slot: a round that
\* fails gives everything back, whatever Redis does meanwhile.
THEOREM WaitersFree == Spec => []WaitersHoldNothing
<1>1. AllKnown => WaitersHoldNothing
    BY DEF AllKnown, Known, WaitersHoldNothing
<1> QED BY <1>1, AlwaysKnown, PTL

LEMMA NextOwn ==
    ASSUME AllKnown, [Next]_vars, NEW i \in SlotIds, NEW c \in Clients,
           slot[i].holder = c, slot'[i].holder # c
    PROVE  \/ slot[i].left = 1 \/ client'[c].pc = "idle"
           \/ i \in client[c].got \ client'[c].got
<1>1. CASE Tick
    BY <1>1, TickSlots
<1>2. CASE UNCHANGED vars
    BY <1>2 DEF vars
<1>3. ASSUME NEW d \in Clients, Goes(d)
      PROVE  client'[c].pc = "idle" \/ i \in client[c].got \ client'[c].got
    <2>1. PICK r : Moves(d, r) /\ Known(d, r, slot')
        BY <1>3 DEF Goes
    <2>2. d = c /\ (r.pc = "idle" \/ i \notin r.got)
        BY <2>1, CallOf DEF Moves
    <2>3. client'[c] = r
        BY <2>1, <2>2 DEF Moves, AllKnown, Typed
    <2>4. i \in client[c].got
        BY CallOf DEF Known
    <2> QED BY <2>2, <2>3, <2>4
<1> QED BY <1>1, <1>2, <1>3, StepGoes

\* No release, undo or crash takes away the slot of another lease, even after the
\* slot of the one that releases has expired and been taken again.
THEOREM SlotsAreOnesOwn == Spec => OwnSlotOnly
<1>1. AllKnown /\ [Next]_vars =>
        [\A i \in SlotIds, c \in Clients :
           (slot[i].holder = c /\ slot'[i].holder # c)
           => slot[i].left = 1 \/ client'[c].pc = "idle" \/ i \in client[c].got \ client'[c].got]_vars
    BY NextOwn
<1> QED BY <1>1, AlwaysKnown, PTL DEF Spec, OwnSlotOnly

-----------------------------------------------------------------------------
(* Expiry                                                                    *)

\* Every slot that is taken will expire: SET gives it a TTL, PEXPIRE a new one, and
\* a death, or a DEL that throws, leaves it the one it had.
HeldExpires == \A i \in SlotIds : slot[i].holder # Free => slot[i].left \in 1..Ttl

\* What a step other than Tick can make of a slot.
LEMMA SlotBecomes ==
    ASSUME AllKnown, Next, ~ Tick, NEW i \in SlotIds
    PROVE  \/ slot'[i] = slot[i] \/ slot'[i] = NoToken
           \/ \E h \in Clients \cup {Dead} : slot'[i] = Token(h)
           \/ slot[i].holder # Free /\ slot'[i] = [slot[i] EXCEPT !.holder = Dead]
           \/ slot'[i] = [slot[i] EXCEPT !.left = Ttl]
<1> DEFINE Becomes == \/ slot'[i] = slot[i] \/ slot'[i] = NoToken
                      \/ \E h \in Clients \cup {Dead} : slot'[i] = Token(h)
                      \/ slot[i].holder # Free /\ slot'[i] = [slot[i] EXCEPT !.holder = Dead]
                      \/ slot'[i] = [slot[i] EXCEPT !.left = Ttl]
<1>1. slot \in [SlotIds -> Tokens] /\ \A c \in Clients : c # Free
    BY ClientsAssumption DEF AllKnown, Typed
<1>2. ASSUME NEW c \in Clients, Try(c) \/ TryThrows(c) PROVE Becomes
    <2> DEFINE j == <<client[c].key, client[c].attempt>>
    <2>1. \/ slot' = slot
          \/ \E h \in Clients \cup {Dead} : slot' = [slot EXCEPT ![j] = Token(h)]
        BY <1>2 DEF Try, TryThrows
    <2> HIDE DEF j
    <2> QED BY <1>1, <2>1
<1>3. ASSUME NEW c \in Clients, NEW j \in SlotIds, GiveBack(c, j) PROVE Becomes
    BY <1>1, <1>3 DEF GiveBack, Given
<1>4. ASSUME NEW c \in Clients, NEW j \in SlotIds, GiveBackThrows(c, j) PROVE Becomes
    <2>1. slot' = IF slot[j].holder = c THEN [slot EXCEPT ![j].holder = Dead] ELSE slot
        BY <1>4 DEF GiveBackThrows
    <2>2. \/ slot' = slot
          \/ slot[j].holder = c /\ slot' = [slot EXCEPT ![j].holder = Dead]
        BY <2>1
    <2> QED BY <1>1, <2>2
<1>5. ASSUME NEW c \in Clients, Renew(c) PROVE Becomes
    BY <1>1, <1>5 DEF Renew
<1>6. ASSUME NEW c \in Clients, Crash(c) PROVE Becomes
    BY <1>1, <1>6 DEF Crash
<1>7. CASE UNCHANGED slot
    BY <1>7
<1> QED
    BY <1>2, <1>3, <1>4, <1>5, <1>6, <1>7
    DEF Next, Step, Begin, Loop, GaveBack, DelayOver, Done

LEMMA NextExpires ==
    ASSUME AllKnown, HeldExpires, [Next]_vars
    PROVE  HeldExpires'
<1> SUFFICES ASSUME NEW i \in SlotIds, slot'[i].holder # Free
             PROVE  slot'[i].left \in 1..Ttl
    BY DEF HeldExpires
<1>1. /\ slot[i] \in Tokens /\ slot'[i] \in Tokens /\ Ttl \in Nat \ {0}
      /\ slot[i].holder # Free => slot[i].left \in 1..Ttl
    BY NextKnown, LimitsAssumption DEF AllKnown, Typed, HeldExpires
<1>2. CASE Tick
    <2>1. slot[i].left # 1
        BY <1>1, <1>2, NoTokenIs DEF Tick
    <2>2. slot'[i] = IF slot[i].left > 1 THEN [slot[i] EXCEPT !.left = slot[i].left - 1]
                     ELSE slot[i]
        BY <1>2, <2>1 DEF Tick
    <2> QED BY <1>1, <2>1, <2>2 DEF Tokens
<1>3. CASE Next /\ ~ Tick
    <2>1. \/ slot'[i] = slot[i] \/ slot'[i] = NoToken
          \/ \E h \in Clients \cup {Dead} : slot'[i] = Token(h)
          \/ slot[i].holder # Free /\ slot'[i] = [slot[i] EXCEPT !.holder = Dead]
          \/ slot'[i] = [slot[i] EXCEPT !.left = Ttl]
        BY <1>3, SlotBecomes
    <2>2. ASSUME NEW h \in Clients \cup {Dead}, slot'[i] = Token(h)
          PROVE  slot'[i].left \in 1..Ttl
        BY <1>1, <2>2 DEF Token
    <2>3. CASE slot[i].holder # Free /\ slot'[i] = [slot[i] EXCEPT !.holder = Dead]
        BY <1>1, <2>3 DEF Tokens
    <2>4. CASE slot'[i] = [slot[i] EXCEPT !.left = Ttl]
        BY <1>1, <2>4 DEF Tokens
    <2> QED BY <1>1, <2>1, <2>2, <2>3, <2>4, NoTokenIs
<1>4. CASE UNCHANGED vars
    BY <1>1, <1>4 DEF vars
<1> QED BY <1>2, <1>3, <1>4

\* Whatever Redis and the workers do, no slot is in Redis without expiry.
THEOREM SlotsAlwaysExpire == Spec => []HeldExpires
<1>1. Init => HeldExpires
    BY NoTokenIs DEF Init, HeldExpires
<1>2. AllKnown /\ HeldExpires /\ [Next]_vars => HeldExpires'
    BY NextExpires
<1> QED BY <1>1, <1>2, AlwaysKnown, PTL DEF Spec

LEMMA NextOrphan ==
    ASSUME AllKnown, HeldExpires, [Next]_vars, NEW i \in SlotIds, slot[i].holder = Dead
    PROVE  /\ slot'[i].holder \in {Dead, Free}
           /\ slot'[i].left <= slot[i].left
           /\ Tick => slot'[i].left = slot[i].left - 1
<1>1. /\ slot[i] \in Tokens /\ slot[i].left \in 1..Ttl /\ Ttl \in Nat \ {0}
    BY ClientsAssumption, LimitsAssumption DEF AllKnown, Typed, HeldExpires
<1>2. CASE Tick
    <2>1. slot'[i] = IF slot[i].left = 1 THEN NoToken
                     ELSE IF slot[i].left > 1 THEN [slot[i] EXCEPT !.left = slot[i].left - 1]
                     ELSE slot[i]
        BY <1>2 DEF Tick
    <2> QED BY <1>1, <2>1 DEF NoToken, Tokens
<1>3. CASE slot'[i] = slot[i]
    BY <1>1, <1>2, <1>3
<1>4. ASSUME NEW c \in Clients, Goes(c) PROVE slot'[i] = slot[i]
    BY <1>4, CallOf, ClientsAssumption DEF Goes, Moves
<1>5. CASE UNCHANGED vars
    BY <1>3, <1>5 DEF vars
<1> QED BY <1>2, <1>3, <1>4, <1>5, StepGoes

\* A slot whose client has died, or whose DEL or SET has thrown, is free again after
\* at most Ttl ticks: no step renews or deletes it, or puts another token in its
\* place, and each tick takes one from what it has left.
OrphansRunDown ==
    [][\A i \in SlotIds : slot[i].holder = Dead =>
         /\ slot'[i].holder \in {Dead, Free}
         /\ slot'[i].left <= slot[i].left
         /\ Tick => slot'[i].left = slot[i].left - 1]_vars

THEOREM OrphanedSlotsExpire == Spec => OrphansRunDown
<1>1. AllKnown /\ HeldExpires /\ [Next]_vars =>
        [\A i \in SlotIds : slot[i].holder = Dead =>
           /\ slot'[i].holder \in {Dead, Free}
           /\ slot'[i].left <= slot[i].left
           /\ Tick => slot'[i].left = slot[i].left - 1]_vars
    BY NextOrphan
<1> QED BY <1>1, AlwaysKnown, SlotsAlwaysExpire, PTL DEF Spec, OrphansRunDown

-----------------------------------------------------------------------------
(* The end of acquire                                                        *)

Acquiring(r) == r.pc \in {"loop", "try", "undo", "delay"}

\* What a call of acquire has left: its time, a delay that is on counted as spent; the
\* places of a round to come, of the last round when the time is over; and in its place
\* the SETs, the releases or the ticks of the delay.
TimeLeft(r) ==
    LET spent == IF r.pc = "delay" THEN r.waited + r.timer ELSE r.waited IN
    IF spent < Timeout THEN Timeout - spent ELSE 0

Turn(r) ==
    CASE r.pc = "undo"  -> IF TimeLeft(r) > 0 THEN 0 ELSE 2
      [] r.pc = "try"   -> IF TimeLeft(r) > 0 THEN 1 ELSE 3
      [] r.pc = "loop"  -> IF TimeLeft(r) > 0 THEN 2 ELSE 0
      [] r.pc = "delay" -> IF TimeLeft(r) > 0 THEN 3 ELSE 1

Rest(r) ==
    CASE r.pc = "undo"  -> Cardinality(r.got)
      [] r.pc = "try"   -> IF r.key = "global" THEN GlobalLimit - r.attempt + DomainLimit
                           ELSE DomainLimit - r.attempt
      [] r.pc = "loop"  -> 0
      [] r.pc = "delay" -> r.timer

\* q has less left than r.
Less(q, r) ==
    \/ TimeLeft(q) < TimeLeft(r)
    \/ TimeLeft(q) = TimeLeft(r) /\ Turn(q) < Turn(r)
    \/ TimeLeft(q) = TimeLeft(r) /\ Turn(q) = Turn(r) /\ Rest(q) < Rest(r)

Same(q, r) == TimeLeft(q) = TimeLeft(r) /\ Turn(q) = Turn(r) /\ Rest(q) = Rest(r)

\* The calls whose slots can be counted.
Counted == {r \in Calls : IsFiniteSet(r.got)}

LEMMA CallFields ==
    ASSUME NEW r \in Calls
    PROVE  /\ r.pc \in PCs /\ r.waited \in 0..Timeout /\ r.timer \in Nat /\ r.attempt \in Nat
           /\ r.key \in {"global", r.domain} /\ r.domain \in Domains /\ r.domain # "global"
           /\ r.key = "global" => r.attempt < GlobalLimit
           /\ r.key # "global" => r.attempt < DomainLimit
           /\ r.got \subseteq SlotIds /\ r.broken \in BOOLEAN
           /\ Timeout \in Nat \ {0} /\ Poll \in Nat \ {0}
           /\ GlobalLimit \in Nat \ {0} /\ DomainLimit \in Nat \ {0}
<1>1. /\ r.pc \in PCs /\ r.waited \in 0..Timeout /\ r.timer \in 0..MaxTimer
      /\ r.attempt \in 0..(GlobalLimit + DomainLimit) /\ r.broken \in BOOLEAN
      /\ r.key \in {"global", r.domain} /\ r.domain \in Domains
      /\ r.attempt < Limit(r.key) /\ r.got \subseteq SlotIds
    BY DEF Calls
<1> QED BY <1>1, TimesAre, LimitsAssumption, DomainsAssumption DEF Limit

\* The measure is one of natural numbers.
LEMMA LeftIs ==
    ASSUME NEW r \in Counted, Acquiring(r)
    PROVE  TimeLeft(r) \in 0..Timeout /\ Turn(r) \in 0..3 /\ Rest(r) \in Nat
<1>1. Cardinality(r.got) \in Nat
    BY FS_CardinalityType DEF Counted
<1>2. r \in Calls
    BY DEF Counted
<1>3. TimeLeft(r) \in 0..Timeout
    BY <1>2, CallFields DEF TimeLeft
<1>4. Turn(r) \in 0..3
    BY <1>3 DEF Turn, Acquiring
<1>5. Rest(r) \in Nat
    BY <1>1, <1>2, CallFields DEF Rest, Acquiring
<1> QED BY <1>3, <1>4, <1>5

\* A place further in the round, with the time it was at.
LEMMA NextPlace ==
    ASSUME NEW r \in Counted, NEW q \in Counted, q.waited = r.waited,
           \/ r.pc = "loop" /\ q.pc = "try" /\ r.waited < Timeout
           \/ r.pc = "try" /\ q.pc = "undo"
           \/ r.pc = "undo" /\ q.pc = "delay" /\ q.timer = Poll
           \/ r.pc = "delay" /\ q.pc = "loop" /\ r.timer = 0
    PROVE  Less(q, r)
<1>1. /\ r.waited \in 0..Timeout /\ Timeout \in Nat \ {0} /\ Poll \in Nat \ {0}
    BY CallFields DEF Counted
<1>2. CASE r.pc = "loop"
    BY <1>1, <1>2 DEF Less, TimeLeft, Turn
<1>3. CASE r.pc = "try"
    BY <1>1, <1>3 DEF Less, TimeLeft, Turn
<1>4. CASE r.pc = "undo"
    BY <1>1, <1>4 DEF Less, TimeLeft, Turn
<1>5. CASE r.pc = "delay"
    BY <1>1, <1>5 DEF Less, TimeLeft, Turn
<1> QED BY <1>2, <1>3, <1>4, <1>5

\* The same place, with less to do there.
LEMMA SamePlace ==
    ASSUME NEW r \in Counted, NEW q \in Counted, q.waited = r.waited, q.pc = r.pc,
           \/ r.pc = "undo" /\ Cardinality(q.got) < Cardinality(r.got)
           \/ r.pc = "try" /\ q.key = r.key /\ q.attempt = r.attempt + 1
           \/ r.pc = "try" /\ r.key = "global" /\ q.key # "global" /\ q.attempt = 0
    PROVE  Less(q, r)
<1>1. /\ r.waited \in 0..Timeout /\ Timeout \in Nat \ {0} /\ r.attempt \in Nat /\ q.attempt \in Nat
      /\ r.key = "global" => r.attempt < GlobalLimit
      /\ GlobalLimit \in Nat /\ DomainLimit \in Nat
    BY CallFields DEF Counted
<1>2. TimeLeft(q) = TimeLeft(r) /\ Turn(q) = Turn(r)
    BY DEF TimeLeft, Turn
<1>3. Rest(q) < Rest(r)
    BY <1>1 DEF Rest
<1> QED BY <1>2, <1>3 DEF Less

\* Time that goes on.
LEMMA OlderHasLess ==
    ASSUME NEW r \in Counted, Acquiring(r)
    PROVE  Less(Older(r), r) \/ Same(Older(r), r)
<1> SUFFICES ASSUME NEW q, q = Older(r) PROVE Less(q, r) \/ Same(q, r)
    OBVIOUS
<1>1. /\ r \in Calls /\ r.waited \in 0..Timeout /\ r.timer \in Nat /\ Timeout \in Nat \ {0}
    BY CallFields DEF Counted
<1>2. /\ q.pc = r.pc /\ q.got = r.got /\ q.key = r.key /\ q.attempt = r.attempt
      /\ q.waited = IF r.waited = Timeout THEN r.waited ELSE r.waited + 1
      /\ q.timer = IF r.timer > 0 THEN r.timer - 1 ELSE 0
    BY <1>1 DEF Older, Calls, Acquiring
<1>3. CASE r.pc # "delay"
    <2>1. Rest(q) = Rest(r)
        BY <1>2, <1>3 DEF Rest, Acquiring
    <2>2. CASE r.waited < Timeout
        BY <1>1, <1>2, <1>3, <2>2 DEF Less, TimeLeft
    <2>3. CASE r.waited = Timeout
        <3>1. TimeLeft(q) = TimeLeft(r)
            BY <1>2, <1>3, <2>3 DEF TimeLeft
        <3> QED BY <1>2, <2>1, <3>1 DEF Same, Turn
    <2> QED BY <1>1, <2>2, <2>3
<1>4. CASE r.pc = "delay"
    <2>1. CASE r.timer > 0
        <3>1. TimeLeft(q) <= TimeLeft(r) /\ TimeLeft(q) \in Nat /\ TimeLeft(r) \in Nat
            BY <1>1, <1>2, <1>4, <2>1 DEF TimeLeft
        <3>2. Rest(q) < Rest(r)
            BY <1>1, <1>2, <1>4, <2>1 DEF Rest
        <3>3. TimeLeft(q) = TimeLeft(r) => Turn(q) = Turn(r)
            BY <1>2, <1>4 DEF Turn
        <3> QED BY <3>1, <3>2, <3>3 DEF Less
    <2>2. CASE r.timer = 0
        <3>1. Rest(q) = Rest(r)
            BY <1>2, <1>4, <2>2 DEF Rest
        <3>2. CASE r.waited < Timeout
            BY <1>1, <1>2, <1>4, <2>2, <3>2 DEF Less, TimeLeft
        <3>3. CASE r.waited = Timeout
            <4>1. TimeLeft(q) = TimeLeft(r)
                BY <1>1, <1>2, <1>4, <2>2, <3>3 DEF TimeLeft
            <4> QED BY <1>2, <1>4, <3>1, <4>1 DEF Same, Turn
        <3> QED BY <1>1, <3>2, <3>3
    <2> QED BY <1>1, <2>1, <2>2
<1> QED BY <1>3, <1>4

\* A step changes a client's slots by one at most, or gives up all of them.
LEMMA GotStep ==
    ASSUME AllKnown, Next, NEW c \in Clients
    PROVE  \/ client'[c].got \in {client[c].got, {}}
           \/ \E i : client'[c].got \in {client[c].got \cup {i}, client[c].got \ {i}}
<1> DEFINE Moved == \/ client'[c].got \in {client[c].got, {}}
                    \/ \E i : client'[c].got \in {client[c].got \cup {i}, client[c].got \ {i}}
<1>1. client \in [Clients -> Calls] /\ client[c] \in Calls /\ Idle.got = {}
    BY DEF AllKnown, Typed, Idle
<1>2. ASSUME NEW r, client'[c] = r, r.got = client[c].got \/ r.got = {} PROVE Moved
    BY <1>2
<1>3. ASSUME NEW d \in Clients, d # c, NEW r, client' = [client EXCEPT ![d] = r] PROVE Moved
    BY <1>1, <1>3
<1>4. CASE \E x \in Domains : Begin(c, x)
    <2>1. PICK x \in Domains : client' = [client EXCEPT ![c] = [Idle EXCEPT !.pc = "loop", !.domain = x]]
        BY <1>4 DEF Begin
    <2>2. [Idle EXCEPT !.pc = "loop", !.domain = x].got = {}
        BY DEF Idle
    <2> QED BY <1>1, <2>1, <2>2
<1>5. CASE Loop(c) \/ GaveBack(c) \/ DelayOver(c) \/ Renew(c) \/ Done(c) \/ Crash(c)
    <2>1. CASE Loop(c)
        BY <1>1, <2>1 DEF Loop, Calls
    <2>2. CASE GaveBack(c)
        <3>1. client'[c] \in {[client[c] EXCEPT !.pc = "delay", !.timer = Poll], Idle}
            BY <1>1, <2>2 DEF GaveBack
        <3> QED BY <1>1, <3>1 DEF Calls
    <2>3. CASE DelayOver(c) \/ Renew(c)
        BY <1>1, <2>3 DEF DelayOver, Renew, Calls
    <2>4. CASE Done(c)
        BY <1>1, <2>4 DEF Done, Calls
    <2>5. CASE Crash(c)
        BY <1>1, <2>5 DEF Crash
    <2> QED BY <1>5, <2>1, <2>2, <2>3, <2>4, <2>5
<1>6. CASE Try(c)
    <2> DEFINE i == <<client[c].key, client[c].attempt>>
    <2>1. client'[c] \in {Won(client[c], i), Lost(client[c])}
        BY <1>1, <1>6 DEF Try
    <2>2. Won(client[c], i).got = client[c].got \cup {i}
        BY <1>1 DEF Won, Calls, Idle
    <2>3. Lost(client[c]).got = client[c].got
        BY <1>1 DEF Lost, Undo, Calls
    <2> HIDE DEF i
    <2> QED BY <2>1, <2>2, <2>3
<1>7. CASE TryThrows(c)
    BY <1>1, <1>7, UndoIs DEF TryThrows
<1>8. CASE \E i \in SlotIds : GiveBack(c, i) \/ GiveBackThrows(c, i)
    <2>1. PICK i \in SlotIds : GiveBack(c, i) \/ GiveBackThrows(c, i)
        BY <1>8
    <2>2. client'[c].got = client[c].got \ {i}
        BY <1>1, <2>1 DEF GiveBack, GiveBackThrows, Calls
    <2> QED BY <2>2
<1>9. CASE Tick
    BY <1>1, <1>9, OlderIs DEF Tick
<1>10. CASE \E d \in Clients : d # c /\ \/ Step(d) \/ Done(d) \/ TryThrows(d) \/ Crash(d)
                                        \/ \E x \in Domains : Begin(d, x)
                                        \/ \E i \in SlotIds : GiveBackThrows(d, i)
    <2>1. PICK d \in Clients : d # c /\ Goes(d)
        BY <1>10, DoneGoes, TryThrowsGoes, CrashGoes, BeginGoes, GiveBackThrowsGoes,
           StepOfGoes
    <2>2. PICK r : client' = [client EXCEPT ![d] = r]
        BY <2>1 DEF Goes, Moves
    <2> QED BY <1>3, <2>1, <2>2
<1> QED BY <1>4, <1>5, <1>6, <1>7, <1>8, <1>9, <1>10 DEF Next, Step

AllCounted == \A c \in Clients : client[c] \in Counted

LEMMA NextCounted ==
    ASSUME AllKnown, AllCounted, [Next]_vars
    PROVE  AllCounted'
<1> SUFFICES ASSUME NEW c \in Clients PROVE client'[c] \in Counted
    BY DEF AllCounted
<1>1. client'[c] \in Calls /\ IsFiniteSet(client[c].got)
    BY NextKnown DEF AllKnown, Typed, AllCounted, Counted
<1>2. CASE Next
    <2>1. \/ client'[c].got \in {client[c].got, {}}
          \/ \E i : client'[c].got \in {client[c].got \cup {i}, client[c].got \ {i}}
        BY <1>2, GotStep
    <2>2. IsFiniteSet({}) /\ \A i : IsFiniteSet(client[c].got \cup {i})
                                    /\ IsFiniteSet(client[c].got \ {i})
        BY <1>1, FS_EmptySet, FS_AddElement, FS_RemoveElement
    <2> QED BY <1>1, <2>1, <2>2 DEF Counted
<1>3. CASE UNCHANGED vars
    BY <1>1, <1>3 DEF vars, Counted
<1> QED BY <1>2, <1>3

LEMMA AlwaysCounted == Spec => []AllCounted
<1>1. Init => AllCounted
    <2> SUFFICES ASSUME Init, NEW c \in Clients PROVE client[c] \in Counted
        BY DEF AllCounted
    <2>1. client[c] \in Calls /\ client[c].got = {}
        BY KnownInit, IdleIsKnown, DomainsAssumption DEF Init, AllKnown, Typed
    <2> QED BY <2>1, FS_EmptySet DEF Counted
<1>2. AllKnown /\ AllCounted /\ [Next]_vars => AllCounted'
    BY NextCounted
<1> QED BY <1>1, <1>2, AlwaysKnown, PTL DEF Spec

\* Its own step leaves a call of acquire less, or is its end: a lease or an error.
LEMMA StepSpends ==
    ASSUME AllKnown, AllCounted, NEW c \in Clients, Acquiring(client[c]),
           Step(c) \/ TryThrows(c) \/ (\E i \in SlotIds : GiveBackThrows(c, i)),
           client'[c] \in Counted
    PROVE  ~ Acquiring(client'[c]) \/ Less(client'[c], client[c])
<1> DEFINE r == client[c]
           q == client'[c]
           Spent == ~ Acquiring(q) \/ Less(q, r)
<1>1. /\ client \in [Clients -> Calls] /\ r \in Counted /\ q \in Counted /\ r \in Calls
    BY DEF AllKnown, Typed, AllCounted, Counted
<1>2. /\ r.pc \in PCs /\ r.pc \in {"loop", "try", "undo", "delay"} /\ r.timer \in Nat
      /\ r.waited \in 0..Timeout /\ Timeout \in Nat /\ r.domain # "global"
      /\ Idle.pc = "idle" /\ Acquiring(r)
    BY <1>1, CallFields DEF Acquiring, Idle
<1>3. CASE Loop(c)
    <2>1. CASE r.waited < Timeout
        <3>1. q.pc = "try" /\ q.waited = r.waited /\ r.pc = "loop"
            BY <1>1, <1>3, <2>1 DEF Loop, Calls
        <3> QED BY <1>1, <2>1, <3>1, NextPlace
    <2>2. CASE ~ (r.waited < Timeout)
        <3>1. q = Idle
            BY <1>1, <1>3, <2>2 DEF Loop
        <3> QED BY <1>2, <3>1 DEF Acquiring
    <2> QED BY <2>1, <2>2
<1>4. ASSUME r.pc = "try", q = Undo(r) PROVE Spent
    <2>1. q.pc = "undo" /\ q.waited = r.waited
        BY <1>1, <1>4 DEF Undo, Calls
    <2> QED BY <1>1, <1>4, <2>1, NextPlace
<1>5. CASE Try(c)
    <2> DEFINE i == <<r.key, r.attempt>>
    <2>1. r.pc = "try" /\ q \in {Won(r, i), Lost(r)}
        BY <1>1, <1>5 DEF Try
    <2>2. CASE q = Won(r, i) /\ r.key = "global"
        <3>1. q.pc = r.pc /\ q.waited = r.waited /\ q.key # "global" /\ q.attempt = 0
            BY <1>1, <1>2, <2>2 DEF Won, Calls
        <3> QED BY <1>1, <2>1, <2>2, <3>1, SamePlace
    <2>3. CASE q = Won(r, i) /\ r.key # "global"
        <3>1. q.pc = "hold"
            BY <2>3 DEF Won, Idle
        <3> QED BY <3>1 DEF Acquiring
    <2>4. CASE q = Lost(r) /\ r.attempt + 1 < Limit(r.key)
        <3>1. q.pc = r.pc /\ q.waited = r.waited /\ q.key = r.key /\ q.attempt = r.attempt + 1
            BY <1>1, <2>4 DEF Lost, Calls
        <3> QED BY <1>1, <2>1, <3>1, SamePlace
    <2>5. CASE q = Lost(r) /\ ~ (r.attempt + 1 < Limit(r.key))
        BY <1>4, <2>1, <2>5 DEF Lost
    <2> QED BY <2>1, <2>2, <2>3, <2>4, <2>5
<1>6. CASE TryThrows(c)
    BY <1>1, <1>4, <1>6 DEF TryThrows
<1>7. CASE \E i \in SlotIds : GiveBack(c, i) \/ GiveBackThrows(c, i)
    <2>1. PICK i \in SlotIds : GiveBack(c, i) \/ GiveBackThrows(c, i)
        BY <1>7
    <2>2. /\ r.pc = "undo" /\ i \in r.got /\ q.pc = r.pc /\ q.waited = r.waited
          /\ q.got = r.got \ {i}
        BY <1>1, <1>2, <2>1 DEF GiveBack, GiveBackThrows, Giving, Calls
    <2>3. Cardinality(q.got) < Cardinality(r.got)
        <3>1. IsFiniteSet(r.got) /\ Cardinality(r.got) \in Nat
            BY <1>1, FS_CardinalityType DEF Counted
        <3>2. Cardinality(r.got \ {i}) = Cardinality(r.got) - 1
            BY <2>2, <3>1, FS_RemoveElement
        <3> QED BY <2>2, <3>1, <3>2
    <2> QED BY <1>1, <2>2, <2>3, SamePlace
<1>8. CASE GaveBack(c)
    <2>1. r.pc = "undo"
        BY <1>2, <1>8 DEF GaveBack, Giving
    <2>2. CASE ~ r.broken
        <3>1. q = [r EXCEPT !.pc = "delay", !.timer = Poll]
            BY <1>1, <1>8, <2>1, <2>2 DEF GaveBack
        <3>2. q.pc = "delay" /\ q.timer = Poll /\ q.waited = r.waited
            BY <1>1, <3>1 DEF Calls
        <3> QED BY <1>1, <2>1, <3>2, NextPlace
    <2>3. CASE r.broken
        <3>1. q = Idle
            BY <1>1, <1>8, <2>1, <2>3 DEF GaveBack
        <3> QED BY <1>2, <3>1 DEF Acquiring
    <2> QED BY <2>2, <2>3
<1>9. CASE DelayOver(c)
    <2>1. r.pc = "delay" /\ r.timer = 0 /\ q.pc = "loop" /\ q.waited = r.waited
        BY <1>1, <1>9 DEF DelayOver, Calls
    <2> QED BY <1>1, <2>1, NextPlace
<1>10. ~ Renew(c)
    BY <1>2 DEF Renew
<1> QED BY <1>3, <1>5, <1>6, <1>7, <1>8, <1>9, <1>10 DEF Step

LEMMA NextSpends ==
    ASSUME AllKnown, AllCounted, [Next]_vars, NEW c \in Clients, Acquiring(client[c])
    PROVE  /\ ~ Acquiring(client'[c]) \/ Less(client'[c], client[c])
              \/ Same(client'[c], client[c])
           /\ Step(c) => ~ Acquiring(client'[c]) \/ Less(client'[c], client[c])
<1>1. client'[c] \in Counted
    BY NextCounted DEF AllCounted
<1>2. Step(c) => ~ Acquiring(client'[c]) \/ Less(client'[c], client[c])
    BY <1>1, StepSpends
<1>3. client'[c] = client[c] => Same(client'[c], client[c])
    BY DEF Same
<1>4. /\ client \in [Clients -> Calls] /\ client[c] \in Counted
      /\ client[c].pc \notin {"idle", "hold"}
    BY DEF AllKnown, Typed, AllCounted, Acquiring
<1> SUFFICES \/ ~ Acquiring(client'[c]) \/ Less(client'[c], client[c])
             \/ Same(client'[c], client[c])
    BY <1>2
<1>5. CASE TryThrows(c) \/ \E i \in SlotIds : GiveBackThrows(c, i)
    BY <1>1, <1>5, StepSpends
<1>6. CASE Crash(c)
    BY <1>4, <1>6 DEF Crash, Idle, Acquiring
<1>7. ASSUME NEW d \in Clients, d # c, Goes(d) PROVE client'[c] = client[c]
    BY <1>4, <1>7 DEF Goes, Moves
<1>8. CASE Tick
    BY <1>4, <1>8, OlderHasLess DEF Tick
<1>9. CASE UNCHANGED vars
    BY <1>3, <1>9 DEF vars
<1>10. ~ Done(c) /\ \A x \in Domains : ~ Begin(c, x)
    BY <1>4 DEF Done, Begin
<1>11. ASSUME NEW d \in Clients, d # c,
              \/ Step(d) \/ Done(d) \/ TryThrows(d) \/ Crash(d)
              \/ \E x \in Domains : Begin(d, x)
              \/ \E i \in SlotIds : GiveBackThrows(d, i)
       PROVE  client'[c] = client[c]
    BY <1>7, <1>11, DoneGoes, TryThrowsGoes, CrashGoes, BeginGoes, GiveBackThrowsGoes,
       StepOfGoes
<1> QED BY <1>2, <1>3, <1>5, <1>6, <1>8, <1>9, <1>10, <1>11 DEF Next

\* acquire comes to its end: each SET, release and turn of a call leaves it less, or is
\* the lease or the error it ends with, and nothing that Redis, time or the other clients
\* do leaves it more, however full the keys stay.
AcquireRunsDown ==
    [][\A c \in Clients : Acquiring(client[c]) =>
         /\ \/ ~ Acquiring(client'[c]) \/ Less(client'[c], client[c])
            \/ Same(client'[c], client[c])
         /\ Step(c) => ~ Acquiring(client'[c]) \/ Less(client'[c], client[c])]_vars

THEOREM AcquireSpends == Spec => AcquireRunsDown
<1>1. AllKnown /\ AllCounted /\ [Next]_vars =>
        [\A c \in Clients : Acquiring(client[c]) =>
           /\ \/ ~ Acquiring(client'[c]) \/ Less(client'[c], client[c])
              \/ Same(client'[c], client[c])
           /\ Step(c) => ~ Acquiring(client'[c]) \/ Less(client'[c], client[c])]_vars
    BY NextSpends
<1> QED BY <1>1, AlwaysKnown, AlwaysCounted, PTL DEF Spec, AcquireRunsDown

\* ... and what it has left are natural numbers, of which lexicographic descents are finite:
\* its time is one of the configured timeout, a round has four places.
THEOREM AcquireStaysBounded ==
    Spec => [](\A c \in Clients : Acquiring(client[c]) =>
                 /\ TimeLeft(client[c]) \in 0..Timeout /\ Turn(client[c]) \in 0..3
                 /\ Rest(client[c]) \in Nat)
<1>1. AllCounted =>
        \A c \in Clients : Acquiring(client[c]) =>
          /\ TimeLeft(client[c]) \in 0..Timeout /\ Turn(client[c]) \in 0..3
          /\ Rest(client[c]) \in Nat
    <2> SUFFICES ASSUME AllCounted, NEW c \in Clients, Acquiring(client[c])
                 PROVE  /\ TimeLeft(client[c]) \in 0..Timeout /\ Turn(client[c]) \in 0..3
                        /\ Rest(client[c]) \in Nat
        OBVIOUS
    <2>1. client[c] \in Counted
        BY DEF AllCounted
    <2> QED BY <2>1, LeftIs
<1> QED BY <1>1, AlwaysCounted, PTL

-----------------------------------------------------------------------------
(* Leases                                                                    *)

\* startHeartbeat's interval is shorter than the slots' TTL: true of any
\* slotTtlMs above its minimum of 1000 ms.
BeatTimely == Beat < Ttl

\* While no command or heartbeat is late, a fetch in progress has a slot of
\* "global" and one of its domain, both with its token.
THEOREM LeasesStayWhole ==
    ASSUME BeatTimely
    PROVE  Spec => []LeaseIsWhole
<1>1. Init => AllWhole
    BY KnownInit
<1>2. AllKnown /\ AllWhole /\ [Next]_vars => AllWhole'
    BY BeatTimely, NextKnown DEF BeatTimely
<1>3. AllKnown /\ AllWhole => LeaseIsWhole
    BY DEF AllKnown, AllWhole, Known, Whole, LeaseIsWhole
<1> QED BY <1>1, <1>2, <1>3, AlwaysKnown, PTL DEF Spec

\* Whole leases of a key are in different slots of it, of which there are Limit.
LEMMA WholeIsLimited ==
    ASSUME AllKnown, LeaseIsWhole
    PROVE  LimitRespected
<1> SUFFICES ASSUME ~ late, NEW k \in Keys
             PROVE  Cardinality(Users(k)) <= Limit(k)
    BY DEF LimitRespected
<1> DEFINE Has(c, n) == <<k, n>> \in SlotIds /\ slot[<<k, n>>].holder = c
           Numbers == 0..(Limit(k) - 1)
           f == [c \in Users(k) |-> CHOOSE n \in Numbers : Has(c, n)]
<1>1. Limit(k) \in Nat \ {0}
    BY TimesAre
<1>2. ASSUME NEW c \in Users(k)
      PROVE  \E n \in Numbers : Has(c, n)
    <2>1. c \in Clients /\ client[c].pc = "hold" /\ k \in {"global", client[c].domain}
        BY DEF Users
    <2>2. PICK i \in client[c].got : i[1] = k /\ slot[i].holder = c
        BY <2>1 DEF LeaseIsWhole
    <2>3. i \in SlotIds
        BY <2>1, CallOf DEF Calls
    <2>4. i = <<k, i[2]>> /\ i[2] \in 0..(GlobalLimit + DomainLimit) /\ i[2] < Limit(k)
        BY <2>2, <2>3 DEF SlotIds
    <2>5. i[2] \in Numbers
        BY <1>1, <2>4, TimesAre
    <2> QED BY <2>2, <2>3, <2>4, <2>5
<1>3. \A c \in Users(k) : f[c] \in Numbers /\ Has(c, f[c])
    BY <1>2
<1>4. \A c, d \in Users(k) : f[c] = f[d] => c = d
    BY <1>3
<1>5. f \in Injection(Users(k), Numbers)
    BY <1>3, <1>4 DEF Injection, IsInjective
<1>6. IsFiniteSet(Numbers) /\ Cardinality(Numbers) = Limit(k)
    BY <1>1, FS_Interval
<1> HIDE DEF Numbers, f
<1> QED BY <1>5, <1>6, FS_Injection

\* The limiter limits: while no command or heartbeat is late, the fetches of a domain,
\* and all fetches together, never outnumber their limit, whatever crashes or throws.
THEOREM LimitsHold ==
    ASSUME BeatTimely
    PROVE  Spec => []LimitRespected
<1>1. AllKnown /\ LeaseIsWhole => LimitRespected
    BY WholeIsLimited
<1> QED BY <1>1, AlwaysKnown, LeasesStayWhole, PTL
=============================================================================
