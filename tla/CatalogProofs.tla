--------------------------- MODULE CatalogProofs ----------------------------
(***************************************************************************)
(* Proofs about Catalog, for any number of processes, applications, domains *)
(* and handlers.                                                            *)
(***************************************************************************)
EXTENDS Catalog, TLAPS

-----------------------------------------------------------------------------
(* Types                                                                     *)

PCs == {"idle", "discover", "find", "insert", "save", "update", "csave", "cupdate"}
Handlers == [pc : PCs, copy : Links, domain : Domains \cup {NoDomain}, plain : BOOLEAN,
             dirty : SUBSET Columns]

\* What TypeOK does not say and its proof needs: a handler at work has its row, and
\* one that looks for a publisher is a refresh that was told a domain.
AtWork ==
    \A t \in Tasks :
        /\ task[t].pc # "idle" => app[App(t)] # NoRow
        /\ task[t].pc \in {"discover", "find", "insert"} => t[2] = "refresh"
        /\ task[t].pc \in {"find", "insert"} => task[t].domain \in Domains

Typed == TypeOK /\ AtWork

LEMMA HandlerOf ==
    ASSUME TypeOK, NEW t \in Tasks
    PROVE  /\ task[t] \in Handlers
           /\ App(t) \in Apps
BY TasksAssumption DEF TypeOK, Handlers, PCs, App

LEMMA IdleIsHandler == Idle \in Handlers /\ NoLink \in Links
BY DEF Idle, Handlers, PCs, NoLink, Links

\* A step that only moves one handler keeps the types, if where it goes is typed.
LEMMA HandlerMoves ==
    ASSUME Typed, NEW t \in Tasks, NEW r \in Handlers, To(t, r),
           UNCHANGED role,
           lost' \in [Losers -> 0..2],
           app' \in [Apps -> Links \cup {NoRow}],
           \A a \in Apps : app[a] # NoRow => app'[a] # NoRow,
           publisher' \in [Ids -> Domains \cup {NoRow}],
           r.pc # "idle" => app[App(t)] # NoRow,
           r.pc \in {"discover", "find", "insert"} => t[2] = "refresh",
           r.pc \in {"find", "insert"} => r.domain \in Domains
    PROVE  Typed'
<1>1. App(t) \in Apps /\ \A u \in Tasks : App(u) \in Apps
    BY HandlerOf DEF Typed
<1>2. TypeOK'
    BY DEF Typed, TypeOK, To, Handlers, PCs
<1>3. AtWork'
    <2> SUFFICES ASSUME NEW u \in Tasks
                 PROVE  /\ task'[u].pc # "idle" => app'[App(u)] # NoRow
                        /\ task'[u].pc \in {"discover", "find", "insert"} => u[2] = "refresh"
                        /\ task'[u].pc \in {"find", "insert"} => task'[u].domain \in Domains
        BY DEF AtWork, App
    <2>1. CASE u = t
        <3>1. task'[u] = r
            BY <2>1 DEF Typed, TypeOK, To
        <3> QED BY <1>1, <2>1, <3>1
    <2>2. CASE u # t
        <3>1. task'[u] = task[u]
            BY <2>2 DEF Typed, TypeOK, To
        <3> QED BY <1>1, <2>2, <3>1 DEF Typed, AtWork
    <2> QED BY <2>1, <2>2
<1> QED BY <1>2, <1>3 DEF Typed

\* A step of a process at its start does not touch the handlers.
LEMMA RoleMoves ==
    ASSUME Typed, UNCHANGED <<publisher, task>>,
           role' \in [Roles -> {"down", "insert", "up"}],
           lost' \in [Losers -> 0..2],
           app' \in [Apps -> Links \cup {NoRow}],
           \A a \in Apps : app[a] # NoRow => app'[a] # NoRow
    PROVE  Typed'
<1>1. TypeOK'
    BY DEF Typed, TypeOK
<1>2. AtWork'
    BY HandlerOf DEF Typed, AtWork, App
<1> QED BY <1>1, <1>2 DEF Typed

LEMMA LosesTyped ==
    ASSUME TypeOK, NEW x \in Losers, Loses(x)
    PROVE  lost' \in [Losers -> 0..2]
<1>1. lost[x] \in 0..2
    BY DEF TypeOK
<1>2. (IF lost[x] < 2 THEN lost[x] + 1 ELSE lost[x]) \in 0..2
    BY <1>1
<1> QED BY <1>2 DEF TypeOK, Loses

\* save writes a link.
LEMMA SavedIsLink ==
    ASSUME Typed, NEW t \in Tasks, task[t].pc # "idle"
    PROVE  Saved(t) \in Links
<1>1. task[t] \in Handlers /\ App(t) \in Apps
    BY HandlerOf DEF Typed
<1>2. app[App(t)] \in Links /\ task[t].copy \in Links
    BY <1>1 DEF Typed, TypeOK, AtWork, Handlers
<1>3. Saved(t) = [pub |-> IF "pub" \in task[t].dirty THEN task[t].copy.pub
                                                     ELSE app[App(t)].pub,
                  domain |-> IF "domain" \in task[t].dirty THEN task[t].copy.domain
                                                           ELSE app[App(t)].domain]
    BY DEF Saved, Columns
<1> QED BY <1>2, <1>3 DEF Links

LEMMA TypedInit == Init => Typed
<1> SUFFICES ASSUME Init PROVE Typed
    OBVIOUS
<1>1. TypeOK
    BY IdleIsHandler DEF Init, TypeOK, Handlers, PCs
<1>2. AtWork
    BY DEF Init, AtWork, Idle
<1> QED BY <1>1, <1>2 DEF Typed

LEMMA TypedNext == Typed /\ [Next]_vars => Typed'
<1> SUFFICES ASSUME Typed, [Next]_vars PROVE Typed'
    OBVIOUS
<1>1. ASSUME NEW r \in Roles, Count(r) \/ Die(r) PROVE Typed'
    <2>1. /\ role' \in [Roles -> {"down", "insert", "up"}]
          /\ UNCHANGED <<app, publisher, task, lost>>
        BY <1>1 DEF Typed, TypeOK, Count, Die, RoleTo
    <2> QED BY <2>1, RoleMoves DEF Typed, TypeOK
<1>2. ASSUME NEW r \in Roles, Insert(r) PROVE Typed'
    <2>1. role' \in [Roles -> {"down", "insert", "up"}] /\ UNCHANGED <<publisher, task>>
        BY <1>2 DEF Typed, TypeOK, Insert, RoleTo
    <2>2. CASE \E a \in Apps : app[a] # NoRow
        <3>1. UNCHANGED app /\ lost' \in [Losers -> 0..2]
            BY <1>2, <2>2, LosesTyped DEF Insert, Typed, Losers
        <3> QED BY <2>1, <3>1, RoleMoves DEF Typed, TypeOK
    <2>3. CASE ~ \E a \in Apps : app[a] # NoRow
        <3>1. app' = [a \in Apps |-> NoLink] /\ UNCHANGED lost
            BY <1>2, <2>3 DEF Insert
        <3>2. app' \in [Apps -> Links \cup {NoRow}]
            BY <3>1, IdleIsHandler
        <3> QED BY <2>1, <2>3, <3>1, <3>2, RoleMoves DEF Typed, TypeOK
    <2> QED BY <2>2, <2>3
<1>3. ASSUME NEW t \in Tasks,
             \/ Load(t) \/ Discover(t) \/ FindPublisher(t) \/ InsertPublisher(t)
             \/ SaveSelect(t) \/ SaveUpdate(t) \/ Throws(t)
      PROVE  Typed'
    <2> DEFINE r == task[t]
    <2>0. /\ r \in Handlers /\ App(t) \in Apps
          /\ r.pc # "idle" => app[App(t)] # NoRow
          /\ r.pc \in {"discover", "find", "insert"} => t[2] = "refresh"
          /\ r.pc \in {"find", "insert"} => r.domain \in Domains
          /\ t[2] \in {"refresh", "fetch"}
        BY HandlerOf, TasksAssumption DEF Typed, AtWork
    <2> HIDE DEF r
    <2>l. Local => /\ UNCHANGED role /\ lost' \in [Losers -> 0..2]
                   /\ app' \in [Apps -> Links \cup {NoRow}]
                   /\ \A a \in Apps : app[a] # NoRow => app'[a] # NoRow
                   /\ publisher' \in [Ids -> Domains \cup {NoRow}]
        BY DEF Local, Typed, TypeOK
    <2>1. CASE Load(t)
        <3>1. app[App(t)] \in Links
            BY <2>0, <2>1 DEF Load, Typed, TypeOK
        <3> DEFINE n == [Idle EXCEPT !.pc = IF t[2] = "fetch" THEN "save" ELSE "discover",
                                     !.copy = app[App(t)]]
        <3>2. /\ n \in Handlers /\ n.pc \in {"save", "discover"}
              /\ n.pc = "discover" => t[2] = "refresh"
            BY <2>0, <3>1, IdleIsHandler DEF Idle, Handlers, PCs
        <3>3. To(t, n) /\ Local /\ app[App(t)] # NoRow
            BY <2>1 DEF Load
        <3> QED BY <2>l, <3>2, <3>3, HandlerMoves
    <2>2. CASE Discover(t)
        <3>1. r.pc = "discover" /\ Local
            BY <2>2 DEF Discover, At, r
        <3>2. PICK n \in Handlers : /\ To(t, n) /\ n.pc \in {"save", "find"}
                                    /\ n.pc = "find" => n.domain \in Domains
            <4>1. CASE To(t, [r EXCEPT !.pc = "save"])
                BY <2>0, <4>1 DEF Handlers, PCs
            <4>2. CASE To(t, [r EXCEPT !.pc = "save", !.copy = NoLink])
                <5> DEFINE n == [r EXCEPT !.pc = "save", !.copy = NoLink]
                <5>1. n \in Handlers /\ n.pc = "save"
                    BY <2>0, IdleIsHandler DEF Handlers, PCs
                <5> QED BY <4>2, <5>1
            <4>3. CASE \E d \in Domains, plain \in BOOLEAN :
                           To(t, [r EXCEPT !.pc = "find", !.domain = d, !.plain = plain])
                <5>1. PICK d \in Domains, plain \in BOOLEAN :
                           To(t, [r EXCEPT !.pc = "find", !.domain = d, !.plain = plain])
                    BY <4>3
                <5> DEFINE n == [r EXCEPT !.pc = "find", !.domain = d, !.plain = plain]
                <5>2. n \in Handlers /\ n.pc = "find" /\ n.domain = d
                    BY <2>0 DEF Handlers, PCs
                <5> QED BY <5>1, <5>2
            <4> QED BY <2>2, <4>1, <4>2, <4>3 DEF Discover, r
        <3> QED BY <2>0, <2>l, <3>1, <3>2, HandlerMoves
    <2>3. CASE FindPublisher(t)
        <3>1. r.pc = "find" /\ Local
            BY <2>3 DEF FindPublisher, At, r
        <3>2. PICK n \in Handlers : /\ To(t, n) /\ n.pc \in {"save", "insert"}
                                    /\ n.domain = r.domain \/ n.pc = "save"
            <4>1. CASE \E i \in Ids : To(t, Linked(r, i))
                <5>1. PICK i \in Ids : To(t, Linked(r, i))
                    BY <4>1
                <5>2. Linked(r, i) \in Handlers /\ Linked(r, i).pc = "save"
                    BY <2>0, <3>1, IdleIsHandler DEF Linked, Idle, Handlers, PCs, Links
                <5> QED BY <5>1, <5>2
            <4>2. CASE To(t, [r EXCEPT !.pc = "insert", !.plain = TRUE])
                <5> DEFINE n == [r EXCEPT !.pc = "insert", !.plain = TRUE]
                <5>1. n \in Handlers /\ n.pc = "insert" /\ n.domain = r.domain
                    BY <2>0 DEF Handlers, PCs
                <5> QED BY <4>2, <5>1
            <4> QED BY <2>3, <4>1, <4>2 DEF FindPublisher, r
        <3> QED BY <2>0, <2>l, <3>1, <3>2, HandlerMoves
    <2>4. CASE InsertPublisher(t)
        <3>1. r.pc = "insert" /\ UNCHANGED <<role, app>>
            BY <2>4 DEF InsertPublisher, At, r
        <3>2. CASE \E i \in Ids : publisher[i] = r.domain
            <4>1. To(t, Caught(r)) /\ Loses(<<App(t), r.domain>>) /\ UNCHANGED publisher
                BY <2>4, <3>2 DEF InsertPublisher, r
            <4>2. <<App(t), r.domain>> \in Losers
                BY <2>0, <3>1 DEF Losers
            <4>3. lost' \in [Losers -> 0..2]
                BY <4>1, <4>2, LosesTyped DEF Typed
            <4>4. Caught(r) \in Handlers /\ Caught(r).pc = "csave"
                BY <2>0, IdleIsHandler DEF Caught, Idle, Handlers, PCs
            <4> QED BY <2>0, <3>1, <4>1, <4>3, <4>4, HandlerMoves DEF Typed, TypeOK
        <3>3. CASE ~ \E i \in Ids : publisher[i] = r.domain
            <4>1. PICK i \in Ids : /\ publisher' = [publisher EXCEPT ![i] = r.domain]
                                   /\ To(t, Linked(r, i)) /\ UNCHANGED lost
                BY <2>4, <3>3 DEF InsertPublisher, r
            <4>2. publisher' \in [Ids -> Domains \cup {NoRow}]
                BY <2>0, <3>1, <4>1 DEF Typed, TypeOK
            <4>3. Linked(r, i) \in Handlers /\ Linked(r, i).pc = "save"
                BY <2>0, <3>1, IdleIsHandler DEF Linked, Idle, Handlers, PCs, Links
            <4> QED BY <2>0, <3>1, <4>1, <4>2, <4>3, HandlerMoves DEF Typed, TypeOK
        <3> QED BY <3>2, <3>3
    <2>5. CASE SaveSelect(t)
        <3> DEFINE n == [r EXCEPT !.pc = IF @ = "save" THEN "update" ELSE "cupdate",
                                  !.dirty = {k \in Columns : r.copy[k] # app[App(t)][k]}]
        <3>1. To(t, n) /\ Local /\ r.pc \in {"save", "csave"}
            BY <2>5 DEF SaveSelect, At, r
        <3>2. n \in Handlers /\ n.pc \in {"update", "cupdate"}
            BY <2>0, <3>1 DEF Handlers, PCs
        <3> QED BY <2>0, <2>l, <3>1, <3>2, HandlerMoves
    <2>6. CASE SaveUpdate(t)
        <3>1. /\ r.pc \in {"update", "cupdate"} /\ To(t, Idle) /\ UNCHANGED <<role, publisher, lost>>
              /\ app' = [app EXCEPT ![App(t)] = Saved(t)]
            BY <2>6 DEF SaveUpdate, At, r
        <3>2. Saved(t) \in Links /\ NoRow \notin Links
            BY <3>1, SavedIsLink, RowsAssumption DEF r, Links
        <3>3. /\ app' \in [Apps -> Links \cup {NoRow}]
              /\ \A a \in Apps : app[a] # NoRow => app'[a] # NoRow
            BY <2>0, <3>1, <3>2 DEF Typed, TypeOK
        <3>4. Idle \in Handlers /\ Idle.pc = "idle"
            BY IdleIsHandler DEF Idle
        <3> QED BY <3>1, <3>3, <3>4, HandlerMoves DEF Typed, TypeOK
    <2>7. CASE Throws(t)
        <3>1. r.pc # "idle" /\ Local
            BY <2>7 DEF Throws, At, r
        <3>2. PICK n \in Handlers : To(t, n) /\ n.pc \in {"csave", "idle"}
            <4>1. Caught(r) \in Handlers /\ Caught(r).pc = "csave"
                BY <2>0, IdleIsHandler DEF Caught, Idle, Handlers, PCs
            <4>2. Idle \in Handlers /\ Idle.pc = "idle"
                BY IdleIsHandler DEF Idle
            <4>3. To(t, Caught(r)) \/ To(t, Idle)
                BY <2>7 DEF Throws, r
            <4> QED BY <4>1, <4>2, <4>3
        <3> QED BY <2>0, <2>l, <3>1, <3>2, HandlerMoves
    <2> QED BY <1>3, <2>1, <2>2, <2>3, <2>4, <2>5, <2>6, <2>7
<1>4. CASE UNCHANGED vars
    BY <1>4 DEF Typed, TypeOK, AtWork, vars
<1> QED BY <1>1, <1>2, <1>3, <1>4 DEF Next

LEMMA AlwaysTyped == Spec => []Typed
BY TypedInit, TypedNext, PTL DEF Spec

\* Every row of the two tables and every local of the handlers has its type.
THEOREM TypeCorrect == Spec => []TypeOK
<1>1. Typed => TypeOK
    BY DEF Typed
<1> QED BY <1>1, AlwaysTyped, PTL

-----------------------------------------------------------------------------
(* Links                                                                     *)

\* Right, in a table of publishers p.
RightIn(p, link) ==
    IF link.pub = NoId THEN link.domain = NoDomain
    ELSE link.domain # NoDomain /\ p[link.pub] = link.domain

OneRowPerDomain ==
    \A i, j \in Ids : publisher[i] # NoRow /\ publisher[i] = publisher[j] => i = j

\* Copies are right, too, however old: publishers do not change.  So two of them differ
\* in both columns or in none, and a save writes both columns or none.
CopiesAreRight ==
    \A t \in Tasks : RightIn(publisher, task[t].copy) /\ task[t].dirty \in {{}, Columns}

RowsAreRight == \A a \in Apps : app[a] # NoRow => RightIn(publisher, app[a])

LinkInv == OneRowPerDomain /\ CopiesAreRight /\ RowsAreRight

LEMMA RightLinksAgree ==
    ASSUME TypeOK, OneRowPerDomain, NEW l \in Links, NEW m \in Links,
           RightIn(publisher, l), RightIn(publisher, m)
    PROVE  l.pub = m.pub <=> l.domain = m.domain
<1>1. \A k \in Links : RightIn(publisher, k) => /\ k.pub \in Ids \cup {NoId}
                                                /\ k.pub = NoId <=> k.domain = NoDomain
                                                /\ k.pub # NoId => /\ publisher[k.pub] = k.domain
                                                                   /\ k.domain # NoRow
    BY RowsAssumption DEF RightIn, Links
<1>2. l.domain = m.domain /\ l.pub # NoId => l.pub = m.pub
    BY <1>1 DEF OneRowPerDomain
<1> QED BY <1>1, <1>2

\* Rows of publishers that are there stay as they are.
PublishersStay == \A i \in Ids : publisher[i] # NoRow => publisher'[i] = publisher[i]

LEMMA RightStays ==
    ASSUME PublishersStay, NEW l \in Links, RightIn(publisher, l)
    PROVE  RightIn(publisher', l)
<1>1. CASE l.pub = NoId
    BY <1>1 DEF RightIn
<1>2. CASE l.pub # NoId
    <2>1. l.pub \in Ids /\ publisher[l.pub] = l.domain /\ l.domain # NoDomain /\ l.domain # NoRow
        BY <1>2, RowsAssumption DEF RightIn, Links
    <2> QED BY <1>2, <2>1 DEF RightIn, PublishersStay
<1> QED BY <1>1, <1>2

LEMMA NoLinkIsRight == \A p : RightIn(p, NoLink)
BY DEF RightIn, NoLink

\* A step keeps LinkInv if the link it writes and the handler it moves are right.
LEMMA LinkStep ==
    ASSUME Typed, LinkInv, PublishersStay, OneRowPerDomain',
           \A a \in Apps : app'[a] # app[a] => RightIn(publisher', app'[a]),
           \A t \in Tasks : task'[t] # task[t] => /\ RightIn(publisher', task'[t].copy)
                                                  /\ task'[t].dirty \in {{}, Columns}
    PROVE  LinkInv'
<1>1. RowsAreRight'
    <2> SUFFICES ASSUME NEW a \in Apps, app'[a] # NoRow PROVE RightIn(publisher', app'[a])
        BY DEF RowsAreRight
    <2>1. CASE app'[a] = app[a]
        <3>1. app[a] \in Links /\ RightIn(publisher, app[a])
            BY <2>1 DEF LinkInv, RowsAreRight, Typed, TypeOK
        <3> QED BY <2>1, <3>1, RightStays
    <2> QED BY <2>1
<1>2. CopiesAreRight'
    <2> SUFFICES ASSUME NEW t \in Tasks
                 PROVE  RightIn(publisher', task'[t].copy) /\ task'[t].dirty \in {{}, Columns}
        BY DEF CopiesAreRight
    <2>1. CASE task'[t] = task[t]
        <3>1. /\ task[t].copy \in Links /\ RightIn(publisher, task[t].copy)
              /\ task[t].dirty \in {{}, Columns}
            BY HandlerOf DEF LinkInv, CopiesAreRight, Typed, Handlers
        <3> QED BY <2>1, <3>1, RightStays
    <2> QED BY <2>1
<1> QED BY <1>1, <1>2 DEF LinkInv

\* What a save writes is the copy or what is in the row.
LEMMA SavedIsRight ==
    ASSUME Typed, LinkInv, NEW t \in Tasks, task[t].pc # "idle"
    PROVE  RightIn(publisher, Saved(t))
<1>1. task[t] \in Handlers /\ App(t) \in Apps
    BY HandlerOf DEF Typed
<1>2. /\ RightIn(publisher, app[App(t)]) /\ RightIn(publisher, task[t].copy)
      /\ task[t].dirty \in {{}, Columns}
    BY <1>1 DEF Typed, AtWork, LinkInv, RowsAreRight, CopiesAreRight
<1>3. CASE task[t].dirty = {}
    <2>1. Saved(t).pub = app[App(t)].pub /\ Saved(t).domain = app[App(t)].domain
        BY <1>3 DEF Saved, Columns
    <2> QED BY <1>2, <2>1 DEF RightIn
<1>4. CASE task[t].dirty = Columns
    <2>1. Saved(t).pub = task[t].copy.pub /\ Saved(t).domain = task[t].copy.domain
        BY <1>4 DEF Saved, Columns
    <2> QED BY <1>2, <2>1 DEF RightIn
<1> QED BY <1>2, <1>3, <1>4

LEMMA LinkInit == Init => LinkInv
<1> SUFFICES ASSUME Init PROVE LinkInv
    OBVIOUS
<1>1. OneRowPerDomain /\ RowsAreRight
    BY DEF Init, OneRowPerDomain, RowsAreRight
<1>2. CopiesAreRight
    BY NoLinkIsRight DEF Init, CopiesAreRight, Idle
<1> QED BY <1>1, <1>2 DEF LinkInv

LEMMA LinkNext == Typed /\ LinkInv /\ [Next]_vars => LinkInv'
<1> SUFFICES ASSUME Typed, LinkInv, [Next]_vars PROVE LinkInv'
    OBVIOUS
<1>0. UNCHANGED publisher => PublishersStay /\ OneRowPerDomain'
    BY DEF PublishersStay, LinkInv, OneRowPerDomain
<1>1. ASSUME NEW r \in Roles, Count(r) \/ Die(r) PROVE LinkInv'
    BY <1>1 DEF Count, Die, LinkInv, OneRowPerDomain, CopiesAreRight, RowsAreRight
<1>2. ASSUME NEW r \in Roles, Insert(r) PROVE LinkInv'
    <2>1. UNCHANGED <<publisher, task>>
        BY <1>2 DEF Insert
    <2>2. app' = app \/ app' = [a \in Apps |-> NoLink]
        BY <1>2 DEF Insert
    <2>3. \A a \in Apps : app'[a] # app[a] => RightIn(publisher', app'[a])
        BY <2>2, NoLinkIsRight
    <2> QED BY <1>0, <2>1, <2>3, LinkStep
<1>3. ASSUME NEW t \in Tasks,
             \/ Load(t) \/ Discover(t) \/ FindPublisher(t) \/ InsertPublisher(t)
             \/ SaveSelect(t) \/ SaveUpdate(t) \/ Throws(t)
      PROVE  LinkInv'
    <2> DEFINE r == task[t]
    <2>0. /\ r \in Handlers /\ App(t) \in Apps
          /\ r.pc # "idle" => app[App(t)] # NoRow
          /\ r.pc \in {"find", "insert"} => r.domain \in Domains
          /\ RightIn(publisher, r.copy) /\ r.dirty \in {{}, Columns}
        BY HandlerOf DEF Typed, AtWork, LinkInv, CopiesAreRight
    <2> HIDE DEF r
    \* A handler moves and nothing else happens.
    <2>l. ASSUME NEW n, To(t, n), RightIn(publisher, n.copy), n.dirty \in {{}, Columns}, Local
          PROVE  LinkInv'
        <3>1. \A u \in Tasks : task'[u] # task[u] => task'[u] = n
            BY <2>l DEF To, Typed, TypeOK
        <3> QED BY <1>0, <2>l, <3>1, LinkStep DEF Local
    <2>c. /\ Caught(r).copy = r.copy /\ Caught(r).dirty = {}
          /\ Idle.copy = NoLink /\ Idle.dirty = {}
        BY DEF Caught, Idle
    <2>1. CASE Load(t)
        <3> DEFINE n == [Idle EXCEPT !.pc = IF t[2] = "fetch" THEN "save" ELSE "discover",
                                     !.copy = app[App(t)]]
        <3>1. To(t, n) /\ Local /\ RightIn(publisher, app[App(t)])
            BY <2>0, <2>1 DEF Load, LinkInv, RowsAreRight
        <3>2. n.copy = app[App(t)] /\ n.dirty = {}
            BY DEF Idle
        <3> QED BY <2>l, <3>1, <3>2
    <2>2. CASE Discover(t)
        <3>1. Local
            BY <2>2 DEF Discover
        <3>2. PICK n : To(t, n) /\ n.copy \in {r.copy, NoLink} /\ n.dirty = r.dirty
            <4>1. CASE To(t, [r EXCEPT !.pc = "save"])
                <5> DEFINE n == [r EXCEPT !.pc = "save"]
                <5>1. n.copy = r.copy /\ n.dirty = r.dirty
                    BY <2>0 DEF Handlers
                <5> QED BY <4>1, <5>1
            <4>2. CASE To(t, [r EXCEPT !.pc = "save", !.copy = NoLink])
                <5> DEFINE n == [r EXCEPT !.pc = "save", !.copy = NoLink]
                <5>1. n.copy = NoLink /\ n.dirty = r.dirty
                    BY <2>0 DEF Handlers
                <5> QED BY <4>2, <5>1
            <4>3. CASE \E d \in Domains, plain \in BOOLEAN :
                           To(t, [r EXCEPT !.pc = "find", !.domain = d, !.plain = plain])
                <5>1. PICK d \in Domains, plain \in BOOLEAN :
                           To(t, [r EXCEPT !.pc = "find", !.domain = d, !.plain = plain])
                    BY <4>3
                <5> DEFINE n == [r EXCEPT !.pc = "find", !.domain = d, !.plain = plain]
                <5>2. n.copy = r.copy /\ n.dirty = r.dirty
                    BY <2>0 DEF Handlers
                <5> QED BY <5>1, <5>2
            <4> QED BY <2>2, <4>1, <4>2, <4>3 DEF Discover, r
        <3> QED BY <2>0, <2>l, <3>1, <3>2, NoLinkIsRight
    <2>3. CASE FindPublisher(t)
        <3>1. r.pc = "find" /\ Local
            BY <2>3 DEF FindPublisher, At, r
        <3>2. CASE \E i \in Ids : IsTheirs(i, r) /\ To(t, Linked(r, i))
            <4>1. PICK i \in Ids : publisher[i] = r.domain /\ To(t, Linked(r, i))
                BY <3>2 DEF IsTheirs
            <4>2. Linked(r, i).copy = [pub |-> i, domain |-> r.domain] /\ Linked(r, i).dirty = {}
                BY DEF Linked, Idle
            <4>3. RightIn(publisher, Linked(r, i).copy)
                BY <2>0, <3>1, <4>1, <4>2, NamesAssumption DEF RightIn
            <4> QED BY <2>l, <3>1, <4>1, <4>2, <4>3
        <3>3. CASE To(t, [r EXCEPT !.pc = "insert", !.plain = TRUE])
            <4> DEFINE n == [r EXCEPT !.pc = "insert", !.plain = TRUE]
            <4>1. n.copy = r.copy /\ n.dirty = r.dirty
                BY <2>0 DEF Handlers
            <4> QED BY <2>0, <2>l, <3>1, <3>3, <4>1
        <3> QED BY <2>3, <3>2, <3>3 DEF FindPublisher, r
    <2>4. CASE InsertPublisher(t)
        <3>1. r.pc = "insert" /\ UNCHANGED <<role, app>>
            BY <2>4 DEF InsertPublisher, At, r
        <3>2. CASE \E i \in Ids : publisher[i] = r.domain
            <4>1. To(t, Caught(r)) /\ UNCHANGED publisher
                BY <2>4, <3>2 DEF InsertPublisher, r
            <4>2. \A u \in Tasks : task'[u] # task[u] => task'[u] = Caught(r)
                BY <4>1 DEF To, Typed, TypeOK
            <4> QED BY <1>0, <2>0, <2>c, <3>1, <4>1, <4>2, LinkStep
        <3>3. CASE ~ \E i \in Ids : publisher[i] = r.domain
            <4>1. PICK i \in Ids : /\ publisher[i] = NoRow
                                   /\ publisher' = [publisher EXCEPT ![i] = r.domain]
                                   /\ To(t, Linked(r, i))
                BY <2>4, <3>3 DEF InsertPublisher, r
            <4>2. /\ publisher'[i] = r.domain
                  /\ \A j \in Ids \ {i} : publisher'[j] = publisher[j]
                BY <4>1 DEF Typed, TypeOK
            <4>3. PublishersStay /\ OneRowPerDomain'
                BY <3>3, <4>1, <4>2 DEF PublishersStay, LinkInv, OneRowPerDomain
            <4>4. Linked(r, i).copy = [pub |-> i, domain |-> r.domain] /\ Linked(r, i).dirty = {}
                BY DEF Linked, Idle
            <4>5. RightIn(publisher', Linked(r, i).copy)
                BY <2>0, <3>1, <4>2, <4>4, NamesAssumption DEF RightIn
            <4>6. \A u \in Tasks : task'[u] # task[u] => task'[u] = Linked(r, i)
                BY <4>1 DEF To, Typed, TypeOK
            <4> QED BY <3>1, <4>3, <4>4, <4>5, <4>6, LinkStep
        <3> QED BY <3>2, <3>3
    <2>5. CASE SaveSelect(t)
        <3> DEFINE d == {k \in Columns : r.copy[k] # app[App(t)][k]}
                   n == [r EXCEPT !.pc = IF @ = "save" THEN "update" ELSE "cupdate", !.dirty = d]
        <3>1. To(t, n) /\ Local /\ r.pc \in {"save", "csave"}
            BY <2>5 DEF SaveSelect, At, r
        <3>2. n.copy = r.copy /\ n.dirty = d
            BY <2>0 DEF Handlers
        <3>3. r.copy \in Links /\ app[App(t)] \in Links /\ RightIn(publisher, app[App(t)])
            BY <2>0, <3>1 DEF Handlers, Typed, TypeOK, LinkInv, RowsAreRight
        <3>4. r.copy.pub = app[App(t)].pub <=> r.copy.domain = app[App(t)].domain
            BY <2>0, <3>3, RightLinksAgree DEF Typed, LinkInv
        <3>5. d \in {{}, Columns}
            BY <3>4 DEF Columns
        <3> QED BY <2>0, <2>l, <3>1, <3>2, <3>5
    <2>6. CASE SaveUpdate(t)
        <3>1. /\ r.pc \in {"update", "cupdate"} /\ To(t, Idle) /\ UNCHANGED publisher
              /\ app' = [app EXCEPT ![App(t)] = Saved(t)]
            BY <2>6 DEF SaveUpdate, At, r
        <3>2. RightIn(publisher, Saved(t))
            BY <3>1, SavedIsRight DEF r
        <3>3. \A a \in Apps : app'[a] # app[a] => app'[a] = Saved(t)
            BY <3>1 DEF Typed, TypeOK
        <3>4. \A u \in Tasks : task'[u] # task[u] => task'[u] = Idle
            BY <3>1 DEF To, Typed, TypeOK
        <3> QED BY <1>0, <2>c, <3>1, <3>2, <3>3, <3>4, NoLinkIsRight, LinkStep
    <2>7. CASE Throws(t)
        <3>1. Local /\ (To(t, Caught(r)) \/ To(t, Idle))
            BY <2>7 DEF Throws, r
        <3> QED BY <2>0, <2>c, <2>l, <3>1, NoLinkIsRight
    <2> QED BY <1>3, <2>1, <2>2, <2>3, <2>4, <2>5, <2>6, <2>7
<1>4. CASE UNCHANGED vars
    BY <1>4 DEF vars, LinkInv, OneRowPerDomain, CopiesAreRight, RowsAreRight
<1> QED BY <1>1, <1>2, <1>3, <1>4 DEF Next

\* publisherId and publisherDomain of an application agree at any time, whatever is saved
\* over what by refreshes and fetches with copies of any age.
THEOREM LinksStayRight == Spec => []LinkIsRight
<1>1. LinkInv => LinkIsRight
    BY DEF LinkInv, RowsAreRight, LinkIsRight, RightIn, Right
<1> QED BY <1>1, AlwaysTyped, LinkInit, LinkNext, PTL DEF Spec

-----------------------------------------------------------------------------
(* Races to insert                                                           *)

\* The seed is in the table as a whole or not at all.
Whole == Seeded \/ \A a \in Apps : app[a] = NoRow

\* A process that has lost knows why, and has left the insert; the refreshes of an
\* application that has lost a publisher are not about to insert it again.
RolesLose ==
    \A r \in Roles : /\ lost[r] \in {0, 1}
                     /\ lost[r] = 1 => (\E a \in Apps : app[a] # NoRow) /\ role[r] # "insert"
RefreshesLose ==
    \A a \in Apps, d \in Domains :
        /\ lost[<<a, d>>] \in {0, 1}
        /\ lost[<<a, d>>] = 1 =>
             /\ \E i \in Ids : publisher[i] = d
             /\ \A t \in Tasks : App(t) = a /\ task[t].pc = "insert" => task[t].domain # d

UpSeeded == \A r \in Roles : role[r] = "up" => Seeded

RaceInv == Whole /\ UpSeeded /\ RolesLose /\ RefreshesLose

\* What RaceInv says of the tables stays true as they grow.
RowsStay == \A a \in Apps : app[a] # NoRow => app'[a] # NoRow

LEMMA RaceInit == Init => RaceInv
BY DEF Init, RaceInv, Whole, UpSeeded, RolesLose, RefreshesLose, Losers, Idle

\* A step of a handler that loses nothing.
LEMMA HandlerKeepsRaces ==
    ASSUME Typed, RaceInv, NEW t \in Tasks, NEW n, To(t, n), UNCHANGED <<role, lost>>,
           RowsStay, PublishersStay,
           \A a \in Apps : app[a] = NoRow => app'[a] = NoRow,
           n.pc = "insert" => \A i \in Ids : publisher[i] # n.domain
    PROVE  RaceInv'
<1>1. Whole' /\ UpSeeded' /\ RolesLose'
    BY DEF RaceInv, Whole, UpSeeded, RolesLose, Seeded, RowsStay
<1>2. RefreshesLose'
    <2> SUFFICES ASSUME NEW a \in Apps, NEW d \in Domains, lost[<<a, d>>] = 1
                 PROVE  /\ \E i \in Ids : publisher'[i] = d
                        /\ \A u \in Tasks : App(u) = a /\ task'[u].pc = "insert"
                                            => task'[u].domain # d
        BY DEF RaceInv, RefreshesLose, App
    <2>1. PICK i \in Ids : publisher[i] = d
        BY DEF RaceInv, RefreshesLose
    <2>2. publisher'[i] = d
        BY <2>1, RowsAssumption DEF PublishersStay
    <2>3. ASSUME NEW u \in Tasks, App(u) = a, task'[u].pc = "insert" PROVE task'[u].domain # d
        <3>1. CASE u = t
            BY <2>1, <2>3, <3>1 DEF To, Typed, TypeOK
        <3>2. CASE u # t
            BY <2>3, <3>2 DEF To, Typed, TypeOK, RaceInv, RefreshesLose
        <3> QED BY <3>1, <3>2
    <2> QED BY <2>2, <2>3
<1> QED BY <1>1, <1>2 DEF RaceInv

\* A step of a process leaves what is known of refreshes alone.
LEMMA RolesKeepRefreshes ==
    ASSUME RefreshesLose, UNCHANGED <<publisher, task>>,
           \A a \in Apps, d \in Domains : lost'[<<a, d>>] = lost[<<a, d>>]
    PROVE  RefreshesLose'
<1> SUFFICES ASSUME NEW a \in Apps, NEW d \in Domains
             PROVE  /\ lost'[<<a, d>>] \in {0, 1}
                    /\ lost'[<<a, d>>] = 1 =>
                         /\ \E i \in Ids : publisher'[i] = d
                         /\ \A t \in Tasks : App(t) = a /\ task'[t].pc = "insert"
                                             => task'[t].domain # d
    BY DEF RefreshesLose, App
<1>1. lost'[<<a, d>>] = lost[<<a, d>>]
    OBVIOUS
<1>2. publisher' = publisher /\ task' = task
    OBVIOUS
<1> QED BY <1>1, <1>2 DEF RefreshesLose

LEMMA RaceNext == Typed /\ RaceInv /\ [Next]_vars => RaceInv'
<1> SUFFICES ASSUME Typed, RaceInv, [Next]_vars PROVE RaceInv'
    OBVIOUS
<1>1. ASSUME NEW r \in Roles, Count(r) \/ Die(r) PROVE RaceInv'
    <2>1. /\ UNCHANGED <<app, publisher, task, lost>>
          /\ \A s \in Roles \ {r} : role'[s] = role[s]
        BY <1>1 DEF Count, Die, RoleTo, Typed, TypeOK
    <2>2. /\ role'[r] = "up" => Seeded
          /\ role'[r] = "insert" => \A a \in Apps : app[a] = NoRow
        BY <1>1 DEF Count, Die, RoleTo, Typed, TypeOK, RaceInv, Whole, Seeded
    <2>3. Whole' /\ UpSeeded' /\ RolesLose'
        BY <2>1, <2>2 DEF RaceInv, Whole, UpSeeded, RolesLose, Seeded
    <2> QED BY <2>1, <2>3, RolesKeepRefreshes DEF RaceInv
<1>2. ASSUME NEW r \in Roles, Insert(r) PROVE RaceInv'
    <2>0. /\ role[r] = "insert" /\ UNCHANGED <<publisher, task>>
          /\ \A s \in Roles \ {r} : role'[s] = role[s]
        BY <1>2 DEF Insert, RoleAt, RoleTo, Typed, TypeOK
    <2>1. CASE \E a \in Apps : app[a] # NoRow
        <3>1. Loses(r) /\ UNCHANGED app /\ role'[r] = "down"
            BY <1>2, <2>1 DEF Insert, RoleTo, Typed, TypeOK
        <3>2. lost[r] = 0 /\ r \in Losers
            BY <2>0 DEF RaceInv, RolesLose, Losers
        <3>3. lost'[r] = 1 /\ \A x \in Losers \ {r} : lost'[x] = lost[x]
            BY <3>1, <3>2 DEF Loses, Typed, TypeOK
        <3>4. \A a \in Apps, d \in Domains : lost'[<<a, d>>] = lost[<<a, d>>]
            <4> SUFFICES ASSUME NEW a \in Apps, NEW d \in Domains
                         PROVE  lost'[<<a, d>>] = lost[<<a, d>>]
                OBVIOUS
            <4>1. <<a, d>> \in Losers
                BY DEF Losers
            <4>2. <<a, d>> # r
                BY RolesAssumption
            <4> QED BY <3>3, <4>1, <4>2
        <3>5. \A s \in Roles \ {r} : lost'[s] = lost[s]
            BY <3>3 DEF Losers
        <3>6. Whole' /\ UpSeeded' /\ RolesLose'
            BY <2>0, <2>1, <3>1, <3>3, <3>5 DEF RaceInv, Whole, UpSeeded, RolesLose, Seeded
        <3> QED BY <2>0, <3>4, <3>6, RolesKeepRefreshes DEF RaceInv
    <2>2. CASE ~ \E a \in Apps : app[a] # NoRow
        <3>1. app' = [a \in Apps |-> NoLink] /\ UNCHANGED lost /\ role'[r] = "up"
            BY <1>2, <2>2 DEF Insert, RoleTo, Typed, TypeOK
        <3>2. \A a \in Apps : app'[a] # NoRow
            BY <3>1, IdleIsHandler, RowsAssumption DEF Links
        <3>3. \A s \in Roles : lost[s] = 0
            BY <2>2 DEF RaceInv, RolesLose
        <3>4. Whole' /\ UpSeeded' /\ RolesLose'
            BY <3>1, <3>2, <3>3 DEF Whole, UpSeeded, RolesLose, Seeded
        <3> QED BY <2>0, <3>1, <3>4, RolesKeepRefreshes DEF RaceInv
    <2> QED BY <2>1, <2>2
<1>3. ASSUME NEW t \in Tasks,
             \/ Load(t) \/ Discover(t) \/ FindPublisher(t) \/ InsertPublisher(t)
             \/ SaveSelect(t) \/ SaveUpdate(t) \/ Throws(t)
      PROVE  RaceInv'
    <2> DEFINE r == task[t]
    <2>0. /\ r \in Handlers /\ App(t) \in Apps
          /\ r.pc # "idle" => app[App(t)] # NoRow
          /\ r.pc \in {"find", "insert"} => r.domain \in Domains
        BY HandlerOf DEF Typed, AtWork
    <2> HIDE DEF r
    \* A handler moves, not to its insert, and nothing else happens.
    <2>l. ASSUME NEW n, To(t, n), n.pc # "insert", Local PROVE RaceInv'
        BY <2>l, HandlerKeepsRaces DEF Local, RowsStay, PublishersStay
    <2>c. Caught(r).pc = "csave" /\ Idle.pc = "idle"
        BY DEF Caught, Idle
    <2>1. CASE Load(t)
        <3> DEFINE n == [Idle EXCEPT !.pc = IF t[2] = "fetch" THEN "save" ELSE "discover",
                                     !.copy = app[App(t)]]
        <3>1. To(t, n) /\ Local
            BY <2>1 DEF Load
        <3>2. n.pc = IF t[2] = "fetch" THEN "save" ELSE "discover"
            BY DEF Idle
        <3> HIDE DEF n
        <3> QED BY <2>l, <3>1, <3>2
    <2>2. CASE Discover(t)
        <3>1. CASE To(t, [r EXCEPT !.pc = "save"])
            <4>1. [r EXCEPT !.pc = "save"].pc # "insert"
                BY <2>0 DEF Handlers
            <4> QED BY <2>2, <2>l, <3>1, <4>1 DEF Discover
        <3>2. CASE To(t, [r EXCEPT !.pc = "save", !.copy = NoLink])
            <4>1. [r EXCEPT !.pc = "save", !.copy = NoLink].pc # "insert"
                BY <2>0 DEF Handlers
            <4> QED BY <2>2, <2>l, <3>2, <4>1 DEF Discover
        <3>3. CASE \E d \in Domains, plain \in BOOLEAN :
                       To(t, [r EXCEPT !.pc = "find", !.domain = d, !.plain = plain])
            <4>1. PICK d \in Domains, plain \in BOOLEAN :
                       To(t, [r EXCEPT !.pc = "find", !.domain = d, !.plain = plain])
                BY <3>3
            <4>2. [r EXCEPT !.pc = "find", !.domain = d, !.plain = plain].pc # "insert"
                BY <2>0 DEF Handlers
            <4> QED BY <2>2, <2>l, <4>1, <4>2 DEF Discover
        <3> QED BY <2>2, <3>1, <3>2, <3>3 DEF Discover, r
    <2>3. CASE FindPublisher(t)
        <3>1. Local
            BY <2>3 DEF FindPublisher
        <3>2. CASE \E i \in Ids : To(t, Linked(r, i))
            <4>1. \A i : Linked(r, i).pc = "save"
                BY DEF Linked, Idle
            <4> QED BY <2>l, <3>1, <3>2, <4>1
        <3>3. CASE /\ \A i \in Ids : ~ IsTheirs(i, r)
                   /\ To(t, [r EXCEPT !.pc = "insert", !.plain = TRUE])
            <4> DEFINE n == [r EXCEPT !.pc = "insert", !.plain = TRUE]
            <4>1. n.domain = r.domain /\ \A i \in Ids : publisher[i] # r.domain
                BY <2>0, <3>3 DEF Handlers, IsTheirs
            <4> QED BY <3>1, <3>3, <4>1, HandlerKeepsRaces DEF Local, RowsStay, PublishersStay
        <3> QED BY <2>3, <3>2, <3>3 DEF FindPublisher, r
    <2>4. CASE InsertPublisher(t)
        <3>0. r.pc = "insert" /\ r.domain \in Domains /\ UNCHANGED <<role, app>>
            BY <2>0, <2>4 DEF InsertPublisher, At, r
        <3>1. CASE \E i \in Ids : publisher[i] = r.domain
            <4> DEFINE x == <<App(t), r.domain>>
            <4>1. To(t, Caught(r)) /\ Loses(x) /\ UNCHANGED publisher
                BY <2>4, <3>1 DEF InsertPublisher, r
            <4>2. x \in Losers /\ lost[x] = 0
                BY <2>0, <3>0 DEF RaceInv, RefreshesLose, Losers, r
            <4>3. lost'[x] = 1 /\ \A y \in Losers \ {x} : lost'[y] = lost[y]
                BY <4>1, <4>2 DEF Loses, Typed, TypeOK
            <4>4. \A s \in Roles : lost'[s] = lost[s]
                <5>1. x \notin Roles
                    BY <2>0, <3>0, RolesAssumption
                <5> QED BY <4>3, <5>1 DEF Losers
            <4>5. Whole' /\ UpSeeded' /\ RolesLose'
                BY <3>0, <4>4 DEF RaceInv, Whole, UpSeeded, RolesLose, Seeded
            <4>6. RefreshesLose'
                <5> SUFFICES ASSUME NEW a \in Apps, NEW d \in Domains
                             PROVE  /\ lost'[<<a, d>>] \in {0, 1}
                                    /\ lost'[<<a, d>>] = 1 =>
                                         /\ \E i \in Ids : publisher'[i] = d
                                         /\ \A u \in Tasks : App(u) = a /\ task'[u].pc = "insert"
                                                             => task'[u].domain # d
                    BY DEF RefreshesLose, App
                <5>1. <<a, d>> \in Losers
                    BY DEF Losers
                <5>2. CASE <<a, d>> = x
                    <6>1. \A u \in Tasks : App(u) = a /\ task'[u].pc = "insert" => u = t
                        <7> SUFFICES ASSUME NEW u \in Tasks, App(u) = a, task'[u].pc = "insert",
                                            u # t
                                     PROVE  FALSE
                            OBVIOUS
                        <7>1. task'[u] = task[u] /\ task[u].pc = "insert"
                            BY <4>1 DEF To, Typed, TypeOK
                        <7>2. u[2] = "refresh" /\ t[2] = "refresh"
                            BY <3>0, <7>1 DEF Typed, AtWork, r
                        <7>3. u = <<App(u), u[2]>> /\ t = <<App(t), t[2]>>
                            BY TasksAssumption DEF App
                        <7> QED BY <5>2, <7>2, <7>3
                    <6>2. task'[t].pc # "insert"
                        BY <2>c, <4>1 DEF To, Typed, TypeOK
                    <6> QED BY <3>1, <4>1, <4>3, <5>2, <6>1, <6>2
                <5>3. CASE <<a, d>> # x
                    <6>1. lost'[<<a, d>>] = lost[<<a, d>>]
                        BY <4>3, <5>1, <5>3
                    <6>2. \A u \in Tasks : task'[u].pc = "insert" => task'[u] = task[u]
                        BY <2>c, <4>1 DEF To, Typed, TypeOK
                    <6> QED BY <4>1, <6>1, <6>2 DEF RaceInv, RefreshesLose
                <5> QED BY <5>2, <5>3
            <4> QED BY <4>5, <4>6 DEF RaceInv
        <3>2. CASE ~ \E i \in Ids : publisher[i] = r.domain
            <4>1. PICK i \in Ids : /\ publisher[i] = NoRow
                                   /\ publisher' = [publisher EXCEPT ![i] = r.domain]
                                   /\ To(t, Linked(r, i)) /\ UNCHANGED lost
                BY <2>4, <3>2 DEF InsertPublisher, r
            <4>2. PublishersStay
                BY <4>1 DEF PublishersStay, Typed, TypeOK
            <4>3. Linked(r, i).pc # "insert"
                BY DEF Linked, Idle
            <4> QED BY <3>0, <4>1, <4>2, <4>3, HandlerKeepsRaces DEF RowsStay
        <3> QED BY <3>1, <3>2
    <2>5. CASE SaveSelect(t)
        <3> DEFINE n == [r EXCEPT !.pc = IF @ = "save" THEN "update" ELSE "cupdate",
                                  !.dirty = {k \in Columns : r.copy[k] # app[App(t)][k]}]
        <3>1. To(t, n) /\ Local
            BY <2>5 DEF SaveSelect, r
        <3>2. n.pc = IF r.pc = "save" THEN "update" ELSE "cupdate"
            BY <2>0 DEF Handlers
        <3> HIDE DEF n
        <3> QED BY <2>l, <3>1, <3>2
    <2>6. CASE SaveUpdate(t)
        <3>1. /\ r.pc \in {"update", "cupdate"} /\ To(t, Idle) /\ UNCHANGED <<role, publisher, lost>>
              /\ app' = [app EXCEPT ![App(t)] = Saved(t)]
            BY <2>6 DEF SaveUpdate, At, r
        <3>2. Saved(t) # NoRow /\ app[App(t)] # NoRow
            BY <2>0, <3>1, SavedIsLink, RowsAssumption DEF r, Links
        <3>3. \A a \in Apps : app[a] = NoRow <=> app'[a] = NoRow
            BY <3>1, <3>2 DEF Typed, TypeOK
        <3> QED BY <2>c, <3>1, <3>3, HandlerKeepsRaces DEF RowsStay, PublishersStay
    <2>7. CASE Throws(t)
        BY <2>7, <2>c, <2>l DEF Throws, r
    <2> QED BY <1>3, <2>1, <2>2, <2>3, <2>4, <2>5, <2>6, <2>7
<1>4. CASE UNCHANGED vars
    BY <1>4 DEF vars, RaceInv, Whole, Seeded, UpSeeded, RolesLose, RefreshesLose, App
<1> QED BY <1>1, <1>2, <1>3, <1>4 DEF Next

LEMMA AlwaysRaceInv == Spec => []RaceInv
BY AlwaysTyped, RaceInit, RaceNext, PTL DEF Spec

\* A process that is up finds all seed applications, whoever has inserted them.
THEOREM StartedFindsSeed == Spec => []UpIsSeeded
<1>1. RaceInv => UpIsSeeded
    BY DEF RaceInv, UpSeeded, UpIsSeeded
<1> QED BY <1>1, AlwaysRaceInv, PTL

\* No process and no refresh loses the same race to insert twice.
THEOREM RacesAreLostOnce == Spec => []LosesOnce
<1>1. RaceInv => LosesOnce
    BY DEF RaceInv, RolesLose, RefreshesLose, LosesOnce, Losers
<1> QED BY <1>1, AlwaysRaceInv, PTL

=============================================================================
