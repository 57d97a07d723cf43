------------------------------ MODULE Catalog -------------------------------
(***************************************************************************)
(* The tables applications and publishers: how every process fills the one  *)
(* at its start (bootstrap, SeedService.seed), and how marketplace refreshes *)
(* fill the other with find-or-create and link applications to it, while    *)
(* ads.txt fetches save the applications they have loaded before.           *)
(*                                                                          *)
(* Both tables have a unique constraint, neither ever loses a row.  Of an   *)
(* application only the link is modelled, publisherId and publisherDomain,  *)
(* of a publisher its domain, which is never changed; what else the         *)
(* handlers write is in Pipeline.                                           *)
(***************************************************************************)
EXTENDS Naturals

CONSTANTS Roles,    \* processes: api, worker, scheduler
          Apps,     \* the seed applications (bundleId, marketplace)
          Domains,  \* normalized publisher domains
          Ids,      \* what the serial publishers.id may give out
          Tasks,    \* the job handlers that may be at work: an application, a kind
          NoId, NoDomain, NoRow

ASSUME NamesAssumption == NoId \notin Ids /\ NoDomain \notin Domains
ASSUME RolesAssumption == Roles \cap (Apps \X Domains) = {}
ASSUME TasksAssumption == Tasks \subseteq Apps \X {"refresh", "fetch"}
ASSUME RowsAssumption == /\ NoRow \notin Domains
                         /\ NoRow \notin [pub : Ids \cup {NoId}, domain : Domains \cup {NoDomain}]

VARIABLES role,       \* role[r]: where bootstrap is
          app,        \* app[a]: the link of the row in applications
          publisher,  \* publisher[i]: the domain in the row with that id
          task,       \* task[t]: the job handler of an application
          lost        \* lost[x]: how often x has lost a race to insert, up to 2

vars == <<role, app, publisher, task, lost>>

Links == [pub : Ids \cup {NoId}, domain : Domains \cup {NoDomain}]
Columns == {"pub", "domain"}
NoLink == [pub |-> NoId, domain |-> NoDomain]

\* A task is run once at a time: OneRunPerJob of JobQueue.
App(t) == t[1]

\* `copy` is the loaded application, `domain` the publisher's that the marketplace has
\* told, `plain` whether it was written as it is stored, `dirty` the columns that the
\* UPDATE of a save will write.
Idle == [pc |-> "idle", copy |-> NoLink, domain |-> NoDomain, plain |-> TRUE,
         dirty |-> {}]

Losers == Roles \cup (Apps \X Domains)

Init == /\ role = [r \in Roles |-> "down"]
        /\ app = [a \in Apps |-> NoRow]
        /\ publisher = [i \in Ids |-> NoRow]
        /\ task = [t \in Tasks |-> Idle]
        /\ lost = [x \in Losers |-> 0]

\* Its INSERT has hit the unique constraint.
Loses(x) == lost' = [lost EXCEPT ![x] = IF @ < 2 THEN @ + 1 ELSE @]

-----------------------------------------------------------------------------
(* bootstrap and SeedService.seed                                            *)

RoleAt(r, pc) == role[r] = pc
RoleTo(r, pc) == role' = [role EXCEPT ![r] = pc]
Seeded == \A a \in Apps : app[a] # NoRow

\* A process starts, and counts the applications.
Count(r) ==
    /\ RoleAt(r, "down")
    /\ RoleTo(r, IF \E a \in Apps : app[a] # NoRow THEN "up" ELSE "insert")
    /\ UNCHANGED <<app, publisher, task, lost>>

\* Mutant: one INSERT after the other, without a transaction.
InsertOneByOne(r) ==
    /\ RoleAt(r, "insert")
    /\ \E a \in Apps :
         IF app[a] = NoRow
         THEN /\ app' = [app EXCEPT ![a] = NoLink]
              /\ RoleTo(r, IF \A b \in Apps \ {a} : app[b] # NoRow THEN "up" ELSE "insert")
              /\ UNCHANGED lost
         ELSE RoleTo(r, "down") /\ Loses(r) /\ UNCHANGED app
    /\ UNCHANGED <<publisher, task>>

\* save(entities): one transaction, which commits or hits the unique constraint.
\* Nothing catches that: `void bootstrap()` ends the process.
Insert(r) ==
    /\ RoleAt(r, "insert")
    /\ IF \E a \in Apps : app[a] # NoRow
       THEN RoleTo(r, "down") /\ Loses(r) /\ UNCHANGED app
       ELSE /\ app' = [a \in Apps |-> NoLink]
            /\ RoleTo(r, "up")
            /\ UNCHANGED lost
    /\ UNCHANGED <<publisher, task>>

\* The process ends, or the database cannot be reached at its start.
Die(r) ==
    /\ ~ RoleAt(r, "down")
    /\ RoleTo(r, "down")
    /\ UNCHANGED <<app, publisher, task, lost>>

-----------------------------------------------------------------------------
(* refreshApplication, fetch                                                 *)

At(t, pcs) == task[t].pc \in pcs
To(t, r) == task' = [task EXCEPT ![t] = r]
Local == UNCHANGED <<role, app, publisher, lost>>

\* applicationRepository.findOne; a fetch needs a domain, and works for a long time
\* before its save.
Load(t) ==
    /\ At(t, {"idle"})
    /\ app[App(t)] # NoRow
    /\ t[2] = "fetch" => app[App(t)].domain # NoDomain
    /\ To(t, [Idle EXCEPT !.pc = IF t[2] = "fetch" THEN "save" ELSE "discover",
                          !.copy = app[App(t)]])
    /\ Local

\* What findApplication says: not listed, listed without a domain, or with one.
Discover(t) ==
    /\ At(t, {"discover"})
    /\ \/ To(t, [task[t] EXCEPT !.pc = "save"])
       \/ To(t, [task[t] EXCEPT !.pc = "save", !.copy = NoLink])
       \/ \E d \in Domains, plain \in BOOLEAN :
            To(t, [task[t] EXCEPT !.pc = "find", !.domain = d, !.plain = plain])
    /\ Local

\* Mutant: looked up by what the marketplace has told, before normalizeDomain.
IsTheirsAsTold(i, r) == publisher[i] = r.domain /\ r.plain

IsTheirs(i, r) == publisher[i] = r.domain

\* application.publisher, publisherId, publisherDomain; the rest is not read again.
Linked(r, i) == [Idle EXCEPT !.pc = "save", !.copy = [pub |-> i, domain |-> r.domain]]

\* publisherRepository.findOne({ where: { domain } }), and a save of the row that was
\* found if its name is another now.
FindPublisher(t) ==
    LET r == task[t] IN
    /\ At(t, {"find"})
    /\ \/ \E i \in Ids : /\ IsTheirs(i, r)
                         /\ To(t, Linked(r, i))
       \/ /\ \A i \in Ids : ~ IsTheirs(i, r)
          /\ To(t, [r EXCEPT !.pc = "insert", !.plain = TRUE])
    /\ Local

\* The catch block: the application is saved as far as it has got.
Caught(r) == [Idle EXCEPT !.pc = "csave", !.copy = r.copy]

\* The new row, or the unique violation of one who was faster.
InsertPublisher(t) ==
    LET r == task[t] IN
    /\ At(t, {"insert"})
    /\ IF \E i \in Ids : publisher[i] = r.domain
       THEN /\ To(t, Caught(r))
            /\ Loses(<<App(t), r.domain>>)
            /\ UNCHANGED publisher
       ELSE \E i \in Ids : /\ publisher[i] = NoRow
                           /\ publisher' = [publisher EXCEPT ![i] = r.domain]
                           /\ To(t, Linked(r, i))
                           /\ UNCHANGED lost
    /\ UNCHANGED <<role, app>>

\* save(application): the SELECT, and the UPDATE of the columns that differ from it.
SaveSelect(t) ==
    /\ At(t, {"save", "csave"})
    /\ To(t, [task[t] EXCEPT !.pc = IF @ = "save" THEN "update" ELSE "cupdate",
                             !.dirty = {k \in Columns : task[t].copy[k] # app[App(t)][k]}])
    /\ Local

\* Mutant: the domain is not written back, its publisher is.
SavedIdOnly(t) == [app[App(t)] EXCEPT !.pub = IF "pub" \in task[t].dirty THEN task[t].copy.pub
                                              ELSE @]

\* Mutant: only what is dirty is left of the row.
SavedPartly(t) == [k \in task[t].dirty |-> task[t].copy[k]]

Saved(t) == [k \in Columns |-> IF k \in task[t].dirty THEN task[t].copy[k] ELSE app[App(t)][k]]

SaveUpdate(t) ==
    /\ At(t, {"update", "cupdate"})
    /\ app' = [app EXCEPT ![App(t)] = Saved(t)]
    /\ To(t, Idle)
    /\ UNCHANGED <<role, publisher, lost>>

\* An await throws, in a try block or after it; or the worker dies.
Throws(t) ==
    /\ ~ At(t, {"idle"})
    /\ \/ To(t, Caught(task[t])) /\ ~ At(t, {"csave", "cupdate"})
       \/ To(t, Idle)
    /\ Local

-----------------------------------------------------------------------------
Next ==
    \/ \E r \in Roles : Count(r) \/ Insert(r) \/ Die(r)
    \/ \E t \in Tasks : \/ Load(t) \/ Discover(t) \/ FindPublisher(t) \/ InsertPublisher(t)
                        \/ SaveSelect(t) \/ SaveUpdate(t) \/ Throws(t)

Spec == Init /\ [][Next]_vars

-----------------------------------------------------------------------------
\* Types of the two tables and of what the processes know of them.
TypeOK ==
    /\ role \in [Roles -> {"down", "insert", "up"}]
    /\ app \in [Apps -> Links \cup {NoRow}]
    /\ publisher \in [Ids -> Domains \cup {NoRow}]
    /\ task \in [Tasks -> [pc : {"idle", "discover", "find", "insert", "save", "update",
                                 "csave", "cupdate"},
                           copy : Links, domain : Domains \cup {NoDomain}, plain : BOOLEAN,
                           dirty : SUBSET Columns]]
    /\ lost \in [Losers -> 0..2]

\* A link names one publisher twice, by id and by domain.
Right(link) ==
    IF link.pub = NoId THEN link.domain = NoDomain
    ELSE link.domain # NoDomain /\ publisher[link.pub] = link.domain

\* publisherId and publisherDomain of an application say the same, whatever
\* refreshes and fetches save over each other from copies of any age.
LinkIsRight == \A a \in Apps : app[a] # NoRow => Right(app[a])

\* A process that has started finds all seed applications, although it may have
\* counted while others were inserting.
UpIsSeeded == \A r \in Roles : role[r] = "up" => Seeded

\* Who loses a race to insert (a process at its start, a refresh its publisher) finds
\* the row the next time: a retry is enough, and nobody fails for ever.
LosesOnce == \A x \in Losers : lost[x] <= 1

=============================================================================
