-------------------------------- MODULE Startup --------------------------------
(***************************************************************************)
(* How a process comes up on the database it shares with other replicas:   *)
(* config.Load, db.Open with its default rows and its backfill,            *)
(* auth.Bootstrap, and the demo data of internal/demo, which the "reset    *)
(* demo data" button also rewrites while the server runs.                  *)
(*                                                                         *)
(* Each statement is a step; only demo.Seed and demo.wipe are transactions. *)
(* A process may die before any of them, and a failing statement ends the  *)
(* boot just the same (logging.Fatal); whoever supervises it starts it     *)
(* again.  Ids are kept as far as the code relies on them: which row of a   *)
(* table has id 1, and whether its sequence has handed out 1.              *)
(***************************************************************************)
EXTENDS Naturals, Sequences

CONSTANTS
  None,
  Replicas,     \* processes started on the one database
  Dialects,     \* the databases considered
  Settings,     \* flags, environment and file a replica may be started with
  Legacy,       \* tickets older than the stage stamps
  Reopened,     \* [Legacy -> how often its log says it was reopened]
  Gens,         \* names for the copies of the demo data
  MaxStarts,    \* bounds on starts by the operator, ...
  MaxDeaths,    \* ... crashes and failed statements, ...
  MaxChanges    \* ... and requests served

ASSUME StartupAssumption ==
  /\ Dialects \subseteq {"sqlite", "mysql", "postgres"}
  /\ None \notin Gens \union Replicas \union Legacy
  /\ Reopened \in [Legacy -> Nat]
  /\ {MaxStarts, MaxDeaths, MaxChanges} \subseteq Nat

VARIABLES
  dialect,
  rows,     \* what there is: <<table, which>>
  holder,   \* which row of a table has id 1
  fresh,    \* tables whose sequence has not handed out 1
  ticket,   \* [Legacy -> its stamps]
  log,      \* [Legacy -> reopenings in event_logs]
  proc,     \* [Replicas -> process]
  edit,     \* a request's copy of a queue or a demo ticket
  work,     \* a request that reopens a legacy ticket
  touched,  \* for checking: demo copies not left as seeded, ...
  unlogged, \* ... legacy tickets whose log missed a reopening
  starts, deaths, changes

demo == <<rows, holder, fresh, touched>>
legacy == <<ticket, log, work, unlogged>>
bounds == <<starts, deaths, changes>>
vars == <<dialect, demo, legacy, proc, edit, bounds>>

-----------------------------------------------------------------------------
(* Tables.  A row is "default" (General), "own" (made by hand), a user's    *)
(* name, or the copy of the demo data it belongs to.  A demo table's rows   *)
(* of one copy count as one.  The category made by hand bears a demo's      *)
(* name, the organization does not.                                        *)
SeedOrder == <<"orgs", "queues", "users", "services", "categories", "tickets", "notes",
               "problems", "workflows", "kb">>
DemoTables == {SeedOrder[i] : i \in 1..Len(SeedOrder)}
FoundByQueue == {"tickets", "notes", "problems", "kb"}
WithId1 == {"users", "queues", "categories"}

Names == {"system", "admin"} \union UNION {s.static : s \in Settings}
Whiches == {"default", "own"} \union Gens \union Names

ASSUME NamesAssumption ==
  /\ Gens \intersect (Names \union {"default", "own"}) = {}
  /\ None \notin Whiches

Row == (DemoTables \X Gens) \union (DemoTables \X {"default", "own"})
         \union ({"users"} \X Names)

Stamps == [detected : BOOLEAN, reopens : Nat]
Config == [demo : BOOLEAN, reset : BOOLEAN, only : BOOLEAN, static : SUBSET Names]

Pcs == {"off", "queues?", "queues+", "categories?", "categories+", "tickets?", "events?",
        "stamp", "actor?", "actor#", "actor+", "accounts", "admin+", "demo?", "wipe",
        "seed", "serving", "done", "dead"}

(* todo: tickets yet to backfill, or static users yet to upsert; seen: what *)
(* was read of the log; one: the id taken for "system" is 1; wiped: the     *)
(* button's transaction, or the boot's, that empties has been committed.    *)
Process == [pc : Pcs, cfg : Config, todo : SUBSET (Legacy \union Names),
            seen : Nat, one : BOOLEAN, wiped : BOOLEAN]

(* A request that reopens a ticket, until its event is logged.             *)
Works == [ticket : Legacy, copy : Stamps, saved : BOOLEAN, by : Replicas]

ASSUME WorkAssumption == None \notin Works

NoConfig == [demo |-> FALSE, reset |-> FALSE, only |-> FALSE, static |-> {}]
Boot(cfg, pc) ==
  [pc |-> pc, cfg |-> cfg, todo |-> {}, seen |-> 0, one |-> FALSE, wiped |-> FALSE]

Live(p) == proc[p].pc \notin {"off", "done", "dead"}
Serving == \E p \in Replicas : proc[p].pc = "serving"

At(p, pc) == proc[p].pc = pc
Goto(p, pc) == proc' = [proc EXCEPT ![p].pc = pc]

(* logging.Fatal.                                                          *)
Fatal(p) == proc' = [proc EXCEPT ![p] = Boot(proc[p].cfg, "dead")]

Init ==
  /\ dialect \in Dialects
  /\ rows = {} /\ holder = [t \in WithId1 |-> None] /\ fresh = WithId1
  /\ touched = {}
  /\ ticket = [t \in Legacy |-> [detected |-> FALSE, reopens |-> 0]]
  /\ log = Reopened /\ work = None /\ unlogged = {}
  /\ proc = [p \in Replicas |-> Boot(NoConfig, "off")]
  /\ edit = None
  /\ starts = 0 /\ deaths = 0 /\ changes = 0

-----------------------------------------------------------------------------
(* config.Load: a flag, else the environment, else the file; the presence   *)
(* of a variable is what overrides the file.                               *)
EnvBool(s, key, fallback) ==
  IF s.env[key] = "unset" THEN fallback ELSE s.env[key] = "true"

Load(s) ==
  LET reset == \/ "demo-reset" \in s.flags
               \/ EnvBool(s, "DEMO_RESET", s.file["demo_reset"] = "true")
      mode == \/ "demo" \in s.flags
              \/ EnvBool(s, "DEMO_MODE", s.file["demo_mode"] = "true")
  IN [reset |-> reset, demo |-> mode \/ reset,
      only |-> "seed-demo" \in s.flags \/ EnvBool(s, "SEED_DEMO_ONLY", FALSE),
      static |-> s.static]

(* One process only on sqlite, as deployed.                                *)
Alone(p) == dialect = "sqlite" => \A q \in Replicas \ {p} : At(q, "off")

Launch(p) ==
  /\ \/ At(p, "off") \/ At(p, "done")
     \/ At(p, "dead") /\ proc[p].cfg.only
  /\ starts < MaxStarts /\ Alone(p)
  /\ \E s \in Settings : proc' = [proc EXCEPT ![p] = Boot(Load(s), "queues?")]
  /\ starts' = starts + 1
  /\ UNCHANGED <<dialect, demo, legacy, edit, deaths, changes>>

(* The supervisor starts a dead server again as it was.                    *)
Restart(p) ==
  /\ At(p, "dead") /\ ~proc[p].cfg.only
  /\ Goto(p, "queues?")
  /\ UNCHANGED <<dialect, demo, legacy, edit, bounds>>

(* Requests end with the process that serves them.                         *)
Drop(p) ==
  /\ edit' = IF edit # None /\ edit.by = p THEN None ELSE edit
  /\ IF work # None /\ work.by = p
       THEN /\ work' = None
            /\ unlogged' = IF work.saved THEN unlogged \union {work.ticket} ELSE unlogged
       ELSE UNCHANGED <<work, unlogged>>

Stop(p) ==
  /\ At(p, "serving")
  /\ proc' = [proc EXCEPT ![p] = Boot(NoConfig, "off")]
  /\ Drop(p)
  /\ UNCHANGED <<dialect, demo, ticket, log, bounds>>

(* A crash, or a statement of the boot that fails, at any step; a sequence  *)
(* may have handed out ids that are lost.                                   *)
Die(p) ==
  /\ Live(p) /\ deaths < MaxDeaths
  /\ Fatal(p) /\ deaths' = deaths + 1
  /\ Drop(p)
  /\ \E lost \in IF At(p, "seed") /\ dialect # "sqlite"
                    THEN {{}, {"queues"}, {"queues", "categories"}} ELSE {{}} :
       fresh' = fresh \ lost
  /\ UNCHANGED <<dialect, rows, holder, touched, ticket, log, starts, changes>>

-----------------------------------------------------------------------------
(* What INSERT does about ids and unique names.                            *)
Refused(t) ==
  \/ t \in fresh /\ holder[t] # None
  \/ /\ t \in {"orgs", "users", "services", "categories"}
     /\ \E w \in Gens \union (IF t = "orgs" THEN {} ELSE {"own"}) : <<t, w>> \in rows

GivenId1(ts, w) ==
  [t \in WithId1 |-> IF t \in ts \intersect fresh THEN w ELSE holder[t]]

(* db.Open: queue 1 and category 1.  The count and the insert are two       *)
(* statements, and the id is given: postgres's sequence does not notice.    *)
Defaults == {"queues", "categories"}
Ask == [queues |-> "queues?", categories |-> "categories?"]
Add == [queues |-> "queues+", categories |-> "categories+"]
Then == [queues |-> "categories?", categories |-> "tickets?"]

CountDefaultFaulty(p) == \E t \in Defaults :
  /\ At(p, Ask[t]) /\ Goto(p, Add[t])
  /\ UNCHANGED <<dialect, demo, legacy, edit, bounds>>

CountDefault(p) == \E t \in Defaults :
  /\ At(p, Ask[t])
  /\ Goto(p, IF holder[t] # None THEN Then[t] ELSE Add[t])
  /\ UNCHANGED <<dialect, demo, legacy, edit, bounds>>

InsertDefault(p) == \E t \in Defaults :
  /\ At(p, Add[t])
  /\ IF holder[t] # None \/ (t = "categories" /\ <<t, "default">> \in rows)
       THEN Fatal(p) /\ UNCHANGED demo
       ELSE /\ rows' = rows \union {<<t, "default">>}
            /\ holder' = [holder EXCEPT ![t] = "default"]
            /\ fresh' = IF dialect = "postgres" THEN fresh ELSE fresh \ {t}
            /\ Goto(p, Then[t])
            /\ UNCHANGED touched
  /\ UNCHANGED <<dialect, legacy, edit, bounds>>

(* backfillStageTimestamps: the list of unstamped tickets, then for each    *)
(* its events and an UPDATE of all its stamps.                             *)
ListUnstamped(p) ==
  /\ At(p, "tickets?")
  /\ LET todo == {t \in Legacy : ~ticket[t].detected}
     IN proc' = [proc EXCEPT ![p].todo = todo,
                             ![p].pc = IF todo = {} THEN "actor?" ELSE "events?"]
  /\ UNCHANGED <<dialect, demo, legacy, edit, bounds>>

Current(p) == CHOOSE t \in proc[p].todo : TRUE

ReadEvents(p) ==
  /\ At(p, "events?")
  /\ proc' = [proc EXCEPT ![p].seen = log[Current(p)], ![p].pc = "stamp"]
  /\ UNCHANGED <<dialect, demo, legacy, edit, bounds>>

BackfilledFaulty(seen) == [detected |-> TRUE, reopens |-> 0]

Backfilled(seen) == [detected |-> TRUE, reopens |-> seen]

Stamp(p) ==
  /\ At(p, "stamp")
  /\ ticket' = [ticket EXCEPT ![Current(p)] = Backfilled(proc[p].seen)]
  /\ LET todo == proc[p].todo \ {Current(p)}
     IN proc' = [proc EXCEPT ![p].todo = todo, ![p].seen = 0,
                             ![p].pc = IF todo = {} THEN "actor?" ELSE "events?"]
  /\ UNCHANGED <<dialect, demo, log, work, unlogged, edit, bounds>>

(* auth.Bootstrap: user 1 must exist; an error of the query counts as "no". *)
(* An id is taken before the row is in; only sqlite gives it back.          *)
Accounts(p) ==
  proc' = [proc EXCEPT ![p].pc = "accounts", ![p].one = FALSE,
                       ![p].todo = proc[p].cfg.static]

FindActorFaulty(p) ==
  /\ At(p, "actor?") /\ Accounts(p)
  /\ UNCHANGED <<dialect, demo, legacy, edit, bounds>>

FindActor(p) ==
  /\ At(p, "actor?")
  /\ \/ holder["users"] # None /\ Accounts(p) /\ UNCHANGED deaths
     \/ holder["users"] = None /\ Goto(p, "actor#") /\ UNCHANGED deaths
     \/ holder["users"] # None /\ deaths < MaxDeaths /\ deaths' = deaths + 1
        /\ Goto(p, "actor#")
  /\ UNCHANGED <<dialect, demo, legacy, edit, starts, changes>>

TakeActorId(p) ==
  /\ At(p, "actor#")
  /\ proc' = [proc EXCEPT ![p].pc = "actor+", ![p].one = "users" \in fresh]
  /\ fresh' = IF dialect = "sqlite" THEN fresh ELSE fresh \ {"users"}
  /\ UNCHANGED <<dialect, rows, holder, touched, legacy, edit, bounds>>

CreateActor(p) ==
  /\ At(p, "actor+")
  /\ IF <<"users", "system">> \in rows \/ (proc[p].one /\ holder["users"] # None)
       THEN Fatal(p) /\ UNCHANGED demo
       ELSE /\ rows' = rows \union {<<"users", "system">>}
            /\ holder' = [holder EXCEPT !["users"] = IF proc[p].one THEN "system" ELSE @]
            /\ fresh' = fresh \ {"users"}
            /\ Accounts(p)
            /\ UNCHANGED touched
  /\ UNCHANGED <<dialect, legacy, edit, bounds>>

(* The configured accounts one after another, or else the default admin.   *)
AfterBootstrap(cfg) ==
  CASE cfg.only -> "seed"
    [] cfg.reset /\ ~cfg.only -> "wipe"
    [] cfg.demo /\ ~cfg.reset /\ ~cfg.only -> "demo?"
    [] OTHER -> "serving"

AddUser(n) ==
  /\ rows' = rows \union {<<"users", n>>}
  /\ holder' = GivenId1({"users"}, n) /\ fresh' = fresh \ {"users"}
  /\ UNCHANGED touched

UpsertStatic(p) == \E n \in proc[p].todo :
  /\ At(p, "accounts")
  /\ AddUser(n)
  /\ proc' = [proc EXCEPT ![p].todo = @ \ {n},
       ![p].pc = IF proc[p].todo = {n} THEN AfterBootstrap(proc[p].cfg) ELSE "accounts"]
  /\ UNCHANGED <<dialect, legacy, edit, bounds>>

FindAdmin(p) ==
  /\ At(p, "accounts") /\ proc[p].cfg.static = {}
  /\ Goto(p, IF <<"users", "admin">> \in rows THEN AfterBootstrap(proc[p].cfg) ELSE "admin+")
  /\ UNCHANGED <<dialect, demo, legacy, edit, bounds>>

CreateAdmin(p) ==
  /\ At(p, "admin+")
  /\ IF <<"users", "admin">> \in rows
       THEN Fatal(p) /\ UNCHANGED demo
       ELSE AddUser("admin") /\ Goto(p, AfterBootstrap(proc[p].cfg))
  /\ UNCHANGED <<dialect, legacy, edit, bounds>>

-----------------------------------------------------------------------------
(* internal/demo.  Empty looks at the organizations only.                  *)
Empty(p) ==
  /\ At(p, "demo?")
  /\ Goto(p, IF \E w \in Whiches : <<"orgs", w>> \in rows THEN "serving" ELSE "seed")
  /\ UNCHANGED <<dialect, demo, legacy, edit, bounds>>

(* wipe finds tickets by the queue they are in, what hangs on tickets by    *)
(* the ticket, the rest by the names Seed gives.                           *)
WipedFaulty ==
  LET queues == {g \in Gens : <<"queues", g>> \in rows}
  IN (FoundByQueue \X queues) \union {<<"categories", "own">>}
       \union ((DemoTables \ (FoundByQueue \union {"workflows"})) \X Gens)

Wiped ==
  LET queues == {g \in Gens : <<"queues", g>> \in rows}
  IN (FoundByQueue \X queues)
       \union ((DemoTables \ FoundByQueue) \X Gens) \union {<<"categories", "own">>}

Wipe ==
  /\ rows' = rows \ Wiped
  /\ holder' = [t \in WithId1 |-> IF <<t, holder[t]>> \in Wiped THEN None ELSE holder[t]]
  /\ UNCHANGED <<fresh, touched>>

(* Seed inserts table by table; the first INSERT refused rolls back all but *)
(* the sequences.                                                          *)
Inserted(i) == {SeedOrder[j] : j \in 1..i}
Refusals == {i \in 1..Len(SeedOrder) : Refused(SeedOrder[i])}

Unused(g) ==
  /\ \A t \in DemoTables : <<t, g>> \notin rows
  /\ edit # None => edit.row[2] # g

Seed ==
  /\ Refusals = {}
  /\ \E g \in Gens :
       /\ Unused(g) /\ g = CHOOSE h \in Gens : Unused(h)
       /\ rows' = rows \union (DemoTables \X {g})
       /\ holder' = GivenId1(WithId1, g)
       /\ touched' = touched \ {g}
  /\ fresh' = {}

SeedRefusedFaulty ==
  /\ Refusals # {}
  /\ \E i \in Refusals, g \in Gens :
       /\ Unused(g) /\ \A j \in Refusals : i <= j
       /\ rows' = rows \union (Inserted(i - 1) \X {g})
       /\ fresh' = fresh \ Inserted(i)
  /\ UNCHANGED <<holder, touched>>

SeedRefused ==
  /\ Refusals # {}
  /\ \E i \in Refusals :
       /\ \A j \in Refusals : i <= j
       /\ fresh' = IF dialect = "sqlite" THEN fresh ELSE fresh \ Inserted(i)
  /\ UNCHANGED <<rows, holder, touched>>

BootWipe(p) ==
  /\ At(p, "wipe")
  /\ Wipe
  /\ Goto(p, "seed")
  /\ UNCHANGED <<dialect, legacy, edit, bounds>>

BootSeed(p) ==
  /\ At(p, "seed")
  /\ \/ Seed /\ Goto(p, IF proc[p].cfg.only THEN "done" ELSE "serving")
     \/ SeedRefused /\ Fatal(p)
  /\ UNCHANGED <<dialect, legacy, edit, bounds>>

(* handleDemoReset, served beside anything else.  An error leaves the       *)
(* server up, whatever the first transaction did.                          *)
ButtonWipe(p) ==
  /\ At(p, "serving") /\ proc[p].cfg.demo /\ ~proc[p].wiped
  /\ changes < MaxChanges /\ changes' = changes + 1
  /\ Wipe
  /\ proc' = [proc EXCEPT ![p].wiped = TRUE]
  /\ UNCHANGED <<dialect, legacy, edit, starts, deaths>>

ButtonSeed(p) ==
  /\ At(p, "serving") /\ proc[p].wiped
  /\ \/ Seed /\ UNCHANGED deaths
     \/ SeedRefused /\ UNCHANGED deaths
     \/ deaths < MaxDeaths /\ deaths' = deaths + 1 /\ UNCHANGED demo
  /\ proc' = [proc EXCEPT ![p].wiped = FALSE]
  /\ UNCHANGED <<dialect, legacy, edit, starts, changes>>

-----------------------------------------------------------------------------
(* Requests meanwhile.                                                     *)
Served(p) ==
  /\ At(p, "serving") /\ changes < MaxChanges /\ changes' = changes + 1
  /\ UNCHANGED <<dialect, proc, starts, deaths>>

CreateOrg(p) ==
  /\ Served(p)
  /\ rows' = rows \union {<<"orgs", "own">>}
  /\ UNCHANGED <<holder, fresh, touched, legacy, edit>>

(* Names are unique; an id that is taken costs one attempt.                 *)
CreateCategory(p) == \E w \in {"default", "own"} :
  /\ Served(p)
  /\ <<"categories", w>> \notin rows
  /\ w = "own" => \A g \in Gens : <<"categories", g>> \notin rows
  /\ IF "categories" \in fresh /\ holder["categories"] # None
       THEN UNCHANGED <<rows, holder>>
       ELSE rows' = rows \union {<<"categories", w>>} /\ holder' = GivenId1({"categories"}, w)
  /\ fresh' = fresh \ {"categories"}
  /\ UNCHANGED <<touched, legacy, edit>>

(* Neither what a queue holds nor what names a category is looked at.      *)
Delete(p) == \E r \in rows :
  /\ Served(p)
  /\ r[1] \in Defaults
  /\ rows' = rows \ {r}
  /\ holder' = [holder EXCEPT ![r[1]] = IF @ = r[2] THEN None ELSE @]
  /\ touched' = touched \union ({r[2]} \intersect Gens)
  /\ UNCHANGED <<fresh, legacy, edit>>

(* SetSLATable, or any update of a ticket: a row is read, and later written *)
(* whole, which inserts it if it is gone.                                  *)
LoadRow(p) == \E r \in rows :
  /\ Served(p) /\ edit = None
  /\ r[1] \in {"queues", "tickets"}
  /\ edit' = [row |-> r, by |-> p, one |-> r[1] = "queues" /\ holder["queues"] = r[2]]
  /\ UNCHANGED <<demo, legacy>>

SaveRow ==
  /\ edit # None
  /\ LET r == edit.row  copy == {r[2]} \intersect Gens
     IN /\ rows' = IF edit.one THEN (rows \ {<<"queues", holder["queues"]>>}) \union {r}
                               ELSE rows \union {r}
        /\ holder' = IF edit.one THEN [holder EXCEPT !["queues"] = r[2]] ELSE holder
        /\ touched' = touched \union (IF r \in rows THEN {} ELSE copy)
                       \union (IF edit.one THEN ({holder["queues"]} \ {r[2]}) \intersect Gens
                                        ELSE {})
  /\ edit' = None
  /\ UNCHANGED <<dialect, fresh, legacy, proc, bounds>>

(* A legacy ticket is reopened: its row is read, written whole, and then    *)
(* the event logged.                                                       *)
LoadTicket(p) == \E t \in Legacy :
  /\ Served(p) /\ work = None
  /\ work' = [ticket |-> t, copy |-> ticket[t], saved |-> FALSE, by |-> p]
  /\ UNCHANGED <<demo, ticket, log, unlogged, edit>>

SaveTicket ==
  /\ work # None /\ ~work.saved
  /\ ticket' = [ticket EXCEPT ![work.ticket] =
                  [work.copy EXCEPT !.reopens = work.copy.reopens + 1]]
  /\ work' = [work EXCEPT !.saved = TRUE]
  /\ UNCHANGED <<dialect, demo, log, unlogged, proc, edit, bounds>>

LogTicket ==
  /\ work # None /\ work.saved
  /\ log' = [log EXCEPT ![work.ticket] = @ + 1]
  /\ work' = None
  /\ UNCHANGED <<dialect, demo, ticket, unlogged, proc, edit, bounds>>

Request(p) ==
  \/ ButtonWipe(p) \/ ButtonSeed(p) \/ CreateOrg(p) \/ CreateCategory(p) \/ Delete(p)
  \/ LoadRow(p) \/ LoadTicket(p)

BootStep(p) ==
  \/ Restart(p)
  \/ CountDefault(p) \/ InsertDefault(p)
  \/ ListUnstamped(p) \/ ReadEvents(p) \/ Stamp(p)
  \/ FindActor(p) \/ TakeActorId(p) \/ CreateActor(p)
  \/ UpsertStatic(p) \/ FindAdmin(p) \/ CreateAdmin(p)
  \/ Empty(p) \/ BootWipe(p) \/ BootSeed(p)

Next ==
  \/ \E p \in Replicas : Launch(p) \/ Stop(p) \/ Die(p) \/ BootStep(p) \/ Request(p)
  \/ SaveRow \/ SaveTicket \/ LogTicket

(* A running process goes on, and its supervisor restarts it.              *)
Fairness == \A p \in Replicas : WF_vars(BootStep(p))

Spec == Init /\ [][Next]_vars /\ Fairness

-----------------------------------------------------------------------------
(* Rows, sequences, stamps and processes have their types; in particular   *)
(* no count of reopenings ever goes below zero.                            *)
TypeOK ==
  /\ dialect \in Dialects
  /\ rows \subseteq Row /\ fresh \subseteq WithId1
  /\ holder \in [WithId1 -> Whiches \union {None}]
  /\ touched \subseteq Gens
  /\ ticket \in [Legacy -> Stamps] /\ log \in [Legacy -> Nat] /\ unlogged \subseteq Legacy
  /\ work # None => work \in Works
  /\ edit # None => edit \in [row : Row, one : BOOLEAN, by : Replicas]
  /\ proc \in [Replicas -> Process]
  /\ starts \in 0..MaxStarts /\ deaths \in 0..MaxDeaths /\ changes \in 0..MaxChanges

(* Automation signs as user 1.  Whatever races, crashes and orders of       *)
(* seeding there are, nobody but "system" ever gets that id: the demo data  *)
(* and the accounts come after it (bootstrap.go:21, main.go:73).            *)
ActorIsNobodyElse == holder["users"] \in {None, "system"}

PastBootstrap == {"accounts", "admin+", "demo?", "wipe", "seed", "serving", "done"}

(* Past Bootstrap user 1 is there, as main.go:73 has it.                   *)
SystemActorIsUser1 ==
  \A p \in Replicas : proc[p].pc \in PastBootstrap => holder["users"] = "system"

(* A copy of the demo data is in whole or not at all, wherever a seed or a  *)
(* wipe was cut short, unless requests took rows out of it or put rows back.*)
DemoWhole ==
  \A g \in Gens \ touched :
    {t \in DemoTables : <<t, g>> \in rows} \in {{}, DemoTables}

(* However many replicas boot, reseed and press the button at once, there   *)
(* is one copy of what a reset finds by name, and one of the tickets and    *)
(* what hangs on them unless a queue was deleted or a row revived: two of   *)
(* the runbook would assign every ticket twice.                            *)
Counted(t, g) ==
  <<t, g>> \in rows /\ (t \in FoundByQueue \union {"queues"} => g \notin touched)
DemoOnce ==
  \A t \in DemoTables : \A g, h \in Gens : Counted(t, g) /\ Counted(t, h) => g = h

(* On sqlite no boot overlaps a request, and a server that is up has every  *)
(* legacy ticket stamped with what its log says, however often the backfill *)
(* was interrupted; only a reopening that was never logged is missing.      *)
BackfillComplete ==
  dialect = "sqlite" /\ Serving =>
    \A t \in Legacy \ unlogged :
      /\ ticket[t].detected
      /\ ticket[t].reopens =
           log[t] + (IF work # None /\ work.ticket = t /\ work.saved THEN 1 ELSE 0)

(* Every replica ends up serving, stopped by the operator or, started only  *)
(* to seed, at its end, unless a boot can never get through again: "system" *)
(* has another id than 1, category 1 is gone and its name is taken, or a    *)
(* category of a demo's name is in the way of the seed.                    *)
Stuck ==
  \/ <<"users", "system">> \in rows /\ holder["users"] # "system"
  \/ <<"categories", "default">> \in rows /\ holder["categories"] # "default"
  \/ <<"categories", "own">> \in rows
Settled(p) ==
  \/ proc[p].pc \in {"off", "serving", "done"}
  \/ proc[p].cfg.only /\ At(p, "dead")
EventuallyUp == <>Stuck \/ \A p \in Replicas : <>[]Settled(p)

=============================================================================
