---------------------------- MODULE StartupProofs ----------------------------
(***************************************************************************)
(* Start-up for any number of replicas, any settings, any database of the  *)
(* three, any number of crashes, failed statements and requests.           *)
(*                                                                         *)
(* That user 1 is "system" or nobody rests on the order of the boot: a     *)
(* process past the lookup of user 1 knows that the users' sequence has    *)
(* handed out 1, so nothing it inserts can get it.  That the demo data is   *)
(* whole and there once rests on the two transactions and on the unique    *)
(* names of organizations: whatever Seed inserts besides tickets comes with *)
(* an organization, and goes with it.  On sqlite, where one replica runs at *)
(* a time, what the backfill read of a log stays true until its stamp.     *)
(***************************************************************************)
EXTENDS Startup, TLAPS

-----------------------------------------------------------------------------
(* Types.                                                                  *)
LEMMA LoadType == \A s \in Settings : Load(s) \in Config
  BY DEF Load, Config, Names

LEMMA RowType == \A r \in Row : r[2] \in Whiches /\ r = <<r[1], r[2]>>
  BY DEF Row, Whiches

Holders == [WithId1 -> Whiches \union {None}]

LEMMA GivenType ==
  ASSUME NEW ts, NEW w \in Whiches, holder \in Holders
  PROVE  GivenId1(ts, w) \in Holders
  BY DEF GivenId1, Holders

Procs == proc \in [Replicas -> Process]
(* A backfill under way has tickets left, and accounts are made of names.   *)
Backfilling == {"events?", "stamp"}
Left(pr) ==
  /\ pr.pc \in Backfilling => pr.todo \in (SUBSET Legacy) \ {{}}
  /\ pr.pc = "accounts" => pr.todo \subseteq Names
WorkLeft == \A p \in Replicas : Left(proc[p])
ProcTyped == Procs /\ WorkLeft /\ ticket \in [Legacy -> Stamps] /\ log \in [Legacy -> Nat]

LEMMA BootType ==
  ASSUME NEW cfg \in Config, NEW pc \in Pcs
  PROVE  Boot(cfg, pc) \in Process
  BY DEF Boot, Process

LEMMA GotoType ==
  ASSUME Procs, NEW p \in Replicas, NEW pc \in Pcs, Goto(p, pc)
  PROVE  Procs' /\ proc'[p].pc = pc /\ \A q \in Replicas \ {p} : proc'[q] = proc[q]
  BY DEF Procs, Goto, Process

LEMMA FatalType ==
  ASSUME Procs, NEW p \in Replicas, Fatal(p)
  PROVE  Procs' /\ proc'[p].pc = "dead" /\ \A q \in Replicas \ {p} : proc'[q] = proc[q]
<1>1. proc[p].cfg \in Config
  BY DEF Procs, Process
<1>2. Boot(proc[p].cfg, "dead") \in Process
  BY <1>1, BootType DEF Pcs
<1> QED
  BY <1>2 DEF Procs, Fatal, Boot

Counts(pr) == pr.pc = "accounts" /\ pr.todo \subseteq Names

LEMMA AccountsType ==
  ASSUME Procs, NEW p \in Replicas, Accounts(p)
  PROVE  Procs' /\ Counts(proc'[p]) /\ \A q \in Replicas \ {p} : proc'[q] = proc[q]
<1>1. proc[p] \in Process /\ proc[p].cfg.static \in SUBSET (Legacy \union Names)
  BY DEF Procs, Process, Config
<1> DEFINE set == proc[p].cfg.static
           new == [proc[p] EXCEPT !.pc = "accounts", !.one = FALSE, !.todo = set]
<1>2. new \in Process /\ new.pc = "accounts" /\ new.todo \subseteq Names
  <2>1. set \subseteq Names
    BY DEF Procs, Process, Config
  <2> HIDE DEF set
  <2> QED
    BY <1>1, <2>1 DEF Process, Pcs, set
<1>3. proc' = [proc EXCEPT ![p] = new]
  BY DEF Accounts, Procs
<1> HIDE DEF new
<1> QED
  BY <1>2, <1>3 DEF Procs, Counts

LEMMA AfterType == \A cfg \in Config : AfterBootstrap(cfg) \in {"seed", "wipe", "demo?", "serving"}
  BY DEF AfterBootstrap, Config

(* How a step moves a process: past Bootstrap's lookup of user 1 it comes   *)
(* only by having found that user, or with the users' sequence used.       *)
Comes(p) ==
  proc'[p].pc \in PastBootstrap =>
    \/ proc[p].pc \in PastBootstrap
    \/ holder["users"] # None
    \/ "users" \notin fresh'
Moves(p) ==
  /\ Procs' /\ WorkLeft' /\ Comes(p)
  /\ \A q \in Replicas \ {p} : proc'[q] = proc[q]

LEMMA ReplaceMoves ==
  ASSUME Procs, WorkLeft, NEW p \in Replicas, NEW new \in Process,
         proc' = [proc EXCEPT ![p] = new],
         Left(new),
         new.pc \in PastBootstrap =>
           \/ proc[p].pc \in PastBootstrap \/ holder["users"] # None \/ "users" \notin fresh'
  PROVE  Moves(p)
  BY DEF Procs, WorkLeft, Left, Moves, Comes

LEMMA GotoMoves ==
  ASSUME Procs, WorkLeft, NEW p \in Replicas, NEW pc \in Pcs \ (Backfilling \union {"accounts"}), Goto(p, pc),
         pc \in PastBootstrap =>
           \/ proc[p].pc \in PastBootstrap \/ holder["users"] # None \/ "users" \notin fresh'
  PROVE  Moves(p)
<1>1. Procs' /\ proc'[p].pc = pc /\ \A q \in Replicas \ {p} : proc'[q] = proc[q]
  BY GotoType
<1> QED
  BY <1>1 DEF Moves, Comes, WorkLeft, Left

LEMMA FatalMoves ==
  ASSUME Procs, WorkLeft, NEW p \in Replicas, Fatal(p)
  PROVE  Moves(p)
<1>1. Procs' /\ proc'[p].pc = "dead" /\ \A q \in Replicas \ {p} : proc'[q] = proc[q]
  BY FatalType
<1> QED
  BY <1>1 DEF Moves, Comes, WorkLeft, Left, PastBootstrap, Backfilling

LEMMA AccountsMoves ==
  ASSUME Procs, WorkLeft, NEW p \in Replicas, Accounts(p),
         holder["users"] # None \/ "users" \notin fresh'
  PROVE  Moves(p)
<1>1. Procs' /\ Counts(proc'[p]) /\ \A q \in Replicas \ {p} : proc'[q] = proc[q]
  BY AccountsType
<1> QED
  BY <1>1 DEF Moves, Comes, WorkLeft, Left, Counts, Backfilling

LEMMA StillMoves ==
  ASSUME Procs, WorkLeft, NEW p \in Replicas, UNCHANGED proc
  PROVE  Moves(p)
  BY DEF Moves, Comes, WorkLeft, Left, Procs

LEMMA LaunchMoves ==
  ASSUME Procs, WorkLeft, NEW p \in Replicas, Launch(p)
  PROVE  Moves(p)
<1>1. PICK s \in Settings : proc' = [proc EXCEPT ![p] = Boot(Load(s), "queues?")]
  BY DEF Launch
<1>2. Boot(Load(s), "queues?") \in Process /\ Boot(Load(s), "queues?").pc = "queues?"
  BY LoadType, BootType DEF Pcs, Boot
<1> QED
  BY <1>1, <1>2, ReplaceMoves DEF PastBootstrap, Backfilling, Left

LEMMA StopMoves ==
  ASSUME Procs, WorkLeft, NEW p \in Replicas, Stop(p)
  PROVE  Moves(p)
<1>1. Boot(NoConfig, "off") \in Process /\ Boot(NoConfig, "off").pc = "off"
  <2>1. NoConfig \in Config
    BY DEF NoConfig, Config
  <2> QED
    BY <2>1, BootType DEF Pcs, Boot
<1> QED
  BY <1>1, ReplaceMoves DEF PastBootstrap, Backfilling, Left, Stop

LEMMA BackfillMoves ==
  ASSUME ProcTyped, NEW p \in Replicas, ListUnstamped(p) \/ ReadEvents(p) \/ Stamp(p)
  PROVE  Moves(p)
<1>0. proc[p] \in Process /\ Procs /\ WorkLeft
  BY DEF Procs, ProcTyped
<1>1. proc[p].pc \in Backfilling => Current(p) \in Legacy /\ proc[p].todo \in SUBSET Legacy
  BY <1>0 DEF WorkLeft, Left, Current
<1>2. CASE ListUnstamped(p)
  <2> DEFINE todo == {t \in Legacy : ~ticket[t].detected}
             pc == IF todo = {} THEN "actor?" ELSE "events?"
             new == [proc[p] EXCEPT !.todo = todo, !.pc = pc]
  <2>1. todo \in SUBSET Legacy /\ pc \in Pcs /\ pc \notin PastBootstrap
        /\ (pc \in Backfilling => todo # {}) /\ pc # "accounts"
    BY DEF Pcs, PastBootstrap, Backfilling
  <2>2. proc' = [proc EXCEPT ![p] = new]
    BY <1>2 DEF ListUnstamped, Procs
  <2> HIDE DEF todo, pc
  <2>3. new \in Process /\ new.pc = pc /\ new.todo = todo
    BY <1>0, <2>1 DEF Process
  <2> HIDE DEF new
  <2> QED
    BY <1>0, <2>1, <2>2, <2>3, ReplaceMoves DEF Left
<1>3. CASE ReadEvents(p)
  <2> DEFINE new == [proc[p] EXCEPT !.seen = log[Current(p)], !.pc = "stamp"]
  <2>1. log[Current(p)] \in Nat /\ proc[p].todo \in (SUBSET Legacy) \ {{}}
    BY <1>0, <1>1, <1>3 DEF ReadEvents, At, Backfilling, ProcTyped, WorkLeft, Left
  <2>2. proc' = [proc EXCEPT ![p] = new]
    BY <1>3 DEF ReadEvents, Procs
  <2>3. new \in Process /\ new.pc = "stamp" /\ new.todo = proc[p].todo
    BY <1>0, <2>1 DEF Process, Pcs
  <2> HIDE DEF new
  <2> QED
    BY <1>0, <2>1, <2>2, <2>3, ReplaceMoves DEF PastBootstrap, Left
<1>4. CASE Stamp(p)
  <2> DEFINE todo == proc[p].todo \ {Current(p)}
             pc == IF todo = {} THEN "actor?" ELSE "events?"
             new == [proc[p] EXCEPT !.todo = todo, !.seen = 0, !.pc = pc]
  <2>1. todo \in SUBSET Legacy /\ pc \in Pcs /\ pc \notin PastBootstrap
        /\ (pc \in Backfilling => todo # {}) /\ pc # "accounts"
    BY <1>1, <1>4 DEF Stamp, At, Pcs, PastBootstrap, Backfilling
  <2>2. proc' = [proc EXCEPT ![p] = new]
    BY <1>4 DEF Stamp, Procs
  <2> HIDE DEF todo, pc
  <2>3. new \in Process /\ new.pc = pc /\ new.todo = todo
    BY <1>0, <2>1 DEF Process
  <2> HIDE DEF new
  <2> QED
    BY <1>0, <2>1, <2>2, <2>3, ReplaceMoves DEF Left
<1> QED
  BY <1>2, <1>3, <1>4

LEMMA ActorMoves ==
  ASSUME Procs, WorkLeft, NEW p \in Replicas, FindActor(p) \/ TakeActorId(p) \/ CreateActor(p)
  PROVE  Moves(p)
<1>0. proc[p] \in Process
  BY DEF Procs
<1>1. CASE FindActor(p)
  <2>1. CASE Accounts(p) /\ holder["users"] # None
    BY <2>1, AccountsMoves
  <2>2. CASE Goto(p, "actor#")
    BY <2>2, GotoMoves DEF Pcs, PastBootstrap, Backfilling
  <2> QED
    BY <1>1, <2>1, <2>2 DEF FindActor
<1>2. CASE TakeActorId(p)
  <2> DEFINE one == "users" \in fresh
             new == [proc[p] EXCEPT !.pc = "actor+", !.one = one]
  <2>1. one \in BOOLEAN
    OBVIOUS
  <2>2. proc' = [proc EXCEPT ![p] = new]
    BY <1>2 DEF TakeActorId, Procs
  <2> HIDE DEF one
  <2>3. new \in Process /\ new.pc = "actor+"
    BY <1>0, <2>1 DEF Process, Pcs
  <2> HIDE DEF new
  <2> QED
    BY <2>2, <2>3, ReplaceMoves DEF PastBootstrap, Backfilling, Left
<1>3. CASE CreateActor(p)
  <2>1. CASE Fatal(p)
    BY <2>1, FatalMoves
  <2>2. CASE Accounts(p) /\ fresh' = fresh \ {"users"}
    BY <2>2, AccountsMoves
  <2> QED
    BY <1>3, <2>1, <2>2 DEF CreateActor
<1> QED
  BY <1>1, <1>2, <1>3

LEMMA UserMoves ==
  ASSUME Procs, WorkLeft, NEW p \in Replicas, UpsertStatic(p) \/ FindAdmin(p) \/ CreateAdmin(p)
  PROVE  Moves(p)
<1>0. proc[p] \in Process /\ proc[p].cfg \in Config
  BY DEF Procs, Process
<1> DEFINE after == AfterBootstrap(proc[p].cfg)
<1>1. after \in Pcs \ (Backfilling \union {"accounts"})
  BY <1>0, AfterType DEF Pcs, Backfilling
<1> HIDE DEF after
<1>2. CASE UpsertStatic(p)
  <2>1. PICK n \in proc[p].todo :
          /\ At(p, "accounts")
          /\ proc' = [proc EXCEPT ![p].todo = @ \ {n},
                        ![p].pc = IF proc[p].todo = {n} THEN after ELSE "accounts"]
    BY <1>2 DEF UpsertStatic, after
  <2> DEFINE todo == proc[p].todo \ {n}
             pc == IF proc[p].todo = {n} THEN after ELSE "accounts"
             new == [proc[p] EXCEPT !.todo = todo, !.pc = pc]
  <2>2. todo \in SUBSET (Legacy \union Names) /\ pc \in Pcs \ Backfilling
        /\ todo \subseteq Names
    BY <1>0, <1>1, <2>1 DEF Process, Pcs, Backfilling, At, WorkLeft, Left
  <2>3. proc' = [proc EXCEPT ![p] = new]
    BY <2>1 DEF Procs
  <2> HIDE DEF todo, pc
  <2>4. new \in Process /\ new.pc = pc /\ new.todo = todo
    BY <1>0, <2>2 DEF Process
  <2> HIDE DEF new
  <2> QED
    BY <2>1, <2>2, <2>3, <2>4, ReplaceMoves DEF Left, PastBootstrap, At
<1>3. CASE FindAdmin(p)
  <2>1. At(p, "accounts") /\ \E pc \in {after, "admin+"} : Goto(p, pc)
    BY <1>3 DEF FindAdmin, after
  <2> QED
    BY <1>1, <2>1, GotoMoves DEF At, PastBootstrap, Pcs, Backfilling
<1>4. CASE CreateAdmin(p)
  <2>1. At(p, "admin+") /\ (Fatal(p) \/ Goto(p, after))
    BY <1>4 DEF CreateAdmin, after
  <2> QED
    BY <1>1, <2>1, GotoMoves, FatalMoves DEF At, PastBootstrap
<1> QED
  BY <1>2, <1>3, <1>4

LEMMA DemoMoves ==
  ASSUME Procs, WorkLeft, NEW p \in Replicas,
         Empty(p) \/ BootWipe(p) \/ BootSeed(p) \/ ButtonWipe(p) \/ ButtonSeed(p)
  PROVE  Moves(p)
<1>0. proc[p] \in Process
  BY DEF Procs
<1>1. CASE Empty(p) \/ BootWipe(p) \/ BootSeed(p)
  <2>1. proc[p].pc \in PastBootstrap
    BY <1>1 DEF Empty, BootWipe, BootSeed, At, PastBootstrap
  <2>2. Fatal(p) \/ \E pc \in {"serving", "seed", "done"} : Goto(p, pc)
    BY <1>1 DEF Empty, BootWipe, BootSeed
  <2> QED
    BY <2>1, <2>2, GotoMoves, FatalMoves DEF Pcs, Backfilling
<1>2. ASSUME NEW b \in BOOLEAN, At(p, "serving"), proc' = [proc EXCEPT ![p].wiped = b]
      PROVE  Moves(p)
  <2> DEFINE new == [proc[p] EXCEPT !.wiped = b]
  <2>1. proc' = [proc EXCEPT ![p] = new] /\ new \in Process /\ new.pc = "serving"
    BY <1>0, <1>2 DEF Process, Procs, At
  <2> HIDE DEF new
  <2> QED
    BY <1>2, <2>1, ReplaceMoves DEF PastBootstrap, Backfilling, Left, At
<1> QED
  BY <1>1, <1>2 DEF ButtonWipe, ButtonSeed

LEMMA DefaultMoves ==
  ASSUME Procs, WorkLeft, NEW p \in Replicas, Restart(p) \/ CountDefault(p) \/ InsertDefault(p)
  PROVE  Moves(p)
<1>1. Restart(p) => Moves(p)
  BY GotoMoves DEF Restart, Pcs, Backfilling, PastBootstrap
<1>2. \A t \in Defaults : {Then[t], Add[t]} \subseteq Pcs \ (Backfilling \union {"accounts"} \union PastBootstrap)
  BY DEF Defaults, Then, Add, Pcs, Backfilling, PastBootstrap
<1>3. ASSUME CountDefault(p) \/ InsertDefault(p)
      PROVE  Fatal(p) \/ \E t \in Defaults : \E pc \in {Then[t], Add[t]} : Goto(p, pc)
  BY <1>3 DEF CountDefault, InsertDefault
<1> QED
  BY <1>1, <1>2, <1>3, GotoMoves, FatalMoves

(* Every step is one process's, or leaves all processes alone.             *)
LEMMA StepMoves ==
  ASSUME ProcTyped, [Next]_vars
  PROVE  Procs' /\ WorkLeft' /\ \A p \in Replicas : Comes(p)
<1>1. Procs /\ WorkLeft
  BY DEF ProcTyped
<1>2. ASSUME NEW p \in Replicas, Moves(p)
      PROVE  Procs' /\ WorkLeft' /\ \A q \in Replicas : Comes(q)
  BY <1>2 DEF Moves, Comes
<1>3. CASE UNCHANGED proc
  BY <1>1, <1>3 DEF Procs, WorkLeft, Comes
<1>4. ASSUME NEW p \in Replicas, Launch(p) \/ Stop(p) \/ Die(p)
      PROVE  Moves(p)
  BY <1>1, <1>4, LaunchMoves, StopMoves, FatalMoves DEF Die
<1>5. ASSUME NEW p \in Replicas, BootStep(p)
      PROVE  Moves(p)
  BY <1>1, <1>5, DefaultMoves, BackfillMoves, ActorMoves, UserMoves, DemoMoves DEF BootStep
<1>6. ASSUME NEW p \in Replicas, Request(p)
      PROVE  Moves(p) \/ UNCHANGED proc
  <2>1. CASE ButtonWipe(p) \/ ButtonSeed(p)
    BY <1>1, <2>1, DemoMoves
  <2>2. CASE CreateOrg(p) \/ CreateCategory(p) \/ Delete(p) \/ LoadRow(p)
             \/ LoadTicket(p)
    BY <2>2 DEF CreateOrg, CreateCategory, Delete, LoadRow, LoadTicket, Served
  <2> QED
    BY <1>6, <2>1, <2>2 DEF Request
<1>7. SaveRow \/ SaveTicket \/ LogTicket \/ UNCHANGED vars => UNCHANGED proc
  BY DEF SaveRow, SaveTicket, LogTicket, vars
<1> QED
  BY <1>2, <1>3, <1>4, <1>5, <1>6, <1>7 DEF Next

-----------------------------------------------------------------------------
(* The database's types.                                                   *)
DemoType ==
  /\ rows \subseteq Row /\ fresh \subseteq WithId1 /\ holder \in Holders
  /\ touched \subseteq Gens
Edits == [row : Row, one : BOOLEAN, by : Replicas]
EditType == edit # None => edit \in Edits
LegacyType ==
  /\ ticket \in [Legacy -> Stamps] /\ log \in [Legacy -> Nat] /\ unlogged \subseteq Legacy
  /\ work # None => work \in Works
BoundType == starts \in 0..MaxStarts /\ deaths \in 0..MaxDeaths /\ changes \in 0..MaxChanges

TypeInv == TypeOK /\ WorkLeft

LEMMA TypeParts ==
  TypeInv <=> /\ dialect \in Dialects /\ DemoType /\ EditType /\ LegacyType /\ BoundType
              /\ Procs /\ WorkLeft
  BY DEF TypeInv, TypeOK, DemoType, Holders, EditType, Edits, LegacyType, Works, BoundType, Procs

LEMMA DemoInserts ==
  ASSUME DemoType, NEW ts, NEW t \in DemoTables, NEW w \in Whiches, <<t, w>> \in Row,
         rows' = rows \union {<<t, w>>}, holder' = GivenId1(ts, w), fresh' = fresh \ ts,
         UNCHANGED touched
  PROVE  DemoType'
  BY GivenType DEF DemoType

LEMMA StepDemo ==
  ASSUME TypeInv, [Next]_vars
  PROVE  DemoType'
<1>1. DemoType /\ EditType /\ Procs /\ WorkLeft
  BY TypeParts
<1>2. CASE UNCHANGED demo
  BY <1>1, <1>2 DEF demo, DemoType
<1>3. \A w \in Names : <<"users", w>> \in Row /\ w \in Whiches
  BY DEF Row, Whiches
<1>4. ASSUME NEW n \in Names, AddUser(n)
      PROVE  DemoType'
  BY <1>1, <1>3, <1>4, GivenType DEF AddUser, DemoType
<1>5. "system" \in Names /\ "admin" \in Names
  BY DEF Names
<1>6. ASSUME NEW p \in Replicas, InsertDefault(p)
      PROVE  DemoType'
  <2>1. PICK t \in Defaults : \/ UNCHANGED demo
                             \/ /\ rows' = rows \union {<<t, "default">>}
                                /\ holder' = [holder EXCEPT ![t] = "default"]
                                /\ fresh' \subseteq fresh
                                /\ UNCHANGED touched
    BY <1>6 DEF InsertDefault
  <2>2. <<t, "default">> \in Row /\ "default" \in Whiches
    BY DEF Row, Whiches, Defaults, DemoTables, SeedOrder
  <2> QED
    BY <1>1, <1>2, <2>1, <2>2 DEF DemoType, Holders
<1>7. ASSUME NEW p \in Replicas, TakeActorId(p) \/ CreateActor(p)
      PROVE  DemoType'
  <2>1. "system" \in Whiches /\ <<"users", "system">> \in Row
    BY <1>3, <1>5
  <2>2. CASE TakeActorId(p)
    BY <1>1, <2>2 DEF TakeActorId, DemoType
  <2>3. CASE CreateActor(p)
    <3>1. CASE UNCHANGED demo
      BY <1>2, <3>1
    <3>2. CASE /\ rows' = rows \union {<<"users", "system">>}
               /\ \E w \in {"system", holder["users"]} : holder' = [holder EXCEPT !["users"] = w]
               /\ fresh' = fresh \ {"users"} /\ UNCHANGED touched
      BY <1>1, <2>1, <3>2 DEF DemoType, Holders, WithId1
    <3> QED
      BY <2>3, <3>1, <3>2 DEF CreateActor
  <2> QED
    BY <1>7, <2>2, <2>3
<1>8. ASSUME NEW p \in Replicas, UpsertStatic(p) \/ CreateAdmin(p)
      PROVE  DemoType'
  <2>1. CASE UpsertStatic(p)
    <3>1. At(p, "accounts") /\ \E n \in proc[p].todo : AddUser(n)
      BY <2>1 DEF UpsertStatic
    <3>2. proc[p].todo \subseteq Names
      BY <1>1, <3>1 DEF WorkLeft, Left, At
    <3> QED
      BY <1>4, <3>1, <3>2
  <2>2. CASE CreateAdmin(p)
    BY <1>2, <1>4, <1>5, <2>2 DEF CreateAdmin
  <2> QED
    BY <1>8, <2>1, <2>2
<1>9. ASSUME Wipe
      PROVE  DemoType'
  BY <1>1, <1>9 DEF Wipe, DemoType, Holders
<1>10. ASSUME Seed \/ SeedRefused
       PROVE  DemoType'
  <2>1. \A g \in Gens : DemoTables \X {g} \subseteq Row /\ g \in Whiches
    BY DEF Row, Whiches
  <2>2. CASE SeedRefused
    BY <1>1, <2>2 DEF SeedRefused, DemoType
  <2>3. CASE Seed
    <3>1. PICK g \in Gens : /\ rows' = rows \union (DemoTables \X {g})
                           /\ holder' = GivenId1(WithId1, g)
                           /\ touched' = touched \ {g}
      BY <2>3 DEF Seed
    <3>2. holder' \in Holders
      BY <1>1, <2>1, <3>1, GivenType DEF DemoType
    <3> QED
      BY <1>1, <2>1, <2>3, <3>1, <3>2 DEF Seed, DemoType
  <2> QED
    BY <1>10, <2>2, <2>3
<1>11. ASSUME NEW p \in Replicas, BootWipe(p) \/ BootSeed(p) \/ ButtonWipe(p) \/ ButtonSeed(p)
       PROVE  DemoType'
  BY <1>2, <1>9, <1>10, <1>11 DEF BootWipe, BootSeed, ButtonWipe, ButtonSeed
<1>12. ASSUME NEW p \in Replicas,
              CreateOrg(p) \/ CreateCategory(p) \/ Delete(p)
       PROVE  DemoType'
  <2>1. \A t \in DemoTables : \A w \in {"default", "own"} : <<t, w>> \in Row /\ w \in Whiches
    BY DEF Row, Whiches
  <2>2. {"orgs", "categories"} \subseteq DemoTables
    BY DEF DemoTables, SeedOrder
  <2>3. CASE CreateOrg(p)
    BY <1>1, <2>1, <2>2, <2>3 DEF CreateOrg, DemoType
  <2>4. CASE CreateCategory(p)
    <3>1. PICK w \in {"default", "own"} :
            /\ \/ UNCHANGED <<rows, holder>>
               \/ /\ rows' = rows \union {<<"categories", w>>}
                  /\ holder' = GivenId1({"categories"}, w)
            /\ fresh' = fresh \ {"categories"} /\ UNCHANGED touched
      BY <2>4 DEF CreateCategory
    <3>2. holder' \in Holders
      BY <1>1, <2>1, <2>2, <3>1, GivenType DEF DemoType
    <3> QED
      BY <1>1, <2>1, <2>2, <3>1, <3>2 DEF DemoType
  <2>5. CASE Delete(p)
    BY <1>1, <2>5 DEF Delete, DemoType, Holders
  <2> QED
    BY <1>12, <2>3, <2>4, <2>5
<1>13. ASSUME SaveRow
       PROVE  DemoType'
  <2>1. edit \in Edits
    BY <1>1, <1>13 DEF SaveRow, EditType
  <2> DEFINE r == edit.row
  <2>2. r \in Row /\ r[2] \in Whiches
    BY <2>1, RowType DEF Edits
  <2>3. rows' \subseteq rows \union {r}
    BY <1>13 DEF SaveRow
  <2>4. holder' \in Holders
    BY <1>1, <1>13, <2>2 DEF SaveRow, DemoType, Holders
  <2>6. touched' \subseteq Gens
    BY <1>1, <1>13 DEF SaveRow, DemoType
  <2>7. fresh' = fresh
    BY <1>13 DEF SaveRow
  <2> QED
    BY <1>1, <2>2, <2>3, <2>4, <2>6, <2>7 DEF DemoType
<1>14. ASSUME NEW p \in Replicas, Die(p)
       PROVE  DemoType'
  BY <1>1, <1>14 DEF Die, DemoType
<1>15. ASSUME NEW p \in Replicas, Launch(p) \/ Stop(p)
       PROVE  UNCHANGED demo
  BY <1>15 DEF Launch, Stop
<1>16. ASSUME NEW p \in Replicas, BootStep(p)
       PROVE  DemoType'
  BY <1>2, <1>6, <1>7, <1>8, <1>11, <1>16
     DEF BootStep, Restart, CountDefault, ListUnstamped, ReadEvents, Stamp, FindActor, FindAdmin,
         Empty
<1>17. ASSUME NEW p \in Replicas, Request(p)
       PROVE  DemoType'
  BY <1>2, <1>11, <1>12, <1>17 DEF Request, LoadRow, LoadTicket
<1> QED
  BY <1>2, <1>13, <1>14, <1>15, <1>16, <1>17 DEF Next, SaveTicket, LogTicket, vars

LEMMA StepEdit ==
  ASSUME TypeInv, [Next]_vars
  PROVE  EditType'
<1>1. DemoType /\ EditType
  BY TypeParts
<1>2. CASE edit' = edit \/ edit' = None
  BY <1>1, <1>2 DEF EditType
<1>3. ASSUME NEW p \in Replicas, LoadRow(p)
      PROVE  EditType'
  BY <1>1, <1>3 DEF LoadRow, EditType, Edits, DemoType
<1>4. ASSUME NEW p \in Replicas, BootStep(p) \/ Launch(p) \/ Stop(p) \/ Die(p)
      PROVE  edit' = edit \/ edit' = None
  BY <1>4 DEF Launch, Stop, Die, Drop, BootStep, Restart, CountDefault, InsertDefault,
       ListUnstamped, ReadEvents, Stamp, FindActor, TakeActorId, CreateActor, UpsertStatic,
       FindAdmin, CreateAdmin, Empty, BootWipe, BootSeed
<1>5. ASSUME NEW p \in Replicas, Request(p)
      PROVE  LoadRow(p) \/ edit' = edit
  BY <1>5 DEF Request, ButtonWipe, ButtonSeed, CreateOrg, CreateCategory, Delete,
       LoadTicket
<1>6. SaveRow \/ SaveTicket \/ LogTicket \/ UNCHANGED vars => edit' = edit \/ edit' = None
  BY DEF SaveRow, SaveTicket, LogTicket, vars
<1> QED
  BY <1>2, <1>3, <1>4, <1>5, <1>6 DEF Next

LEMMA StepLegacy ==
  ASSUME TypeInv, [Next]_vars
  PROVE  LegacyType'
<1>1. LegacyType /\ Procs /\ WorkLeft
  BY TypeParts
<1>2. CASE UNCHANGED legacy
  BY <1>1, <1>2 DEF legacy, LegacyType
<1>3. ASSUME NEW p \in Replicas, Stamp(p)
      PROVE  LegacyType'
  <2>1. proc[p].seen \in Nat
    BY <1>1 DEF Procs, Process
  <2>2. Backfilled(proc[p].seen) \in Stamps
    BY <2>1 DEF Backfilled, Stamps
  <2> QED
    BY <1>1, <1>3, <2>2 DEF Stamp, LegacyType
<1>4. ASSUME NEW p \in Replicas, Drop(p), UNCHANGED <<ticket, log>>
      PROVE  LegacyType'
  <2>1. work # None => work.ticket \in Legacy
    BY <1>1 DEF LegacyType, Works
  <2> QED
    BY <1>1, <1>4, <2>1 DEF Drop, LegacyType
<1>5. ASSUME NEW p \in Replicas, LoadTicket(p)
      PROVE  LegacyType'
  BY <1>1, <1>5 DEF LoadTicket, LegacyType, Works
<1>6. ASSUME SaveTicket
      PROVE  LegacyType'
  <2>1. work \in Works
    BY <1>1, <1>6 DEF SaveTicket, LegacyType
  <2>2. [work.copy EXCEPT !.reopens = work.copy.reopens + 1] \in Stamps
    BY <2>1 DEF Works, Stamps
  <2>3. [work EXCEPT !.saved = TRUE] \in Works
    BY <2>1 DEF Works
  <2> QED
    BY <1>1, <1>6, <2>1, <2>2, <2>3 DEF SaveTicket, LegacyType
<1>7. ASSUME LogTicket
      PROVE  LegacyType'
  <2>1. work.ticket \in Legacy
    BY <1>1, <1>7 DEF LogTicket, LegacyType, Works
  <2> QED
    BY <1>1, <1>7, <2>1 DEF LogTicket, LegacyType
<1>8. ASSUME NEW p \in Replicas, BootStep(p) \/ Launch(p) \/ Stop(p) \/ Die(p)
      PROVE  Stamp(p) \/ UNCHANGED legacy \/ (Drop(p) /\ UNCHANGED <<ticket, log>>)
  BY <1>8 DEF Launch, Stop, Die, BootStep, Restart, CountDefault, InsertDefault,
       ListUnstamped, ReadEvents, FindActor, TakeActorId, CreateActor, UpsertStatic,
       FindAdmin, CreateAdmin, Empty, BootWipe, BootSeed
<1>9. ASSUME NEW p \in Replicas, Request(p)
      PROVE  LoadTicket(p) \/ UNCHANGED legacy
  BY <1>9 DEF Request, ButtonWipe, ButtonSeed, CreateOrg, CreateCategory, Delete,
       LoadRow
<1>10. SaveRow \/ UNCHANGED vars => UNCHANGED legacy
  BY DEF SaveRow, vars
<1> QED
  BY <1>2, <1>3, <1>4, <1>5, <1>6, <1>7, <1>8, <1>9, <1>10 DEF Next

LEMMA StepBounds ==
  ASSUME TypeInv, [Next]_vars
  PROVE  BoundType' /\ dialect' = dialect
<1>1. BoundType /\ {MaxStarts, MaxDeaths, MaxChanges} \subseteq Nat
  BY TypeParts, StartupAssumption
<1>2. ASSUME UNCHANGED bounds
      PROVE  BoundType'
  BY <1>1, <1>2 DEF bounds, BoundType
<1>3. ASSUME \/ starts < MaxStarts /\ starts' = starts + 1 /\ UNCHANGED <<deaths, changes>>
             \/ deaths < MaxDeaths /\ deaths' = deaths + 1 /\ UNCHANGED <<starts, changes>>
             \/ changes < MaxChanges /\ changes' = changes + 1 /\ UNCHANGED <<starts, deaths>>
      PROVE  BoundType'
  BY <1>1, <1>3 DEF BoundType
<1>4. ASSUME NEW p \in Replicas, BootStep(p) \/ Launch(p) \/ Stop(p) \/ Die(p)
      PROVE  BoundType' /\ dialect' = dialect
  <2>1. CASE Launch(p) \/ Die(p) \/ FindActor(p)
    BY <1>2, <1>3, <2>1 DEF bounds, Launch, Die, FindActor
  <2>2. CASE Stop(p)
    BY <1>2, <2>2 DEF Stop
  <2>3. CASE BootStep(p) /\ ~FindActor(p)
    <3>1. UNCHANGED <<bounds, dialect>>
      BY <2>3 DEF BootStep, Restart, CountDefault, InsertDefault, ListUnstamped, ReadEvents,
           Stamp, TakeActorId, CreateActor, UpsertStatic, FindAdmin, CreateAdmin, Empty,
           BootWipe, BootSeed
    <3> QED
      BY <1>2, <3>1
  <2> QED
    BY <1>4, <2>1, <2>2, <2>3
<1>5. ASSUME NEW p \in Replicas, Request(p)
      PROVE  BoundType' /\ dialect' = dialect
  <2>1. CASE ButtonWipe(p) \/ ButtonSeed(p)
    BY <1>2, <1>3, <2>1 DEF bounds, ButtonWipe, ButtonSeed
  <2>2. CASE Served(p)
    BY <1>3, <2>2 DEF Served
  <2> QED
    BY <1>5, <2>1, <2>2 DEF Request, CreateOrg, CreateCategory, Delete, LoadRow,
         LoadTicket
<1>6. SaveRow \/ SaveTicket \/ LogTicket \/ UNCHANGED vars => UNCHANGED <<bounds, dialect>>
  BY DEF SaveRow, SaveTicket, LogTicket, vars
<1> QED
  BY <1>2, <1>4, <1>5, <1>6 DEF Next

LEMMA InitType == Init => TypeInv
<1> SUFFICES ASSUME Init PROVE TypeInv
  OBVIOUS
<1>1. Boot(NoConfig, "off") \in Process /\ Left(Boot(NoConfig, "off"))
  <2>1. NoConfig \in Config
    BY DEF NoConfig, Config
  <2> QED
    BY <2>1, BootType DEF Pcs, Boot, Left, Backfilling
<1>2. Procs /\ WorkLeft
  BY <1>1 DEF Init, Procs, WorkLeft
<1>3. DemoType
  BY DEF Init, DemoType, Holders
<1>4. EditType /\ LegacyType /\ dialect \in Dialects
  BY StartupAssumption DEF Init, EditType, LegacyType, Stamps
<1>5. BoundType
  BY StartupAssumption DEF Init, BoundType
<1> QED
  BY <1>2, <1>3, <1>4, <1>5, TypeParts

LEMMA StepType == TypeInv /\ [Next]_vars => TypeInv'
<1> SUFFICES ASSUME TypeInv, [Next]_vars PROVE TypeInv'
  OBVIOUS
<1>1. ProcTyped /\ dialect \in Dialects
  BY TypeParts DEF ProcTyped, LegacyType
<1> QED
  BY <1>1, StepMoves, StepDemo, StepEdit, StepLegacy, StepBounds, TypeParts
     DEF TypeInv, TypeOK, DemoType, Holders, EditType, Edits, LegacyType, Works, BoundType, Procs

(* Every variable keeps its type, whatever happens to whichever boot.      *)
THEOREM Typed == Spec => []TypeOK
<1>1. TypeInv => TypeOK
  BY DEF TypeInv
<1> QED
  BY <1>1, InitType, StepType, PTL DEF Spec

-----------------------------------------------------------------------------
(* User 1.  The users' sequence never forgets that it handed out 1, and a   *)
(* process past the lookup knows that it did.                              *)
ActorInv ==
  /\ ActorIsNobodyElse
  /\ holder["users"] # None => "users" \notin fresh
  /\ \A p \in Replicas : proc[p].pc \in PastBootstrap => "users" \notin fresh

Given == holder'["users"] \in {holder["users"], None} /\ fresh' \subseteq fresh

LEMMA NotGiven ==
  ASSUME TypeInv, NEW ts, NEW w, holder' = GivenId1(ts, w), fresh' \subseteq fresh,
         "users" \notin ts \/ "users" \notin fresh
  PROVE  Given
  BY DEF GivenId1, Given, WithId1

LEMMA StepGiven ==
  ASSUME TypeInv, ActorInv, [Next]_vars
  PROVE  Given \/ (holder'["users"] = "system" /\ fresh' = fresh \ {"users"})
<1>1. holder \in Holders
  BY TypeParts DEF DemoType
<1>2. CASE UNCHANGED demo
  BY <1>2 DEF demo, Given
<1>3. ASSUME NEW p \in Replicas, InsertDefault(p)
      PROVE  Given
  BY <1>1, <1>3 DEF InsertDefault, Given, Holders, WithId1, Defaults, demo
<1>4. ASSUME NEW p \in Replicas, TakeActorId(p)
      PROVE  Given
  BY <1>4 DEF TakeActorId, Given
<1>5. ASSUME NEW p \in Replicas, CreateActor(p)
      PROVE  Given \/ (holder'["users"] = "system" /\ fresh' = fresh \ {"users"})
  BY <1>1, <1>5 DEF CreateActor, Given, Holders, WithId1, demo
<1>6. ASSUME NEW p \in Replicas, UpsertStatic(p) \/ CreateAdmin(p)
      PROVE  Given
  <2>1. "users" \notin fresh
    BY <1>6 DEF UpsertStatic, CreateAdmin, At, ActorInv, PastBootstrap
  <2>2. (\E n : AddUser(n)) \/ UNCHANGED demo
    BY <1>6 DEF UpsertStatic, CreateAdmin
  <2> QED
    BY <2>1, <2>2, NotGiven DEF AddUser, Given, demo
<1>7. ASSUME NEW p \in Replicas, BootWipe(p) \/ BootSeed(p) \/ ButtonWipe(p) \/ ButtonSeed(p)
      PROVE  Given
  <2>1. "users" \notin fresh
    BY <1>7 DEF BootWipe, BootSeed, ButtonWipe, ButtonSeed, At, ActorInv, PastBootstrap
  <2>2. Wipe \/ Seed \/ SeedRefused \/ UNCHANGED demo
    BY <1>7 DEF BootWipe, BootSeed, ButtonWipe, ButtonSeed
  <2>3. Wipe => Given
    BY DEF Wipe, Given, WithId1
  <2>4. Seed => Given
    BY <2>1, NotGiven DEF Seed
  <2>5. SeedRefused => Given
    BY DEF SeedRefused, Given
  <2> QED
    BY <2>2, <2>3, <2>4, <2>5 DEF Given, demo
<1>8. ASSUME NEW p \in Replicas, CreateOrg(p) \/ CreateCategory(p) \/ Delete(p)
      PROVE  Given
  <2>1. CASE CreateOrg(p)
    BY <2>1 DEF CreateOrg, Given
  <2>2. CASE CreateCategory(p)
    <3>1. \E w : \/ UNCHANGED holder
                 \/ holder' = GivenId1({"categories"}, w)
      BY <2>2 DEF CreateCategory
    <3>2. fresh' \subseteq fresh
      BY <2>2 DEF CreateCategory
    <3> QED
      BY <3>1, <3>2, NotGiven DEF Given
  <2>3. CASE Delete(p)
    BY <1>1, <2>3 DEF Delete, Given, Defaults, Holders, WithId1
  <2> QED
    BY <1>8, <2>1, <2>2, <2>3
<1>9. SaveRow => Given
  BY <1>1 DEF SaveRow, Given, Holders, WithId1
<1>10. ASSUME NEW p \in Replicas, Launch(p) \/ Stop(p) \/ Die(p)
       PROVE  Given
  BY <1>10 DEF Launch, Stop, Die, Given, demo
<1>11. ASSUME NEW p \in Replicas, BootStep(p)
       PROVE  Given \/ (holder'["users"] = "system" /\ fresh' = fresh \ {"users"})
  BY <1>2, <1>3, <1>4, <1>5, <1>6, <1>7, <1>11
     DEF BootStep, Restart, CountDefault, ListUnstamped, ReadEvents, Stamp, FindActor, FindAdmin,
         Empty
<1>12. ASSUME NEW p \in Replicas, Request(p)
       PROVE  Given
  BY <1>7, <1>8, <1>12 DEF Request, LoadRow, LoadTicket, demo, Given
<1> QED
  BY <1>2, <1>9, <1>10, <1>11, <1>12 DEF Next, SaveTicket, LogTicket, vars

LEMMA StepActor == TypeInv /\ ActorInv /\ [Next]_vars => ActorInv'
<1> SUFFICES ASSUME TypeInv, ActorInv, [Next]_vars PROVE ActorInv'
  OBVIOUS
<1>1. \A p \in Replicas : Comes(p)
  BY StepMoves, TypeParts DEF ProcTyped, LegacyType
<1>2. CASE Given
  BY <1>1, <1>2 DEF Given, ActorInv, ActorIsNobodyElse, Comes
<1>3. CASE holder'["users"] = "system" /\ fresh' = fresh \ {"users"}
  BY <1>3 DEF ActorInv, ActorIsNobodyElse
<1> QED
  BY <1>2, <1>3, StepGiven

(* Nobody but "system" ever is user 1, on any database, however many        *)
(* replicas race through whichever crashes (bootstrap.go:21-39).           *)
THEOREM ActorSafe == Spec => []ActorIsNobodyElse
<1>1. Init => ActorInv
  BY DEF Init, ActorInv, ActorIsNobodyElse, Boot, PastBootstrap, WithId1
<1>2. ActorInv => ActorIsNobodyElse
  BY DEF ActorInv
<1> QED
  BY <1>1, <1>2, InitType, StepType, StepActor, PTL DEF Spec

-----------------------------------------------------------------------------
(* The demo data.  What is neither a queue nor found by one comes and goes  *)
(* with an organization, and organizations are of one copy.                *)
EditOfDemo ==
  edit # None => /\ edit.row[1] \in {"queues", "tickets"}
                 /\ edit.one => edit.row[1] = "queues"
Whole ==
  \A g \in Gens \ touched : \A t, u \in DemoTables : <<t, g>> \in rows => <<u, g>> \in rows
WithOrg ==
  \A g \in Gens : \A t \in DemoTables \ (FoundByQueue \union {"queues"}) :
    <<t, g>> \in rows => <<"orgs", g>> \in rows
OneOrg == \A g, h \in Gens : <<"orgs", g>> \in rows /\ <<"orgs", h>> \in rows => g = h

DemoInv == EditOfDemo /\ Whole /\ WithOrg /\ OneOrg

LEMMA Tables ==
  /\ {"orgs", "queues", "categories"} \subseteq DemoTables
  /\ FoundByQueue \subseteq DemoTables
  /\ FoundByQueue \intersect {"orgs", "queues", "categories"} = {}
  BY DEF DemoTables, SeedOrder, FoundByQueue

LEMMA NoCopies == \A w \in {"default", "own"} \union Names : w \notin Gens
  BY NamesAssumption

(* Rows of no copy come and go as they like.                               *)
LEMMA OtherRows ==
  ASSUME DemoInv, UNCHANGED touched,
         \A t : \A g \in Gens : <<t, g>> \in rows' <=> <<t, g>> \in rows,
         edit' = edit \/ edit' = None
  PROVE  DemoInv'
  BY DEF DemoInv, EditOfDemo, Whole, WithOrg, OneOrg

LEMMA WipeDemo ==
  ASSUME TypeInv, DemoInv, Wipe, edit' = edit
  PROVE  DemoInv'
<1>1. \A t \in DemoTables \ FoundByQueue : \A g \in Gens : <<t, g>> \notin rows'
  BY DEF Wipe, Wiped
<1>2. rows' \subseteq rows /\ UNCHANGED touched
  BY DEF Wipe
<1>3. WithOrg' /\ OneOrg'
  BY <1>1, Tables DEF WithOrg, OneOrg
<1>4. Whole'
  <2>1. \A g \in Gens \ touched : \A t \in DemoTables : <<t, g>> \notin rows'
    <3> SUFFICES ASSUME NEW g \in Gens \ touched, NEW t \in DemoTables, <<t, g>> \in rows'
                 PROVE  FALSE
      OBVIOUS
    <3>1. t \in FoundByQueue
      BY <1>1
    <3>2. <<"queues", g>> \in rows
      BY <1>2, Tables DEF DemoInv, Whole, EditOfDemo
    <3>3. <<t, g>> \in Wiped
      BY <3>1, <3>2 DEF Wiped
    <3> QED
      BY <3>3 DEF Wipe
  <2> QED
    BY <1>2, <2>1 DEF Whole
<1> QED
  BY <1>2, <1>3, <1>4 DEF DemoInv, EditOfDemo

LEMMA SeedDemo ==
  ASSUME TypeInv, DemoInv, Seed, edit' = edit
  PROVE  DemoInv'
<1>1. PICK g \in Gens : /\ Unused(g)
                       /\ rows' = rows \union (DemoTables \X {g})
                       /\ touched' = touched \ {g}
  BY DEF Seed
<1>2. \A h \in Gens : <<"orgs", h>> \notin rows
  <2>1. 1 \in 1..Len(SeedOrder) /\ SeedOrder[1] = "orgs"
    BY DEF SeedOrder
  <2>2. ~Refused("orgs")
    BY <2>1 DEF Seed, Refusals
  <2> QED
    BY <2>2 DEF Refused
<1>3. \A t \in DemoTables : \A h \in Gens : <<t, h>> \in rows' <=> h = g \/ <<t, h>> \in rows
  BY <1>1
<1>4. WithOrg' /\ OneOrg'
  BY <1>2, <1>3, Tables DEF WithOrg, OneOrg, DemoInv
<1>5. Whole'
  BY <1>1, <1>3 DEF Whole, DemoInv
<1>6. EditOfDemo'
  BY <1>1 DEF EditOfDemo, DemoInv, Unused
<1> QED
  BY <1>4, <1>5, <1>6 DEF DemoInv

LEMMA DeleteDemo ==
  ASSUME TypeInv, DemoInv, NEW p \in Replicas, Delete(p)
  PROVE  DemoInv'
<1>1. PICK r \in rows : /\ r[1] \in Defaults
                       /\ rows' = rows \ {r}
                       /\ touched' = touched \union ({r[2]} \intersect Gens)
  BY DEF Delete
<1>2. edit' = edit
  BY DEF Delete
<1>3. r = <<r[1], r[2]>>
  BY RowType, TypeParts DEF DemoType
<1>4. \A t : \A g \in Gens : t \notin Defaults \/ g \notin touched' =>
        (<<t, g>> \in rows' <=> <<t, g>> \in rows)
  BY <1>1, <1>3
<1>5. \A t : \A g \in Gens : <<t, g>> \in rows' => <<t, g>> \in rows
  BY <1>1
<1>6. Whole'
  BY <1>1, <1>4 DEF DemoInv, Whole
<1>7. WithOrg' /\ OneOrg'
  BY <1>4, <1>5 DEF DemoInv, WithOrg, OneOrg, Defaults
<1> QED
  BY <1>1, <1>2, <1>6, <1>7 DEF DemoInv, EditOfDemo

LEMMA LoadRowDemo ==
  ASSUME TypeInv, DemoInv, NEW p \in Replicas, LoadRow(p)
  PROVE  DemoInv'
<1>1. PICK r \in rows :
        /\ r[1] \in {"queues", "tickets"}
        /\ edit' = [row |-> r, by |-> p, one |-> r[1] = "queues" /\ holder["queues"] = r[2]]
  BY DEF LoadRow
<1>2. UNCHANGED <<rows, touched>>
  BY DEF LoadRow, demo
<1> QED
  BY <1>1, <1>2 DEF DemoInv, EditOfDemo, Whole, WithOrg, OneOrg

LEMMA SaveRowDemo ==
  ASSUME TypeInv, DemoInv, SaveRow
  PROVE  DemoInv'
<1> DEFINE r == edit.row
           copy == {r[2]} \intersect Gens
           h == holder["queues"]
<1>1. /\ r = <<r[1], r[2]>> /\ r[1] \in {"queues", "tickets"}
      /\ edit.one => r[1] = "queues"
  <2>1. edit \in Edits /\ edit # None
    BY TypeParts DEF SaveRow, EditType
  <2>2. r \in Row
    BY <2>1 DEF Edits
  <2> QED
    BY <2>1, <2>2, RowType DEF DemoInv, EditOfDemo
<1>2. /\ rows' = IF edit.one THEN (rows \ {<<"queues", h>>}) \union {r} ELSE rows \union {r}
      /\ touched' = touched \union (IF r \in rows THEN {} ELSE copy)
                     \union (IF edit.one THEN ({h} \ {r[2]}) \intersect Gens ELSE {})
      /\ edit' = None
  BY DEF SaveRow
<1> HIDE DEF r
<1>3. \A t : \A g \in Gens : t \notin {"queues", "tickets"} \/ g \notin touched' =>
        (<<t, g>> \in rows' <=> <<t, g>> \in rows)
  BY <1>1, <1>2
<1>4. touched \subseteq touched' 
  BY <1>1, <1>2 DEF DemoInv, EditOfDemo
<1>5. Whole'
  BY <1>3, <1>4 DEF DemoInv, Whole
<1>6. WithOrg' /\ OneOrg'
  BY <1>3, Tables DEF DemoInv, WithOrg, OneOrg, FoundByQueue
<1> QED
  BY <1>2, <1>4, <1>5, <1>6 DEF DemoInv, EditOfDemo

LEMMA StepDemoInv == TypeInv /\ DemoInv /\ [Next]_vars => DemoInv'
<1> SUFFICES ASSUME TypeInv, DemoInv, [Next]_vars PROVE DemoInv'
  OBVIOUS
<1>1. CASE UNCHANGED <<rows, touched>> /\ (edit' = edit \/ edit' = None)
  BY <1>1, OtherRows
<1>2. ASSUME NEW t, NEW w \in {"default", "own"} \union Names, UNCHANGED <<touched, edit>>,
             rows' = rows \/ rows' = rows \union {<<t, w>>}
      PROVE  DemoInv'
  BY <1>2, OtherRows, NoCopies
<1>3. "system" \in Names /\ "admin" \in Names
  BY DEF Names
<1>4. ASSUME NEW p \in Replicas, InsertDefault(p) \/ CreateActor(p) \/ CreateAdmin(p)
      PROVE  DemoInv'
  BY <1>2, <1>3, <1>4 DEF InsertDefault, CreateActor, CreateAdmin, AddUser, demo
<1>5. ASSUME NEW p \in Replicas, UpsertStatic(p)
      PROVE  DemoInv'
  <2>1. At(p, "accounts") /\ \E n \in proc[p].todo : AddUser(n)
    BY <1>5 DEF UpsertStatic
  <2>2. proc[p].todo \subseteq Names
    BY <2>1, TypeParts DEF WorkLeft, Left, At
  <2>3. edit' = edit
    BY <1>5 DEF UpsertStatic
  <2> QED
    BY <1>2, <2>1, <2>2, <2>3 DEF AddUser
<1>6. ASSUME NEW p \in Replicas, BootWipe(p) \/ BootSeed(p) \/ ButtonWipe(p) \/ ButtonSeed(p)
      PROVE  DemoInv'
  <2>1. edit' = edit
    BY <1>6 DEF BootWipe, BootSeed, ButtonWipe, ButtonSeed
  <2>2. Wipe \/ Seed \/ SeedRefused \/ UNCHANGED demo
    BY <1>6 DEF BootWipe, BootSeed, ButtonWipe, ButtonSeed
  <2> QED
    BY <1>1, <2>1, <2>2, WipeDemo, SeedDemo DEF SeedRefused, demo
<1>7. ASSUME NEW p \in Replicas, CreateOrg(p) \/ CreateCategory(p)
      PROVE  DemoInv'
  BY <1>2, <1>7 DEF CreateOrg, CreateCategory
<1>8. ASSUME NEW p \in Replicas, Launch(p) \/ Stop(p) \/ Die(p)
      PROVE  DemoInv'
  BY <1>1, <1>8 DEF Launch, Stop, Die, Drop, demo
<1>9. ASSUME NEW p \in Replicas, BootStep(p)
      PROVE  DemoInv'
  BY <1>1, <1>4, <1>5, <1>6, <1>9
     DEF BootStep, Restart, CountDefault, ListUnstamped, ReadEvents, Stamp, FindActor, FindAdmin,
         Empty, TakeActorId, demo
<1>10. ASSUME NEW p \in Replicas, Request(p)
       PROVE  DemoInv'
  BY <1>1, <1>6, <1>7, <1>10, DeleteDemo, LoadRowDemo
     DEF Request, LoadTicket, demo
<1> QED
  BY <1>1, <1>8, <1>9, <1>10, SaveRowDemo DEF Next, SaveTicket, LogTicket, vars, demo

LEMMA InitDemoInv == Init => DemoInv
  BY DEF Init, DemoInv, EditOfDemo, Whole, WithOrg, OneOrg

(* No seed and no wipe leaves a part of a copy behind, however they are cut *)
(* short or overlap (seed.go:91-145).                                      *)
THEOREM SeedsWhole == Spec => []DemoWhole
<1>1. DemoInv => DemoWhole
  <2> SUFFICES ASSUME DemoInv, NEW g \in Gens \ touched
               PROVE  {t \in DemoTables : <<t, g>> \in rows} \in {{}, DemoTables}
    BY DEF DemoWhole
  <2>1. CASE \E t \in DemoTables : <<t, g>> \in rows
    BY <2>1 DEF DemoInv, Whole
  <2>2. CASE \A t \in DemoTables : <<t, g>> \notin rows
    BY <2>2
  <2> QED
    BY <2>1, <2>2
<1> QED
  BY <1>1, InitType, InitDemoInv, StepType, StepDemoInv, PTL DEF Spec

(* Nor do two of them ever leave two copies (seed.go:91-133).              *)
THEOREM SeedsOnce == Spec => []DemoOnce
<1>1. DemoInv => DemoOnce
  BY Tables DEF DemoInv, Whole, WithOrg, OneOrg, DemoOnce, Counted
<1> QED
  BY <1>1, InitType, InitDemoInv, StepType, StepDemoInv, PTL DEF Spec

-----------------------------------------------------------------------------
(* The backfill, on sqlite.  One process at a time is up there, and         *)
(* requests come to one that serves: while a boot backfills nobody reopens  *)
(* a ticket, and what it read of a log is what the log says.               *)
PastBackfill == {"actor?", "actor#", "actor+"} \union PastBootstrap

OneUp == \A p, q \in Replicas : p = q \/ proc[p].pc = "off" \/ proc[q].pc = "off"

WorkServed == work # None => proc[work.by].pc = "serving"

(* Nothing comes between a reopening's read and its write.                 *)
CopyCurrent == work # None /\ ~work.saved => work.copy = ticket[work.ticket]

(* Stamps once there agree with the log, but for an event still to come.   *)
Unlogging(t) == IF work # None /\ work.ticket = t /\ work.saved THEN 1 ELSE 0
StampsAgree ==
  \A t \in Legacy \ unlogged :
    ticket[t].detected => ticket[t].reopens = log[t] + Unlogging(t)

(* How far a process has come with these stamps and logs.                  *)
FirstOf(todo) == CHOOSE t \in todo : TRUE
Backfills(pr, stamps, events, excused) ==
  /\ pr.pc \in Backfilling =>
       \A t \in Legacy \ (excused \union pr.todo) : stamps[t].detected
  /\ pr.pc = "stamp" => pr.seen = events[FirstOf(pr.todo)]
  /\ pr.pc \in PastBackfill => \A t \in Legacy \ excused : stamps[t].detected

AllBackfill == \A p \in Replicas : Backfills(proc[p], ticket, log, unlogged)
BackfillInv == OneUp /\ WorkServed /\ CopyCurrent /\ StampsAgree /\ AllBackfill

LEMMA CurrentIsFirst ==
  ASSUME TypeInv, NEW p \in Replicas, proc[p].pc \in Backfilling
  PROVE  /\ Current(p) = FirstOf(proc[p].todo)
         /\ Current(p) \in proc[p].todo /\ Current(p) \in Legacy
<1>1. proc[p].todo \in (SUBSET Legacy) \ {{}}
  BY TypeParts DEF WorkLeft, Left
<1>2. QED
  BY <1>1 DEF Current, FirstOf

(* A process moves, but neither in the backfill nor to or from serving,     *)
(* and no ticket is touched.                                               *)
LEMMA PlainMove ==
  ASSUME TypeInv, BackfillInv, UNCHANGED legacy, NEW p \in Replicas,
         \A q \in Replicas \ {p} : proc'[q] = proc[q],
         proc[p].pc # "off" \/ proc'[p].pc = "off" \/ \A q \in Replicas \ {p} : proc[q].pc = "off",
         proc[p].pc # "serving" \/ proc'[p].pc = "serving",
         proc'[p].pc \notin Backfilling,
         proc'[p].pc \in PastBackfill => proc[p].pc \in PastBackfill
  PROVE  BackfillInv'
<1>1. UNCHANGED <<ticket, log, work, unlogged>>
  BY DEF legacy
<1>2. OneUp'
  BY DEF BackfillInv, OneUp
<1>3. WorkServed'
  <2>1. SUFFICES ASSUME work # None PROVE proc'[work.by].pc = "serving"
    BY <1>1 DEF WorkServed
  <2>2. proc[work.by].pc = "serving"
    BY <2>1 DEF BackfillInv, WorkServed
  <2>3. work.by \in Replicas
    BY <2>1, TypeParts DEF LegacyType, Works
  <2>4. QED
    BY <2>2, <2>3
<1>4. CopyCurrent' /\ StampsAgree'
  BY <1>1 DEF BackfillInv, CopyCurrent, StampsAgree, Unlogging
<1>5. Backfills(proc'[p], ticket, log, unlogged)
  BY DEF BackfillInv, AllBackfill, Backfills, Backfilling
<1>6. AllBackfill'
  BY <1>1, <1>5 DEF BackfillInv, AllBackfill
<1>7. QED
  BY <1>2, <1>3, <1>4, <1>6 DEF BackfillInv

(* The rest of a boot moves that way.                                      *)
LEMMA BootMove ==
  ASSUME TypeInv, NEW p \in Replicas, BootStep(p),
         ~ListUnstamped(p), ~ReadEvents(p), ~Stamp(p)
  PROVE  /\ UNCHANGED legacy
         /\ \A q \in Replicas \ {p} : proc'[q] = proc[q]
         /\ proc[p].pc \notin {"off", "serving"}
         /\ proc'[p].pc \notin Backfilling
         /\ proc'[p].pc \in PastBackfill => proc[p].pc \in PastBackfill
<1>1. Procs /\ WorkLeft /\ proc[p].cfg \in Config /\ proc[p] \in Process
  BY TypeParts DEF Procs, Process
<1> DEFINE after == AfterBootstrap(proc[p].cfg)
<1>2. after \in {"seed", "wipe", "demo?", "serving"}
  BY <1>1, AfterType
<1> HIDE DEF after
<1>3. UNCHANGED legacy
  BY DEF BootStep, Restart, CountDefault, InsertDefault, FindActor, TakeActorId, CreateActor,
         UpsertStatic, FindAdmin, CreateAdmin, Empty, BootWipe, BootSeed
<1>4. proc[p].pc \notin {"off", "serving"}
  <2>1. \A t \in Defaults : {Ask[t], Add[t]} \intersect {"off", "serving"} = {}
    BY DEF Defaults, Ask, Add
  <2>2. CountDefault(p) \/ InsertDefault(p) => \E t \in Defaults : proc[p].pc \in {Ask[t], Add[t]}
    BY DEF CountDefault, InsertDefault, At
  <2>3. CASE ~CountDefault(p) /\ ~InsertDefault(p)
    BY <2>3 DEF BootStep, Restart, FindActor, TakeActorId, CreateActor, UpsertStatic,
                FindAdmin, CreateAdmin, Empty, BootWipe, BootSeed, At
  <2>4. QED
    BY <2>1, <2>2, <2>3
<1>5. ASSUME NEW pc \in Pcs, Goto(p, pc), pc \notin Backfilling,
             pc \in PastBackfill => proc[p].pc \in PastBackfill
      PROVE  /\ \A q \in Replicas \ {p} : proc'[q] = proc[q]
             /\ proc'[p].pc \notin Backfilling
             /\ proc'[p].pc \in PastBackfill => proc[p].pc \in PastBackfill
  BY <1>1, <1>5, GotoType
<1>6. ASSUME Fatal(p)
      PROVE  /\ \A q \in Replicas \ {p} : proc'[q] = proc[q]
             /\ proc'[p].pc = "dead"
  BY <1>1, <1>6, FatalType
<1>7. "dead" \notin Backfilling \union PastBackfill
  BY DEF Backfilling, PastBackfill, PastBootstrap
<1>8. CASE Restart(p)
  BY <1>3, <1>4, <1>5, <1>8 DEF Restart, Backfilling, PastBackfill, PastBootstrap, Pcs
<1>9. CASE CountDefault(p) \/ InsertDefault(p)
  <2>1. PICK t \in Defaults : Fatal(p) \/ Goto(p, Then[t]) \/ Goto(p, Add[t])
    BY <1>9 DEF CountDefault, InsertDefault
  <2>2. {Then[t], Add[t]} \subseteq Pcs \ (Backfilling \union PastBackfill)
    BY DEF Defaults, Then, Add, Pcs, Backfilling, PastBackfill, PastBootstrap
  <2>3. QED
    BY <1>3, <1>4, <1>5, <1>6, <1>7, <2>1, <2>2
<1>10. ASSUME Accounts(p), proc[p].pc \in PastBackfill
       PROVE  /\ \A q \in Replicas \ {p} : proc'[q] = proc[q]
              /\ proc'[p].pc \notin Backfilling
  BY <1>1, <1>10, AccountsType DEF Counts, Backfilling
<1>11. CASE FindActor(p) \/ CreateActor(p)
  <2>1. proc[p].pc \in PastBackfill
    BY <1>11 DEF FindActor, CreateActor, At, PastBackfill
  <2>2. Accounts(p) \/ Goto(p, "actor#") \/ Fatal(p)
    BY <1>11 DEF FindActor, CreateActor
  <2>3. "actor#" \in Pcs \ Backfilling
    BY DEF Pcs, Backfilling
  <2>4. QED
    BY <1>3, <1>4, <1>5, <1>6, <1>7, <1>10, <2>1, <2>2, <2>3
<1>12. CASE TakeActorId(p)
  <2>1. proc[p].pc = "actor#"
    BY <1>12 DEF TakeActorId, At
  <2>2. Moves(p) /\ proc'[p].pc = "actor+"
    BY <1>1, <1>12, ActorMoves DEF TakeActorId, Procs, Process
  <2>3. QED
    BY <1>3, <1>4, <2>1, <2>2 DEF Moves, Backfilling, PastBackfill
<1>13. CASE UpsertStatic(p)
  <2>1. Moves(p) /\ proc[p].pc = "accounts"
    BY <1>1, <1>13, UserMoves DEF UpsertStatic, At
  <2>2. proc'[p].pc \in {after, "accounts"}
    BY <1>1, <1>13 DEF UpsertStatic, Procs, Process, after
  <2>3. QED
    BY <1>2, <1>3, <1>4, <2>1, <2>2 DEF Moves, Backfilling, PastBackfill, PastBootstrap
<1>14. CASE FindAdmin(p) \/ CreateAdmin(p) \/ Empty(p) \/ BootWipe(p) \/ BootSeed(p)
  <2>1. proc[p].pc \in PastBackfill
    BY <1>14 DEF FindAdmin, CreateAdmin, Empty, BootWipe, BootSeed, At, PastBackfill,
                 PastBootstrap
  <2>2. Fatal(p) \/ \E pc \in {after, "admin+", "serving", "seed", "done"} : Goto(p, pc)
    BY <1>14 DEF FindAdmin, CreateAdmin, Empty, BootWipe, BootSeed, after
  <2>3. {after, "admin+", "serving", "seed", "done"} \subseteq Pcs \ Backfilling
    BY <1>2 DEF Pcs, Backfilling
  <2>4. QED
    BY <1>3, <1>4, <1>5, <1>6, <1>7, <2>1, <2>2, <2>3
<1>15. QED
  BY <1>8, <1>9, <1>11, <1>12, <1>13, <1>14 DEF BootStep

(* The backfill's own steps: nobody else is up, so no ticket is in the      *)
(* middle of a reopening.                                                  *)
LEMMA NobodyElse ==
  ASSUME TypeInv, BackfillInv, NEW p \in Replicas, proc[p].pc \notin {"off", "serving"}
  PROVE  work = None /\ \A q \in Replicas \ {p} : proc[q].pc = "off"
<1>1. \A q \in Replicas \ {p} : proc[q].pc = "off"
  BY DEF BackfillInv, OneUp
<1>2. ASSUME work # None PROVE FALSE
  <2>1. work.by \in Replicas /\ proc[work.by].pc = "serving"
    BY <1>2, TypeParts DEF BackfillInv, WorkServed, LegacyType, Works
  <2>2. QED
    BY <1>1, <2>1
<1>3. QED
  BY <1>1, <1>2

(* Idle processes ask nothing of the stamps.                               *)
LEMMA OffBackfills ==
  ASSUME NEW pr, pr.pc = "off", NEW stamps, NEW events, NEW excused
  PROVE  Backfills(pr, stamps, events, excused)
  BY DEF Backfills, Backfilling, PastBackfill, PastBootstrap

LEMMA BackfillStep ==
  ASSUME TypeInv, BackfillInv, NEW p \in Replicas,
         ListUnstamped(p) \/ ReadEvents(p) \/ Stamp(p)
  PROVE  BackfillInv'
<1> DEFINE q == proc[p]
<1>1. proc \in [Replicas -> Process] /\ q \in Process
      /\ ticket \in [Legacy -> Stamps] /\ log \in [Legacy -> Nat]
  BY TypeParts DEF Procs, LegacyType
<1>2. q.pc \in {"tickets?", "events?", "stamp"}
  BY DEF ListUnstamped, ReadEvents, Stamp, At
<1>3. work = None /\ \A x \in Replicas \ {p} : proc[x].pc = "off"
  BY <1>2, NobodyElse
<1>4. UNCHANGED <<log, work, unlogged>>
  BY DEF ListUnstamped, ReadEvents, Stamp, legacy
<1>5. \A x \in Replicas \ {p} : proc'[x].pc = "off"
  BY <1>1, <1>3 DEF ListUnstamped, ReadEvents, Stamp
<1>6. OneUp' /\ WorkServed' /\ CopyCurrent'
  BY <1>3, <1>4, <1>5 DEF OneUp, WorkServed, CopyCurrent
<1>7. SUFFICES StampsAgree' /\ Backfills(proc'[p], ticket', log, unlogged)
  <2>1. \A x \in Replicas \ {p} : Backfills(proc'[x], ticket', log, unlogged)
    BY <1>5, OffBackfills
  <2>2. QED
    BY <1>4, <1>6, <2>1 DEF BackfillInv, AllBackfill
<1>8. Backfills(q, ticket, log, unlogged) /\ StampsAgree
  BY DEF BackfillInv, AllBackfill
<1>9. {"events?", "stamp"} = Backfilling /\ "actor?" \in PastBackfill
      /\ Backfilling \intersect PastBackfill = {}
  BY DEF Backfilling, PastBackfill, PastBootstrap
<1>10. CASE ListUnstamped(p)
  <2> DEFINE todo == {t \in Legacy : ~ticket[t].detected}
             pc == IF todo = {} THEN "actor?" ELSE "events?"
  <2>1. ticket' = ticket /\ proc'[p].todo = todo /\ proc'[p].pc = pc
    BY <1>1, <1>10 DEF ListUnstamped, legacy, Process
  <2>2. StampsAgree'
    BY <1>4, <1>8, <2>1 DEF StampsAgree, Unlogging
  <2>3. \A t \in Legacy \ (unlogged \union todo) : ticket[t].detected
    OBVIOUS
  <2>4. pc = "actor?" => todo = {}
    OBVIOUS
  <2>5. pc \in {"actor?", "events?"}
    OBVIOUS
  <2> HIDE DEF todo, pc
  <2>6. QED
    BY <1>9, <2>1, <2>2, <2>3, <2>4, <2>5 DEF Backfills
<1>11. CASE ReadEvents(p)
  <2>1. q.pc = "events?" /\ Current(p) = FirstOf(q.todo)
    BY <1>9, <1>11, CurrentIsFirst DEF ReadEvents, At
  <2>2. /\ ticket' = ticket /\ proc'[p].todo = q.todo /\ proc'[p].pc = "stamp"
        /\ proc'[p].seen = log[Current(p)]
    BY <1>1, <1>11 DEF ReadEvents, legacy, Process
  <2>3. StampsAgree'
    BY <1>4, <1>8, <2>2 DEF StampsAgree, Unlogging
  <2>4. QED
    BY <1>8, <1>9, <2>1, <2>2, <2>3 DEF Backfills
<1>12. CASE Stamp(p)
  <2> DEFINE t0 == Current(p)
             todo == q.todo \ {t0}
             pc == IF todo = {} THEN "actor?" ELSE "events?"
  <2>1. q.pc = "stamp" /\ t0 = FirstOf(q.todo) /\ t0 \in Legacy
    BY <1>9, <1>12, CurrentIsFirst DEF Stamp, At
  <2>2. q.seen = log[t0]
    BY <1>8, <2>1 DEF Backfills
  <2>3. /\ ticket' = [ticket EXCEPT ![t0] = [detected |-> TRUE, reopens |-> q.seen]]
        /\ proc'[p].todo = todo /\ proc'[p].pc = pc
    BY <1>1, <1>12 DEF Stamp, Backfilled, Process
  <2>4. /\ ticket'[t0].detected /\ ticket'[t0].reopens = log[t0]
        /\ \A t \in Legacy \ {t0} : ticket'[t] = ticket[t]
    BY <1>1, <2>1, <2>2, <2>3
  <2>5. StampsAgree'
    <3>1. \A t \in Legacy : Unlogging(t) = 0 /\ Unlogging(t)' = 0
      BY <1>3, <1>4 DEF Unlogging
    <3>2. log[t0] \in Nat
      BY <1>1, <2>1
    <3>3. SUFFICES ASSUME NEW t \in Legacy \ unlogged, ticket'[t].detected
                   PROVE  ticket'[t].reopens = log[t] + 0
      BY <1>4, <3>1 DEF StampsAgree
    <3>4. CASE t = t0
      BY <2>4, <3>2, <3>4
    <3>5. CASE t # t0
      BY <1>8, <2>4, <3>1, <3>3, <3>5 DEF StampsAgree
    <3>6. QED
      BY <3>4, <3>5
  <2>6. \A t \in Legacy \ (unlogged \union todo) : ticket'[t].detected
    BY <1>8, <1>9, <2>1, <2>4 DEF Backfills
  <2>7. (pc = "actor?" => todo = {}) /\ pc \in {"actor?", "events?"}
    OBVIOUS
  <2> HIDE DEF todo, pc
  <2>8. QED
    BY <1>9, <2>3, <2>5, <2>6, <2>7 DEF Backfills
<1>13. QED
  BY <1>10, <1>11, <1>12

(* A process starts alone, and stops or dies with the requests it serves.  *)
LEMMA LaunchBackfill ==
  ASSUME TypeInv, BackfillInv, dialect = "sqlite", NEW p \in Replicas, Launch(p)
  PROVE  BackfillInv'
<1>1. /\ UNCHANGED legacy /\ proc[p].pc # "serving"
      /\ \A q \in Replicas \ {p} : proc[q].pc = "off"
  BY DEF Launch, At, Alone
<1>2. proc'[p].pc = "queues?" /\ \A q \in Replicas \ {p} : proc'[q] = proc[q]
  BY TypeParts DEF Launch, Boot, Procs
<1>3. "queues?" \notin Backfilling \union PastBackfill
  BY DEF Backfilling, PastBackfill, PastBootstrap
<1>4. QED
  BY <1>1, <1>2, <1>3, PlainMove

LEMMA EndBackfill ==
  ASSUME TypeInv, BackfillInv, NEW p \in Replicas, Stop(p) \/ Die(p)
  PROVE  BackfillInv'
<1>1. /\ UNCHANGED <<ticket, log>> /\ Drop(p) /\ proc[p].pc # "off"
      /\ proc \in [Replicas -> Process]
  BY TypeParts DEF Stop, Die, At, Live, Procs
<1>2. proc'[p].pc \in {"off", "dead"} /\ \A q \in Replicas \ {p} : proc'[q] = proc[q]
  BY <1>1 DEF Stop, Die, Fatal, Boot
<1>3. /\ work' = IF work # None /\ work.by = p THEN None ELSE work
      /\ unlogged' = IF work # None /\ work.by = p /\ work.saved
                       THEN unlogged \union {work.ticket} ELSE unlogged
  BY <1>1 DEF Drop
<1>4. OneUp'
  BY <1>1, <1>2 DEF BackfillInv, OneUp
<1>5. WorkServed'
  <2>1. SUFFICES ASSUME work # None, work.by # p PROVE proc'[work.by].pc = "serving"
    BY <1>3 DEF WorkServed
  <2>2. work.by \in Replicas /\ proc[work.by].pc = "serving"
    BY <2>1, TypeParts DEF BackfillInv, WorkServed, LegacyType, Works
  <2>3. QED
    BY <1>2, <2>1, <2>2
<1>6. CopyCurrent'
  BY <1>1, <1>3 DEF BackfillInv, CopyCurrent
<1>7. StampsAgree'
  BY <1>1, <1>3 DEF BackfillInv, StampsAgree, Unlogging
<1>8. AllBackfill'
  <2>1. Backfills(proc'[p], ticket, log, unlogged')
    BY <1>2 DEF Backfills, Backfilling, PastBackfill, PastBootstrap
  <2>2. unlogged \subseteq unlogged'
    BY <1>3
  <2>3. \A q \in Replicas \ {p} : Backfills(proc'[q], ticket, log, unlogged')
    BY <1>2, <2>2 DEF BackfillInv, AllBackfill, Backfills
  <2>4. QED
    BY <1>1, <2>1, <2>3 DEF AllBackfill
<1>9. QED
  BY <1>4, <1>5, <1>6, <1>7, <1>8 DEF BackfillInv

(* The button moves nothing the backfill knows of; nor do other requests.   *)
LEMMA ButtonBackfill ==
  ASSUME TypeInv, BackfillInv, NEW p \in Replicas, ButtonWipe(p) \/ ButtonSeed(p)
  PROVE  BackfillInv'
<1>1. UNCHANGED legacy /\ proc \in [Replicas -> Process] /\ proc[p].pc = "serving"
  BY TypeParts DEF ButtonWipe, ButtonSeed, Procs, At
<1>2. proc'[p].pc = "serving" /\ \A q \in Replicas \ {p} : proc'[q] = proc[q]
  BY <1>1 DEF ButtonWipe, ButtonSeed, Process
<1>3. "serving" \notin Backfilling
  BY DEF Backfilling
<1>4. QED
  BY <1>1, <1>2, <1>3, PlainMove

LEMMA SameBackfill ==
  ASSUME BackfillInv, UNCHANGED <<legacy, proc>>
  PROVE  BackfillInv'
  BY DEF legacy, BackfillInv, OneUp, WorkServed, CopyCurrent, StampsAgree, Unlogging,
         AllBackfill

(* A reopening: nobody is booting meanwhile.                               *)
LEMMA WorkAlone ==
  ASSUME TypeInv, BackfillInv, work # None
  PROVE  /\ work \in Works
         /\ proc[work.by].pc = "serving"
         /\ \A q \in Replicas \ {work.by} : proc[q].pc = "off"
         /\ \A t \in Legacy \ unlogged : ticket[t].detected
<1>1. work \in Works /\ work.by \in Replicas
  BY TypeParts DEF LegacyType, Works
<1>2. proc[work.by].pc = "serving"
  BY DEF BackfillInv, WorkServed
<1>3. \A q \in Replicas \ {work.by} : proc[q].pc = "off"
  BY <1>1, <1>2 DEF BackfillInv, OneUp
<1>4. Backfills(proc[work.by], ticket, log, unlogged)
  BY <1>1 DEF BackfillInv, AllBackfill
<1>5. \A t \in Legacy \ unlogged : ticket[t].detected
  BY <1>2, <1>4 DEF Backfills, PastBackfill, PastBootstrap
<1>6. QED
  BY <1>1, <1>2, <1>3, <1>5

(* Then what it does to stamps and log concerns the one server only.       *)
LEMMA AloneBackfills ==
  ASSUME NEW s \in Replicas, proc[s].pc = "serving",
         \A q \in Replicas \ {s} : proc[q].pc = "off",
         NEW stamps, NEW events, \A t \in Legacy \ unlogged : stamps[t].detected
  PROVE  \A p \in Replicas : Backfills(proc[p], stamps, events, unlogged)
<1>1. Backfills(proc[s], stamps, events, unlogged)
  BY DEF Backfills, Backfilling
<1>2. QED
  BY <1>1, OffBackfills

LEMMA LoadTicketBackfill ==
  ASSUME TypeInv, BackfillInv, NEW p \in Replicas, LoadTicket(p)
  PROVE  BackfillInv'
<1>1. /\ proc[p].pc = "serving" /\ work = None
      /\ UNCHANGED <<ticket, log, unlogged, proc>>
  BY DEF LoadTicket, Served, At
<1>2. PICK t \in Legacy :
        work' = [ticket |-> t, copy |-> ticket[t], saved |-> FALSE, by |-> p]
  BY DEF LoadTicket
<1>3. WorkServed' /\ CopyCurrent'
  BY <1>1, <1>2 DEF WorkServed, CopyCurrent
<1>4. \A x \in Legacy : Unlogging(x)' = 0 /\ Unlogging(x) = 0
  BY <1>1, <1>2 DEF Unlogging
<1>5. StampsAgree'
  BY <1>1, <1>4 DEF BackfillInv, StampsAgree
<1>6. QED
  BY <1>1, <1>3, <1>5 DEF BackfillInv, OneUp, AllBackfill

LEMMA SaveTicketBackfill ==
  ASSUME TypeInv, BackfillInv, SaveTicket
  PROVE  BackfillInv'
<1> DEFINE t0 == work.ticket
<1>1. /\ work # None /\ ~work.saved /\ UNCHANGED <<log, unlogged, proc>>
      /\ ticket' = [ticket EXCEPT ![t0] = [work.copy EXCEPT !.reopens = work.copy.reopens + 1]]
      /\ work' = [work EXCEPT !.saved = TRUE]
  BY DEF SaveTicket
<1>2. /\ work \in Works /\ proc[work.by].pc = "serving"
      /\ \A q \in Replicas \ {work.by} : proc[q].pc = "off"
      /\ \A t \in Legacy \ unlogged : ticket[t].detected
  BY <1>1, WorkAlone
<1>3. /\ work' \in Works /\ work' # None /\ work'.saved
      /\ work'.ticket = t0 /\ work'.by = work.by
      /\ t0 \in Legacy /\ work.by \in Replicas
  <2>1. work' \in Works /\ work'.saved /\ work'.ticket = t0 /\ work'.by = work.by
    BY <1>1, <1>2 DEF Works
  <2>2. work' # None
    BY <2>1, WorkAssumption
  <2>3. QED
    BY <1>2, <2>1, <2>2 DEF Works
<1>4. ticket \in [Legacy -> Stamps] /\ log \in [Legacy -> Nat]
  BY TypeParts DEF LegacyType
<1>5. work.copy = ticket[t0]
  BY <1>1 DEF BackfillInv, CopyCurrent
<1>6. /\ ticket'[t0].detected = ticket[t0].detected
      /\ ticket'[t0].reopens = ticket[t0].reopens + 1
      /\ \A t \in Legacy \ {t0} : ticket'[t] = ticket[t]
  BY <1>1, <1>3, <1>4, <1>5 DEF Stamps
<1>7. WorkServed' /\ CopyCurrent'
  BY <1>1, <1>2, <1>3 DEF WorkServed, CopyCurrent
<1>8. StampsAgree'
  <2>1. SUFFICES ASSUME NEW t \in Legacy \ unlogged, ticket'[t].detected
                 PROVE  ticket'[t].reopens = log[t] + Unlogging(t)'
    BY <1>1 DEF StampsAgree
  <2>2. Unlogging(t) = 0
    BY <1>1 DEF Unlogging
  <2>3. CASE t = t0
    <3>1. Unlogging(t)' = 1
      BY <1>3, <2>3 DEF Unlogging
    <3>2. ticket[t].reopens = log[t] + 0
      BY <1>2, <2>2 DEF BackfillInv, StampsAgree
    <3>3. log[t] \in Nat
      BY <1>4
    <3>4. QED
      BY <1>6, <2>3, <3>1, <3>2, <3>3
  <2>4. CASE t # t0
    <3>1. Unlogging(t)' = 0
      BY <1>3, <2>4 DEF Unlogging
    <3>2. QED
      BY <1>6, <2>1, <2>2, <2>4, <3>1 DEF BackfillInv, StampsAgree
  <2>5. QED
    BY <2>3, <2>4
<1>9. AllBackfill'
  <2>1. \A t \in Legacy \ unlogged : ticket'[t].detected
    BY <1>2, <1>6
  <2>2. \A p \in Replicas : Backfills(proc[p], ticket', log, unlogged)
    BY <1>2, <1>3, <2>1, AloneBackfills
  <2>3. QED
    BY <1>1, <2>2 DEF AllBackfill
<1>10. QED
  BY <1>1, <1>7, <1>8, <1>9 DEF BackfillInv, OneUp

LEMMA LogTicketBackfill ==
  ASSUME TypeInv, BackfillInv, LogTicket
  PROVE  BackfillInv'
<1> DEFINE t0 == work.ticket
<1>1. /\ work # None /\ work.saved /\ UNCHANGED <<ticket, unlogged, proc>>
      /\ log' = [log EXCEPT ![t0] = @ + 1] /\ work' = None
  BY DEF LogTicket
<1>2. /\ work \in Works /\ proc[work.by].pc = "serving"
      /\ \A q \in Replicas \ {work.by} : proc[q].pc = "off"
      /\ \A t \in Legacy \ unlogged : ticket[t].detected
  BY <1>1, WorkAlone
<1>3. t0 \in Legacy /\ work.by \in Replicas
  BY <1>2 DEF Works
<1>4. log \in [Legacy -> Nat]
  BY TypeParts DEF LegacyType
<1>5. WorkServed' /\ CopyCurrent'
  BY <1>1 DEF WorkServed, CopyCurrent
<1>6. StampsAgree'
  <2>1. SUFFICES ASSUME NEW t \in Legacy \ unlogged, ticket[t].detected
                 PROVE  ticket[t].reopens = log'[t] + 0
    BY <1>1 DEF StampsAgree, Unlogging
  <2>2. ticket[t].reopens = log[t] + Unlogging(t) /\ log[t] \in Nat
    BY <1>4, <2>1 DEF BackfillInv, StampsAgree
  <2>3. Unlogging(t) = IF t = t0 THEN 1 ELSE 0
    BY <1>1 DEF Unlogging
  <2>4. log'[t] = IF t = t0 THEN log[t] + 1 ELSE log[t]
    BY <1>1, <1>4
  <2>5. QED
    BY <2>2, <2>3, <2>4
<1>7. AllBackfill'
  <2>1. \A p \in Replicas : Backfills(proc[p], ticket, log', unlogged)
    BY <1>2, <1>3, AloneBackfills
  <2>2. QED
    BY <1>1, <2>1 DEF AllBackfill
<1>8. QED
  BY <1>1, <1>5, <1>6, <1>7 DEF BackfillInv, OneUp

LEMMA StepBackfill ==
  ASSUME TypeInv, BackfillInv, dialect = "sqlite", [Next]_vars
  PROVE  BackfillInv'
<1>1. CASE UNCHANGED <<legacy, proc>>
  BY <1>1, SameBackfill
<1>2. ASSUME NEW p \in Replicas, BootStep(p)
      PROVE  BackfillInv'
  <2>1. CASE ListUnstamped(p) \/ ReadEvents(p) \/ Stamp(p)
    BY <2>1, BackfillStep
  <2>2. CASE ~ListUnstamped(p) /\ ~ReadEvents(p) /\ ~Stamp(p)
    BY <1>2, <2>2, BootMove, PlainMove
  <2>3. QED
    BY <2>1, <2>2
<1>3. ASSUME NEW p \in Replicas, Request(p)
      PROVE  BackfillInv'
  <2>1. CASE CreateOrg(p) \/ CreateCategory(p) \/ Delete(p) \/ LoadRow(p)
    BY <1>1, <2>1 DEF CreateOrg, CreateCategory, Delete, LoadRow, Served
  <2>2. QED
    BY <1>3, <2>1, ButtonBackfill, LoadTicketBackfill DEF Request
<1>4. SaveRow \/ UNCHANGED vars => UNCHANGED <<legacy, proc>>
  BY DEF SaveRow, vars
<1>5. QED
  BY <1>1, <1>2, <1>3, <1>4, LaunchBackfill, EndBackfill, SaveTicketBackfill,
     LogTicketBackfill
  DEF Next

(* On sqlite a server that is up has every legacy ticket stamped with what  *)
(* its log says, wherever earlier boots were cut short (db/backfill.go).    *)
THEOREM BackfillsCompletely == Spec => []BackfillComplete
<1> DEFINE Inv == dialect = "sqlite" => BackfillInv
<1>1. Init => Inv
  BY DEF Init, BackfillInv, OneUp, WorkServed, CopyCurrent, StampsAgree, Unlogging,
         AllBackfill, Backfills, Backfilling, PastBackfill, PastBootstrap, Boot
<1>2. TypeInv /\ Inv /\ [Next]_vars => Inv'
  <2>1. [Next]_vars => dialect' = dialect
    BY DEF Next, vars, Launch, Stop, Die, BootStep, Restart, CountDefault, InsertDefault,
           ListUnstamped, ReadEvents, Stamp, FindActor, TakeActorId, CreateActor,
           UpsertStatic, FindAdmin, CreateAdmin, Empty, BootWipe, BootSeed, Request,
           ButtonWipe, ButtonSeed, Served, CreateOrg, CreateCategory, Delete, LoadRow,
           LoadTicket, SaveRow, SaveTicket, LogTicket
  <2>2. QED
    BY <2>1, StepBackfill
<1>3. TypeInv /\ Inv => BackfillComplete
  <2>1. SUFFICES ASSUME TypeInv, BackfillInv, NEW p \in Replicas, proc[p].pc = "serving",
                        NEW t \in Legacy \ unlogged
                 PROVE  ticket[t].detected /\ ticket[t].reopens = log[t] + Unlogging(t)
    BY DEF BackfillComplete, Serving, At, Unlogging
  <2>2. Backfills(proc[p], ticket, log, unlogged) /\ "serving" \in PastBackfill
    BY <2>1 DEF BackfillInv, AllBackfill, PastBackfill, PastBootstrap
  <2>3. ticket[t].detected
    BY <2>1, <2>2 DEF Backfills
  <2>4. QED
    BY <2>1, <2>3 DEF BackfillInv, StampsAgree
<1>4. QED
  BY <1>1, <1>2, <1>3, InitType, StepType, PTL DEF Spec

=============================================================================
