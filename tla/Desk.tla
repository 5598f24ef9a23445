--------------------------------- MODULE Desk ---------------------------------
(***************************************************************************)
(* What surrounds a ticket: its queue and the queue's SLA table, the       *)
(* queue's members, the ticket's watchers, labels and problem links, its   *)
(* notes and the time it was last active (internal/httpapi                 *)
(* queue_handlers.go, ticket_handlers.go, problem_handlers.go; service     *)
(* queue.go, note.go, problem.go and the rest of ticket.go; internal/sla). *)
(*                                                                         *)
(* None of these handlers uses a transaction.  Watchers, members, labels   *)
(* and links are rows of join tables written by gorm's FirstOrCreate: a    *)
(* SELECT and, when it finds nothing, an INSERT that fails on a duplicate  *)
(* key.  A handler that writes several of them stops at the first failure  *)
(* unless the code only logs it.                                           *)
(***************************************************************************)
EXTENDS Naturals, Sequences

CONSTANTS
  None,
  Slots,        \* requests in progress
  Users, Queues, Tickets, Problems,
  Labels,       \* tags: a name and a kind
  Default,      \* queue 1, which db.Open guarantees
  Opened,       \* tickets there from the start, in queue 1
  Priorities,
  DefaultTable, \* [Priorities -> minutes], sla.DefaultTable
  Tables,       \* what managers post from the SLA form
  MaxOps,       \* bounds on requests ...
  MaxTime       \* ... and on the clock

ASSUME DeskAssumption ==
  /\ None \notin Users \cup Queues \cup Tickets \cup Problems \cup Labels \cup Nat
  /\ Default \in Queues /\ Opened \subseteq Tickets
  /\ DefaultTable \in [Priorities -> Nat \ {0}]
  /\ Tables \subseteq [Priorities -> Nat \ {0}]
  /\ MaxOps \in Nat /\ MaxTime \in Nat

VARIABLES
  queue,    \* [Queues -> the row, or what became of it]
  ticket,   \* [Tickets -> the row]
  rows,     \* the rows of the join tables, and the tags
  proc,     \* [Slots -> the request in progress]
  unsorted, \* for checking: tickets whose activity time was lost or overtaken
  clock, ops

vars == <<queue, ticket, rows, proc, unsorted, clock, ops>>

-----------------------------------------------------------------------------
(* Rows written by FirstOrCreate, named by their keys.                    *)

Watcher(t, u)  == <<"watcher", t, u>>
Member(q, u)   == <<"member", q, u>>
Tag(l)         == <<"tag", None, l>>
TicketTag(t, l) == <<"label", t, l>>
ProblemTicket(p, t) == <<"problem", p, t>>

Rows ==
  ({"watcher"} \X Tickets \X Users) \cup ({"member"} \X Queues \X Users)
    \cup ({"tag"} \X {None} \X Labels) \cup ({"label"} \X Tickets \X Labels)
    \cup ({"problem"} \X Problems \X Tickets)

(* A queue's table has the priorities that were posted, at first none.    *)
NoTable == [p \in {} |-> 0]
QueueRows == [there : {"unborn", "there", "gone"}, sla : Tables \cup {NoTable}]

(* due: SLADueAt; updated: UpdatedAt; noted: CreatedAt of its last note.  *)
TicketRows == [there : BOOLEAN, due : Nat \cup {None}, updated : Nat, noted : Nat]

(* One FirstOrCreate of a handler: does its failure end the handler?      *)
Items == [row : Rows, fatal : BOOLEAN]

(* A request: what it holds of what it read, the rows left to write; for  *)
(* checking: the rows it was asked for, those it failed to write, those   *)
(* deleted meanwhile, and whether another request wrote the row it was    *)
(* about to insert, or deleted the queue it was about to save.            *)
Request ==
  [ pc      : {"idle", "create", "sla", "edit", "touch", "look", "insert", "done"},
    ticket  : Tickets \cup {None}, queue : Queues \cup {None},
    sla     : Tables \cup {NoTable}, priority : Priorities \cup {None}, at : Nat,
    todo    : Seq(Items),
    asked   : SUBSET Rows, missed : SUBSET Rows, removed : SUBSET Rows,
    raced   : BOOLEAN ]

Idle ==
  [ pc |-> "idle", ticket |-> None, queue |-> None, sla |-> NoTable,
    priority |-> None, at |-> 0, todo |-> <<>>,
    asked |-> {}, missed |-> {}, removed |-> {}, raced |-> FALSE ]

RowsOf(items) == {items[i].row : i \in DOMAIN items}

Init ==
  /\ queue = [q \in Queues |->
       [there |-> IF q = Default THEN "there" ELSE "unborn", sla |-> NoTable]]
  /\ ticket = [t \in Tickets |->
       [there |-> t \in Opened, due |-> IF t \in Opened THEN 0 ELSE None,
        updated |-> 0, noted |-> 0]]
  /\ rows = {}
  /\ proc = [s \in Slots |-> Idle]
  /\ unsorted = {}
  /\ clock = 0 /\ ops = 0

-----------------------------------------------------------------------------
(* A request begins: it is counted, and takes a free slot.                *)

Begin(s, held) ==
  /\ proc[s].pc = "idle" /\ ops < MaxOps
  /\ proc' = [proc EXCEPT ![s] = held]
  /\ ops' = ops + 1

Write(items) ==
  [Idle EXCEPT !.pc = "look", !.todo = items, !.asked = RowsOf(items)]

Must(row) == [row |-> row, fatal |-> TRUE]

Asks(s, items) ==
  Begin(s, Write(items)) /\ UNCHANGED <<queue, ticket, rows, unsorted, clock>>

Exists(t) == ticket[t].there

(* handleWatch, handleQueueMemberAdd (which does not look for the queue), *)
(* WatchByEmails for the addresses that resolve.                          *)
Watch(s, t, u) == Exists(t) /\ Asks(s, <<Must(Watcher(t, u))>>)

MemberAdd(s, q, u) ==
  queue[q].there # "unborn" /\ Asks(s, <<Must(Member(q, u))>>)

Invitations(t, users) == [i \in DOMAIN users |-> Must(Watcher(t, users[i]))]

WatchByEmails(s, t, users) ==
  Exists(t) /\ users # <<>> /\ Asks(s, Invitations(t, users))

(* AddLabel: the tag, then its attachment.                                *)
LabelItems(t, l) == <<Must(Tag(l)), Must(TicketTag(t, l))>>

AddLabel(s, t, l) == Exists(t) /\ Asks(s, LabelItems(t, l))

(* ProblemService.LinkTicket, with or without an RCA label.               *)
LinkTicket(s, p, t, l) ==
  /\ Exists(t)
  /\ Asks(s, <<Must(ProblemTicket(p, t))>>
               \o (IF l = None THEN <<>> ELSE LabelItems(t, l)))

(* The handler goes on with its next row, or is done.                     *)
Advance(s, rest, missed) ==
  proc' = [proc EXCEPT ![s].todo = rest, ![s].missed = @ \cup missed,
                       ![s].pc = IF rest = <<>> THEN "done" ELSE "look"]

(* FirstOrCreate's SELECT.                                                *)
Look(s) ==
  /\ proc[s].pc = "look"
  /\ IF Head(proc[s].todo).row \in rows
     THEN Advance(s, Tail(proc[s].todo), {})
     ELSE proc' = [proc EXCEPT ![s].pc = "insert"]
  /\ UNCHANGED <<queue, ticket, rows, unsorted, clock, ops>>

(* Its INSERT, on a key that is free, ...                                 *)
Insert(s) ==
  /\ proc[s].pc = "insert"
  /\ LET new == Head(proc[s].todo).row IN
     /\ new \notin rows
     /\ rows' = rows \cup {new}
     /\ LET rest == Tail(proc[s].todo) IN
        proc' = [x \in Slots |->
          IF x = s
          THEN [proc[x] EXCEPT !.todo = rest,
                               !.pc = IF rest = <<>> THEN "done" ELSE "look"]
          ELSE [proc[x] EXCEPT !.raced =
                  @ \/ (proc[x].pc = "insert" /\ Head(proc[x].todo).row = new)]]
  /\ UNCHANGED <<queue, ticket, unsorted, clock, ops>>

DuplicateFaulty(s) ==
  /\ proc[s].pc = "insert"
  /\ Head(proc[s].todo).row \in rows
  /\ Advance(s, <<>>, {})
  /\ UNCHANGED <<queue, ticket, rows, unsorted, clock, ops>>

(* ... and on one that was taken since: the rest is not written either,   *)
(* unless the handler only logs the error.                                *)
Duplicate(s) ==
  /\ proc[s].pc = "insert"
  /\ Head(proc[s].todo).row \in rows
  /\ IF Head(proc[s].todo).fatal
     THEN Advance(s, <<>>, RowsOf(proc[s].todo))
     ELSE Advance(s, Tail(proc[s].todo), {Head(proc[s].todo).row})
  /\ UNCHANGED <<queue, ticket, rows, unsorted, clock, ops>>

(* Unwatch, handleQueueMemberRemove, RemoveLabel: one DELETE.             *)
Remove(row) ==
  /\ row \in rows /\ row[1] \in {"watcher", "member", "label"}
  /\ ops < MaxOps /\ ops' = ops + 1
  /\ rows' = rows \ {row}
  /\ proc' = [s \in Slots |-> [proc[s] EXCEPT !.removed = @ \cup {row}]]
  /\ UNCHANGED <<queue, ticket, unsorted, clock>>

-----------------------------------------------------------------------------
(* Queues.                                                                *)

QueueCreate(q) ==
  /\ queue[q].there = "unborn" /\ ops < MaxOps /\ ops' = ops + 1
  /\ queue' = [queue EXCEPT ![q].there = "there"]
  /\ UNCHANGED <<ticket, rows, proc, unsorted, clock>>

(* Its members and its tickets keep pointing at it.                       *)
QueueDelete(q) ==
  /\ queue[q].there = "there" /\ ops < MaxOps /\ ops' = ops + 1
  /\ queue' = [queue EXCEPT ![q].there = "gone"]
  /\ proc' = [s \in Slots |-> [proc[s] EXCEPT !.raced =
                                 @ \/ (proc[s].pc = "sla" /\ proc[s].queue = q)]]
  /\ UNCHANGED <<ticket, rows, unsorted, clock>>

SLALoadFaulty(s, q, table) ==
  /\ queue[q].there # "unborn"
  /\ Begin(s, [Idle EXCEPT !.pc = "sla", !.queue = q, !.sla = table])
  /\ UNCHANGED <<queue, ticket, rows, unsorted, clock>>

(* SetSLATable: Get, then ...                                             *)
SLALoad(s, q, table) ==
  /\ queue[q].there = "there"
  /\ Begin(s, [Idle EXCEPT !.pc = "sla", !.queue = q, !.sla = table])
  /\ UNCHANGED <<queue, ticket, rows, unsorted, clock>>

(* ... gorm's Save, which inserts the row again when there is none.       *)
SLASave(s) ==
  /\ proc[s].pc = "sla"
  /\ queue' = [queue EXCEPT ![proc[s].queue] = [there |-> "there", sla |-> proc[s].sla]]
  /\ proc' = [proc EXCEPT ![s].pc = "done"]
  /\ UNCHANGED <<ticket, rows, unsorted, clock, ops>>

EvaluateFaulty(table, p) == IF p \in DOMAIN table THEN {table[p]} ELSE {}

(* sla.Table.Evaluate over the wildcard rules, the only ones the form     *)
(* posts; no element when no rule and no default matches.                 *)
Evaluate(table, p) ==
  IF p \in DOMAIN table THEN {table[p]}
  ELSE IF p \in DOMAIN DefaultTable THEN {DefaultTable[p]} ELSE {}

DueAt(table, p, from) ==
  IF Evaluate(table, p) = {} THEN {None} ELSE {from + m : m \in Evaluate(table, p)}

-----------------------------------------------------------------------------
(* TicketService.Create: the queue is read, ...                           *)
CreateLoad(s, t, q, p, u, users) ==
  /\ ~Exists(t) /\ \A x \in Slots : proc[x].ticket # t
  /\ queue[q].there = "there"
  /\ LET items == <<[row |-> Watcher(t, u), fatal |-> FALSE]>>
                    \o Invitations(t, users) IN
     Begin(s, [Idle EXCEPT !.pc = "create", !.ticket = t, !.queue = q,
                           !.sla = queue[q].sla, !.priority = p, !.at = clock,
                           !.todo = items, !.asked = RowsOf(items)])
  /\ UNCHANGED <<queue, ticket, rows, unsorted, clock>>

(* ... the ticket inserted; the auto-watch and the invitations follow.    *)
CreateInsert(s) ==
  /\ proc[s].pc = "create"
  /\ \E now \in proc[s].at .. clock :
     \E due \in DueAt(proc[s].sla, proc[s].priority, now) :
       ticket' = [ticket EXCEPT ![proc[s].ticket] =
         [there |-> TRUE, due |-> due, updated |-> clock, noted |-> 0]]
  /\ proc' = [proc EXCEPT ![s].pc = "look"]
  /\ UNCHANGED <<queue, rows, unsorted, clock, ops>>

-----------------------------------------------------------------------------
(* Activity.  A stamp is taken before its UPDATE commits: two of them may *)
(* be committed in the other order.                                       *)

Stamped(t, stamp) ==
  /\ ticket' = [ticket EXCEPT ![t].updated = stamp]
  /\ unsorted' = IF stamp < ticket[t].updated THEN unsorted \cup {t}
                 ELSE IF stamp >= ticket[t].noted THEN unsorted \ {t} ELSE unsorted

AddNoteFaulty(s, t) ==
  /\ Exists(t)
  /\ Begin(s, [Idle EXCEPT !.pc = "done", !.ticket = t, !.at = clock])
  /\ ticket' = [ticket EXCEPT ![t].noted = clock]
  /\ UNCHANGED <<queue, rows, unsorted, clock>>

(* NoteService.Add: the note, then TouchUpdatedAt, whose error is ignored. *)
AddNote(s, t) ==
  /\ Exists(t)
  /\ Begin(s, [Idle EXCEPT !.pc = "touch", !.ticket = t, !.at = clock])
  /\ ticket' = [ticket EXCEPT ![t].noted = clock]
  /\ UNCHANGED <<queue, rows, unsorted, clock>>

TouchUpdatedAt(s) ==
  /\ proc[s].pc = "touch"
  /\ \E stamp \in proc[s].at .. clock : Stamped(proc[s].ticket, stamp)
  /\ proc' = [proc EXCEPT ![s].pc = "done"]
  /\ UNCHANGED <<queue, rows, clock, ops>>

TouchError(s) ==
  /\ proc[s].pc = "touch"
  /\ unsorted' = unsorted \cup {proc[s].ticket}
  /\ proc' = [proc EXCEPT ![s].pc = "done"]
  /\ UNCHANGED <<queue, ticket, rows, clock, ops>>

(* Any handler that loads the ticket's row and saves it whole.            *)
EditLoad(s, t) ==
  /\ Exists(t)
  /\ Begin(s, [Idle EXCEPT !.pc = "edit", !.ticket = t, !.at = clock])
  /\ UNCHANGED <<queue, ticket, rows, unsorted, clock>>

EditSave(s) ==
  /\ proc[s].pc = "edit"
  /\ \E stamp \in proc[s].at .. clock : Stamped(proc[s].ticket, stamp)
  /\ proc' = [proc EXCEPT ![s].pc = "done"]
  /\ UNCHANGED <<queue, rows, clock, ops>>

-----------------------------------------------------------------------------
(* The handler answers; the server dies; time passes.                     *)
Answer(s) ==
  /\ proc[s].pc = "done"
  /\ proc' = [proc EXCEPT ![s] = Idle]
  /\ UNCHANGED <<queue, ticket, rows, unsorted, clock, ops>>

Crash ==
  /\ ops < MaxOps /\ ops' = ops + 1
  /\ proc' = [s \in Slots |-> Idle]
  /\ unsorted' = unsorted \cup {proc[s].ticket : s \in {x \in Slots : proc[x].pc = "touch"}}
  /\ UNCHANGED <<queue, ticket, rows, clock>>

Tick ==
  /\ clock < MaxTime /\ clock' = clock + 1
  /\ UNCHANGED <<queue, ticket, rows, proc, unsorted, ops>>

(* The address lists people type: nobody twice, at most two.              *)
Lists == {<<>>} \cup {<<u>> : u \in Users}
           \cup {l \in Users \X Users : l[1] # l[2]}

NewRequest(s) ==
  \/ \E t \in Tickets, u \in Users : Watch(s, t, u)
  \/ \E q \in Queues, u \in Users : MemberAdd(s, q, u)
  \/ \E t \in Tickets, users \in Lists : WatchByEmails(s, t, users)
  \/ \E t \in Tickets, l \in Labels : AddLabel(s, t, l)
  \/ \E p \in Problems, t \in Tickets, l \in Labels \cup {None} : LinkTicket(s, p, t, l)
  \/ \E q \in Queues, table \in Tables : SLALoad(s, q, table)
  \/ \E t \in Tickets, q \in Queues, p \in Priorities, u \in Users, users \in Lists :
       CreateLoad(s, t, q, p, u, users)
  \/ \E t \in Tickets : AddNote(s, t)
  \/ \E t \in Tickets : EditLoad(s, t)

Step(s) ==
  \/ Look(s)
  \/ Insert(s)
  \/ Duplicate(s)
  \/ SLASave(s)
  \/ CreateInsert(s)
  \/ TouchUpdatedAt(s)
  \/ TouchError(s)
  \/ EditSave(s)
  \/ Answer(s)

Next ==
  \/ \E s \in Slots : NewRequest(s) \/ Step(s)
  \/ \E row \in rows : Remove(row)
  \/ \E q \in Queues : QueueCreate(q) \/ QueueDelete(q)
  \/ Crash
  \/ Tick

Spec == Init /\ [][Next]_vars

-----------------------------------------------------------------------------
(* Properties.                                                            *)

(* Rows, tags, tickets and what each request holds have their types: a    *)
(* ticket's due time and stamps are times, a row joins what it should.    *)
TypeOK ==
  /\ queue \in [Queues -> QueueRows]
  /\ ticket \in [Tickets -> TicketRows]
  /\ rows \subseteq Rows
  /\ proc \in [Slots -> Request]
  /\ unsorted \subseteq Tickets
  /\ clock \in Nat /\ ops \in Nat

(* When a handler has written its rows, each of them is there unless       *)
(* somebody removed it meanwhile or the handler knows it failed: a watch,  *)
(* a membership, a label with its tag, a link never vanish silently        *)
(* (FirstOrCreate in repo/watcher.go, tag.go, problem.go).                 *)
AskedIsThere ==
  \A s \in Slots : proc[s].pc = "done" =>
    proc[s].asked \subseteq rows \cup proc[s].removed \cup proc[s].missed

(* A handler fails to write a row only because another request wrote the   *)
(* same row between its SELECT and its INSERT, so that one of the rows it   *)
(* misses is there all the same (TicketService.WatchByEmails).             *)
FailsOnlyRaced ==
  \A s \in Slots : proc[s].missed # {} =>
    proc[s].raced /\ proc[s].missed \cap (rows \cup proc[s].removed) # {}

(* A label is attached only through a tag that exists, and nothing removes *)
(* a tag under it (service/ticket.go, AddLabel; problem.go, LinkTicket).   *)
LabelsHaveTags ==
  \A t \in Tickets, l \in Labels : TicketTag(t, l) \in rows => Tag(l) \in rows

(* The rows of the desk: typed, never silently missing, never refused but  *)
(* to the loser of a race, and a label's rows both there.                  *)
RowsAccounted == TypeOK /\ AskedIsThere /\ FailsOnlyRaced /\ LabelsHaveTags

(* A ticket's activity time is not before its last note: a manager who     *)
(* scrolls the activity list meets every new note, unless the touch that   *)
(* follows a note is still to come, failed, or was overtaken by an older   *)
(* stamp (repo/ticket.go, TouchUpdatedAt).                                 *)
NotesSurface ==
  \A t \in Tickets : Exists(t) =>
    \/ ticket[t].noted <= ticket[t].updated
    \/ t \in unsorted
    \/ \E s \in Slots : proc[s].pc = "touch" /\ proc[s].ticket = t

(* Every ticket has a due time, so that the breach poller sees it, whatever *)
(* table its queue has and whatever happens to the queue while it is being  *)
(* created (sla/sla.go, Evaluate's fallback).                               *)
AlwaysOnTheClock == \A t \in Tickets : Exists(t) => ticket[t].due # None

(* A deleted queue comes back only by the save of an SLA edit that had      *)
(* read it before the deletion (service/queue.go, SetSLATable).             *)
GoneStaysGone ==
  [][ \A q \in Queues : queue[q].there = "gone" /\ queue'[q].there # "gone" =>
        \E s \in Slots : proc[s].pc = "sla" /\ proc[s].queue = q /\ proc[s].raced ]_vars
=============================================================================
